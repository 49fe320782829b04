------------------------------ MODULE MCIngest ------------------------------
(* One stream, messages with and without Properties. *)
EXTENDS Ingest

CONSTANTS p1, p2, s, ms, na, celsius

Message(uot, uom, props) ==
  [props |-> props, uot |-> uot, uom |-> uom, meta |-> FALSE, readings |-> TRUE]

(* Readings only, a unit of time, a unit of measure, both, and metadata    *)
(* without readings.                                                       *)
AllMessages ==
  { Message(Unset, Unset, FALSE), Message(ms, Unset, TRUE), Message(Unset, celsius, TRUE),
    Message(ms, celsius, TRUE),
    [props |-> FALSE, uot |-> Unset, uom |-> Unset, meta |-> TRUE, readings |-> FALSE] }

=============================================================================
