-------------------------- MODULE MCSubscriberList --------------------------
(* One stream's list with four clients, three of them of one query. *)
EXTENDS SubscriberList

CONSTANTS a, b, c, d

=============================================================================
