------------------------------ MODULE MCDataApi ------------------------------
(* Times scaled so that they stand to each other as today's do: 12 s, 96   *)
(* ms, 768 us and 6144 ns; microseconds lie below UsLow, as in the code.   *)
EXTENDS DataApi

CONSTANTS s1, s2

MCSymmetry == Permutations({s1, s2})

Query(op, start, end, limit, streamlimit, timeconv) ==
  [op |-> op, start |-> start, end |-> end, limit |-> limit,
   streamlimit |-> streamlimit, timeconv |-> timeconv, width |-> 0]
Aggregate(op, width, q) == [q EXCEPT !.op = op, !.width = width]

MCInstants == {6144, 6656, 6664}

(* The condition of the theorems holds of them. *)
ASSUME MCInstantsAreOfToday == InstantsOfToday

MCQueries == {
  Query("in", 6144, 6664, -1, -1, MS), Query("in", 7000, 6200, -1, 1, NS),
  Query("in", 6000, 7000, 1, -1, US),  Query("before", 6664, 0, -1, -1, S),
  Query("after", 6145, 0, -1, 1, NS),
  Aggregate("statistical", 4, Query("in", 6150, 6672, -1, -1, US)),
  Aggregate("window", 20, Query("in", 6670, 6140, 1, -1, NS)),
  Aggregate("window", 6500, Query("in", 1, 8000, -1, -1, NS)) }

MCEarlyQueries == {Query("in", 1200, 7000, -1, -1, NS), Query("in", 0, 7000, -1, -1, NS)}
MCWideQueries  == {Aggregate("statistical", 20, Query("in", 6150, 6672, -1, -1, NS))}
MCAllQueries   == MCQueries \cup MCEarlyQueries \cup MCWideQueries

=============================================================================
