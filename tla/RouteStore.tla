----------------------------- MODULE RouteStore -----------------------------
(***************************************************************************)
(* What the route-tx tracker of the coordinator promises (routetxresults,  *)
(* src/coordinator.go): per transaction id a start and an end time, each   *)
(* written at most once (addStart, addEnd: the first write wins), and one  *)
(* line in the routing results file per id, written only after the end    *)
(* time is known and carrying the record's start and end as they are when *)
(* it is written.  Nothing is ever taken back.                             *)
(*                                                                         *)
(* Module Telemetry is shown to implement this specification under the     *)
(* refinement mapping start <- rStart, end <- rEnd, lines <- routeLines.   *)
(***************************************************************************)
EXTENDS Sequences

CONSTANTS
  Ids,    \* transaction ids
  Times,  \* non-zero timestamps
  Zero    \* the unset time

VARIABLES
  start,  \* start[x]: first start time recorded for x, or Zero
  end,    \* end[x]: first end time recorded for x, or Zero
  lines   \* the lines of the results file, in the order written

storeVars == <<start, end, lines>>

Init ==
  /\ start = [x \in Ids |-> Zero]
  /\ end = [x \in Ids |-> Zero]
  /\ lines = <<>>

Flushed(x) == \E k \in DOMAIN lines : lines[k].id = x

(* addStart: the start time is set only while it is unset. *)
MarkStart(x, t) ==
  /\ start[x] = Zero
  /\ start' = [start EXCEPT ![x] = t]
  /\ UNCHANGED <<end, lines>>

(* addEnd: the end time is set only while it is unset. *)
MarkEnd(x, t) ==
  /\ end[x] = Zero
  /\ end' = [end EXCEPT ![x] = t]
  /\ UNCHANGED <<start, lines>>

(* The flush after a successful addEnd: once per id, after the end. *)
Flush(x) ==
  /\ end[x] # Zero
  /\ ~Flushed(x)
  /\ lines' = Append(lines, [id |-> x, start |-> start[x], end |-> end[x]])
  /\ UNCHANGED <<start, end>>

Next ==
  \E x \in Ids :
    \/ \E t \in Times : MarkStart(x, t) \/ MarkEnd(x, t)
    \/ Flush(x)

Spec == Init /\ [][Next]_storeVars

=============================================================================
