---------------------------- MODULE MCTelemetry ----------------------------
(* Small instances of Telemetry for TLC. *)
EXTENDS Telemetry, TLC

CONSTANTS h1, h2, h3, x1, x2, t1, t2

MCHandlers == {h1, h2, h3}
MCIds == {x1, x2}
MCTimes == {t1, t2}

(* Handlers, ids and timestamps are interchangeable in every property.   *)
Symmetry == Permutations(MCHandlers) \cup Permutations(MCIds)
              \cup Permutations(MCTimes)

(* Route tracker only: routetx, find_node and transaction_recieved.      *)
RouteTypes == {"routetx", "find_node", "transaction_recieved"}

(* The two trackers and the fatal default case, without the other tags. *)
TrackerTypes == {"routetx", "find_node", "transaction_recieved",
                 "start_ida_gossip", "reconstructed_ida_gossip", "unknown"}

(* finalBlockChan of a run with m = 1 committee.                          *)
MCFinalCap == 2

(* IDA tracker only.                                                     *)
IdaTypes == {"start_ida_gossip", "reconstructed_ida_gossip"}
=============================================================================
