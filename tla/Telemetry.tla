------------------------------ MODULE Telemetry ------------------------------
(***************************************************************************)
(* The coordinator's telemetry phase (src/coordinator.go): the debug/stats *)
(* listener accepts one connection per event and runs                      *)
(* coordinatorDebugStatsHandleConnection on its own goroutine.  The        *)
(* handlers update two id-keyed stores, the route-tx tracker (routetxmap / *)
(* routetxresults) and the IDA-gossip tracker (IDAGossipResultsMap /       *)
(* IDAGossipResults), and append lines to result files 3 and 4.            *)
(*                                                                         *)
(* Abstractions.                                                           *)
(*  - A store's outer map (routetxmap.add/get, IDAGossipResultsMap.add/get) *)
(*    is a total function from ids to records: add creates a zero record   *)
(*    and get then returns it, so an absent record and a zero record are   *)
(*    indistinguishable to every operation that follows.                   *)
(*  - A critical section under a record mutex that is entered and left in  *)
(*    one call is one atomic step guarded by the mutex being free.  The    *)
(*    route-record mutex is a variable because one call (add, reached from *)
(*    "find_node") takes it and never gives it back: with                  *)
(*    r.committees == nil it calls r.init(), which locks r.mux again, and  *)
(*    sync.Mutex is not reentrant.  committees is nil for ever (init is    *)
(*    its only writer), so hop times are never stored and the model keeps  *)
(*    no variable for them.                                                *)
(*  - Timestamps are model values; Zero is time.Time{} (IsZero).  The      *)
(*    settling time.Sleep before a flush is an interleaving point only.    *)
(*  - A message type outside the handled set makes errFatal end the        *)
(*    process: "exited" stops every goroutine.                             *)
(***************************************************************************)
EXTENDS Naturals, Sequences

CONSTANTS
  Handlers,   \* goroutines spawned by the debug listener, one per connection
  Ids,        \* 32-byte transaction / broadcast ids
  Times,      \* non-zero timestamps carried by messages
  Zero,       \* the zero time.Time
  Free,       \* an unlocked sync.Mutex
  MsgTypes,   \* the message tags the environment sends in this instance
  FinalCap    \* capacity of finalBlockChan, flagArgs.m*2

AllTypes == {"routetx", "find_node", "transaction_recieved",
             "start_ida_gossip", "reconstructed_ida_gossip", "unknown",
             "IDASuccess", "consensus", "finalblock", "pocverify", "pocadd",
             "consensus_accept_fail"}

\* the tags whose handler appends one line to a results file of its own
LogTypes == {"pocverify", "pocadd", "consensus_accept_fail"}

ASSUME TelemetryAssumption ==
  /\ Zero \notin Times
  /\ Free \notin Handlers
  /\ MsgTypes \subseteq AllTypes
  /\ FinalCap \in Nat \ {0}

VARIABLES
  pc,          \* pc[h]: where handler goroutine h is
  msg,         \* msg[h]: the message h decoded
  rStart,      \* routetxresults.start per tx id
  rEnd,        \* routetxresults.end per tx id
  rMux,        \* routetxresults.mux per tx id: Free or its holder
  idaStart,    \* IDAGossipResults.start per broadcast id
  idaRec,      \* IDAGossipResults.reconstructed per broadcast id
  routeLines,  \* lines appended to files[3] (routing)
  idaLines,    \* lines appended to files[4] (ida)
  finalQ,      \* blocks buffered in finalBlockChan, oldest first
  logLines,    \* logLines[tag]: lines appended to files[1], [2] and [5]
  exited       \* the process has ended in errFatal

vars == <<pc, msg, rStart, rEnd, rMux, idaStart, idaRec,
          routeLines, idaLines, finalQ, logLines, exited>>

Msgs == [type : MsgTypes, id : Ids, t : Times]

NoMsg == [type |-> "none"]

PCs == {"idle", "recv", "fn_init", "te_flush", "ir_flush", "done"}

RouteLine == [id : Ids, start : Times \cup {Zero}, end : Times \cup {Zero}]

IdaLine == [id : Ids, start : Times \cup {Zero}, recs : Seq(Times)]

Init ==
  /\ pc = [h \in Handlers |-> "idle"]
  /\ msg = [h \in Handlers |-> NoMsg]
  /\ rStart = [x \in Ids |-> Zero]
  /\ rEnd = [x \in Ids |-> Zero]
  /\ rMux = [x \in Ids |-> Free]
  /\ idaStart = [x \in Ids |-> Zero]
  /\ idaRec = [x \in Ids |-> <<>>]
  /\ routeLines = <<>>
  /\ idaLines = <<>>
  /\ finalQ = <<>>
  /\ logLines = [tag \in LogTypes |-> 0]
  /\ exited = FALSE

(* listener.Accept and "go coordinatorDebugStatsHandleConnection":        *)
(* a new goroutine h receives one message m.                              *)
Accept(h, m) ==
  /\ pc[h] = "idle"
  /\ pc' = [pc EXCEPT ![h] = "recv"]
  /\ msg' = [msg EXCEPT ![h] = m]
  /\ UNCHANGED <<finalQ, logLines, rStart, rEnd, rMux, idaStart, idaRec,
                 routeLines, idaLines, exited>>

Received(h, type) == pc[h] = "recv" /\ msg[h].type = type

(* Mutant: addStart without the IsZero check, so a later start overwrites. *)
RouteTxStartOverwrite(h) ==
  LET x == msg[h].id IN
  /\ Received(h, "routetx")
  /\ rMux[x] = Free
  /\ rStart' = [rStart EXCEPT ![x] = msg[h].t]
  /\ pc' = [pc EXCEPT ![h] = "done"]
  /\ UNCHANGED <<finalQ, logLines, msg, rEnd, rMux, idaStart, idaRec, routeLines, idaLines,
                 exited>>

(* case "routetx": rMap.add, rMap.get, r.addStart(t): the start time is   *)
(* written only if it is still zero.                                      *)
RouteTxStart(h) ==
  LET x == msg[h].id IN
  /\ Received(h, "routetx")
  /\ rMux[x] = Free
  /\ rStart' = [rStart EXCEPT ![x] = IF @ = Zero THEN msg[h].t ELSE @]
  /\ pc' = [pc EXCEPT ![h] = "done"]
  /\ UNCHANGED <<finalQ, logLines, msg, rEnd, rMux, idaStart, idaRec, routeLines, idaLines,
                 exited>>

(* case "find_node": rMap.add, rMap.get, r.add(cId, t).  add locks r.mux, *)
(* finds r.committees nil and calls r.init(), whose r.mux.Lock() never    *)
(* returns: h keeps the mutex and stays at "fn_init" for ever.            *)
FindNodeAdd(h) ==
  LET x == msg[h].id IN
  /\ Received(h, "find_node")
  /\ rMux[x] = Free
  /\ rMux' = [rMux EXCEPT ![x] = h]
  /\ pc' = [pc EXCEPT ![h] = "fn_init"]
  /\ UNCHANGED <<finalQ, logLines, msg, rStart, rEnd, idaStart, idaRec, routeLines, idaLines,
                 exited>>

(* Mutant: addEnd reports success even when end was already set, so      *)
(* every caller flushes.                                                  *)
TxReceivedEndAlwaysOk(h) ==
  LET x == msg[h].id IN
  /\ Received(h, "transaction_recieved")
  /\ rMux[x] = Free
  /\ rEnd' = [rEnd EXCEPT ![x] = IF @ = Zero THEN msg[h].t ELSE @]
  /\ pc' = [pc EXCEPT ![h] = "te_flush"]
  /\ UNCHANGED <<finalQ, logLines, msg, rStart, rMux, idaStart, idaRec, routeLines, idaLines,
                 exited>>

(* Mutant: addEnd without the IsZero check: end is overwritten by every  *)
(* report, though only the first one flushes.                             *)
TxReceivedEndOverwrite(h) ==
  LET x == msg[h].id IN
  /\ Received(h, "transaction_recieved")
  /\ rMux[x] = Free
  /\ rEnd' = [rEnd EXCEPT ![x] = msg[h].t]
  /\ pc' = [pc EXCEPT ![h] = IF rEnd[x] = Zero THEN "te_flush" ELSE "done"]
  /\ UNCHANGED <<finalQ, logLines, msg, rStart, rMux, idaStart, idaRec, routeLines, idaLines,
                 exited>>

(* case "transaction_recieved": rMap.add, rMap.get, ok = r.addEnd(t).     *)
(* Only the call that finds end zero goes on to flush.                    *)
TxReceivedEnd(h) ==
  LET x == msg[h].id IN
  /\ Received(h, "transaction_recieved")
  /\ rMux[x] = Free
  /\ IF rEnd[x] = Zero
       THEN /\ rEnd' = [rEnd EXCEPT ![x] = msg[h].t]
            /\ pc' = [pc EXCEPT ![h] = "te_flush"]
       ELSE /\ pc' = [pc EXCEPT ![h] = "done"]
            /\ UNCHANGED rEnd
  /\ UNCHANGED <<finalQ, logLines, msg, rStart, rMux, idaStart, idaRec, routeLines, idaLines,
                 exited>>

(* After time.Sleep the handler reads r.start, r.end and r.committees     *)
(* without taking r.mux and appends the line to files[3] (a zero start is *)
(* written as "0"; committees is nil, so the line carries no hops).       *)
TxReceivedFlush(h) ==
  LET x == msg[h].id IN
  /\ pc[h] = "te_flush"
  /\ routeLines' = Append(routeLines,
                          [id |-> x, start |-> rStart[x], end |-> rEnd[x]])
  /\ pc' = [pc EXCEPT ![h] = "done"]
  /\ UNCHANGED <<finalQ, logLines, msg, rStart, rEnd, rMux, idaStart, idaRec, idaLines,
                 exited>>

(* case "start_ida_gossip": idaresults.add, get, then "ida.start =        *)
(* bat.T": a plain write, without ida.mux and without a zero check.       *)
StartIdaGossip(h) ==
  /\ Received(h, "start_ida_gossip")
  /\ idaStart' = [idaStart EXCEPT ![msg[h].id] = msg[h].t]
  /\ pc' = [pc EXCEPT ![h] = "done"]
  /\ UNCHANGED <<finalQ, logLines, msg, rStart, rEnd, rMux, idaRec, routeLines, idaLines,
                 exited>>

(* Mutants of addReconstructed: the first entry left as the zero time of  *)
(* make([]time.Time, 1); the list re-made on every call; the "first"      *)
(* result always true; the "first" result always false.                   *)
ReconstructedAddZeroFirst(h) ==
  LET x == msg[h].id IN
  /\ Received(h, "reconstructed_ida_gossip")
  /\ idaRec' = [idaRec EXCEPT ![x] = IF @ = <<>> THEN <<Zero>>
                                                 ELSE Append(@, msg[h].t)]
  /\ pc' = [pc EXCEPT ![h] = IF idaRec[x] = <<>> THEN "ir_flush" ELSE "done"]
  /\ UNCHANGED <<finalQ, logLines, msg, rStart, rEnd, rMux, idaStart, routeLines, idaLines,
                 exited>>

ReconstructedAddReset(h) ==
  LET x == msg[h].id IN
  /\ Received(h, "reconstructed_ida_gossip")
  /\ idaRec' = [idaRec EXCEPT ![x] = <<msg[h].t>>]
  /\ pc' = [pc EXCEPT ![h] = IF idaRec[x] = <<>> THEN "ir_flush" ELSE "done"]
  /\ UNCHANGED <<finalQ, logLines, msg, rStart, rEnd, rMux, idaStart, routeLines, idaLines,
                 exited>>

ReconstructedAddAlwaysFirst(h) ==
  LET x == msg[h].id IN
  /\ Received(h, "reconstructed_ida_gossip")
  /\ idaRec' = [idaRec EXCEPT ![x] = Append(@, msg[h].t)]
  /\ pc' = [pc EXCEPT ![h] = "ir_flush"]
  /\ UNCHANGED <<finalQ, logLines, msg, rStart, rEnd, rMux, idaStart, routeLines, idaLines,
                 exited>>

ReconstructedAddNeverFirst(h) ==
  LET x == msg[h].id IN
  /\ Received(h, "reconstructed_ida_gossip")
  /\ idaRec' = [idaRec EXCEPT ![x] = Append(@, msg[h].t)]
  /\ pc' = [pc EXCEPT ![h] = "done"]
  /\ UNCHANGED <<finalQ, logLines, msg, rStart, rEnd, rMux, idaStart, routeLines, idaLines,
                 exited>>

(* case "reconstructed_ida_gossip": idaresults.add, get,                  *)
(* ok = ida.addReconstructed(t): append under ida.mux, true iff the list  *)
(* was empty.  Only that first caller goes on to flush.                   *)
ReconstructedAdd(h) ==
  LET x == msg[h].id IN
  /\ Received(h, "reconstructed_ida_gossip")
  /\ idaRec' = [idaRec EXCEPT ![x] = Append(@, msg[h].t)]
  /\ pc' = [pc EXCEPT ![h] = IF idaRec[x] = <<>> THEN "ir_flush" ELSE "done"]
  /\ UNCHANGED <<finalQ, logLines, msg, rStart, rEnd, rMux, idaStart, routeLines, idaLines,
                 exited>>

(* After time.Sleep the first appender reads ida.start and the whole      *)
(* ida.reconstructed under ida.mux and appends the line to files[4].      *)
ReconstructedFlush(h) ==
  LET x == msg[h].id IN
  /\ pc[h] = "ir_flush"
  /\ idaLines' = Append(idaLines,
                        [id |-> x, start |-> idaStart[x], recs |-> idaRec[x]])
  /\ pc' = [pc EXCEPT ![h] = "done"]
  /\ UNCHANGED <<finalQ, logLines, msg, rStart, rEnd, rMux, idaStart, idaRec, routeLines,
                 exited>>

(* default: errFatal("no known message type") ends the process.           *)
UnknownType(h) ==
  /\ Received(h, "unknown")
  /\ exited' = TRUE
  /\ pc' = [pc EXCEPT ![h] = "done"]
  /\ UNCHANGED <<finalQ, logLines, msg, rStart, rEnd, rMux, idaStart, idaRec, routeLines,
                 idaLines>>

(* cases "IDASuccess" and "consensus": the payload is type-asserted and  *)
(* the handler returns; their tracker calls are commented out.            *)
InertTag(h) ==
  /\ Received(h, "IDASuccess") \/ Received(h, "consensus")
  /\ pc' = [pc EXCEPT ![h] = "done"]
  /\ UNCHANGED <<finalQ, logLines, msg, rStart, rEnd, rMux, idaStart, idaRec,
                 routeLines, idaLines, exited>>

(* case "finalblock": finalBlockChan <- block, which blocks while the     *)
(* channel holds FinalCap blocks.                                         *)
FinalBlockForward(h) ==
  /\ Received(h, "finalblock")
  /\ Len(finalQ) < FinalCap
  /\ finalQ' = Append(finalQ, msg[h].id)
  /\ pc' = [pc EXCEPT ![h] = "done"]
  /\ UNCHANGED <<logLines, msg, rStart, rEnd, rMux, idaStart, idaRec,
                 routeLines, idaLines, exited>>

(* cases "pocverify" and "pocadd": writeIntToFile appends the duration to *)
(* files[1] or files[2] and syncs it.                                     *)
LogDuration(h) ==
  /\ \E tag \in {"pocverify", "pocadd"} :
       /\ Received(h, tag)
       /\ logLines' = [logLines EXCEPT ![tag] = @ + 1]
  /\ pc' = [pc EXCEPT ![h] = "done"]
  /\ UNCHANGED <<finalQ, msg, rStart, rEnd, rMux, idaStart, idaRec,
                 routeLines, idaLines, exited>>

(* case "consensus_accept_fail": a blob of 88 bytes is parsed and its     *)
(* fields written to files[5]; any other length is errFatal.  The length  *)
(* is part of the message, chosen here because nothing reads it before.   *)
AcceptFailReport(h) ==
  /\ Received(h, "consensus_accept_fail")
  /\ \E wellFormed \in BOOLEAN :
       IF wellFormed
         THEN /\ logLines' = [logLines EXCEPT !["consensus_accept_fail"] = @ + 1]
              /\ UNCHANGED exited
         ELSE /\ exited' = TRUE
              /\ UNCHANGED logLines
  /\ pc' = [pc EXCEPT ![h] = "done"]
  /\ UNCHANGED <<finalQ, msg, rStart, rEnd, rMux, idaStart, idaRec,
                 routeLines, idaLines>>

(* The transaction generator, run by the coordinator goroutine after      *)
(* bootstrap, receives the blocks from finalBlockChan in order; it may    *)
(* take them late or never.                                               *)
TxGenTake ==
  /\ finalQ # <<>>
  /\ finalQ' = Tail(finalQ)
  /\ UNCHANGED <<logLines, pc, msg, rStart, rEnd, rMux, idaStart, idaRec,
                 routeLines, idaLines, exited>>

Handle(h) ==
  \/ InertTag(h)
  \/ FinalBlockForward(h)
  \/ LogDuration(h)
  \/ AcceptFailReport(h)
  \/ RouteTxStart(h)
  \/ FindNodeAdd(h)
  \/ TxReceivedEnd(h)
  \/ TxReceivedFlush(h)
  \/ StartIdaGossip(h)
  \/ ReconstructedAdd(h)
  \/ ReconstructedFlush(h)
  \/ UnknownType(h)

Next ==
  /\ ~exited
  /\ \/ \E h \in Handlers, m \in Msgs : Accept(h, m)
     \/ \E h \in Handlers : Handle(h)
     \/ TxGenTake

(* Go's scheduler eventually runs every runnable goroutine; no step of a  *)
(* handler waits on a mutex held across steps except the one "find_node"  *)
(* never releases, so weak fairness per handler is what the code gives.   *)
(* New connections are up to the nodes: Accept is not fair.               *)
Fairness == \A h \in Handlers : WF_vars(~exited /\ Handle(h))

Spec == Init /\ [][Next]_vars

FairSpec == Spec /\ Fairness

-----------------------------------------------------------------------------
(* Properties *)

TypeOK ==
  /\ pc \in [Handlers -> PCs]
  /\ msg \in [Handlers -> Msgs \cup {NoMsg}]
  /\ \A h \in Handlers : pc[h] # "idle" => msg[h] \in Msgs
  /\ rStart \in [Ids -> Times \cup {Zero}]
  /\ rEnd \in [Ids -> Times \cup {Zero}]
  /\ rMux \in [Ids -> Handlers \cup {Free}]
  /\ idaStart \in [Ids -> Times \cup {Zero}]
  /\ idaRec \in [Ids -> Seq(Times)]
  /\ routeLines \in Seq(RouteLine)
  /\ idaLines \in Seq(IdaLine)
  /\ finalQ \in Seq(Ids) /\ Len(finalQ) <= FinalCap
  /\ logLines \in [LogTypes -> Nat]
  /\ exited \in BOOLEAN

(* markEnd flushes exactly once: however many "transaction_recieved"      *)
(* reports for one tx race, files[3] gets at most one line for it.        *)
RouteFlushOnce ==
  \A k1, k2 \in DOMAIN routeLines :
    routeLines[k1].id = routeLines[k2].id => k1 = k2

(* The line flushed for a tx never contradicts its record: the end is the *)
(* record's end, and the start is either still unset ("0") or the start   *)
(* the record keeps for ever (first "routetx" wins over later ones).      *)
RouteLineFaithful ==
  \A k \in DOMAIN routeLines :
    LET l == routeLines[k] IN
    /\ l.end = rEnd[l.id]
    /\ l.start \in {Zero, rStart[l.id]}

(* Only the first reconstruction of a broadcast flushes: files[4] gets at *)
(* most one line per broadcast id.                                        *)
IdaFlushOnce ==
  \A k1, k2 \in DOMAIN idaLines :
    idaLines[k1].id = idaLines[k2].id => k1 = k2

(* The reconstruction list written for a broadcast is a prefix of the     *)
(* list the record holds at any later time: appends from concurrent       *)
(* handlers are kept in call order and none is lost or reordered.         *)
IdaLineIsPrefix ==
  \A k \in DOMAIN idaLines :
    LET l == idaLines[k] IN
    /\ Len(l.recs) >= 1
    /\ l.recs = SubSeq(idaRec[l.id], 1, Len(l.recs))

(* Module RouteStore, the route-tx tracker's promise, under the mapping  *)
(* of its record fields and result lines to the model's.                  *)
Route == INSTANCE RouteStore WITH start <- rStart, end <- rEnd,
                                  lines <- routeLines

(* The route-tx tracker implements RouteStore: start and end of a record  *)
(* are each written once (addStart, addEnd), and the handler that set the *)
(* end flushes the record once, with the fields it has at that moment,    *)
(* whatever the other handlers of the same id do in between.              *)
RouteStoreSpec == Route!Spec

(* Spec 4.4: the line flushed for a broadcast holds the record's full     *)
(* reconstruction list, the settling sleep letting late reports land.     *)
IdaLineComplete ==
  \A k \in DOMAIN idaLines : idaLines[k].recs = idaRec[idaLines[k].id]

(* Once some node has reported reconstructing a broadcast, a line for it  *)
(* is eventually written (unless the process has ended).                  *)
IdaEventuallyFlushed ==
  \A x \in Ids :
    idaRec[x] # <<>> ~>
      (exited \/ \E k \in DOMAIN idaLines : idaLines[k].id = x)

(* Spec 4.4: markStart of the IDA tracker is first-write-wins: a start    *)
(* time, once set, is never replaced.                                     *)
IdaStartFirstWriteWins ==
  [][\A x \in Ids : idaStart[x] # Zero => idaStart'[x] = idaStart[x]]_idaStart

(* Every handler goroutine that has received a message eventually         *)
(* returns (unless the process has ended).                                *)
HandlersReturn ==
  \A h \in Handlers : pc[h] = "recv" ~> (exited \/ pc[h] = "done")

=============================================================================
