--------------------------- MODULE TelemetryProofs ---------------------------
(***************************************************************************)
(* Proofs about Telemetry for every value of the constants.                *)
(***************************************************************************)
EXTENDS Telemetry, TLAPS, SequenceTheorems

(* RouteFlushOnce strengthened: a line, or a handler about to flush, for  *)
(* a tx implies its end is set, so no later addEnd can succeed for it; a  *)
(* handler about to flush has no line yet and no rival flusher.           *)
Flushing(h) == pc[h] = "te_flush"

RouteInv ==
  /\ TypeOK
  /\ RouteFlushOnce
  /\ \A k \in DOMAIN routeLines : rEnd[routeLines[k].id] # Zero
  /\ \A h \in Handlers : Flushing(h) =>
        /\ rEnd[msg[h].id] # Zero
        /\ \A k \in DOMAIN routeLines : routeLines[k].id # msg[h].id
        /\ \A g \in Handlers : Flushing(g) /\ msg[g].id = msg[h].id => g = h

(* IdaFlushOnce strengthened the same way: a line, or a handler about to *)
(* flush, for a broadcast implies its list is non-empty, so no later      *)
(* addReconstructed reports "first"; a flusher has no line and no rival.  *)
IdaFlushing(h) == pc[h] = "ir_flush"

IdaInv ==
  /\ TypeOK
  /\ IdaFlushOnce
  /\ \A k \in DOMAIN idaLines : idaRec[idaLines[k].id] # <<>>
  /\ \A h \in Handlers : IdaFlushing(h) =>
        /\ idaRec[msg[h].id] # <<>>
        /\ \A k \in DOMAIN idaLines : idaLines[k].id # msg[h].id
        /\ \A g \in Handlers : IdaFlushing(g) /\ msg[g].id = msg[h].id => g = h

(* RouteLineFaithful needs RouteInv: a written line's end is set, so no  *)
(* later addEnd changes it; a later addStart only replaces a zero start.  *)
FaithInv == RouteInv /\ RouteLineFaithful

(* IdaLineIsPrefix needs IdaInv, and that a written list is never longer  *)
(* than the record's list: later appends extend the record beyond it.    *)
PrefixInv ==
  /\ IdaInv
  /\ IdaLineIsPrefix
  /\ \A k \in DOMAIN idaLines :
       Len(idaLines[k].recs) <= Len(idaRec[idaLines[k].id])

-----------------------------------------------------------------------------
(* Type correctness: every handler step keeps each variable in its type.  *)

LEMMA InitTypeOK == Init => TypeOK
<1> SUFFICES ASSUME Init PROVE TypeOK
  OBVIOUS
<1>1. pc \in [Handlers -> PCs] /\ msg \in [Handlers -> Msgs \cup {NoMsg}]
  BY DEF Init, PCs
<1>2. \A h \in Handlers : pc[h] # "idle" => msg[h] \in Msgs
  BY DEF Init
<1>3. /\ rStart \in [Ids -> Times \cup {Zero}]
      /\ rEnd \in [Ids -> Times \cup {Zero}]
      /\ idaStart \in [Ids -> Times \cup {Zero}]
      /\ rMux \in [Ids -> Handlers \cup {Free}]
  BY DEF Init
<1>4. idaRec \in [Ids -> Seq(Times)]
  BY DEF Init
<1>5. routeLines \in Seq(RouteLine) /\ idaLines \in Seq(IdaLine)
  BY DEF Init
<1>6. exited \in BOOLEAN
  BY DEF Init
<1>7. finalQ \in Seq(Ids) /\ Len(finalQ) <= FinalCap
      /\ logLines \in [LogTypes -> Nat]
  BY TelemetryAssumption DEF Init
<1>8. QED
  BY <1>1, <1>2, <1>3, <1>4, <1>5, <1>6, <1>7 DEF TypeOK

LEMMA NextTypeOK == TypeOK /\ [Next]_vars => TypeOK'
<1> SUFFICES ASSUME TypeOK, [Next]_vars PROVE TypeOK'
  OBVIOUS
<1>1. ASSUME NEW h \in Handlers, NEW m \in Msgs, Accept(h, m) PROVE TypeOK'
  BY <1>1 DEF Accept, TypeOK, PCs
<1>2. ASSUME NEW h \in Handlers, RouteTxStart(h) PROVE TypeOK'
  BY <1>2 DEF RouteTxStart, Received, TypeOK, PCs, Msgs
<1>3. ASSUME NEW h \in Handlers, FindNodeAdd(h) PROVE TypeOK'
  BY <1>3 DEF FindNodeAdd, Received, TypeOK, PCs, Msgs
<1>4. ASSUME NEW h \in Handlers, TxReceivedEnd(h) PROVE TypeOK'
  BY <1>4 DEF TxReceivedEnd, Received, TypeOK, PCs, Msgs
<1>5. ASSUME NEW h \in Handlers, TxReceivedFlush(h) PROVE TypeOK'
  <2> DEFINE x == msg[h].id
  <2>1. msg[h] \in Msgs
    BY <1>5 DEF TxReceivedFlush, TypeOK
  <2>2. [id |-> x, start |-> rStart[x], end |-> rEnd[x]] \in RouteLine
    BY <2>1 DEF TypeOK, Msgs, RouteLine
  <2>3. routeLines' \in Seq(RouteLine)
    BY <1>5, <2>2 DEF TxReceivedFlush, TypeOK
  <2>4. QED
    BY <1>5, <2>3 DEF TxReceivedFlush, TypeOK, PCs
<1>6. ASSUME NEW h \in Handlers, StartIdaGossip(h) PROVE TypeOK'
  BY <1>6 DEF StartIdaGossip, Received, TypeOK, PCs, Msgs
<1>7. ASSUME NEW h \in Handlers, ReconstructedAdd(h) PROVE TypeOK'
  BY <1>7 DEF ReconstructedAdd, Received, TypeOK, PCs, Msgs
<1>8. ASSUME NEW h \in Handlers, ReconstructedFlush(h) PROVE TypeOK'
  <2> DEFINE x == msg[h].id
  <2>1. msg[h] \in Msgs
    BY <1>8 DEF ReconstructedFlush, TypeOK
  <2>2. [id |-> x, start |-> idaStart[x], recs |-> idaRec[x]] \in IdaLine
    BY <2>1 DEF TypeOK, Msgs, IdaLine
  <2>3. idaLines' \in Seq(IdaLine)
    BY <1>8, <2>2 DEF ReconstructedFlush, TypeOK
  <2>4. QED
    BY <1>8, <2>3 DEF ReconstructedFlush, TypeOK, PCs
<1>9. ASSUME NEW h \in Handlers, UnknownType(h) PROVE TypeOK'
  BY <1>9 DEF UnknownType, Received, TypeOK, PCs
<1>10. CASE UNCHANGED vars
  BY <1>10 DEF vars, TypeOK
<1>11. ASSUME NEW h \in Handlers, InertTag(h) PROVE TypeOK'
  BY <1>11 DEF InertTag, Received, TypeOK, PCs
<1>12. ASSUME NEW h \in Handlers, FinalBlockForward(h) PROVE TypeOK'
  <2>1. msg[h].id \in Ids
    BY <1>12 DEF FinalBlockForward, Received, TypeOK, Msgs
  <2>2. finalQ' \in Seq(Ids) /\ Len(finalQ') <= FinalCap
    BY <1>12, <2>1, AppendProperties, TelemetryAssumption
       DEF FinalBlockForward, TypeOK
  <2>3. QED
    BY <1>12, <2>2 DEF FinalBlockForward, Received, TypeOK, PCs
<1>13. ASSUME NEW h \in Handlers, LogDuration(h) PROVE TypeOK'
  BY <1>13 DEF LogDuration, Received, TypeOK, PCs, LogTypes
<1>14. ASSUME NEW h \in Handlers, AcceptFailReport(h) PROVE TypeOK'
  <2>1. PICK wf \in BOOLEAN :
          IF wf THEN /\ logLines' = [logLines EXCEPT !["consensus_accept_fail"] = @ + 1]
                     /\ UNCHANGED exited
                ELSE /\ exited' = TRUE
                     /\ UNCHANGED logLines
    BY <1>14 DEF AcceptFailReport
  <2>2. "consensus_accept_fail" \in LogTypes
    BY DEF LogTypes
  <2>3. logLines' \in [LogTypes -> Nat] /\ exited' \in BOOLEAN
    <3>1. CASE wf
      BY <2>1, <2>2, <3>1 DEF TypeOK, LogTypes
    <3>2. CASE ~wf
      BY <2>1, <3>2 DEF TypeOK
    <3>3. QED
      BY <3>1, <3>2
  <2>4. QED
    BY <1>14, <2>3 DEF AcceptFailReport, Received, TypeOK, PCs
<1>15. ASSUME TxGenTake PROVE TypeOK'
  <2>1. finalQ' \in Seq(Ids) /\ Len(finalQ') <= FinalCap
    BY <1>15, HeadTailProperties, TelemetryAssumption DEF TxGenTake, TypeOK
  <2>2. QED
    BY <1>15, <2>1 DEF TxGenTake, TypeOK
<1>16. QED
  BY <1>1, <1>2, <1>3, <1>4, <1>5, <1>6, <1>7, <1>8, <1>9, <1>10,
     <1>11, <1>12, <1>13, <1>14, <1>15
     DEF Next, Handle

(* The handlers never leave their stores or the result files ill-typed.   *)
THEOREM TypeCorrect == Spec => []TypeOK
  BY InitTypeOK, NextTypeOK, PTL DEF Spec

-----------------------------------------------------------------------------
(* At most one routing line per tx.  The new line of TxReceivedFlush has  *)
(* no predecessor for its id; a successful addEnd finds end zero, so no   *)
(* line and no other flusher for that id exists.                          *)

LEMMA InitRouteInv == Init => RouteInv
  BY InitTypeOK DEF Init, RouteInv, RouteFlushOnce, Flushing

LEMMA NextRouteInv == RouteInv /\ [Next]_vars => RouteInv'
<1> SUFFICES ASSUME RouteInv, [Next]_vars PROVE RouteInv'
  OBVIOUS
<1> USE DEF RouteInv
<1>0. TypeOK'
  BY NextTypeOK
<1>1. ASSUME NEW h \in Handlers, NEW m \in Msgs, Accept(h, m) PROVE RouteInv'
  BY <1>0, <1>1 DEF Accept, RouteFlushOnce, Flushing
<1>2. ASSUME NEW h \in Handlers, RouteTxStart(h) PROVE RouteInv'
  BY <1>0, <1>2 DEF RouteTxStart, Received, RouteFlushOnce, Flushing
<1>3. ASSUME NEW h \in Handlers, FindNodeAdd(h) PROVE RouteInv'
  BY <1>0, <1>3 DEF FindNodeAdd, Received, RouteFlushOnce, Flushing
<1>4. ASSUME NEW h \in Handlers, TxReceivedEnd(h) PROVE RouteInv'
  <2> DEFINE x == msg[h].id
  <2>1. x \in Ids /\ pc[h] = "recv"
    BY <1>4 DEF TxReceivedEnd, Received, TypeOK, Msgs
  <2>2. CASE rEnd[x] = Zero
    <3>1. \A k \in DOMAIN routeLines : routeLines[k].id # x
      BY <2>2
    <3>2. \A g \in Handlers : Flushing(g) => msg[g].id # x
      BY <2>2
    <3>3. rEnd' = [rEnd EXCEPT ![x] = msg[h].t] /\ pc' = [pc EXCEPT ![h] = "te_flush"]
      BY <1>4, <2>2 DEF TxReceivedEnd
    <3>4. msg[h].t \in Times /\ Zero \notin Times
      BY <1>4, TelemetryAssumption DEF TxReceivedEnd, Received, TypeOK, Msgs
    <3>5. UNCHANGED <<msg, routeLines>>
      BY <1>4 DEF TxReceivedEnd
    <3>6. QED
      BY <1>0, <2>1, <3>1, <3>2, <3>3, <3>4, <3>5 DEF RouteFlushOnce, Flushing, TypeOK
  <2>3. CASE rEnd[x] # Zero
    BY <1>0, <1>4, <2>1, <2>3 DEF TxReceivedEnd, RouteFlushOnce, Flushing, TypeOK
  <2>4. QED
    BY <2>2, <2>3
<1>5. ASSUME NEW h \in Handlers, TxReceivedFlush(h) PROVE RouteInv'
  <2> DEFINE x == msg[h].id
              l == [id |-> x, start |-> rStart[x], end |-> rEnd[x]]
  <2>1. Flushing(h) /\ x \in Ids
    BY <1>5 DEF TxReceivedFlush, Flushing, TypeOK, Msgs
  <2>2. routeLines' = Append(routeLines, l) /\ pc' = [pc EXCEPT ![h] = "done"]
        /\ UNCHANGED <<msg, rEnd>>
    BY <1>5 DEF TxReceivedFlush
  <2>3. routeLines \in Seq(RouteLine)
    BY DEF TypeOK
  <2>4. DOMAIN routeLines' = 1..Len(routeLines) + 1
        /\ routeLines'[Len(routeLines) + 1] = l
        /\ \A k \in 1..Len(routeLines) : routeLines'[k] = routeLines[k]
    BY <2>2, <2>3
  <2>5. \A k \in 1..Len(routeLines) : routeLines[k].id # x
    BY <2>1, <2>3
  <2>6. \A g \in Handlers : Flushing(g)' => Flushing(g) /\ g # h
    BY <2>2, <1>0 DEF Flushing, TypeOK
  <2>7. RouteFlushOnce'
    BY <2>3, <2>4, <2>5 DEF RouteFlushOnce
  <2>8. (\A k \in DOMAIN routeLines : rEnd[routeLines[k].id] # Zero)'
    BY <2>1, <2>2, <2>3, <2>4
  <2>9. (\A g \in Handlers : Flushing(g) =>
          /\ rEnd[msg[g].id] # Zero
          /\ \A k \in DOMAIN routeLines : routeLines[k].id # msg[g].id
          /\ \A g2 \in Handlers : Flushing(g2) /\ msg[g2].id = msg[g].id => g2 = g)'
    BY <2>1, <2>2, <2>3, <2>4, <2>6
  <2>10. QED
    BY <1>0, <2>7, <2>8, <2>9
<1>6. ASSUME NEW h \in Handlers, StartIdaGossip(h) PROVE RouteInv'
  BY <1>0, <1>6 DEF StartIdaGossip, Received, RouteFlushOnce, Flushing
<1>7. ASSUME NEW h \in Handlers, ReconstructedAdd(h) PROVE RouteInv'
  BY <1>0, <1>7 DEF ReconstructedAdd, Received, RouteFlushOnce, Flushing
<1>8. ASSUME NEW h \in Handlers, ReconstructedFlush(h) PROVE RouteInv'
  BY <1>0, <1>8 DEF ReconstructedFlush, RouteFlushOnce, Flushing
<1>9. ASSUME NEW h \in Handlers, UnknownType(h) PROVE RouteInv'
  BY <1>0, <1>9 DEF UnknownType, Received, RouteFlushOnce, Flushing
<1>10. CASE UNCHANGED vars
  BY <1>10 DEF vars, RouteFlushOnce, Flushing, TypeOK
<1>11. ASSUME NEW h \in Handlers,
              InertTag(h) \/ FinalBlockForward(h) \/ LogDuration(h)
              \/ AcceptFailReport(h)
       PROVE  RouteInv'
  <2>1. pc[h] = "recv" /\ pc' = [pc EXCEPT ![h] = "done"]
        /\ UNCHANGED <<msg, rEnd, routeLines>>
    BY <1>11 DEF InertTag, FinalBlockForward, LogDuration, AcceptFailReport,
                 Received
  <2>2. QED
    BY <1>0, <2>1 DEF RouteFlushOnce, Flushing, TypeOK
<1>12. ASSUME TxGenTake PROVE RouteInv'
  BY <1>0, <1>12 DEF TxGenTake, RouteFlushOnce, Flushing
<1>13. QED
  BY <1>1, <1>2, <1>3, <1>4, <1>5, <1>6, <1>7, <1>8, <1>9, <1>10,
     <1>11, <1>12
     DEF Next, Handle

(* However many "transaction_recieved" reports for one tx race, the       *)
(* routing file gets at most one line for it.                             *)
THEOREM RouteFlushedOnce == Spec => []RouteFlushOnce
<1>1. Spec => []RouteInv
  BY InitRouteInv, NextRouteInv, PTL DEF Spec
<1>2. QED
  BY <1>1, PTL DEF RouteInv

-----------------------------------------------------------------------------
(* At most one IDA line per broadcast.  The new line of                   *)
(* ReconstructedFlush has no predecessor for its id; an addReconstructed  *)
(* that reports "first" finds the list empty, so no line and no other     *)
(* flusher for that id exists.                                            *)

LEMMA InitIdaInv == Init => IdaInv
  BY InitTypeOK DEF Init, IdaInv, IdaFlushOnce, IdaFlushing

LEMMA NextIdaInv == IdaInv /\ [Next]_vars => IdaInv'
<1> SUFFICES ASSUME IdaInv, [Next]_vars PROVE IdaInv'
  OBVIOUS
<1> USE DEF IdaInv
<1>0. TypeOK'
  BY NextTypeOK
<1>1. ASSUME NEW h \in Handlers, ReconstructedAdd(h) PROVE IdaInv'
  <2> DEFINE x == msg[h].id
  <2>1. x \in Ids /\ pc[h] = "recv" /\ msg[h].t \in Times
    BY <1>1 DEF ReconstructedAdd, Received, TypeOK, Msgs
  <2>2. idaRec' = [idaRec EXCEPT ![x] = Append(@, msg[h].t)]
        /\ msg' = msg /\ idaLines' = idaLines
    BY <1>1 DEF ReconstructedAdd
  <2>8. idaRec[x] \in Seq(Times)
    BY <2>1 DEF TypeOK
  <2>9. Append(idaRec[x], msg[h].t) # <<>>
    BY <2>1, <2>8, AppendProperties
  <2>4. idaRec'[x] # <<>>
    BY <2>2, <2>1, <2>9 DEF TypeOK
  <2>3. \A y \in Ids : idaRec[y] # <<>> => idaRec'[y] # <<>>
    BY <2>2, <2>4 DEF TypeOK
  <2>5. CASE idaRec[x] = <<>>
    <3>1. pc' = [pc EXCEPT ![h] = "ir_flush"]
      BY <1>1, <2>5 DEF ReconstructedAdd
    <3>2. \A k \in DOMAIN idaLines : idaLines[k].id # x
      BY <2>5
    <3>3. \A g \in Handlers : IdaFlushing(g) => msg[g].id # x
      BY <2>5
    <3>4. QED
      BY <1>0, <2>1, <2>2, <2>3, <2>4, <3>1, <3>2, <3>3
         DEF IdaFlushOnce, IdaFlushing, TypeOK
  <2>6. CASE idaRec[x] # <<>>
    <3>1. pc' = [pc EXCEPT ![h] = "done"]
      BY <1>1, <2>6 DEF ReconstructedAdd
    <3>2. \A g \in Handlers : IdaFlushing(g)' => IdaFlushing(g)
      BY <3>1, <2>1 DEF IdaFlushing
    <3>3. \A g \in Handlers : IdaFlushing(g) => msg[g].id \in Ids
      BY DEF IdaFlushing, TypeOK, Msgs
    <3>4. \A k \in DOMAIN idaLines : idaLines[k].id \in Ids
      <4>1. \A k \in DOMAIN idaLines : idaLines[k] \in IdaLine
        BY DEF TypeOK
      <4>2. QED
        BY <4>1 DEF IdaLine
    <3>5. IdaFlushOnce'
      BY <2>2 DEF IdaFlushOnce
    <3>6. (\A k \in DOMAIN idaLines : idaRec[idaLines[k].id] # <<>>)'
      BY <2>2, <2>3, <3>4
    <3>7. (\A g \in Handlers : IdaFlushing(g) =>
            /\ idaRec[msg[g].id] # <<>>
            /\ \A k \in DOMAIN idaLines : idaLines[k].id # msg[g].id
            /\ \A g2 \in Handlers : IdaFlushing(g2) /\ msg[g2].id = msg[g].id
                                    => g2 = g)'
      BY <2>2, <2>3, <3>2, <3>3
    <3>8. QED
      BY <1>0, <3>5, <3>6, <3>7
  <2>7. QED
    BY <2>5, <2>6
<1>2. ASSUME NEW h \in Handlers, ReconstructedFlush(h) PROVE IdaInv'
  <2> DEFINE x == msg[h].id
              l == [id |-> x, start |-> idaStart[x], recs |-> idaRec[x]]
  <2>1. IdaFlushing(h) /\ x \in Ids
    BY <1>2 DEF ReconstructedFlush, IdaFlushing, TypeOK, Msgs
  <2>2. idaLines' = Append(idaLines, l) /\ pc' = [pc EXCEPT ![h] = "done"]
        /\ UNCHANGED <<msg, idaRec>>
    BY <1>2 DEF ReconstructedFlush
  <2>3. idaLines \in Seq(IdaLine)
    BY DEF TypeOK
  <2>4. DOMAIN idaLines' = 1..Len(idaLines) + 1
        /\ idaLines'[Len(idaLines) + 1] = l
        /\ \A k \in 1..Len(idaLines) : idaLines'[k] = idaLines[k]
    BY <2>2, <2>3
  <2>5. \A k \in 1..Len(idaLines) : idaLines[k].id # x
    BY <2>1, <2>3
  <2>6. \A g \in Handlers : IdaFlushing(g)' => IdaFlushing(g) /\ g # h
    BY <2>2, <1>0 DEF IdaFlushing, TypeOK
  <2>7. IdaFlushOnce'
    BY <2>3, <2>4, <2>5 DEF IdaFlushOnce
  <2>8. (\A k \in DOMAIN idaLines : idaRec[idaLines[k].id] # <<>>)'
    BY <2>1, <2>2, <2>3, <2>4
  <2>9. (\A g \in Handlers : IdaFlushing(g) =>
          /\ idaRec[msg[g].id] # <<>>
          /\ \A k \in DOMAIN idaLines : idaLines[k].id # msg[g].id
          /\ \A g2 \in Handlers : IdaFlushing(g2) /\ msg[g2].id = msg[g].id
                                  => g2 = g)'
    BY <2>1, <2>2, <2>3, <2>4, <2>6
  <2>10. QED
    BY <1>0, <2>7, <2>8, <2>9
<1>3. ASSUME NEW h \in Handlers, NEW m \in Msgs, Accept(h, m) PROVE IdaInv'
  BY <1>0, <1>3 DEF Accept, IdaFlushOnce, IdaFlushing
<1>4. ASSUME NEW h \in Handlers,
             \/ RouteTxStart(h) \/ FindNodeAdd(h) \/ TxReceivedEnd(h)
             \/ StartIdaGossip(h) \/ UnknownType(h) \/ InertTag(h)
             \/ FinalBlockForward(h) \/ LogDuration(h) \/ AcceptFailReport(h)
      PROVE  IdaInv'
  <2>1. pc[h] = "recv" /\ pc'[h] \in {"done", "fn_init", "te_flush"}
        /\ \A g \in Handlers : g # h => pc'[g] = pc[g]
    BY <1>0, <1>4 DEF RouteTxStart, FindNodeAdd, TxReceivedEnd,
       StartIdaGossip, UnknownType, InertTag, FinalBlockForward,
       LogDuration, AcceptFailReport, Received, TypeOK
  <2>0. msg' = msg /\ idaRec' = idaRec /\ idaLines' = idaLines
    BY <1>4 DEF RouteTxStart, FindNodeAdd, TxReceivedEnd,
       StartIdaGossip, UnknownType, InertTag, FinalBlockForward,
       LogDuration, AcceptFailReport
  <2>2. \A g \in Handlers : IdaFlushing(g)' => IdaFlushing(g)
    BY <2>1 DEF IdaFlushing
  <2>3. IdaFlushOnce'
    BY <2>0 DEF IdaFlushOnce
  <2>4. (\A k \in DOMAIN idaLines : idaRec[idaLines[k].id] # <<>>)'
    BY <2>0
  <2>5. (\A g \in Handlers : IdaFlushing(g) =>
          /\ idaRec[msg[g].id] # <<>>
          /\ \A k \in DOMAIN idaLines : idaLines[k].id # msg[g].id
          /\ \A g2 \in Handlers : IdaFlushing(g2) /\ msg[g2].id = msg[g].id
                                  => g2 = g)'
    BY <2>0, <2>2
  <2>6. QED
    BY <1>0, <2>3, <2>4, <2>5
<1>5. ASSUME NEW h \in Handlers, TxReceivedFlush(h) PROVE IdaInv'
  BY <1>0, <1>5 DEF TxReceivedFlush, IdaFlushOnce, IdaFlushing
<1>6. ASSUME TxGenTake PROVE IdaInv'
  BY <1>0, <1>6 DEF TxGenTake, IdaFlushOnce, IdaFlushing
<1>7. CASE UNCHANGED vars
  BY <1>7 DEF vars, IdaFlushOnce, IdaFlushing, TypeOK
<1>8. QED
  BY <1>1, <1>2, <1>3, <1>4, <1>5, <1>6, <1>7 DEF Next, Handle

(* However many nodes report reconstructing one broadcast, and in         *)
(* whatever order their handlers run, the IDA file gets at most one line  *)
(* for it.                                                                *)
THEOREM IdaFlushedOnce == Spec => []IdaFlushOnce
<1>1. Spec => []IdaInv
  BY InitIdaInv, NextIdaInv, PTL DEF Spec
<1>2. QED
  BY <1>1, PTL DEF IdaInv

-----------------------------------------------------------------------------
(* The route tracker implements RouteStore: under start <- rStart,        *)
(* end <- rEnd, lines <- routeLines, addStart and addEnd are first-write- *)
(* wins writes (a step that finds the time set stutters), and the flush   *)
(* after a successful addEnd is RouteStore's Flush: RouteInv gives that   *)
(* the flushing handler's end is set and its id has no line yet.  Every   *)
(* other handler step leaves the three variables alone.                   *)

LEMMA RouteStep == RouteInv /\ [Next]_vars => [Route!Next]_Route!storeVars
<1> SUFFICES ASSUME RouteInv, [Next]_vars
             PROVE  [Route!Next]_Route!storeVars
  OBVIOUS
<1>1. ASSUME NEW h \in Handlers, RouteTxStart(h)
      PROVE  [Route!Next]_Route!storeVars
  <2> DEFINE x == msg[h].id
             t == msg[h].t
  <2>1. x \in Ids /\ t \in Times
    BY <1>1 DEF RouteTxStart, Received, RouteInv, TypeOK, Msgs
  <2>2. CASE rStart[x] = Zero
    <3>1. Route!MarkStart(x, t)
      BY <1>1, <2>2 DEF RouteTxStart, Route!MarkStart
    <3>2. QED
      BY <2>1, <3>1 DEF Route!Next
  <2>3. CASE rStart[x] # Zero
    <3>1. rStart' = rStart
      BY <1>1, <2>1, <2>3 DEF RouteTxStart, RouteInv, TypeOK
    <3>2. QED
      BY <1>1, <3>1 DEF RouteTxStart, Route!storeVars
  <2>4. QED
    BY <2>2, <2>3
<1>2. ASSUME NEW h \in Handlers, TxReceivedEnd(h)
      PROVE  [Route!Next]_Route!storeVars
  <2> DEFINE x == msg[h].id
             t == msg[h].t
  <2>1. x \in Ids /\ t \in Times
    BY <1>2 DEF TxReceivedEnd, Received, RouteInv, TypeOK, Msgs
  <2>2. CASE rEnd[x] = Zero
    <3>1. Route!MarkEnd(x, t)
      BY <1>2, <2>2 DEF TxReceivedEnd, Route!MarkEnd
    <3>2. QED
      BY <2>1, <3>1 DEF Route!Next
  <2>3. CASE rEnd[x] # Zero
    BY <1>2, <2>3 DEF TxReceivedEnd, Route!storeVars
  <2>4. QED
    BY <2>2, <2>3
<1>3. ASSUME NEW h \in Handlers, TxReceivedFlush(h)
      PROVE  [Route!Next]_Route!storeVars
  <2> DEFINE x == msg[h].id
  <2>1. x \in Ids
    BY <1>3 DEF TxReceivedFlush, RouteInv, TypeOK, Msgs
  <2>2. rEnd[x] # Zero /\ ~Route!Flushed(x)
    BY <1>3 DEF TxReceivedFlush, RouteInv, Flushing, Route!Flushed
  <2>3. Route!Flush(x)
    BY <1>3, <2>2 DEF TxReceivedFlush, Route!Flush
  <2>4. QED
    BY <2>1, <2>3 DEF Route!Next
<1>4. ASSUME NEW h \in Handlers,
             \/ \E m \in Msgs : Accept(h, m)
             \/ FindNodeAdd(h) \/ StartIdaGossip(h) \/ ReconstructedAdd(h)
             \/ ReconstructedFlush(h) \/ UnknownType(h) \/ InertTag(h)
             \/ FinalBlockForward(h) \/ LogDuration(h) \/ AcceptFailReport(h)
      PROVE  [Route!Next]_Route!storeVars
  BY <1>4 DEF Accept, FindNodeAdd, StartIdaGossip, ReconstructedAdd,
     ReconstructedFlush, UnknownType, InertTag, FinalBlockForward,
     LogDuration, AcceptFailReport, Route!storeVars
<1>5. CASE TxGenTake
  BY <1>5 DEF TxGenTake, Route!storeVars
<1>6. CASE UNCHANGED vars
  BY <1>6 DEF vars, Route!storeVars
<1>7. QED
  BY <1>1, <1>2, <1>3, <1>4, <1>5, <1>6 DEF Next, Handle

(* The route tracker refines the first-write-wins store RouteStore.       *)
THEOREM RouteRefinement == Spec => RouteStoreSpec
<1>1. Init => Route!Init
  BY DEF Init, Route!Init
<1>2. Spec => []RouteInv
  BY InitRouteInv, NextRouteInv, PTL DEF Spec
<1>3. QED
  BY <1>1, <1>2, RouteStep, PTL DEF Spec, RouteStoreSpec, Route!Spec
-----------------------------------------------------------------------------
(* A routing line never contradicts its record.  addEnd only writes a     *)
(* zero end, and a written line's end is not zero (RouteInv), so lines    *)
(* keep their end; addStart only replaces a zero start, which a line      *)
(* either carries as "0" or does not carry at all.                        *)

(* Every line of the routing and IDA files is a record of its line type. *)
LEMMA LineTypes ==
  ASSUME TypeOK
  PROVE  /\ \A k \in DOMAIN routeLines : routeLines[k] \in RouteLine
         /\ \A k \in DOMAIN idaLines : idaLines[k] \in IdaLine
  BY LenProperties DEF TypeOK

LEMMA InitFaithInv == Init => FaithInv
  BY InitRouteInv DEF Init, FaithInv, RouteLineFaithful

LEMMA NextFaithInv == FaithInv /\ [Next]_vars => FaithInv'
<1> SUFFICES ASSUME FaithInv, [Next]_vars PROVE FaithInv'
  OBVIOUS
<1>0. RouteInv' /\ TypeOK
  BY NextRouteInv DEF FaithInv, RouteInv
<1> USE <1>0 DEF FaithInv
<1>1. ASSUME NEW h \in Handlers, RouteTxStart(h) PROVE RouteLineFaithful'
  <2> DEFINE x == msg[h].id
  <2>1. x \in Ids /\ routeLines' = routeLines /\ rEnd' = rEnd
    BY <1>1 DEF RouteTxStart, Received, TypeOK, Msgs
  <2>2. rStart' = [rStart EXCEPT ![x] = IF @ = Zero THEN msg[h].t ELSE @]
    BY <1>1 DEF RouteTxStart
  <2>3. \A k \in DOMAIN routeLines : routeLines[k].id \in Ids
    BY LineTypes DEF RouteLine
  <2>4. QED
    BY <2>1, <2>2, <2>3, <1>0 DEF RouteLineFaithful, TypeOK
<1>2. ASSUME NEW h \in Handlers, TxReceivedEnd(h) PROVE RouteLineFaithful'
  <2> DEFINE x == msg[h].id
  <2>1. x \in Ids /\ routeLines' = routeLines /\ rStart' = rStart
    BY <1>2 DEF TxReceivedEnd, Received, TypeOK, Msgs
  <2>2. rEnd' = [rEnd EXCEPT ![x] = IF rEnd[x] = Zero THEN msg[h].t ELSE @]
    BY <1>2, <1>0 DEF TxReceivedEnd, TypeOK
  <2>3. \A k \in DOMAIN routeLines : routeLines[k].id \in Ids
                                      /\ rEnd[routeLines[k].id] # Zero
    BY LineTypes DEF RouteLine, RouteInv
  <2>4. QED
    BY <2>1, <2>2, <2>3, <1>0 DEF RouteLineFaithful, TypeOK
<1>3. ASSUME NEW h \in Handlers, TxReceivedFlush(h) PROVE RouteLineFaithful'
  <2> DEFINE x == msg[h].id
             l == [id |-> x, start |-> rStart[x], end |-> rEnd[x]]
  <2>1. x \in Ids /\ l \in RouteLine
    BY <1>3 DEF TxReceivedFlush, TypeOK, Msgs, RouteLine
  <2>2. routeLines' = Append(routeLines, l) /\ UNCHANGED <<rStart, rEnd>>
    BY <1>3 DEF TxReceivedFlush
  <2>3. /\ DOMAIN routeLines' = 1..Len(routeLines) + 1
        /\ \A k \in 1..Len(routeLines) : routeLines'[k] = routeLines[k]
        /\ routeLines'[Len(routeLines) + 1] = l
    BY <2>1, <2>2, <1>0, AppendProperties DEF TypeOK
  <2>4. QED
    BY <2>2, <2>3, <1>0 DEF RouteLineFaithful, TypeOK
<1>4. ASSUME NEW h \in Handlers,
             \/ \E m \in Msgs : Accept(h, m)
             \/ FindNodeAdd(h) \/ StartIdaGossip(h) \/ ReconstructedAdd(h)
             \/ ReconstructedFlush(h) \/ UnknownType(h) \/ InertTag(h)
             \/ FinalBlockForward(h) \/ LogDuration(h) \/ AcceptFailReport(h)
      PROVE  RouteLineFaithful'
  <2>1. UNCHANGED <<rStart, rEnd, routeLines>>
    BY <1>4 DEF Accept, FindNodeAdd, StartIdaGossip, ReconstructedAdd,
       ReconstructedFlush, UnknownType, InertTag, FinalBlockForward,
       LogDuration, AcceptFailReport
  <2>2. QED
    BY <2>1 DEF RouteLineFaithful
<1>5. CASE TxGenTake \/ UNCHANGED vars
  BY <1>5 DEF TxGenTake, vars, RouteLineFaithful
<1>6. QED
  BY <1>0, <1>1, <1>2, <1>3, <1>4, <1>5 DEF Next, Handle

(* A line written to the routing file for a tx carries that tx's end     *)
(* time as the record holds it, and a start that is "0" or the record's   *)
(* first start: racing routetx and transaction_recieved reports do not    *)
(* make the file contradict the tracker.                                  *)
THEOREM RouteLinesFaithful == Spec => []RouteLineFaithful
<1>1. Spec => []FaithInv
  BY InitFaithInv, NextFaithInv, PTL DEF Spec
<1>2. QED
  BY <1>1, PTL DEF FaithInv

-----------------------------------------------------------------------------
(* A written IDA list stays a prefix of the record's list: addReconstructed *)
(* only appends, and the first n entries of a list are those of the list  *)
(* with one more entry appended.                                          *)

LEMMA PrefixOfAppend ==
  ASSUME NEW S, NEW s \in Seq(S), NEW t \in S, NEW n \in 0..Len(s)
  PROVE  SubSeq(Append(s, t), 1, n) = SubSeq(s, 1, n)
<1>1. /\ Append(s, t) \in Seq(S)
      /\ \A i \in 1..Len(s) : Append(s, t)[i] = s[i]
  BY AppendProperties
<1>2. /\ Len(SubSeq(Append(s, t), 1, n)) = n
      /\ \A i \in 1..n : SubSeq(Append(s, t), 1, n)[i] = Append(s, t)[i]
  BY <1>1, SubSeqProperties, ElementOfSeq
<1>3. /\ Len(SubSeq(s, 1, n)) = n
      /\ \A i \in 1..n : SubSeq(s, 1, n)[i] = s[i]
  BY SubSeqProperties, ElementOfSeq
<1>4. SubSeq(Append(s, t), 1, n) \in Seq(S) /\ SubSeq(s, 1, n) \in Seq(S)
  BY <1>1, SubSeqProperties, ElementOfSeq
<1>5. QED
  BY <1>1, <1>2, <1>3, <1>4, SeqEqual

LEMMA InitPrefixInv == Init => PrefixInv
  BY InitIdaInv DEF Init, PrefixInv, IdaLineIsPrefix

LEMMA NextPrefixInv == PrefixInv /\ [Next]_vars => PrefixInv'
<1> SUFFICES ASSUME PrefixInv, [Next]_vars PROVE PrefixInv'
  OBVIOUS
<1>0. IdaInv' /\ TypeOK /\ TypeOK'
  BY NextIdaInv DEF PrefixInv, IdaInv
<1> DEFINE Bound == \A k \in DOMAIN idaLines :
                      Len(idaLines[k].recs) <= Len(idaRec[idaLines[k].id])
<1> USE <1>0 DEF PrefixInv
<1>1. ASSUME NEW h \in Handlers, ReconstructedAdd(h)
      PROVE  IdaLineIsPrefix' /\ Bound'
  <2> DEFINE x == msg[h].id
  <2>1. x \in Ids /\ msg[h].t \in Times
    BY <1>1 DEF ReconstructedAdd, Received, TypeOK, Msgs
  <2>2. idaRec' = [idaRec EXCEPT ![x] = Append(@, msg[h].t)]
        /\ idaLines' = idaLines
    BY <1>1 DEF ReconstructedAdd
  <2>3. SUFFICES ASSUME NEW k \in DOMAIN idaLines
                 PROVE  /\ Len(idaLines[k].recs) >= 1
                        /\ idaLines[k].recs
                             = SubSeq(idaRec'[idaLines[k].id], 1,
                                      Len(idaLines[k].recs))
                        /\ Len(idaLines[k].recs)
                             <= Len(idaRec'[idaLines[k].id])
    BY <2>2 DEF IdaLineIsPrefix
  <2> DEFINE y == idaLines[k].id
             n == Len(idaLines[k].recs)
  <2>4. y \in Ids /\ idaRec[y] \in Seq(Times) /\ n \in 0..Len(idaRec[y])
    <3>1. y \in Ids /\ idaLines[k].recs \in Seq(Times)
      BY LineTypes DEF IdaLine
    <3>2. idaRec[y] \in Seq(Times)
      BY <3>1 DEF TypeOK
    <3>3. n \in Nat /\ n <= Len(idaRec[y])
      BY <3>1, LenProperties
    <3>4. QED
      BY <3>1, <3>2, <3>3
  <2>5. n >= 1 /\ idaLines[k].recs = SubSeq(idaRec[y], 1, n)
    BY DEF IdaLineIsPrefix
  <2>6. CASE y = x
    <3>1. idaRec'[y] = Append(idaRec[y], msg[h].t)
      BY <2>1, <2>2, <2>6 DEF TypeOK
    <3>2. SubSeq(idaRec'[y], 1, n) = SubSeq(idaRec[y], 1, n)
      BY <2>1, <2>4, <3>1, PrefixOfAppend
    <3>3. Len(idaRec'[y]) = Len(idaRec[y]) + 1
      BY <2>1, <2>4, <3>1, AppendProperties
    <3>4. QED
      BY <2>4, <2>5, <3>2, <3>3
  <2>7. CASE y # x
    BY <2>2, <2>4, <2>5, <2>7 DEF TypeOK
  <2>8. QED
    BY <2>6, <2>7
<1>2. ASSUME NEW h \in Handlers, ReconstructedFlush(h)
      PROVE  IdaLineIsPrefix' /\ Bound'
  <2> DEFINE x == msg[h].id
             l == [id |-> x, start |-> idaStart[x], recs |-> idaRec[x]]
  <2>1. x \in Ids /\ l \in IdaLine /\ idaRec[x] # <<>>
    BY <1>2 DEF ReconstructedFlush, TypeOK, Msgs, IdaLine, IdaInv,
       IdaFlushing
  <2>2. idaLines' = Append(idaLines, l) /\ idaRec' = idaRec
    BY <1>2 DEF ReconstructedFlush
  <2>3. /\ DOMAIN idaLines' = 1..Len(idaLines) + 1
        /\ \A k \in 1..Len(idaLines) : idaLines'[k] = idaLines[k]
        /\ idaLines'[Len(idaLines) + 1] = l
    BY <2>1, <2>2, AppendProperties DEF TypeOK
  <2>4. /\ Len(idaRec[x]) >= 1
        /\ SubSeq(idaRec[x], 1, Len(idaRec[x])) = idaRec[x]
    BY <2>1, SubSeqFull, EmptySeq DEF TypeOK
  <2>5. QED
    BY <2>2, <2>3, <2>4 DEF IdaLineIsPrefix, TypeOK
<1>3. ASSUME NEW h \in Handlers,
             \/ \E m \in Msgs : Accept(h, m)
             \/ RouteTxStart(h) \/ FindNodeAdd(h) \/ TxReceivedEnd(h)
             \/ TxReceivedFlush(h) \/ StartIdaGossip(h) \/ UnknownType(h)
             \/ InertTag(h) \/ FinalBlockForward(h) \/ LogDuration(h)
             \/ AcceptFailReport(h)
      PROVE  IdaLineIsPrefix' /\ Bound'
  <2>1. UNCHANGED <<idaRec, idaLines>>
    BY <1>3 DEF Accept, RouteTxStart, FindNodeAdd, TxReceivedEnd,
       TxReceivedFlush, StartIdaGossip, UnknownType, InertTag,
       FinalBlockForward, LogDuration, AcceptFailReport
  <2>2. QED
    BY <2>1 DEF IdaLineIsPrefix
<1>4. CASE TxGenTake \/ UNCHANGED vars
  BY <1>4 DEF TxGenTake, vars, IdaLineIsPrefix
<1>5. QED
  BY <1>0, <1>1, <1>2, <1>3, <1>4 DEF Next, Handle

(* The reconstruction list flushed for a broadcast is non-empty and is a  *)
(* prefix of the list the record holds at every later time: appends of    *)
(* concurrent reconstructed_ida_gossip handlers keep their call order and *)
(* none of the written entries is lost or replaced.                       *)
THEOREM IdaLinesArePrefixes == Spec => []IdaLineIsPrefix
<1>1. Spec => []PrefixInv
  BY InitPrefixInv, NextPrefixInv, PTL DEF Spec
<1>2. QED
  BY <1>1, PTL DEF PrefixInv

=============================================================================
