--------------------------- MODULE BootstrapProofs ---------------------------
(***************************************************************************)
(* Proofs about Bootstrap for every number N of nodes.                     *)
(***************************************************************************)
EXTENDS Bootstrap, FiniteSets, FiniteSetTheorems, SequenceTheorems, TLAPS

(* The connection goroutines that have not yet called wg_done.Done().     *)
Pending == {i \in Conns : hpc[i] # "finished"}

(* DebugAfterAllResponses strengthened: wg_done counts exactly the         *)
(* goroutines that have not signalled, a goroutine signals only after its  *)
(* Encode succeeded, and the accept loop only spawns goroutines that were  *)
(* never started, so no signal is counted twice.                           *)
DoneInv ==
  /\ mainPc \in {"accept", "wait_done", "debug"}
  /\ accepted \in 0..N
  /\ hpc \in [Conns -> HPCs]
  /\ delivered \in [Conns -> BOOLEAN]
  /\ mainPc = "accept" => accepted < N
  /\ \A i \in Conns : i >= accepted => hpc[i] = "unborn"
  /\ wgDone = Cardinality(Pending)
  /\ \A i \in Conns : hpc[i] \in {"signal_done", "finished"} => delivered[i]
  /\ mainPc = "debug" => \A i \in Conns : hpc[i] = "finished"

(* The goroutines that have pushed their identity on chanToCoordinator,  *)
(* and those that have not yet called wg.Done().                          *)
Sent == {i \in Conns : hpc[i] \in {"signal", "recv", "encode", "signal_done",
                                   "finished"}}
Unsignalled == {i \in Conns : hpc[i] \in {"unborn", "decode", "send", "signal"}}

\* the identities a sequence holds
Elems(s) == {s[k] : k \in 1..Len(s)}

(* RegistryComplete strengthened: until the drain ends, the node list and *)
(* the channel buffer together hold exactly the identities sent, one per  *)
(* slot; wg counts the goroutines that have not signalled, so once the    *)
(* coordinator passes wg.Wait() every identity has been sent and nobody   *)
(* sends after the close; the response goes out only while the list is a  *)
(* permutation.                                                            *)
RegInv ==
  /\ DoneInv
  /\ chan \in Seq(Conns)
  /\ nodeInfos \in Seq(Conns)
  /\ closed \in BOOLEAN
  /\ exited \in BOOLEAN
  /\ cpc \in CPCs
  /\ sendIdx \in 0..N
  /\ resp \in [Conns -> Seq(Conns)]
  /\ wg = Cardinality(Unsignalled)
  /\ closed <=> cpc # "wait"
  /\ cpc = "wait" => nodeInfos = <<>>
  /\ cpc \in {"wait", "drain"} =>
       /\ Elems(nodeInfos) \cup Elems(chan) = Sent
       /\ Len(nodeInfos) + Len(chan) = Cardinality(Sent)
  /\ cpc # "wait" => Unsignalled = {} /\ Sent = Conns
  /\ cpc \in {"assign", "send", "txgen"} =>
       IsPermutationOfConns(nodeInfos) /\ chan = <<>>
  /\ cpc \in {"wait", "drain", "assign"} => sendIdx = 0
  /\ cpc = "send" => sendIdx < N
  /\ \A i \in Conns : resp[i] # <<>> => IsPermutationOfConns(resp[i])

-----------------------------------------------------------------------------

LEMMA PendingFinite == IsFiniteSet(Pending)
<1>1. IsFiniteSet(Conns)
  BY BootstrapAssumption, FS_Interval DEF Conns
<1>2. QED
  BY <1>1, FS_Subset DEF Pending

(* A step of one goroutine between two states other than "finished"       *)
(* leaves the pending set, and so the count of wg_done, as it is.          *)
LEMMA StepKeepsPending ==
  ASSUME hpc \in [Conns -> HPCs], NEW j, NEW to \in HPCs,
         hpc[j] # "finished", to # "finished",
         hpc' = [hpc EXCEPT ![j] = to]
  PROVE  Pending' = Pending
  BY DEF Pending

LEMMA InitDoneInv == Init => DoneInv
<1> SUFFICES ASSUME Init PROVE DoneInv
  OBVIOUS
<1>1. Pending = Conns
  BY DEF Init, Pending
<1>2. Cardinality(Conns) = N
  BY BootstrapAssumption, FS_Interval DEF Conns
<1>3. QED
  BY <1>1, <1>2, BootstrapAssumption DEF Init, DoneInv, HPCs, Conns
LEMMA NextDoneInv == DoneInv /\ [Next]_vars => DoneInv'
<1> SUFFICES ASSUME DoneInv, [Next]_vars PROVE DoneInv'
  OBVIOUS
<1> USE DEF DoneInv
<1>1. CASE AcceptConn
  <2>1. accepted \in Conns /\ hpc[accepted] = "unborn"
    <3>1. mainPc = "accept"
      BY <1>1 DEF AcceptConn
    <3>2. accepted \in Conns
      BY <3>1, BootstrapAssumption DEF Conns
    <3>3. QED
      BY <3>2
  <2>2. Pending' = Pending
    BY <1>1, <2>1, StepKeepsPending DEF AcceptConn, HPCs
  <2>3. hpc' \in [Conns -> HPCs]
    BY <1>1, <2>1 DEF AcceptConn, HPCs
  <2>4. /\ accepted' \in 0..N
        /\ mainPc' \in {"accept", "wait_done"}
        /\ mainPc' = "accept" => accepted' < N
    BY <1>1, <2>1, BootstrapAssumption DEF AcceptConn, Conns
  <2>5. \A i \in Conns : i >= accepted' => hpc'[i] = "unborn"
    BY <1>1, <2>1, BootstrapAssumption DEF AcceptConn, Conns
  <2>6. QED
    BY <1>1, <2>2, <2>3, <2>4, <2>5 DEF AcceptConn
<1>2. CASE MainWaitDone
  <2>1. Pending = {}
    BY <1>2, PendingFinite, FS_EmptySet DEF MainWaitDone
  <2>2. QED
    BY <1>2, <2>1 DEF MainWaitDone, Pending
(* A handshake step from a live state to a live state other than          *)
(* "finished": the count stays, and debug cannot yet have started.        *)
<1>3. ASSUME NEW i \in Conns, NEW from \in HPCs \ {"finished", "unborn"},
             NEW to \in HPCs \ {"finished", "signal_done"},
             hpc[i] = from, hpc' = [hpc EXCEPT ![i] = to],
             UNCHANGED <<mainPc, accepted, wgDone, delivered>>
      PROVE  DoneInv'
  <2>1. Pending' = Pending
    BY <1>3, StepKeepsPending
  <2>2. mainPc # "debug"
    BY <1>3
  <2>3. QED
    BY <1>3, <2>1, <2>2
<1>4. ASSUME NEW i \in Conns, Decode(i) PROVE DoneInv'
  BY <1>4, <1>3 DEF Decode, Step, HPCs
<1>5. ASSUME NEW i \in Conns, SendIdentity(i) PROVE DoneInv'
  <2>1. CASE closed
    BY <1>5, <2>1 DEF SendIdentity, Pending
  <2>2. CASE ~closed
    BY <1>5, <2>2, <1>3 DEF SendIdentity, HPCs
  <2>3. QED
    BY <2>1, <2>2
<1>6. ASSUME NEW i \in Conns, SignalRegistered(i) PROVE DoneInv'
  BY <1>6, <1>3 DEF SignalRegistered, Step, HPCs
<1>7. ASSUME NEW i \in Conns, Encode(i) PROVE DoneInv'
  <2>1. Pending' = Pending
    BY <1>7, StepKeepsPending DEF Encode, Step, HPCs
  <2>2. mainPc # "debug"
    BY <1>7 DEF Encode, Step
  <2>3. QED
    BY <1>7, <2>1, <2>2 DEF Encode, Step, HPCs, Conns
<1>8. ASSUME NEW i \in Conns, SignalDone(i) PROVE DoneInv'
  <2>1. Pending' = Pending \ {i} /\ i \in Pending
    BY <1>8 DEF SignalDone, Step, Pending
  <2>2. wgDone' = Cardinality(Pending')
    BY <1>8, <2>1, PendingFinite, FS_RemoveElement DEF SignalDone
  <2>3. mainPc # "debug"
    BY <1>8 DEF SignalDone, Step
  <2>4. QED
    BY <1>8, <2>2, <2>3 DEF SignalDone, Step, HPCs
<1>9. ASSUME NEW i \in Conns, DecodeFail(i) \/ EncodeFail(i) PROVE DoneInv'
  BY <1>9 DEF DecodeFail, EncodeFail, Pending
<1>10. CASE SendResponse
  <2>1. CASE sendIdx \in Conns
    BY <1>10, <2>1, <1>3 DEF SendResponse, Step, HPCs
  <2>2. CASE sendIdx \notin Conns
    BY <1>10, <2>2 DEF SendResponse, Step, Pending
  <2>3. QED
    BY <2>1, <2>2
<1>11. CASE CoordClose \/ DrainOne \/ DrainEnd \/ Assign \/ AssignAbort
  BY <1>11 DEF CoordClose, DrainOne, DrainEnd, Assign, AssignAbort, Pending
<1>12. CASE Terminating \/ UNCHANGED vars
  BY <1>12 DEF Terminating, vars, Pending
<1>13. QED
  BY <1>1, <1>2, <1>4, <1>5, <1>6, <1>7, <1>8, <1>9, <1>10, <1>11, <1>12
     DEF Next, Conn, Coordinator

(* main.go's debug listener is started by launchCoordinator only after    *)
(* wg_done.Wait() returns; for every N, by then every connection has      *)
(* encoded its response.                                                   *)
THEOREM DebugAfterResponses == Spec => []DebugAfterAllResponses
<1>1. Spec => []DoneInv
  BY InitDoneInv, NextDoneInv, PTL DEF Spec
<1>2. DoneInv => DebugAfterAllResponses
  BY DEF DoneInv, DebugAfterAllResponses
<1>3. QED
  BY <1>1, <1>2, PTL
-----------------------------------------------------------------------------
(* Lemmas about the sets and sequences the registry is built from.        *)

SentPcs == {"signal", "recv", "encode", "signal_done", "finished"}
UnsignalledPcs == {"unborn", "decode", "send", "signal"}

LEMMA ConnsFinite == IsFiniteSet(Conns) /\ Cardinality(Conns) = N
  BY BootstrapAssumption, FS_Interval DEF Conns

LEMMA SetsFinite == IsFiniteSet(Sent) /\ IsFiniteSet(Unsignalled)
  BY ConnsFinite, FS_Subset DEF Sent, Unsignalled

(* A goroutine step that stays on the same side of the identity send and  *)
(* of wg.Done() leaves Sent and Unsignalled as they are.                  *)
LEMMA StepKeepsSets ==
  ASSUME hpc \in [Conns -> HPCs], NEW j \in Conns, NEW to,
         hpc' = [hpc EXCEPT ![j] = to],
         hpc[j] \in SentPcs <=> to \in SentPcs,
         hpc[j] \in UnsignalledPcs <=> to \in UnsignalledPcs
  PROVE  Sent' = Sent /\ Unsignalled' = Unsignalled
  BY DEF Sent, Unsignalled, SentPcs, UnsignalledPcs

(* rand.Shuffle's permutations are onto: an injection of 1..N into itself *)
(* reaches every position.                                                 *)
LEMMA PermsOnto ==
  ASSUME NEW p \in Perms
  PROVE  \A k0 \in 1..N : \E k \in 1..N : p[k] = k0
<1>1. p \in Injection(1..N, 1..N)
  BY DEF Perms, Injection, IsInjective
<1>2. IsFiniteSet(1..N)
  BY BootstrapAssumption, FS_Interval
<1>3. p \in Surjection(1..N, 1..N)
  BY <1>1, <1>2, FS_Injection
<1>4. QED
  BY <1>3 DEF Surjection

LEMMA ElemsAppend ==
  ASSUME NEW S, NEW s \in Seq(S), NEW e \in S
  PROVE  /\ Elems(Append(s, e)) = Elems(s) \cup {e}
         /\ Len(Append(s, e)) = Len(s) + 1
  BY AppendProperties DEF Elems

LEMMA ElemsHeadTail ==
  ASSUME NEW S, NEW s \in Seq(S), s # <<>>
  PROVE  /\ Elems(s) = {Head(s)} \cup Elems(Tail(s))
         /\ Len(Tail(s)) = Len(s) - 1
         /\ Head(s) \in S /\ Tail(s) \in Seq(S)
<1>1. /\ Head(s) = s[1] /\ Tail(s) \in Seq(S) /\ Len(Tail(s)) = Len(s) - 1
      /\ \A i \in 1..Len(Tail(s)) : Tail(s)[i] = s[i+1]
      /\ Head(s) \in S
  BY HeadTailProperties
<1>2. Len(s) \in Nat \ {0}
  BY EmptySeq
<1>3. QED
  BY <1>1, <1>2 DEF Elems

-----------------------------------------------------------------------------
(* RegistryComplete and type correctness of the bootstrap phase.          *)

LEMMA InitRegInv == Init => RegInv
<1> SUFFICES ASSUME Init PROVE RegInv
  OBVIOUS
<1>1. Unsignalled = Conns /\ Sent = {}
  BY DEF Init, Unsignalled, Sent
<1>2. Cardinality(Unsignalled) = N /\ Cardinality(Sent) = 0
  BY <1>1, ConnsFinite, FS_EmptySet
<1>3. Elems(<<>>) = {} /\ Len(<<>>) = 0 /\ <<>> \in Seq(Conns)
  BY EmptySeq DEF Elems
<1>4. resp \in [Conns -> Seq(Conns)] /\ \A i \in Conns : resp[i] = <<>>
  BY EmptySeq DEF Init
<1>5. DoneInv
  BY InitDoneInv
<1>6. /\ chan \in Seq(Conns) /\ nodeInfos \in Seq(Conns)
      /\ closed \in BOOLEAN /\ exited \in BOOLEAN /\ cpc \in CPCs
      /\ sendIdx \in 0..N /\ wg = Cardinality(Unsignalled)
  <2>1. chan \in Seq(Conns) /\ nodeInfos \in Seq(Conns)
    BY <1>3 DEF Init
  <2>2. closed \in BOOLEAN /\ exited \in BOOLEAN /\ cpc \in CPCs
    BY DEF Init, CPCs
  <2>3. sendIdx \in 0..N /\ wg = Cardinality(Unsignalled)
    BY <1>2, BootstrapAssumption DEF Init
  <2>4. QED
    BY <2>1, <2>2, <2>3
<1>7. /\ Elems(nodeInfos) \cup Elems(chan) = Sent
      /\ Len(nodeInfos) + Len(chan) = Cardinality(Sent)
  BY <1>1, <1>2, <1>3 DEF Init
<1>8. QED
  BY <1>4, <1>5, <1>6, <1>7 DEF Init, RegInv

LEMMA NextRegInv == RegInv /\ [Next]_vars => RegInv'
<1> SUFFICES ASSUME RegInv, [Next]_vars PROVE RegInv'
  OBVIOUS
<1>0. /\ DoneInv'
      /\ hpc \in [Conns -> HPCs]
      /\ mainPc = "accept" => accepted < N
      /\ accepted \in 0..N
      /\ \A i \in Conns : i >= accepted => hpc[i] = "unborn"
  BY NextDoneInv DEF RegInv, DoneInv
<1> USE <1>0 DEF RegInv
(* A step that leaves hpc alone sends no identity and signals nothing.    *)
<1>U. ASSUME UNCHANGED hpc PROVE Sent' = Sent /\ Unsignalled' = Unsignalled
  BY <1>U DEF Sent, Unsignalled
(* A step that only ends the process (ifErrFatal, or the final stutter).  *)
<1>V. ASSUME UNCHANGED <<hpc, chan, closed, wg, cpc, nodeInfos, sendIdx, resp>>,
             exited' \in BOOLEAN
      PROVE  RegInv'
  <2>1. Sent' = Sent /\ Unsignalled' = Unsignalled
    BY <1>V, <1>U
  <2>2. QED
    BY <1>V, <2>1
<1>1. CASE AcceptConn
  <2>1. accepted \in Conns /\ hpc[accepted] = "unborn"
    BY <1>1, BootstrapAssumption DEF AcceptConn, Conns
  <2>2. Sent' = Sent /\ Unsignalled' = Unsignalled
    BY <1>1, <2>1, StepKeepsSets DEF AcceptConn, SentPcs, UnsignalledPcs
  <2>3. QED
    BY <1>1, <2>2 DEF AcceptConn
<1>2. CASE MainWaitDone
  BY <1>2 DEF MainWaitDone, Sent, Unsignalled
(* A handshake step that stays on the same side of the send and of        *)
(* wg.Done() and touches nothing the registry holds.                      *)
<1>3. ASSUME NEW i \in Conns, NEW to,
             hpc' = [hpc EXCEPT ![i] = to],
             hpc[i] \in SentPcs <=> to \in SentPcs,
             hpc[i] \in UnsignalledPcs <=> to \in UnsignalledPcs,
             UNCHANGED <<chan, closed, wg, cpc, nodeInfos, sendIdx, resp>>,
             exited' \in BOOLEAN
      PROVE  RegInv'
  <2>1. Sent' = Sent /\ Unsignalled' = Unsignalled
    BY <1>3, StepKeepsSets
  <2>2. QED
    BY <1>3, <2>1
<1>4. ASSUME NEW i \in Conns, Decode(i) \/ Encode(i) \/ SignalDone(i)
      PROVE  RegInv'
  BY <1>4, <1>3 DEF Decode, Encode, SignalDone, Step, SentPcs, UnsignalledPcs
<1>5. ASSUME NEW i \in Conns, DecodeFail(i) \/ EncodeFail(i) PROVE RegInv'
  BY <1>5, <1>V DEF DecodeFail, EncodeFail
<1>6. ASSUME NEW i \in Conns, SendIdentity(i) PROVE RegInv'
  <2>1. CASE closed
    BY <1>6, <2>1, <1>V DEF SendIdentity
  <2>2. CASE ~closed
    <3>1. cpc = "wait" /\ nodeInfos = <<>> /\ hpc[i] = "send"
      BY <1>6, <2>2 DEF SendIdentity
    <3>2. chan' = Append(chan, i) /\ hpc' = [hpc EXCEPT ![i] = "signal"]
          /\ UNCHANGED <<closed, wg, cpc, nodeInfos, sendIdx, resp, exited>>
      BY <1>6, <2>2 DEF SendIdentity
    <3>3. Sent' = Sent \cup {i} /\ i \notin Sent /\ Unsignalled' = Unsignalled
      BY <3>1, <3>2 DEF Sent, Unsignalled
    <3>4. Cardinality(Sent') = Cardinality(Sent) + 1
      BY <3>3, SetsFinite, FS_AddElement
    <3>5. Elems(chan') = Elems(chan) \cup {i} /\ Len(chan') = Len(chan) + 1
          /\ chan' \in Seq(Conns)
      BY <3>2, ElemsAppend, AppendProperties
    <3>6. QED
      BY <3>1, <3>2, <3>3, <3>4, <3>5
  <2>9. QED
    BY <2>1, <2>2
<1>7. ASSUME NEW i \in Conns, SignalRegistered(i) PROVE RegInv'
  <2>1. hpc[i] = "signal" /\ hpc' = [hpc EXCEPT ![i] = "recv"] /\ wg' = wg - 1
        /\ UNCHANGED <<chan, closed, cpc, nodeInfos, sendIdx, resp, exited>>
    BY <1>7 DEF SignalRegistered, Step
  <2>2. Sent' = Sent /\ Unsignalled' = Unsignalled \ {i} /\ i \in Unsignalled
    BY <2>1 DEF Sent, Unsignalled
  <2>3. wg' = Cardinality(Unsignalled')
    BY <2>1, <2>2, SetsFinite, FS_RemoveElement
  <2>4. cpc = "wait"
    BY <2>2
  <2>5. QED
    BY <2>1, <2>2, <2>3, <2>4
<1>8. CASE CoordClose
  <2>1. Unsignalled = {}
    BY <1>8, SetsFinite, FS_EmptySet DEF CoordClose
  <2>2. Sent = Conns
    BY <2>1 DEF Sent, Unsignalled, HPCs
  <2>3. QED
    BY <1>8, <2>1, <2>2, <1>U DEF CoordClose, CPCs
<1>9. CASE DrainOne
  <2>1. cpc = "drain" /\ chan # <<>> /\ nodeInfos' = Append(nodeInfos, Head(chan))
        /\ chan' = Tail(chan)
        /\ UNCHANGED <<hpc, closed, wg, cpc, sendIdx, resp, exited>>
    BY <1>9 DEF DrainOne
  <2>2. /\ Elems(chan) = {Head(chan)} \cup Elems(chan')
        /\ Len(chan') = Len(chan) - 1
        /\ Head(chan) \in Conns /\ chan' \in Seq(Conns)
    BY <2>1, ElemsHeadTail
  <2>3. /\ Elems(nodeInfos') = Elems(nodeInfos) \cup {Head(chan)}
        /\ Len(nodeInfos') = Len(nodeInfos) + 1
        /\ nodeInfos' \in Seq(Conns)
    BY <2>1, <2>2, ElemsAppend, AppendProperties
  <2>4. Sent' = Sent /\ Unsignalled' = Unsignalled
    BY <2>1 DEF Sent, Unsignalled
  <2>5. QED
    BY <2>1, <2>2, <2>3, <2>4
<1>10. CASE DrainEnd
  <2>1. cpc = "drain" /\ chan = <<>> /\ cpc' = "assign"
        /\ UNCHANGED <<hpc, chan, closed, wg, nodeInfos, sendIdx, resp, exited>>
    BY <1>10 DEF DrainEnd
  <2>2. Elems(nodeInfos) = Conns /\ Len(nodeInfos) = N
    BY <2>1, ConnsFinite, EmptySeq DEF Elems
  <2>3. IsPermutationOfConns(nodeInfos)
    BY <2>2 DEF Elems, IsPermutationOfConns
  <2>4. QED
    BY <2>1, <2>3, <1>U DEF CPCs
<1>11. CASE Assign
  <2>1. PICK p \in Perms : nodeInfos' = [k \in 1..N |-> nodeInfos[p[k]]]
    BY <1>11 DEF Assign
  <2>2. cpc = "assign" /\ cpc' = "send"
        /\ UNCHANGED <<hpc, chan, closed, wg, sendIdx, resp, exited>>
    BY <1>11 DEF Assign
  <2>3. IsPermutationOfConns(nodeInfos) /\ nodeInfos \in Seq(Conns)
    BY <2>2
  <2>4. p \in [1..N -> 1..N]
    BY DEF Perms
  <2>5. nodeInfos' \in Seq(Conns) /\ Len(nodeInfos') = N
    <3>1. Len(nodeInfos) = N
      BY <2>3 DEF IsPermutationOfConns
    <3>2. \A k \in 1..N : nodeInfos[p[k]] \in Conns
      BY <2>3, <2>4, <3>1, ElementOfSeq
    <3>3. nodeInfos' \in [1..N -> Conns]
      BY <2>1, <3>2
    <3>4. QED
      BY <3>3, BootstrapAssumption
  <2>6. \A i \in Conns : \E k \in 1..N : nodeInfos'[k] = i
    <3>1. SUFFICES ASSUME NEW i \in Conns PROVE \E k \in 1..N : nodeInfos'[k] = i
      OBVIOUS
    <3>2. PICK k0 \in 1..N : nodeInfos[k0] = i
      BY <2>3 DEF IsPermutationOfConns
    <3>3. PICK k \in 1..N : p[k] = k0
      BY PermsOnto
    <3>4. QED
      BY <2>1, <3>2, <3>3
  <2>7. IsPermutationOfConns(nodeInfos')
    BY <2>5, <2>6 DEF IsPermutationOfConns
  <2>8. QED
    BY <2>2, <2>5, <2>7, <1>U, BootstrapAssumption DEF CPCs
<1>12. CASE AssignAbort
  BY <1>12, <1>V DEF AssignAbort
<1>13. CASE SendResponse
  <2>1. cpc = "send" /\ sendIdx \in Conns /\ hpc[sendIdx] = "recv"
    <3>1. cpc = "send" /\ hpc[sendIdx] = "recv"
      BY <1>13 DEF SendResponse, Step
    <3>2. sendIdx \in Conns
      BY <3>1, BootstrapAssumption DEF Conns
    <3>3. QED
      BY <3>1, <3>2
  <2>2. hpc' = [hpc EXCEPT ![sendIdx] = "encode"]
        /\ resp' = [resp EXCEPT ![sendIdx] = nodeInfos]
        /\ sendIdx' = sendIdx + 1
        /\ cpc' = (IF sendIdx + 1 = N THEN "txgen" ELSE "send")
        /\ UNCHANGED <<chan, closed, wg, nodeInfos, exited>>
    BY <1>13 DEF SendResponse, Step
  <2>3. Sent' = Sent /\ Unsignalled' = Unsignalled
    BY <2>1, <2>2, StepKeepsSets DEF SentPcs, UnsignalledPcs
  <2>4. IsPermutationOfConns(nodeInfos) /\ nodeInfos # <<>>
    BY <2>1, BootstrapAssumption, EmptySeq DEF IsPermutationOfConns
  <2>5. resp' \in [Conns -> Seq(Conns)]
        /\ \A i \in Conns : resp'[i] # <<>> => IsPermutationOfConns(resp'[i])
    BY <2>1, <2>2, <2>4
  <2>6. sendIdx' \in 0..N /\ cpc' \in {"send", "txgen"}
        /\ (cpc' = "send" => sendIdx' < N)
    BY <2>1, <2>2, BootstrapAssumption DEF Conns
  <2>7. QED
    BY <2>1, <2>2, <2>3, <2>4, <2>5, <2>6 DEF CPCs
<1>14. CASE Terminating \/ UNCHANGED vars
  BY <1>14, <1>V DEF Terminating, vars
<1>15. QED
  BY <1>1, <1>2, <1>4, <1>5, <1>6, <1>7, <1>8, <1>9, <1>10, <1>11, <1>12,
     <1>13, <1>14 DEF Next, Conn, Coordinator

(* The strengthened invariant gives the types: wg and wg_done count       *)
(* subsets of the n connections.                                            *)
LEMMA RegInvTypeOK == RegInv => TypeOK
<1> SUFFICES ASSUME RegInv PROVE TypeOK
  OBVIOUS
<1>1. Cardinality(Unsignalled) \in 0..N /\ Cardinality(Pending) \in 0..N
  BY ConnsFinite, SetsFinite, PendingFinite, FS_Subset, FS_CardinalityType
  DEF Unsignalled, Pending
<1>2. QED
  BY <1>1 DEF RegInv, DoneInv, TypeOK

(* Every reachable state of the bootstrap phase is well typed, for every  *)
(* n: in particular the WaitGroup counters wg and wg_done never go below 0 *)
(* (a negative WaitGroup counter panics in Go) nor above n, and sendIdx    *)
(* never runs past the n connections of chanToNodes.                       *)
THEOREM BootstrapTypeCorrect == Spec => []TypeOK
<1>1. Spec => []RegInv
  BY InitRegInv, NextRegInv, PTL DEF Spec
<1>2. QED
  BY <1>1, RegInvTypeOK, PTL

(* The coordinator's node list, from the end of the drain on, holds each  *)
(* of the n connections exactly once, and every response sent on          *)
(* chanToNodes carries that whole list: no identity is lost to the close  *)
(* of chanToCoordinator and none is read twice, however the handshakes    *)
(* interleave, for every n.                                                *)
THEOREM RegistryCompleteHolds == Spec => []RegistryComplete
<1>1. Spec => []RegInv
  BY InitRegInv, NextRegInv, PTL DEF Spec
<1>2. RegInv => RegistryComplete
  BY DEF RegInv, RegistryComplete
<1>3. QED
  BY <1>1, <1>2, PTL

=============================================================================
