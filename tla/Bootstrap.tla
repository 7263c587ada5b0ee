------------------------------ MODULE Bootstrap ------------------------------
(***************************************************************************)
(* The bootstrap phase of the coordinator (src/coordinator.go, lines       *)
(* 145-424): the main goroutine accepts N connections and then waits on    *)
(* wg_done; each connection's goroutine (coordinatorHandleConnection)      *)
(* decodes the node's identity, pushes it on chanToCoordinator (capacity   *)
(* n), signals wg, waits for its response on its own unbuffered channel    *)
(* chanToNodes[i], encodes it and signals wg_done; the coordinator         *)
(* goroutine waits on wg, closes and drains chanToCoordinator, shuffles    *)
(* and assigns the nodes, and sends the response to chanToNodes[0..n-1] in *)
(* order before it runs the transaction generator.                         *)
(*                                                                         *)
(* Connection i (accept order) stands for the node it serves; its identity *)
(* (public key, address) is represented by i.  The committee assignment    *)
(* is module CommitteeAssign; here it either completes or ends the process *)
(* (log.Fatal or a panic), whichever its parameters make it do.            *)
(***************************************************************************)
EXTENDS Naturals, Sequences

CONSTANT N   \* flagArgs.n

ASSUME BootstrapAssumption == N \in Nat \ {0}

Conns == 0..N-1

VARIABLES
  mainPc,     \* main goroutine: "accept", "wait_done" or "debug"
  accepted,   \* connections accepted so far (i of the accept loop)
  hpc,        \* hpc[i]: where connection goroutine i is
  chan,       \* buffered contents of chanToCoordinator
  closed,     \* chanToCoordinator has been closed
  wg,         \* counter of wg
  wgDone,     \* counter of wg_done
  cpc,        \* coordinator goroutine
  nodeInfos,  \* the coordinator's node list
  sendIdx,    \* next chanToNodes index the coordinator sends to
  resp,       \* resp[i]: node list of the response i received (or <<>>)
  delivered,  \* delivered[i]: i's response has been encoded onto the conn
  exited      \* the process has ended (log.Fatal, panic)

vars == <<mainPc, accepted, hpc, chan, closed, wg, wgDone, cpc, nodeInfos,
          sendIdx, resp, delivered, exited>>

(* Mutant: chanToCoordinator made unbuffered. *)
ChanCapZero == 0

(* make(chan InitialMessageToCoordinator, flagArgs.n) *)
ChanCap == N

HPCs == {"unborn", "decode", "send", "signal", "recv", "encode", "signal_done",
         "finished"}

CPCs == {"wait", "drain", "assign", "send", "txgen"}

\* rand.Shuffle: any permutation of the positions 1..N
Perms == {p \in [1..N -> 1..N] : \A a, b \in 1..N : a # b => p[a] # p[b]}

Init ==
  /\ mainPc = "accept"
  /\ accepted = 0
  /\ hpc = [i \in Conns |-> "unborn"]
  /\ chan = <<>>
  /\ closed = FALSE
  /\ wg = N
  /\ wgDone = N
  /\ cpc = "wait"
  /\ nodeInfos = <<>>
  /\ sendIdx = 0
  /\ resp = [i \in Conns |-> <<>>]
  /\ delivered = [i \in Conns |-> FALSE]
  /\ exited = FALSE

-----------------------------------------------------------------------------
(* main: the accept loop (lines 205-217) and wg_done.Wait (line 219). *)

(* Mutant: the accept loop runs once too often ("i <= flagArgs.n").       *)
AcceptConnOffByOne ==
  /\ mainPc = "accept"
  /\ hpc' = [hpc EXCEPT ![accepted] = "decode"]
  /\ accepted' = accepted + 1
  /\ mainPc' = IF accepted = N THEN "wait_done" ELSE "accept"
  /\ UNCHANGED <<chan, closed, wg, wgDone, cpc, nodeInfos, sendIdx, resp,
                 delivered, exited>>

AcceptConn ==
  /\ mainPc = "accept"
  /\ hpc' = [hpc EXCEPT ![accepted] = "decode"]
  /\ accepted' = accepted + 1
  /\ mainPc' = IF accepted + 1 = N THEN "wait_done" ELSE "accept"
  /\ UNCHANGED <<chan, closed, wg, wgDone, cpc, nodeInfos, sendIdx, resp,
                 delivered, exited>>

(* Mutant: main passes the barrier one signal early (wg_done.Add(n-1)).   *)
MainWaitDoneEarly ==
  /\ mainPc = "wait_done"
  /\ wgDone <= 1
  /\ mainPc' = "debug"
  /\ UNCHANGED <<accepted, hpc, chan, closed, wg, wgDone, cpc, nodeInfos,
                 sendIdx, resp, delivered, exited>>

MainWaitDone ==
  /\ mainPc = "wait_done"
  /\ wgDone = 0
  /\ mainPc' = "debug"
  /\ UNCHANGED <<accepted, hpc, chan, closed, wg, wgDone, cpc, nodeInfos,
                 sendIdx, resp, delivered, exited>>

-----------------------------------------------------------------------------
(* coordinatorHandleConnection (lines 246-275), for connection i. *)

Step(i, from, to) == hpc[i] = from /\ hpc' = [hpc EXCEPT ![i] = to]

(* dec.Decode succeeds ...                                                *)
Decode(i) ==
  /\ Step(i, "decode", "send")
  /\ UNCHANGED <<mainPc, accepted, chan, closed, wg, wgDone, cpc, nodeInfos,
                 sendIdx, resp, delivered, exited>>

(* ... or fails, and ifErrFatal ends the process.                         *)
DecodeFail(i) ==
  /\ hpc[i] = "decode"
  /\ exited' = TRUE
  /\ UNCHANGED <<mainPc, accepted, hpc, chan, closed, wg, wgDone, cpc,
                 nodeInfos, sendIdx, resp, delivered>>

(* chanToCoordinator <- {pub, addr}: blocks while the buffer is full; a   *)
(* send on the closed channel panics.                                     *)
SendIdentity(i) ==
  /\ hpc[i] = "send"
  /\ IF closed
       THEN exited' = TRUE /\ UNCHANGED <<hpc, chan>>
       ELSE /\ Len(chan) < ChanCap
            /\ chan' = Append(chan, i)
            /\ hpc' = [hpc EXCEPT ![i] = "signal"]
            /\ UNCHANGED exited
  /\ UNCHANGED <<mainPc, accepted, closed, wg, wgDone, cpc, nodeInfos,
                 sendIdx, resp, delivered>>

(* wg.Done() *)
SignalRegistered(i) ==
  /\ Step(i, "signal", "recv")
  /\ wg' = wg - 1
  /\ UNCHANGED <<mainPc, accepted, chan, closed, wgDone, cpc, nodeInfos,
                 sendIdx, resp, delivered, exited>>

(* enc.Encode(returnMessage) succeeds ...                                 *)
Encode(i) ==
  /\ Step(i, "encode", "signal_done")
  /\ delivered' = [delivered EXCEPT ![i] = TRUE]
  /\ UNCHANGED <<mainPc, accepted, chan, closed, wg, wgDone, cpc, nodeInfos,
                 sendIdx, resp, exited>>

(* ... or fails, and ifErrFatal ends the process.                         *)
EncodeFail(i) ==
  /\ hpc[i] = "encode"
  /\ exited' = TRUE
  /\ UNCHANGED <<mainPc, accepted, hpc, chan, closed, wg, wgDone, cpc,
                 nodeInfos, sendIdx, resp, delivered>>

(* wg_done.Done() *)
SignalDone(i) ==
  /\ Step(i, "signal_done", "finished")
  /\ wgDone' = wgDone - 1
  /\ UNCHANGED <<mainPc, accepted, chan, closed, wg, cpc, nodeInfos,
                 sendIdx, resp, delivered, exited>>

-----------------------------------------------------------------------------
(* coordinator() (lines 277-424). *)

(* Mutant: the coordinator passes wg one registration early               *)
(* (wg.Add(n-1)).                                                         *)
CoordCloseEarly ==
  /\ cpc = "wait"
  /\ wg <= 1
  /\ closed' = TRUE
  /\ cpc' = "drain"
  /\ UNCHANGED <<mainPc, accepted, hpc, chan, wg, wgDone, nodeInfos, sendIdx,
                 resp, delivered, exited>>

(* wg.Wait(); close(chanToCoordinator) *)
CoordClose ==
  /\ cpc = "wait"
  /\ wg = 0
  /\ closed' = TRUE
  /\ cpc' = "drain"
  /\ UNCHANGED <<mainPc, accepted, hpc, chan, wg, wgDone, nodeInfos, sendIdx,
                 resp, delivered, exited>>

(* for elem := range chanToCoordinator { nodeInfos[i] = elem; i++ } *)
DrainOne ==
  /\ cpc = "drain"
  /\ chan # <<>>
  /\ nodeInfos' = Append(nodeInfos, Head(chan))
  /\ chan' = Tail(chan)
  /\ UNCHANGED <<mainPc, accepted, hpc, closed, wg, wgDone, cpc, sendIdx,
                 resp, delivered, exited>>

DrainEnd ==
  /\ cpc = "drain"
  /\ chan = <<>>
  /\ cpc' = "assign"
  /\ UNCHANGED <<mainPc, accepted, hpc, chan, closed, wg, wgDone, nodeInfos,
                 sendIdx, resp, delivered, exited>>

(* rand.Shuffle, committee assignment and its checks, genesis and         *)
(* reconfiguration block (lines 299-417): the list is permuted and the    *)
(* response is built ...                                                  *)
Assign ==
  /\ cpc = "assign"
  /\ \E p \in Perms :
       nodeInfos' = [k \in 1..N |-> nodeInfos[p[k]]]
  /\ cpc' = "send"
  /\ UNCHANGED <<mainPc, accepted, hpc, chan, closed, wg, wgDone, sendIdx,
                 resp, delivered, exited>>

(* ... or a check of the assignment fails and log.Fatal (or a runtime     *)
(* panic) ends the process.                                               *)
AssignAbort ==
  /\ cpc = "assign"
  /\ exited' = TRUE
  /\ UNCHANGED <<mainPc, accepted, hpc, chan, closed, wg, wgDone, cpc,
                 nodeInfos, sendIdx, resp, delivered>>

(* for _, c := range chanToNodes { c <- msg }: an unbuffered send, a      *)
(* rendezvous with connection sendIdx's "<-chanFromCoordinator".          *)
SendResponse ==
  /\ cpc = "send"
  /\ Step(sendIdx, "recv", "encode")
  /\ resp' = [resp EXCEPT ![sendIdx] = nodeInfos]
  /\ sendIdx' = sendIdx + 1
  /\ cpc' = IF sendIdx + 1 = N THEN "txgen" ELSE "send"
  /\ UNCHANGED <<mainPc, accepted, chan, closed, wg, wgDone, nodeInfos,
                 delivered, exited>>

(* The process has ended, or bootstrap is over: main serves the debug     *)
(* listener and the coordinator runs txGenerator (module Telemetry).      *)
Terminating ==
  /\ exited \/ (mainPc = "debug" /\ cpc = "txgen")
  /\ UNCHANGED vars

Conn(i) ==
  \/ Decode(i)
  \/ DecodeFail(i)
  \/ SendIdentity(i)
  \/ SignalRegistered(i)
  \/ Encode(i)
  \/ EncodeFail(i)
  \/ SignalDone(i)

Coordinator ==
  \/ CoordClose
  \/ DrainOne
  \/ DrainEnd
  \/ Assign
  \/ AssignAbort
  \/ SendResponse

Next ==
  \/ /\ ~exited
     /\ \/ AcceptConn
        \/ MainWaitDone
        \/ \E i \in Conns : Conn(i)
        \/ Coordinator
  \/ Terminating

(* Every goroutine that can run is eventually run (Go's scheduler), and   *)
(* every one of the N nodes does connect (the experiment launches them).  *)
(* Only steps that end the process are not taken on fairness.             *)
Fairness ==
  /\ WF_vars(~exited /\ AcceptConn)
  /\ WF_vars(~exited /\ MainWaitDone)
  /\ \A i \in Conns :
       /\ WF_vars(~exited /\ Decode(i))
       /\ WF_vars(~exited /\ SendIdentity(i))
       /\ WF_vars(~exited /\ SignalRegistered(i))
       /\ WF_vars(~exited /\ Encode(i))
       /\ WF_vars(~exited /\ SignalDone(i))
  /\ WF_vars(~exited /\ (CoordClose \/ DrainOne \/ DrainEnd \/ Assign
                         \/ SendResponse))

Spec == Init /\ [][Next]_vars

FairSpec == Spec /\ Fairness

-----------------------------------------------------------------------------
(* Properties *)

TypeOK ==
  /\ mainPc \in {"accept", "wait_done", "debug"}
  /\ accepted \in 0..N
  /\ hpc \in [Conns -> HPCs]
  /\ chan \in Seq(Conns)
  /\ closed \in BOOLEAN
  /\ wg \in 0..N
  /\ wgDone \in 0..N
  /\ cpc \in CPCs
  /\ nodeInfos \in Seq(Conns)
  /\ sendIdx \in 0..N
  /\ resp \in [Conns -> Seq(Conns)]
  /\ delivered \in [Conns -> BOOLEAN]
  /\ exited \in BOOLEAN

IsPermutationOfConns(s) ==
  /\ Len(s) = N
  /\ \A i \in Conns : \E k \in 1..N : s[k] = i

(* The coordinator builds its node list only after every connection has   *)
(* registered: once drained, the list holds each of the N nodes exactly   *)
(* once, and every response handed out carries that whole list.           *)
RegistryComplete ==
  /\ cpc \in {"assign", "send", "txgen"} => IsPermutationOfConns(nodeInfos)
  /\ \A i \in Conns : resp[i] # <<>> => IsPermutationOfConns(resp[i])

(* main starts serving telemetry only after every node's response has     *)
(* been written to its connection.                                        *)
DebugAfterAllResponses ==
  mainPc = "debug" => \A i \in Conns : delivered[i]

(* Bootstrap ends: either main reaches the debug listener or the process  *)
(* has stopped on a fatal error; nobody waits on anybody for ever.        *)
BootstrapCompletes == <>(exited \/ mainPc = "debug")

=============================================================================
