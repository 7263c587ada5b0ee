--------------------------- MODULE CommitteeAssign ---------------------------
(***************************************************************************)
(* The committee-assignment pass of coordinator() (src/coordinator.go,     *)
(* lines 311-389): the shuffled node list is cut into m committees, each   *)
(* node is flagged honest or adversarial, and a verification pass          *)
(* recounts the committees and aborts the process if a bound is broken.    *)
(*                                                                         *)
(* The flags n and m are read in Init (any n >= m >= 1, the domain the     *)
(* spec promises the algorithm for) and stay fixed.  Every loop iteration  *)
(* is one step, in code order.  Committee ids (hash of rand.Intn) are      *)
(* taken to be distinct and are represented by their index c; node j of    *)
(* the list is represented by its position j (the shuffle only permutes    *)
(* which identity sits at a position, and nothing here reads identities).  *)
(***************************************************************************)
EXTENDS Naturals

CONSTANTS
  MaxN,        \* largest node count n tried
  CommitteeF,  \* flagArgs.committeeF, committee tolerance divisor (1/x)
  TotalF       \* flagArgs.totalF, total tolerance divisor (1/x)

ASSUME CommitteeAssignAssumption ==
  /\ MaxN \in Nat \ {0}
  /\ CommitteeF \in Nat \ {0}
  /\ TotalF \in Nat \ {0}

VARIABLES
  n, m,           \* flagArgs.n, flagArgs.m
  pc,             \* which loop the coordinator is in, or how it ended
  i,              \* the index of the loop being run
  c,              \* committee index of the assignment loop
  cid,            \* nodeInfos[j].CommitteeID, as a committee index
  honest,         \* nodeInfos[j].IsHonest
  lastCommittee,  \* lastCommittee of the recount loop
  iCommittee,     \* iCommittee of the recount loop
  infoNpm,        \* committeeInfos[k].npm
  infoF,          \* committeeInfos[k].f
  checkTotalF     \* checkTotalF

vars == <<n, m, pc, i, c, cid, honest, lastCommittee, iCommittee,
          infoNpm, infoF, checkTotalF>>

Npm == n \div m
Rest == n % m

\* math.Ceil(float64(a) / float64(b)) for naturals a and b > 0
CeilDiv(a, b) == (a + b - 1) \div b

Unassigned == m   \* no committee index is m

Init ==
  /\ n \in 1..MaxN
  /\ m \in 1..n
  /\ pc = "assign"
  /\ i = 0
  /\ c = 0
  /\ cid = [j \in 0..n-1 |-> Unassigned]
  /\ honest = [j \in 0..n-1 |-> TRUE]
  /\ lastCommittee = 0
  /\ iCommittee = 0
  /\ infoNpm = [k \in 0..m-1 |-> 0]
  /\ infoF = [k \in 0..m-1 |-> 0]
  /\ checkTotalF = 0

(* One iteration of the assignment loop (lines 315-348).  At a multiple  *)
(* of npm the committee index moves on, except at i = n - rest where     *)
(* t_npm absorbs the remainder instead.  Even committees get 6/3 = 2 as  *)
(* divisor, odd ones 6/1 = 6; f is decremented when t_npm is divisible.  *)
(* Node i is adversarial when i % t_npm < f.  committees[c] with c >= m  *)
(* is an index-out-of-range panic.                                       *)
AssignStep ==
  /\ pc = "assign"
  /\ i < n
  /\ LET boundary == i # 0 /\ i % Npm = 0
         c1 == IF boundary /\ i # n - Rest THEN c + 1 ELSE c
         tNpm == IF boundary /\ i = n - Rest THEN Npm + Rest ELSE Npm
         div == IF c1 % 2 = 0 THEN 6 \div 3 ELSE 6 \div 1
         f == IF tNpm % div = 0 THEN tNpm \div div - 1 ELSE tNpm \div div
     IN IF c1 >= m
          THEN /\ pc' = "index_panic"
               /\ UNCHANGED <<i, c, cid, honest>>
          ELSE /\ cid' = [cid EXCEPT ![i] = c1]
               /\ honest' = [honest EXCEPT ![i] = ~(tNpm = 0 \/ i % tNpm < f)]
               /\ c' = c1
               /\ i' = i + 1
               /\ UNCHANGED pc
  /\ UNCHANGED <<n, m, lastCommittee, iCommittee, infoNpm, infoF, checkTotalF>>

(* End of the assignment loop; the recount starts with                   *)
(* lastCommittee = committees[0] and iCommittee = 0 (lines 351-353).     *)
AssignDone ==
  /\ pc = "assign"
  /\ i = n
  /\ pc' = "recount"
  /\ i' = 0
  /\ lastCommittee' = 0
  /\ iCommittee' = 0
  /\ UNCHANGED <<n, m, c, cid, honest, infoNpm, infoF, checkTotalF>>

(* Mutant: lastCommittee is not updated, so every node after the first    *)
(* committee opens a new committeeInfos entry.                            *)
RecountStepNoLast ==
  /\ pc = "recount"
  /\ i < n
  /\ LET ic == IF cid[i] # lastCommittee THEN iCommittee + 1 ELSE iCommittee
     IN /\ iCommittee' = ic
        /\ infoNpm' = [infoNpm EXCEPT ![ic] = @ + 1]
        /\ infoF' = [infoF EXCEPT ![ic] = IF honest[i] THEN @ ELSE @ + 1]
  /\ i' = i + 1
  /\ UNCHANGED <<n, m, pc, c, cid, honest, lastCommittee, checkTotalF>>

(* Mutant: lastCommittee is updated before the comparison, so the id     *)
(* never differs and every node is counted in committeeInfos[0].          *)
RecountStepLateCompare ==
  /\ pc = "recount"
  /\ i < n
  /\ LET ic == iCommittee
     IN /\ iCommittee' = ic
        /\ lastCommittee' = cid[i]
        /\ infoNpm' = [infoNpm EXCEPT ![ic] = @ + 1]
        /\ infoF' = [infoF EXCEPT ![ic] = IF honest[i] THEN @ ELSE @ + 1]
  /\ i' = i + 1
  /\ UNCHANGED <<n, m, pc, c, cid, honest, checkTotalF>>

(* One iteration of the recount (lines 354-364): a change of committee id *)
(* along the list opens the next committeeInfos entry.                    *)
RecountStep ==
  /\ pc = "recount"
  /\ i < n
  /\ LET ic == IF cid[i] # lastCommittee THEN iCommittee + 1 ELSE iCommittee
     IN /\ iCommittee' = ic
        /\ lastCommittee' = cid[i]
        /\ infoNpm' = [infoNpm EXCEPT ![ic] = @ + 1]
        /\ infoF' = [infoF EXCEPT ![ic] = IF honest[i] THEN @ ELSE @ + 1]
  /\ i' = i + 1
  /\ UNCHANGED <<n, m, pc, c, cid, honest, checkTotalF>>

RecountDone ==
  /\ pc = "recount"
  /\ i = n
  /\ pc' = "check"
  /\ i' = 0
  /\ checkTotalF' = 0
  /\ UNCHANGED <<n, m, c, cid, honest, lastCommittee, iCommittee,
                 infoNpm, infoF>>

(* One iteration of the invariant check (lines 373-383): log.Fatal when a *)
(* committee's size is neither npm nor npm+rest, or when its adversary    *)
(* count reaches ceil(size / committeeF).                                 *)
CheckStep ==
  /\ pc = "check"
  /\ i < m
  /\ CASE infoNpm[i] # Npm /\ infoNpm[i] # Npm + Rest ->
            pc' = "fatal_size" /\ UNCHANGED <<i, checkTotalF>>
       [] infoF[i] >= CeilDiv(infoNpm[i], CommitteeF) ->
            pc' = "fatal_adversary" /\ UNCHANGED <<i, checkTotalF>>
       [] OTHER ->
            /\ checkTotalF' = checkTotalF + infoF[i]
            /\ i' = i + 1
            /\ UNCHANGED pc
  /\ UNCHANGED <<n, m, c, cid, honest, lastCommittee, iCommittee,
                 infoNpm, infoF>>

(* The aggregate check (line 385): when n/m # 1 it evaluates              *)
(* int(n)/checkTotalF, an integer division by zero (a runtime panic) when *)
(* no node is adversarial, and compares it with the integer 1/totalF.     *)
TotalCheck ==
  /\ pc = "check"
  /\ i = m
  /\ pc' = CASE Npm = 1 -> "done"
             [] checkTotalF = 0 -> "divzero_panic"
             [] n \div checkTotalF < 1 \div TotalF -> "fatal_total"
             [] OTHER -> "done"
  /\ UNCHANGED <<n, m, i, c, cid, honest, lastCommittee, iCommittee,
                 infoNpm, infoF, checkTotalF>>

Next ==
  \/ AssignStep
  \/ AssignDone
  \/ RecountStep
  \/ RecountDone
  \/ CheckStep
  \/ TotalCheck

Spec == Init /\ [][Next]_vars

-----------------------------------------------------------------------------
(* Properties *)

Ends == {"done", "index_panic", "divzero_panic",
         "fatal_size", "fatal_adversary", "fatal_total"}

TypeOK ==
  /\ n \in 1..MaxN
  /\ m \in 1..n
  /\ pc \in {"assign", "recount", "check"} \cup Ends
  /\ i \in 0..n
  /\ c \in 0..m-1
  /\ cid \in [0..n-1 -> 0..m]
  /\ honest \in [0..n-1 -> BOOLEAN]
  /\ lastCommittee \in 0..m
  /\ iCommittee \in 0..m-1
  /\ infoNpm \in [0..m-1 -> 0..n]
  /\ infoF \in [0..m-1 -> 0..n]
  /\ checkTotalF \in 0..n

(* Spec 4.2: the assignment itself meets the bounds the verification pass *)
(* checks, so the pass never aborts the run: every committee has npm or   *)
(* npm+rest members and fewer than ceil(size/committeeF) adversaries.     *)
AssignPassesVerification ==
  pc \notin {"fatal_size", "fatal_adversary"}

(* Spec 8: for all N >= M > 0 the assignment partitions the nodes into M  *)
(* committees; committees[c] is never indexed past the last committee.    *)
NoIndexPanic == pc # "index_panic"

(* The aggregate check never divides by a zero adversary total.           *)
NoDivZeroPanic == pc # "divzero_panic"

(* Spec 4.2 (3): a run that completes has at most n / totalF adversaries  *)
(* in all.                                                                *)
AggregateBound ==
  pc = "done" => checkTotalF * TotalF <= n


(* Each recount iteration (lines 355-360) counts node i in the            *)
(* committeeInfos entry of its own committee and in no other.  The loop   *)
(* opens the next entry whenever the id changes along the list, which is  *)
(* the node's own entry only because the assignment never skips an id.    *)
RecountCountsOwnCommittee ==
  [][pc = "recount" /\ i < n /\ i' = i + 1 =>
       infoNpm' = [infoNpm EXCEPT ![cid[i]] = @ + 1]]_vars

=============================================================================
