------------------------ MODULE CommitteeAssignProofs ------------------------
(***************************************************************************)
(* Proofs about CommitteeAssign for every n, m and flag value.             *)
(***************************************************************************)
EXTENDS CommitteeAssign, FiniteSets, FiniteSetTheorems, TLAPS

(* The first k entries of the node list carry committee indexes that      *)
(* start at 0, stay below m and step by at most one: c starts at 0, moves *)
(* by c++ only, and a move to m is the index panic.                       *)
Chain(k) ==
  \A j \in 0..k-1 : /\ cid[j] \in 0..m-1
                    /\ j = 0 => cid[j] = 0
                    /\ j > 0 => cid[j] \in {cid[j-1], cid[j-1] + 1}

\* the nodes among the first hi that the assignment put in committee k
Members(k, hi) == {j \in 0..hi-1 : cid[j] = k}

\* the nodes of the committees with index below b
Before(b) == {j \in 0..n-1 : cid[j] < b}

(* TypeOK strengthened.  Because committee ids only step by one along the *)
(* list and the recount starts at committees[0], the recount's            *)
(* iCommittee is always the index of the last node's committee, so        *)
(* committeeInfos[iCommittee] stays in range, and each entry counts       *)
(* exactly the members of its committee; the check then sums adversary   *)
(* counts of disjoint committees, which bounds checkTotalF by n.          *)
CInv ==
  /\ TypeOK
  /\ pc = "assign" =>
       /\ Chain(i)
       /\ c = IF i = 0 THEN 0 ELSE cid[i-1]
       /\ \A k \in 0..m-1 : infoNpm[k] = 0 /\ infoF[k] = 0
  /\ pc \in {"recount", "check"} => Chain(n)
  /\ pc = "recount" =>
       /\ lastCommittee = iCommittee
       /\ iCommittee = IF i = 0 THEN 0 ELSE cid[i-1]
       /\ \A k \in 0..m-1 : /\ infoNpm[k] = Cardinality(Members(k, i))
                            /\ infoF[k] <= infoNpm[k]
  /\ pc = "check" =>
       /\ i <= m
       /\ \A k \in 0..m-1 : /\ infoNpm[k] = Cardinality(Members(k, n))
                            /\ infoF[k] <= infoNpm[k]
       /\ checkTotalF <= Cardinality(Before(i))

-----------------------------------------------------------------------------

\* the committee index the assignment step moves to (c1 of AssignStep)
AssignC1 == IF (i # 0 /\ i % Npm = 0) /\ i # n - Rest THEN c + 1 ELSE c

\* the committeeInfos entry the recount step writes (ic of RecountStep)
RecountIc == IF cid[i] # lastCommittee THEN iCommittee + 1 ELSE iCommittee

(* A committee's member count and the number of nodes before a committee  *)
(* are counts of subsets of the n positions.                               *)
LEMMA CountBounds ==
  ASSUME TypeOK, NEW k, NEW hi \in 0..n
  PROVE  /\ IsFiniteSet(Members(k, hi)) /\ Cardinality(Members(k, hi)) \in 0..n
<1>1. IsFiniteSet(0..n-1) /\ Cardinality(0..n-1) = n
  BY FS_Interval DEF TypeOK
<1>2. Members(k, hi) \subseteq 0..n-1
  BY DEF Members, TypeOK
<1>3. QED
  BY <1>1, <1>2, FS_Subset, FS_CardinalityType

LEMMA BeforeBounds ==
  ASSUME TypeOK, NEW b
  PROVE  /\ IsFiniteSet(Before(b)) /\ Cardinality(Before(b)) \in 0..n
<1>1. IsFiniteSet(0..n-1) /\ Cardinality(0..n-1) = n
  BY FS_Interval DEF TypeOK
<1>2. Before(b) \subseteq 0..n-1
  BY DEF Before
<1>3. QED
  BY <1>1, <1>2, FS_Subset, FS_CardinalityType

(* Counting one more position adds it to its own committee only.          *)
LEMMA MembersStep ==
  ASSUME TypeOK, NEW k, NEW hi \in 0..n-1
  PROVE  Cardinality(Members(k, hi + 1)) =
           Cardinality(Members(k, hi)) + (IF cid[hi] = k THEN 1 ELSE 0)
<1>0. hi \in 0..n
  BY DEF TypeOK
<1>1. /\ IsFiniteSet(Members(k, hi)) /\ Cardinality(Members(k, hi)) \in Nat
      /\ hi \notin Members(k, hi)
  <2>1. IsFiniteSet(Members(k, hi)) /\ Cardinality(Members(k, hi)) \in 0..n
    BY <1>0, CountBounds
  <2>2. hi \notin Members(k, hi)
    BY DEF Members
  <2>3. QED
    BY <2>1, <2>2 DEF TypeOK
<1>2. CASE cid[hi] = k
  <2>1. Members(k, hi + 1) = Members(k, hi) \cup {hi}
    BY <1>2 DEF Members, TypeOK
  <2>2. QED
    BY <1>1, <1>2, <2>1, FS_AddElement
<1>3. CASE cid[hi] # k
  <2>1. Members(k, hi + 1) = Members(k, hi)
    BY <1>3 DEF Members, TypeOK
  <2>2. QED
    BY <1>1, <1>3, <2>1
<1>4. QED
  BY <1>2, <1>3

(* The committees below b+1 are those below b and committee b, disjoint.  *)
LEMMA BeforeStep ==
  ASSUME TypeOK, NEW b \in Nat
  PROVE  Cardinality(Before(b + 1)) =
           Cardinality(Before(b)) + Cardinality(Members(b, n))
<1>1. Before(b + 1) = Before(b) \cup Members(b, n)
  BY DEF Before, Members, TypeOK
<1>2. Before(b) \cap Members(b, n) = {}
  BY DEF Before, Members
<1>0. n \in 0..n
  BY DEF TypeOK
<1>3. /\ IsFiniteSet(Before(b)) /\ IsFiniteSet(Members(b, n))
      /\ Cardinality(Before(b)) \in Nat /\ Cardinality(Members(b, n)) \in Nat
  BY <1>0, CountBounds, BeforeBounds
<1>4. Cardinality(Before(b) \cup Members(b, n)) =
        Cardinality(Before(b)) + Cardinality(Members(b, n)) - Cardinality({})
  BY <1>2, <1>3, FS_Union
<1>5. Cardinality({}) = 0
  BY FS_EmptySet
<1>6. Cardinality(Before(b + 1)) = Cardinality(Before(b) \cup Members(b, n))
  BY <1>1
<1>7. QED
  BY <1>3, <1>4, <1>5, <1>6

(* No position lies below 0, and nothing is counted before the first.     *)
LEMMA EmptyCounts ==
  ASSUME TypeOK, NEW k
  PROVE  Cardinality(Members(k, 0)) = 0 /\ Cardinality(Before(0)) = 0
<1>1. Members(k, 0) = {} /\ Before(0) = {}
  BY DEF Members, Before, TypeOK
<1>2. QED
  BY <1>1, FS_EmptySet

(* One iteration of the assignment loop, as the proofs use it.            *)
LEMMA AssignShape ==
  ASSUME TypeOK, AssignStep
  PROVE  /\ pc = "assign" /\ i < n
         /\ AssignC1 \in {c, c + 1} /\ (i = 0 => AssignC1 = c)
         /\ \/ /\ AssignC1 >= m /\ pc' = "index_panic"
               /\ UNCHANGED <<i, c, cid, honest>>
            \/ /\ AssignC1 < m /\ pc' = pc
               /\ cid' = [cid EXCEPT ![i] = AssignC1]
               /\ honest' \in [0..n-1 -> BOOLEAN]
               /\ c' = AssignC1 /\ i' = i + 1
         /\ UNCHANGED <<n, m, lastCommittee, iCommittee, infoNpm, infoF,
                        checkTotalF>>
<1>1. /\ pc = "assign" /\ i < n
      /\ UNCHANGED <<n, m, lastCommittee, iCommittee, infoNpm, infoF,
                     checkTotalF>>
  BY DEF AssignStep
<1>2. AssignC1 \in {c, c + 1} /\ (i = 0 => AssignC1 = c)
  BY DEF AssignC1
<1>3. CASE AssignC1 >= m
  <2>1. pc' = "index_panic" /\ UNCHANGED <<i, c, cid, honest>>
    BY <1>3 DEF AssignStep, AssignC1
  <2>2. QED
    BY <1>1, <1>2, <1>3, <2>1
<1>4. CASE ~(AssignC1 >= m)
  <2>1. /\ pc' = pc /\ cid' = [cid EXCEPT ![i] = AssignC1]
        /\ c' = AssignC1 /\ i' = i + 1
    BY <1>4 DEF AssignStep, AssignC1
  <2>2. honest' \in [0..n-1 -> BOOLEAN]
    BY <1>4 DEF AssignStep, AssignC1, TypeOK
  <2>3. AssignC1 < m
    BY <1>2, <1>4 DEF TypeOK
  <2>4. QED
    BY <1>1, <1>2, <2>1, <2>2, <2>3
<1>5. QED
  BY <1>3, <1>4

(* One iteration of the recount, as the proofs use it.                    *)
LEMMA RecountShape ==
  ASSUME RecountStep
  PROVE  /\ pc = "recount" /\ i < n
         /\ iCommittee' = RecountIc /\ lastCommittee' = cid[i]
         /\ infoNpm' = [infoNpm EXCEPT ![RecountIc] = @ + 1]
         /\ infoF' = [infoF EXCEPT ![RecountIc] = IF honest[i] THEN @ ELSE @ + 1]
         /\ i' = i + 1
         /\ UNCHANGED <<n, m, pc, c, cid, honest, checkTotalF>>
  BY DEF RecountStep, RecountIc

(* One iteration of the invariant check: it aborts, or it adds the        *)
(* committee's adversaries and moves on.                                   *)
LEMMA CheckShape ==
  ASSUME CheckStep
  PROVE  /\ pc = "check" /\ i < m
         /\ \/ pc' \in {"fatal_size", "fatal_adversary"}
               /\ UNCHANGED <<i, checkTotalF>>
            \/ /\ checkTotalF' = checkTotalF + infoF[i] /\ i' = i + 1
               /\ pc' = pc
         /\ UNCHANGED <<n, m, c, cid, honest, lastCommittee, iCommittee,
                        infoNpm, infoF>>
  BY DEF CheckStep

(* The aggregate check only ends the run.                                 *)
LEMMA TotalShape ==
  ASSUME TotalCheck
  PROVE  /\ pc = "check"
         /\ pc' \in Ends
         /\ UNCHANGED <<n, m, i, c, cid, honest, lastCommittee, iCommittee,
                        infoNpm, infoF, checkTotalF>>
  BY DEF TotalCheck, Ends

LEMMA InitCInv == Init => CInv
<1> SUFFICES ASSUME Init PROVE CInv
  OBVIOUS
<1>1. TypeOK
  BY DEF Init, TypeOK, Unassigned, Ends
<1>2. Chain(0)
  BY DEF Chain
<1>3. QED
  BY <1>1, <1>2 DEF Init, CInv

(* During the recount, the entry the loop writes is the node's own        *)
(* committee: ids step by at most one along the list, and iCommittee is   *)
(* the previous node's id.                                                *)
LEMMA RecountEntry ==
  ASSUME CInv, pc = "recount", i < n
  PROVE  RecountIc = cid[i] /\ cid[i] \in 0..m-1
<1>0. TypeOK
  BY DEF CInv
<1>1. /\ Chain(n)
      /\ lastCommittee = iCommittee
      /\ iCommittee = IF i = 0 THEN 0 ELSE cid[i-1]
  BY DEF CInv
<1>2. i \in 0..n-1 /\ cid[i] \in 0..m-1
  BY <1>0, <1>1 DEF TypeOK, Chain
<1>3. CASE i = 0
  BY <1>1, <1>2, <1>3 DEF Chain, RecountIc
<1>4. CASE i # 0
  <2>1. cid[i] \in {cid[i-1], cid[i-1] + 1}
    BY <1>0, <1>1, <1>2, <1>4 DEF Chain, TypeOK
  <2>2. QED
    BY <1>0, <1>1, <1>2, <1>4, <2>1 DEF RecountIc, TypeOK
<1>5. QED
  BY <1>2, <1>3, <1>4

LEMMA NextCInv == CInv /\ [Next]_vars => CInv'
<1> SUFFICES ASSUME CInv, [Next]_vars PROVE CInv'
  OBVIOUS
<1>0. TypeOK
  BY DEF CInv
<1>N. n \in Nat /\ m \in Nat /\ i \in Nat /\ c \in Nat /\ m <= n
  BY <1>0 DEF TypeOK
<1>1. CASE AssignStep
  <2>1. /\ pc = "assign" /\ i < n
        /\ AssignC1 \in {c, c + 1} /\ (i = 0 => AssignC1 = c)
        /\ \/ /\ AssignC1 >= m /\ pc' = "index_panic"
              /\ UNCHANGED <<i, c, cid, honest>>
           \/ /\ AssignC1 < m /\ pc' = pc
              /\ cid' = [cid EXCEPT ![i] = AssignC1]
              /\ honest' \in [0..n-1 -> BOOLEAN]
              /\ c' = AssignC1 /\ i' = i + 1
        /\ UNCHANGED <<n, m, lastCommittee, iCommittee, infoNpm, infoF,
                       checkTotalF>>
    BY <1>0, <1>1, AssignShape
  <2>0. AssignC1 \in Nat
    BY <1>N, <2>1
  <2>2. CASE AssignC1 >= m
    <3>0. pc' = "index_panic" /\ UNCHANGED <<i, c, cid, honest>>
      BY <1>N, <2>0, <2>1, <2>2
    <3>1. TypeOK'
      BY <1>0, <2>1, <3>0 DEF TypeOK, Ends
    <3>2. QED
      BY <3>0, <3>1 DEF CInv
  <2>5. CASE AssignC1 < m
    <3>1. /\ pc' = "assign" /\ cid' = [cid EXCEPT ![i] = AssignC1]
          /\ c' = AssignC1 /\ i' = i + 1 /\ honest' \in [0..n-1 -> BOOLEAN]
      BY <1>N, <2>0, <2>1, <2>5
    <3>2. /\ Chain(i)
          /\ c = IF i = 0 THEN 0 ELSE cid[i-1]
          /\ \A k \in 0..m-1 : infoNpm[k] = 0 /\ infoF[k] = 0
      BY <2>1 DEF CInv
    <3>3. AssignC1 \in 0..m-1
      BY <1>N, <2>0, <2>5
    <3>4. TypeOK'
      BY <1>0, <2>1, <3>1, <3>3 DEF TypeOK
    <3>5. Chain(i)'
      <4>1. SUFFICES ASSUME NEW j \in 0..i
                     PROVE  /\ cid'[j] \in 0..m-1
                            /\ j = 0 => cid'[j] = 0
                            /\ j > 0 => cid'[j] \in {cid'[j-1], cid'[j-1] + 1}
        BY <1>N, <2>1, <3>1 DEF Chain
      <4>2. CASE j < i
        BY <1>0, <2>1, <3>1, <3>2, <4>2 DEF Chain, TypeOK
      <4>3. CASE j = i
        BY <1>0, <2>1, <3>1, <3>2, <3>3, <4>3 DEF TypeOK
      <4>4. QED
        BY <1>N, <4>2, <4>3
    <3>6. c' = IF i' = 0 THEN 0 ELSE cid'[i' - 1]
      BY <1>0, <2>1, <3>1 DEF TypeOK
    <3>7. \A k \in 0..m'-1 : infoNpm'[k] = 0 /\ infoF'[k] = 0
      BY <2>1, <3>2
    <3>8. QED
      BY <3>1, <3>4, <3>5, <3>6, <3>7 DEF CInv
  <2>6. QED
    BY <1>N, <2>0, <2>2, <2>5
<1>2. CASE AssignDone
  <2>1. /\ pc = "assign" /\ i = n /\ pc' = "recount" /\ i' = 0
        /\ lastCommittee' = 0 /\ iCommittee' = 0
        /\ UNCHANGED <<n, m, c, cid, honest, infoNpm, infoF, checkTotalF>>
    BY <1>2 DEF AssignDone
  <2>2. Chain(n) /\ \A k \in 0..m-1 : infoNpm[k] = 0 /\ infoF[k] = 0
    BY <2>1 DEF CInv
  <2>3. \A k \in 0..m-1 : Cardinality(Members(k, 0)) = 0
    BY <1>0, EmptyCounts
  <2>4. TypeOK'
    BY <1>0, <2>1 DEF TypeOK
  <2>5. Chain(n)' = Chain(n) /\ \A k : Members(k, 0)' = Members(k, 0)
    BY <2>1 DEF Chain, Members
  <2>6. QED
    BY <2>1, <2>2, <2>3, <2>4, <2>5 DEF CInv
<1>3. CASE RecountStep
  <2>1. /\ pc = "recount" /\ i < n
        /\ iCommittee' = RecountIc /\ lastCommittee' = cid[i]
        /\ infoNpm' = [infoNpm EXCEPT ![RecountIc] = @ + 1]
        /\ infoF' = [infoF EXCEPT ![RecountIc] = IF honest[i] THEN @ ELSE @ + 1]
        /\ i' = i + 1
        /\ UNCHANGED <<n, m, pc, c, cid, honest, checkTotalF>>
    BY <1>3, RecountShape
  <2>2. /\ Chain(n)
        /\ lastCommittee = iCommittee
        /\ iCommittee = IF i = 0 THEN 0 ELSE cid[i-1]
        /\ \A k \in 0..m-1 : /\ infoNpm[k] = Cardinality(Members(k, i))
                             /\ infoF[k] <= infoNpm[k]
    BY <2>1 DEF CInv
  <2>3. i \in 0..n-1 /\ cid[i] \in 0..m-1
    BY <1>0, <2>1, <2>2 DEF TypeOK, Chain
  (* The recount's committee index is the node's own committee.  *)
  <2>4. RecountIc = cid[i]
    BY <2>1, RecountEntry
  <2>5. \A k \in 0..m-1 :
          /\ infoNpm'[k] = Cardinality(Members(k, i + 1))
          /\ infoF'[k] <= infoNpm'[k]
          /\ infoNpm'[k] \in 0..n /\ infoF'[k] \in 0..n
    <3>1. SUFFICES ASSUME NEW k \in 0..m-1
                   PROVE  /\ infoNpm'[k] = Cardinality(Members(k, i + 1))
                          /\ infoF'[k] <= infoNpm'[k]
                          /\ infoNpm'[k] \in 0..n /\ infoF'[k] \in 0..n
      OBVIOUS
    <3>2. Cardinality(Members(k, i + 1)) =
            Cardinality(Members(k, i)) + (IF cid[i] = k THEN 1 ELSE 0)
      BY <1>0, <2>3, MembersStep
    <3>3. i + 1 \in 0..n /\ i \in 0..n
      BY <1>N, <2>3
    <3>4. Cardinality(Members(k, i + 1)) \in 0..n
      BY <1>0, <3>3, CountBounds
    <3>5. /\ infoNpm'[k] = infoNpm[k] + (IF cid[i] = k THEN 1 ELSE 0)
          /\ infoF'[k] \in {infoF[k], infoF[k] + 1}
          /\ cid[i] # k => infoF'[k] = infoF[k]
      BY <1>0, <2>1, <2>3, <2>4 DEF TypeOK
    <3>6. infoNpm[k] = Cardinality(Members(k, i)) /\ infoF[k] <= infoNpm[k]
          /\ infoF[k] \in 0..n /\ Cardinality(Members(k, i)) \in 0..n
      BY <1>0, <2>2, <3>3, CountBounds DEF TypeOK
    <3>7. CASE cid[i] = k
      BY <1>N, <3>2, <3>4, <3>5, <3>6, <3>7
    <3>8. CASE cid[i] # k
      BY <1>N, <3>2, <3>4, <3>5, <3>6, <3>8
    <3>9. QED
      BY <3>7, <3>8
  <2>6. TypeOK'
    <3>1. infoNpm' \in [0..m-1 -> 0..n] /\ infoF' \in [0..m-1 -> 0..n]
      BY <1>0, <2>1, <2>5 DEF TypeOK
    <3>2. QED
      BY <1>0, <1>N, <2>1, <2>3, <2>4, <3>1 DEF TypeOK
  <2>7. /\ Chain(n)' = Chain(n)
        /\ \A k, hi : Members(k, hi)' = Members(k, hi)
    BY <2>1 DEF Chain, Members
  <2>8. iCommittee' = IF i' = 0 THEN 0 ELSE cid'[i' - 1]
    BY <1>N, <2>1, <2>4
  <2>9. \A k \in 0..m'-1 : /\ infoNpm'[k] = Cardinality(Members(k, i))'
                          /\ infoF'[k] <= infoNpm'[k]
    BY <2>1, <2>5, <2>7
  <2>10. QED
    BY <2>1, <2>4, <2>6, <2>7, <2>8, <2>9 DEF CInv
<1>4. CASE RecountDone
  <2>1. /\ pc = "recount" /\ i = n /\ pc' = "check" /\ i' = 0
        /\ checkTotalF' = 0
        /\ UNCHANGED <<n, m, c, cid, honest, lastCommittee, iCommittee,
                       infoNpm, infoF>>
    BY <1>4 DEF RecountDone
  <2>2. /\ Chain(n)
        /\ \A k \in 0..m-1 : /\ infoNpm[k] = Cardinality(Members(k, n))
                             /\ infoF[k] <= infoNpm[k]
    BY <2>1 DEF CInv
  <2>3. Cardinality(Before(0)) = 0
    BY <1>0, EmptyCounts
  <2>4. TypeOK'
    BY <1>0, <2>1 DEF TypeOK
  <2>5. /\ Chain(n)' = Chain(n)
        /\ \A k : Members(k, n)' = Members(k, n)
        /\ Before(0)' = Before(0)
    BY <2>1 DEF Chain, Members, Before
  <2>6. QED
    BY <1>N, <2>1, <2>2, <2>3, <2>4, <2>5 DEF CInv
<1>5. CASE CheckStep
  <2>1. /\ pc = "check" /\ i < m
        /\ \/ pc' \in {"fatal_size", "fatal_adversary"}
              /\ UNCHANGED <<i, checkTotalF>>
           \/ /\ checkTotalF' = checkTotalF + infoF[i] /\ i' = i + 1
              /\ pc' = pc
        /\ UNCHANGED <<n, m, c, cid, honest, lastCommittee, iCommittee,
                       infoNpm, infoF>>
    BY <1>5, CheckShape
  <2>2. /\ \A k \in 0..m-1 : /\ infoNpm[k] = Cardinality(Members(k, n))
                             /\ infoF[k] <= infoNpm[k]
        /\ checkTotalF <= Cardinality(Before(i))
        /\ Chain(n)
    BY <2>1 DEF CInv
  <2>3. CASE pc' \in {"fatal_size", "fatal_adversary"}
    <3>1. TypeOK'
      BY <1>0, <2>1, <2>3 DEF TypeOK, Ends
    <3>2. QED
      BY <2>3, <3>1 DEF CInv
  <2>4. CASE pc' \notin {"fatal_size", "fatal_adversary"}
    <3>1. checkTotalF' = checkTotalF + infoF[i] /\ i' = i + 1 /\ pc' = "check"
      BY <2>1, <2>4
    <3>2. i \in Nat /\ i \in 0..m-1
      BY <1>N, <2>1
    <3>3. Cardinality(Before(i + 1)) =
            Cardinality(Before(i)) + Cardinality(Members(i, n))
      BY <1>0, <3>2, BeforeStep
    <3>4. /\ Cardinality(Before(i + 1)) \in 0..n
          /\ Cardinality(Before(i)) \in 0..n
          /\ Cardinality(Members(i, n)) \in 0..n
      BY <1>0, <1>N, BeforeBounds, CountBounds
    <3>5. infoF[i] <= Cardinality(Members(i, n)) /\ checkTotalF \in 0..n
          /\ infoF[i] \in 0..n
      BY <1>0, <2>2, <3>2 DEF TypeOK
    <3>6. checkTotalF' <= Cardinality(Before(i + 1))
      BY <2>2, <3>1, <3>3, <3>4, <3>5
    <3>7. checkTotalF' \in 0..n /\ i' \in 0..n /\ i' <= m
      BY <1>N, <2>1, <3>1, <3>2, <3>4, <3>5, <3>6
    <3>8. TypeOK'
      BY <1>0, <2>1, <3>1, <3>7 DEF TypeOK
    <3>9. /\ Chain(n)' = Chain(n)
          /\ \A k, hi : Members(k, hi)' = Members(k, hi)
          /\ \A b : Before(b)' = Before(b)
      BY <2>1 DEF Chain, Members, Before
    <3>10. checkTotalF' <= Cardinality(Before(i))'
      BY <3>1, <3>6, <3>9
    <3>11. QED
      BY <2>1, <2>2, <3>1, <3>7, <3>8, <3>9, <3>10 DEF CInv
  <2>5. QED
    BY <2>3, <2>4
<1>6. CASE TotalCheck
  <2>1. /\ pc' \in Ends
        /\ UNCHANGED <<n, m, i, c, cid, honest, lastCommittee, iCommittee,
                       infoNpm, infoF, checkTotalF>>
    BY <1>6, TotalShape
  <2>2. TypeOK'
    BY <1>0, <2>1 DEF TypeOK
  <2>3. QED
    BY <2>1, <2>2 DEF CInv, Ends
<1>7. CASE UNCHANGED vars
  <2>1. UNCHANGED <<n, m, pc, i, c, cid, honest, lastCommittee, iCommittee,
                    infoNpm, infoF, checkTotalF>>
    BY <1>7 DEF vars
  <2>2. TypeOK'
    BY <1>0, <2>1 DEF TypeOK
  <2>3. /\ Chain(i)' = Chain(i) /\ Chain(n)' = Chain(n)
        /\ \A k : Members(k, i)' = Members(k, i) /\ Members(k, n)' = Members(k, n)
        /\ Before(i)' = Before(i)
    BY <2>1 DEF Chain, Members, Before
  <2>4. QED
    BY <2>1, <2>2, <2>3 DEF CInv
<1>8. QED
  BY <1>1, <1>2, <1>3, <1>4, <1>5, <1>6, <1>7 DEF Next

(* Every state of the assignment, recount and check loops is well typed,  *)
(* for every n >= m >= 1: c never reaches m unless the run has just       *)
(* panicked, the recount's iCommittee never indexes committeeInfos past   *)
(* its m entries, and each committee count and checkTotalF stay within    *)
(* 0..n.                                                                  *)
THEOREM CommitteeTypeCorrect == Spec => []TypeOK
<1>1. Spec => []CInv
  BY InitCInv, NextCInv, PTL DEF Spec
<1>2. CInv => TypeOK
  BY DEF CInv
<1>3. QED
  BY <1>1, <1>2, PTL

LEMMA NextRecountOwn ==
  CInv /\ [Next]_vars =>
    (pc = "recount" /\ i < n /\ i' = i + 1 =>
       infoNpm' = [infoNpm EXCEPT ![cid[i]] = @ + 1])
<1> SUFFICES ASSUME CInv, [Next]_vars, pc = "recount", i < n, i' = i + 1
             PROVE  infoNpm' = [infoNpm EXCEPT ![cid[i]] = @ + 1]
  OBVIOUS
<1>0. i \in Nat /\ n \in Nat
  BY DEF CInv, TypeOK
<1>1. CASE RecountStep
  <2>1. infoNpm' = [infoNpm EXCEPT ![RecountIc] = @ + 1]
    BY <1>1, RecountShape DEF CInv
  <2>2. QED
    BY <2>1, RecountEntry
<1>2. CASE AssignStep \/ AssignDone \/ CheckStep \/ TotalCheck
  BY <1>2 DEF AssignStep, AssignDone, CheckStep, TotalCheck
<1>3. CASE RecountDone
  BY <1>0, <1>3 DEF RecountDone
<1>4. CASE UNCHANGED vars
  BY <1>0, <1>4 DEF vars
<1>5. QED
  BY <1>1, <1>2, <1>3, <1>4 DEF Next

(* Every recount iteration of every run, for every n >= m >= 1, counts   *)
(* node i in committeeInfos[CommitteeID of node i] and in no other entry: *)
(* the loop's "open the next entry when the id changes" never lands on   *)
(* another committee's entry.                                             *)
THEOREM RecountCountsOwn == Spec => RecountCountsOwnCommittee
<1>1. Spec => []CInv
  BY InitCInv, NextCInv, PTL DEF Spec
<1>2. QED
  BY <1>1, NextRecountOwn, PTL DEF Spec, RecountCountsOwnCommittee

=============================================================================
