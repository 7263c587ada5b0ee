------------------------- MODULE MCCommitteeAssign -------------------------
(* Instances of CommitteeAssign for TLC. *)
EXTENDS CommitteeAssign

(* Every n up to 17 with every m <= n: covers remainders smaller than,    *)
(* equal to and larger than npm, both committee parities, and n = 17,     *)
(* m = 3, the smallest instance whose remainder committee trips the       *)
(* adversary check.                                                       *)
MCMaxN == 17
=============================================================================
