------------------------------- MODULE MCPayment -------------------------------
(* Instances of Payment for TLC.                                           *)
EXTENDS Payment, TLC

(* Stages a request may be interrupted at: all of them, or those of a      *)
(* payment that has not reached the tenant yet.                            *)
AllStages == Stages
BeforeLink == {"validateDues", "createMulti", "linkDues", "lockPayment", "createSingle",
               "openPayment"}

Symmetry == Permutations(Dues) \cup Permutations(Txns) \cup Permutations(Slots)
=============================================================================
