------------------------------ MODULE MCTenancy ------------------------------
(* Instances of Tenancy for TLC.                                           *)
EXTENDS Tenancy, TLC

CONSTANTS r1, r2, r3, P1, P2

(* Two rooms in the first property and one in the second.                  *)
MCPropOf == [r \in Rooms |-> IF r = r3 THEN P2 ELSE P1]

Symmetry == Permutations(Tenancies) \cup Permutations(Users) \cup Permutations(Phones)
            \cup Permutations(MoveReqs) \cup Permutations(ShiftReqs) \cup Permutations(Slots)

(* Rooms of one property are interchangeable as well.                      *)
RoomSymmetry == Symmetry \cup Permutations(Rooms)
=============================================================================
