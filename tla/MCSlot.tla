------------------------------- MODULE MCSlot -------------------------------
(* A slot with two members, one of them added later by a reload.            *)
EXTENDS Slot, TLC

CONSTANTS m1, m2

MCMembers == {m1, m2}
MCInitMembers == {{m1}}
MCAllMembers == {{m1, m2}}
MCSymmetry == Permutations(Workers) \cup Permutations(Clients)
=============================================================================
