----------------------------- MODULE MCBuffers -----------------------------
(* DmaBuffers with two variables of each kind.                             *)
EXTENDS DmaBuffers, TLC

CONSTANTS u1, u2, v1, v2, p1, p2, p3, p4, a1, a2, a3, i1, i2, i3, i4

MCSGVar == {u1, u2}
MCContigVar == {v1, v2}
MCPtr == {p1, p2, p3, p4}
MCAddr == {a1, a2, a3}
MCId == {i1, i2, i3, i4}

MCNoFaults == {}

\* Pointers, addresses and ids are interchangeable.
MCSymmetry == Permutations(MCPtr) \cup Permutations(MCAddr) \cup Permutations(MCId)

=============================================================================
