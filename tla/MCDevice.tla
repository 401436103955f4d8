----------------------------- MODULE MCDevice ------------------------------
(* CronoDevice over two boards, one with BAR 0 and one with BARs 0 and 1.  *)
EXTENDS CronoDevice, TLC

CONSTANTS s1, s2, p1, p2, p3, a1, a2, a3, a4

MCSlot == {s1, s2}
MCBarNum == {0, 1}
MCBars == [s \in MCSlot |-> IF s = s1 THEN {0} ELSE {0, 1}]
MCPtr == {p1, p2, p3}
MCAddr == {a1, a2, a3, a4}

MCNoFaults == {}
MCMunmapFault == {"munmap"}
MCOpenFaults == {"vendor", "miscdev", "open"}

\* malloc and mmap may return any free address: addresses are interchangeable.
MCSymmetry == Permutations(MCPtr) \cup Permutations(MCAddr)

=============================================================================
