---------------------------- MODULE MCSession ------------------------------
(* CronoSession over the boards of MCDevice.                               *)
EXTENDS MCDevice, CronoSession

CONSTANTS b1, b2, s3

\* A third board, without BARs, whose device id reads 0.
MCSessionSlot == MCSlot \cup {s3}
MCSessionBars == [s \in MCSessionSlot |-> IF s = s3 THEN {} ELSE MCBars[s]]

MCBuffer == {b1, b2}
MCOneBuffer == {b1}

\* So are buffers.
MCSessionSymmetry == MCSymmetry \cup Permutations(MCBuffer)

=============================================================================
