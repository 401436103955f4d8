------------------------------- MODULE MCBars ------------------------------
(* BarAccess over boards with up to two BARs, of 8 or 16 bytes, among      *)
(* three, at addresses where a BAR of 16 bytes ends where the other begins, *)
(* with a field length of five bits.                                       *)
EXTENDS BarAccess, TLC

CONSTANTS v1

MCAddr == 0..63
MCBase == {8, 24}
MCOffset == {0, 7, 8, 12, 15}
MCValue == {v1}

Lengths(a, b, c) == (0 :> a) @@ (1 :> b) @@ (2 :> c)

MCBoards ==
  {Lengths(0, 0, 0), Lengths(16, 8, 0), Lengths(8, 0, 16), Lengths(0, 16, 0),
   Lengths(8, 32, 0)}

MCDenseBoard == {Lengths(16, 8, 0)}

=============================================================================
