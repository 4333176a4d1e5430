--------------------------- MODULE MCGuiControl ---------------------------
(* Two clients that are interchangeable, and two request_ids. *)
EXTENDS GuiControl, TLC

CONSTANTS c1, c2, i1, i2

TwoClients == {c1, c2}
TwoIds == {i1, i2}
Symmetry == Permutations(TwoClients) \cup Permutations(TwoIds)
=============================================================================
