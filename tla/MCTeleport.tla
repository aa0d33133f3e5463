----------------------------- MODULE MCTeleport -----------------------------
(***************************************************************************)
(* Teleport requests among a few players.                                  *)
(***************************************************************************)
EXTENDS Teleport

CONSTANTS p1, p2, p3

ThreePlayers == {p1, p2, p3}
TwoPlayers == {p1, p2}
=============================================================================
