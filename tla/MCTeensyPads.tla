---------------------------- MODULE MCTeensyPads ----------------------------
(* Small sets of modes and pads for the firmware. *)
EXTENDS TeensyPads
MCButtons == {"btn"}
MCGames == {"btn", "tp"}
MCSixModes == {"6btn"}
MCAllModes == {"3btn", "6btn", "tp"}
MCOnePlayer == {0}
MCTwoPlayers == {0, 3}
=============================================================================
