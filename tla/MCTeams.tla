------------------------------ MODULE MCTeams ------------------------------
(* Two teams, five operations, a message, and a restart of the daemon. *)
EXTENDS Teams, TLC

CONSTANTS red, blue

MCTeam     == {red, blue}
MCSymmetry == Permutations(MCTeam)
=============================================================================
