------------------------------ MODULE MCBrowser ------------------------------
(* Browser with small values for TLC.                                      *)
EXTENDS Browser, TLC
MCUnloaded == -1
MCPaths == {"", "admin", "panel", "secret", "dashboard", "1.5"}
MCReserved == {"dashboard"}
MCMalformed == {"", "1.5"}
Symmetry == Permutations(Users)
=============================================================================
