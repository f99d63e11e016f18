--------------------------- MODULE MCFreeInstall ---------------------------
(***************************************************************************)
(* FreeInstall for TLC: the install of an upgrade beside an upgrade check, *)
(* a check beside a preload, and a query without a bundle name.            *)
(***************************************************************************)
EXTENDS FreeInstall, TLC

CONSTANTS r1, r2, r3, r4

MCKind == r1 :> "UPGRADE" @@ r2 :> "CHECK" @@ r3 :> "UNNAMED" @@ r4 :> "PRELOAD"
MCMixes == {{r1, r2}, {r2, r4}, {r3}}
============================================================================
