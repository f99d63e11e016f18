-------------------------- MODULE MCInstallerPool --------------------------
(***************************************************************************)
(* Instances of InstallerPool: events race with two chargers, events race  *)
(* with an install, or installs race with one another and with a switch.   *)
(***************************************************************************)
EXTENDS InstallerPool

CONSTANTS h1, p1, p2, t1, t2, t3

HandlersDef == {h1}
ChargersDef == {p1, p2}
PlainDef == {"screen"}
TasksDef == {t1, t2, t3}
MixesDef == {{h1, p1, p2}, {h1, p1, t1}, {t1, t2, t3, "switch"}}
=============================================================================
