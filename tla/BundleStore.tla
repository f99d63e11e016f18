----------------------------- MODULE BundleStore -----------------------------
(***************************************************************************)
(* What updating a bundle promises, whatever fails and wherever the        *)
(* service crashes: a bundle has an info and the code of exactly that      *)
(* info, and both change together, in one step, to an offered version.     *)
(***************************************************************************)
EXTENDS Naturals

CONSTANTS Packages, Downgrade

VARIABLES
    info,  \* the installed version: [ver, mods]
    code   \* the version of the code of each of its modules

FullCode(i) == [m \in i.mods |-> i.ver]

Init == info \in Packages /\ code = FullCode(info)

Update(p) ==
    /\ p.ver > info.ver \/ (Downgrade /\ p.ver < info.ver)
    /\ info' = p /\ code' = FullCode(p)

Next == \E p \in Packages : Update(p)

Spec == Init /\ [][Next]_<<info, code>>
=============================================================================
