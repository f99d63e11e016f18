----------------------------- MODULE MCDualMode -----------------------------
(***************************************************************************)
(* Instances of DualMode.                                                  *)
(***************************************************************************)
EXTENDS DualMode, TLC

\* The set of a secondary mode that excludes policy 1, and two that do not.
SwitchSets == {{1, 3, 4, 6, 8}, {2, 4, 6, 8}, {2, 3, 4, 6, 8}}

\* After a mode change in the middle of an installation, which voids the
\* properties, only an installation that has started is followed to its end.
FollowTorn ==
    \/ Orderly
    \/ /\ ~env.mixed
       /\ \E t \in Tasks : task[t].pc = "started" /\ \A u \in Tasks \ {t} : task[u] = Idle

TaskSymmetry == Permutations(Tasks)
=============================================================================
