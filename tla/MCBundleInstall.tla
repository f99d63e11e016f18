-------------------------- MODULE MCBundleInstall --------------------------
EXTENDS BundleInstall

\* Two module sets at version 1, so that modules are added and replaced, and
\* a version 2 that keeps them all.
MCGrowing == {[ver |-> 1, mods |-> {"a"}], [ver |-> 1, mods |-> {"a", "b"}],
              [ver |-> 2, mods |-> {"a", "b"}]}

\* A service that never crashes.
MCNoCrash == InstallLabels
=============================================================================
