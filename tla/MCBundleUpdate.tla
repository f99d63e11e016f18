--------------------------- MODULE MCBundleUpdate ---------------------------
EXTENDS BundleUpdate

\* The second version adds a module, the third drops one and adds another.
MCVersions == {[ver |-> 1, mods |-> {"a"}], [ver |-> 2, mods |-> {"a", "b"}],
               [ver |-> 3, mods |-> {"b", "c"}]}

\* The second version keeps the module of the first.
MCGrowing == {[ver |-> 1, mods |-> {"a"}], [ver |-> 2, mods |-> {"a", "b"}]}

\* The second version drops a module.
MCShrinking == {[ver |-> 1, mods |-> {"a", "b"}], [ver |-> 2, mods |-> {"b"}]}
=============================================================================
