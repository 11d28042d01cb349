----------------------------- MODULE MCPlanner -----------------------------
(* A small instance of Planner, in which file identities and versions are  *)
(* interchangeable.                                                        *)
EXTENDS Planner, TLC

CONSTANTS id1, id2, v1, v2

\* /a, /a/a and /b, which sorts between them by depth but not by components.
MCPaths == {<<1>>, <<1, 1>>, <<2>>}
MCProtected == {<<2, 1>>}

MCSnapshots == {[flaw |-> "none", identity |-> i, stamp |-> 0] : i \in {id1, id2}}

Interchangeable == Permutations({id1, id2}) \cup Permutations({v1, v2})
=============================================================================
