-------------------------- MODULE MCTrickleHandler --------------------------
(***************************************************************************)
(* TrickleHandler with one sensor of the host whose description changes    *)
(* and two workunit sensors, which share a group.                          *)
(***************************************************************************)
EXTENDS TrickleHandler, TLC

MCDescOf == [n \in Name |-> IF n = "cpu" THEN {"1 core", "2 cores"}
                            ELSE {"workunit"}]
Symmetric == Permutations(Id) \union Permutations(Msg)
============================================================================
