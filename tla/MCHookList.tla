----------------------------- MODULE MCHookList -----------------------------
(* Three hooks, two of one priority and one of a higher one.                *)
EXTENDS HookList
CONSTANTS mid1, mid2, high
MCPrio == [h \in Hooks |-> IF h = high THEN 20 ELSE 10]
=============================================================================
