---------------------------- MODULE Description ----------------------------
(***************************************************************************)
(* What ProcReader and FileStatReader promise for the items lsof has       *)
(* found: each is described at most once, and then with everything that    *)
(* was asked for; a description is never changed again, and nothing is     *)
(* described when the reader has ended.                                    *)
(***************************************************************************)
CONSTANTS
  Items,    \* the processes, or the files
  Asked     \* the ids of the attributes asked for

VARIABLES
  view,     \* the ids of the attributes each item has got
  ended     \* whether the reader has ended, by itself or in a crash

vars == <<view, ended>>

Init ==
  /\ view = [item \in Items |-> {}]
  /\ ended = FALSE

Describe(item) ==
  /\ ~ended
  /\ view[item] = {}
  /\ view' = [view EXCEPT ![item] = Asked]
  /\ UNCHANGED ended

End ==
  /\ ~ended
  /\ ended' = TRUE
  /\ UNCHANGED view

Next == End \/ \E item \in Items : Describe(item)

\* An item that has gone need not be described, but the reader does end.
Spec == Init /\ [][Next]_vars /\ <>ended

=============================================================================
