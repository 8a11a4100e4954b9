---------------------------- MODULE MCProcReader ----------------------------
(***************************************************************************)
(* Three processes, so that a stale field can come from the one before and *)
(* from the one before that, or two whose ids are given to new processes.  *)
(* The options take every kind of field, out of the order of their ids.    *)
(***************************************************************************)
EXTENDS ProcReader

MCKind(w, e, o) == [oneWord |-> w, exe |-> e, owner |-> o]

\* An ordinary program, one with a blank in its name, one whose executable
\* belongs to an unknown user, a kernel thread.
MCKinds == {MCKind(TRUE, TRUE, TRUE), MCKind(FALSE, TRUE, TRUE),
            MCKind(TRUE, TRUE, FALSE), MCKind(TRUE, FALSE, TRUE)}

MCTwoWords == {MCKind(FALSE, TRUE, TRUE), MCKind(TRUE, TRUE, TRUE)}

MCOptions == <<"v", "M", "u", "P", "g", "c", "s", "d", "U", "u">>

=============================================================================
