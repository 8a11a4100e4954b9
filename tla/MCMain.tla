------------------------------- MODULE MCMain -------------------------------
(***************************************************************************)
(* Command lines of up to three options.  "Z" is a bad flag for both       *)
(* options, "p" for --proc only, "G" for --file only; "no" suppresses.     *)
(* An uninitialized attribID can hold a known id, one only the other       *)
(* reader registers, and one nobody registers.                             *)
(***************************************************************************)
EXTENDS Main

MCCharacters == Letters(PROC_OPTS_DEFAULT) \cup Letters(FILESTAT_OPTS_DEFAULT) \cup {"o", "Z"}

MCProcValues == {<<"n", "o">>, <<"P", "c">>, <<"M", "Z", "p">>, <<"G">>}
MCFileValues == {<<"n", "o">>, <<"n">>, <<"p", "G", "Z">>, <<"a", "d", "a">>}

MCOptions ==
  ({"proc"} \X MCProcValues) \cup ({"file"} \X MCFileValues) \cup {<<"?", << >>>>}

MCArgvs == UNION {[1..n -> MCOptions] : n \in 0..3}

MCWildIds == {5, 8, 4096}

=============================================================================
