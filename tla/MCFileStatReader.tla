------------------------- MODULE MCFileStatReader -------------------------
(***************************************************************************)
(* A small instance of FileStatReader.  cphf's own limit is 3: of process  *)
(* 1, 4 is the last number that is a descriptor and 5 the first that is    *)
(* its executable; process 2 comes after it.  The first buffer holds one   *)
(* character and the next one four: a name of 1 and of 4 just fills them.  *)
(***************************************************************************)
EXTENDS FileStatReader

MCListed  == {<<1, 4>>, <<1, 5>>, <<2, 0>>}
MCOptions == <<"s", "n", "i">>

=============================================================================
