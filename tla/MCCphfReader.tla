---------------------------- MODULE MCCphfReader ----------------------------
(***************************************************************************)
(* Small inputs of CphfReader: every st_mode, the times about every carry  *)
(* and the longest, a clock of four ticks a second, and lists of drivers   *)
(* with single numbers, adjacent ranges and two ranges of one major.       *)
(***************************************************************************)
EXTENDS CphfReader

MCModes == 0..65535

MCSeconds == {0, 1, 59, 60, 61, 3599, 3600, 3661, 35999, 36000, 359999, 360000,
              3599999, 3600000, 35999999, 36000000, 359999999, 360000000, 536870911}

MCTicks == {4 * s : s \in MCSeconds} \cup {4 * s + 3 : s \in MCSeconds}

MCLine(label, family, major, min, dash, max) ==
  [label |-> label, family |-> family, major |-> major, min |-> min, dash |-> dash, max |-> max]

MCLines ==
  {MCLine("ttyS", "tty", 4, 4, TRUE, 7), MCLine("tty", "tty", 4, 1, TRUE, 3),
   MCLine("console", "other", 5, 1, FALSE, 0), MCLine("pts", "pts", 136, 0, TRUE, 6)}

MCDrivers == {<< >>} \cup {<<a>> : a \in MCLines} \cup {<<a, b>> : a, b \in MCLines}

MCDevices == {<<0, 12>>} \cup ({4, 5, 136} \X {0, 1, 2, 3, 4, 7, 8})

=============================================================================
