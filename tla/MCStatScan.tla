----------------------------- MODULE MCStatScan -----------------------------
(***************************************************************************)
(* Every command name of up to five characters, and the longest ones, of   *)
(* 15: those that hold as many numbers as fit.                             *)
(***************************************************************************)
EXTENDS StatScan

MCShort == UNION {[1..n -> Class] : n \in 0..5}

\* " x 1 2 3 4 5 6 ", " x1 2 3 4 5 6 7", "x y 1 2 3 4 5 6".
MCLong == {[k \in 1..15 |-> IF k = 2 THEN "other" ELSE IF k % 2 = 1 THEN "blank" ELSE "digit"],
           [k \in 1..15 |-> IF k = 2 THEN "other" ELSE IF k = 1 THEN "blank"
                            ELSE IF k % 2 = 0 THEN "blank" ELSE "digit"],
           [k \in 1..15 |-> IF k \in {1, 3} THEN "other"
                            ELSE IF k % 2 = 0 THEN "blank" ELSE "digit"]}

MCNames == MCShort \cup MCLong

=============================================================================
