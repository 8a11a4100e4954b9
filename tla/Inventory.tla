----------------------------- MODULE Inventory -----------------------------
(***************************************************************************)
(* What LSOFReader promises to the rest of cphf, without the pipe, the     *)
(* second process and the parsing: out of the set of files to be found,    *)
(* `wanted', an inventory is collected one file at a time.  It never holds *)
(* anything else, never shrinks, and ends either complete or failed.       *)
(***************************************************************************)
EXTENDS Integers

VARIABLES
  wanted,    \* the files in use and unlinked, as <<pid, key>>
  listing,   \* the files found so far
  phase      \* "collecting", "complete" or "failed"

vars == <<wanted, listing, phase>>

Init ==
  /\ wanted \subseteq (Nat \X Nat)
  /\ listing = {}
  /\ phase = "collecting"

Find ==
  /\ phase = "collecting"
  /\ \E file \in wanted : listing' = listing \cup {file}
  /\ UNCHANGED <<wanted, phase>>

Complete ==
  /\ phase = "collecting"
  /\ listing = wanted
  /\ phase' = "complete"
  /\ UNCHANGED <<wanted, listing>>

Fail ==
  /\ phase = "collecting"
  /\ phase' = "failed"
  /\ UNCHANGED <<wanted, listing>>

Next == Find \/ Complete \/ Fail

Spec == Init /\ [][Next]_vars /\ WF_vars(Next)

=============================================================================
