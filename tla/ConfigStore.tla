----------------------------- MODULE ConfigStore -----------------------------
(***************************************************************************)
(* What a configuration store should promise its readers: there is always  *)
(* a current configuration, it is replaced in a single step, and a save    *)
(* keeps the one it replaces as a backup, unless the store has failed      *)
(* since the configuration was last written by hand.                       *)
(***************************************************************************)
CONSTANTS
  Written,   \* what an administrator may write
  Saved,     \* what monoboot saves
  NoBackup

VARIABLES cur, prev, degraded

Init == cur \in Written /\ prev = NoBackup /\ degraded = FALSE

(* monoboot replaces the configuration by its own.                         *)
Save == cur' = Saved /\ prev' = cur /\ degraded' = degraded

(* A step of a save fails; nothing a reader sees has changed.              *)
Fail == degraded' = TRUE /\ cur' = cur /\ prev' = prev

(* The same as Save, but there is no new backup.                           *)
SaveOver == degraded /\ cur' = Saved /\ prev' = prev /\ degraded' = degraded

(* An administrator writes a configuration; the backup is not touched.     *)
Edit == cur' \in Written /\ prev' = prev /\ degraded' = FALSE

Next == Save \/ Fail \/ SaveOver \/ Edit
Spec == Init /\ [][Next]_<<cur, prev, degraded>>
=============================================================================
