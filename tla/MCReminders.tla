---------------------------- MODULE MCReminders ----------------------------
(* Reminders, with values for the bounds that are the same in every run.   *)
EXTENDS Reminders, TLC

Interchangeable ==
    Permutations(Users) \cup Permutations(Handlers) \cup Permutations(Loops)
=============================================================================
