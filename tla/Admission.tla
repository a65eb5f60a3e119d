----------------------------- MODULE Admission -----------------------------
(***************************************************************************)
(* What the bot promises about download tasks, with no trace of how it     *)
(* keeps the promise: a user has at most one task in progress, and at most *)
(* Capacity tasks are in progress across the bot.                          *)
(***************************************************************************)
EXTENDS Naturals, FiniteSets

CONSTANTS Tasks,     \* whatever carries a task: here a handler goroutine
          Users,     \* Telegram user ids
          Capacity   \* command.MaxGlobalTasks

VARIABLE inProgress  \* the tasks in progress, each with its user

Init == inProgress = {}

(* A user with no task gets one, if the bot has room for it. *)
Start(t, u) ==
  /\ \A p \in inProgress : p[1] # t /\ p[2] # u
  /\ Cardinality(inProgress) < Capacity
  /\ inProgress' = inProgress \cup {<<t, u>>}

Finish(t, u) ==
  /\ <<t, u>> \in inProgress
  /\ inProgress' = inProgress \ {<<t, u>>}

Next == \E t \in Tasks, u \in Users : Start(t, u) \/ Finish(t, u)

Spec == Init /\ [][Next]_inProgress

(* A task in progress comes to an end. *)
FairSpec ==
  Spec /\ \A t \in Tasks, u \in Users : WF_inProgress(Finish(t, u))
=============================================================================
