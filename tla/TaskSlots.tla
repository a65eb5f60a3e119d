----------------------------- MODULE TaskSlots -----------------------------
(***************************************************************************)
(* tryRunTask: how a handler goroutine claims the right to run a download  *)
(* task, and gives it back.                                                *)
(*                                                                         *)
(* Every update runs in a goroutine of its own, and any number of them may *)
(* be inside tryRunTask at once. They share two things: userTasks, the     *)
(* sync.Map of users that have claimed a task, and GlobalSem, the buffered *)
(* channel whose length counts the slots taken. Each map or channel        *)
(* operation is atomic; nothing makes two of them atomic together, so each *)
(* is an action here and other goroutines may act between them.            *)
(***************************************************************************)
EXTENDS Naturals, FiniteSets

CONSTANTS Goroutines,  \* handler goroutines alive at once; reused when idle
          Users,       \* Telegram user ids
          Capacity     \* MaxGlobalTasks, the capacity of GlobalSem

ASSUME SlotsAssumption ==
  /\ IsFiniteSet(Goroutines)
  /\ Capacity \in Nat \ {0}

VARIABLES pc,         \* where each goroutine is in tryRunTask
          uid,        \* the user whose update it handles
          userTasks,  \* Handler.userTasks: the users with an entry
          sem         \* len(Handler.GlobalSem)

vars == <<pc, uid, userTasks, sem>>

Labels ==
  { "idle",        \* handles no update
    "claim",       \* before userTasks.LoadOrStore
    "userBusy",    \* sending message.UserBusy
    "acquire",     \* before the select on GlobalSem
    "undo",        \* before userTasks.Delete on the capacity path
    "serverBusy",  \* sending message.ServerBusy
    "run",         \* inside fn: the task is in progress
    "unclaim",     \* before userTasks.Delete in the deferred function
    "release" }    \* before the receive from GlobalSem

TypeOK ==
  /\ pc \in [Goroutines -> Labels]
  /\ uid \in [Goroutines -> Users]
  /\ userTasks \in SUBSET Users
  /\ sem \in 0..Capacity

Init ==
  /\ pc = [g \in Goroutines |-> "idle"]
  /\ uid \in [Goroutines -> Users]
  /\ userTasks = {}
  /\ sem = 0

Goto(g, from, to) ==
  /\ pc[g] = from
  /\ pc' = [pc EXCEPT ![g] = to]

-----------------------------------------------------------------------------
(* HandleMessage calls tryRunTask for a sticker, an animation, a set link  *)
(* or the "download whole set" button of any user.                         *)
Dispatch(g) ==
  /\ Goto(g, "idle", "claim")
  /\ \E u \in Users : uid' = [uid EXCEPT ![g] = u]
  /\ UNCHANGED <<userTasks, sem>>

(* The claim stored whether or not an entry was there. *)
MutClaimUnchecked(g) ==
  /\ Goto(g, "claim", "acquire")
  /\ userTasks' = userTasks \cup {uid[g]}
  /\ UNCHANGED <<uid, sem>>

(* LoadOrStore finds no entry, stores one and reports loaded = false. *)
Claim(g) ==
  /\ uid[g] \notin userTasks
  /\ Goto(g, "claim", "acquire")
  /\ userTasks' = userTasks \cup {uid[g]}
  /\ UNCHANGED <<uid, sem>>

(* LoadOrStore finds the user's entry: the update is refused. *)
ClaimRefused(g) ==
  /\ uid[g] \in userTasks
  /\ Goto(g, "claim", "userBusy")
  /\ UNCHANGED <<uid, userTasks, sem>>

(* A slot counted although the channel is full. *)
MutAcquireUnchecked(g) ==
  /\ Goto(g, "acquire", "run")
  /\ sem' = sem + 1
  /\ UNCHANGED <<uid, userTasks>>

(* The send into GlobalSem goes through: fn starts. *)
Acquire(g) ==
  /\ sem < Capacity
  /\ Goto(g, "acquire", "run")
  /\ sem' = sem + 1
  /\ UNCHANGED <<uid, userTasks>>

(* The channel is full: the select takes its default case. *)
AcquireRefused(g) ==
  /\ sem = Capacity
  /\ Goto(g, "acquire", "undo")
  /\ UNCHANGED <<uid, userTasks, sem>>

(* The capacity path returns without taking the claim back. *)
MutUndoForgotten(g) ==
  /\ Goto(g, "undo", "serverBusy")
  /\ UNCHANGED <<uid, userTasks, sem>>

UndoClaim(g) ==
  /\ Goto(g, "undo", "serverBusy")
  /\ userTasks' = userTasks \ {uid[g]}
  /\ UNCHANGED <<uid, sem>>

(* The network call of a refusal is over; its error is ignored. *)
TellRefused(g) ==
  /\ \/ Goto(g, "userBusy", "idle")
     \/ Goto(g, "serverBusy", "idle")
  /\ UNCHANGED <<uid, userTasks, sem>>

(* The deferred function has no Delete: the user's entry stays. *)
MutClaimKept(g) ==
  /\ Goto(g, "run", "release")
  /\ UNCHANGED <<uid, userTasks, sem>>

(* fn returns, whatever became of the task: the deferred function runs. *)
TaskReturns(g) ==
  /\ Goto(g, "run", "unclaim")
  /\ UNCHANGED <<uid, userTasks, sem>>

(* The deferred function ends at the Delete: the slot is never given back. *)
MutSlotKept(g) ==
  /\ Goto(g, "unclaim", "idle")
  /\ userTasks' = userTasks \ {uid[g]}
  /\ UNCHANGED <<uid, sem>>

Unclaim(g) ==
  /\ Goto(g, "unclaim", "release")
  /\ userTasks' = userTasks \ {uid[g]}
  /\ UNCHANGED <<uid, sem>>

Release(g) ==
  /\ sem > 0
  /\ Goto(g, "release", "idle")
  /\ sem' = sem - 1
  /\ UNCHANGED <<uid, userTasks>>

(* What the goroutine does once an update is dispatched to it. *)
Step(g) ==
  \/ Claim(g) \/ ClaimRefused(g)
  \/ Acquire(g) \/ AcquireRefused(g) \/ UndoClaim(g)
  \/ TellRefused(g) \/ TaskReturns(g) \/ Unclaim(g) \/ Release(g)

Next == \E g \in Goroutines : Dispatch(g) \/ Step(g)

Spec == Init /\ [][Next]_vars

(* A goroutine that can move is scheduled, a network call returns (the      *)
(* Telegram client has a timeout) and a task ends. No update is bound to    *)
(* arrive, so Dispatch is not fair.                                        *)
FairSpec == Spec /\ \A g \in Goroutines : WF_vars(Step(g))

-----------------------------------------------------------------------------
(* PROPERTIES *)

Claimants   == {g \in Goroutines : pc[g] \in {"acquire", "undo", "run", "unclaim"}}
SlotHolders == {g \in Goroutines : pc[g] \in {"run", "unclaim", "release"}}
Running     == {g \in Goroutines : pc[g] = "run"}

(* The entries of userTasks are exactly the users of the goroutines that    *)
(* have claimed and not yet unclaimed, one goroutine for each entry: no     *)
(* path, refused or finished, leaves an entry behind (its user would be     *)
(* locked out until a restart), and no goroutine deletes the entry of       *)
(* another one of the same user.                                           *)
ClaimsOwned ==
  /\ userTasks = {uid[g] : g \in Claimants}
  /\ \A g, h \in Claimants : uid[g] = uid[h] => g = h

(* The length of GlobalSem is the number of goroutines between the send and *)
(* the receive. So the receive of the deferred function never blocks, no   *)
(* slot leaks, and the number the dashboard shows as active tasks is right. *)
SlotsCounted == sem = Cardinality(SlotHolders)

(* The running tasks behave as Admission says: one for each user, at most   *)
(* Capacity of them, each one ending.                                      *)
Promise == INSTANCE Admission
             WITH Tasks <- Goroutines,
                  inProgress <- {<<g, uid[g]>> : g \in Running}
ImplementsAdmission == Promise!Spec
ImplementsFairAdmission == Promise!FairSpec

(* A user who has claimed is free to ask again later, whichever goroutine   *)
(* holds the claim and whichever way it leaves tryRunTask; and a bot at its  *)
(* capacity gets room again.                                               *)
Freed ==
  /\ \A u \in Users : u \in userTasks ~> u \notin userTasks
  /\ sem = Capacity ~> sem < Capacity
=============================================================================
