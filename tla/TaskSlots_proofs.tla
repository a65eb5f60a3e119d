-------------------------- MODULE TaskSlots_proofs --------------------------
(***************************************************************************)
(* Proofs about TaskSlots, for every finite set of goroutines, every set   *)
(* of users and every capacity.                                            *)
(***************************************************************************)
EXTENDS TaskSlots, FiniteSetTheorems, TLAPS

(* The inductive invariant: with TypeOK, both shared variables are told by  *)
(* the program counters, so the state of one goroutine bounds what the     *)
(* others can do.                                                          *)
Inv == TypeOK /\ ClaimsOwned /\ SlotsCounted

(* Sets of goroutines can be counted. *)
LEMMA GoroutinesFinite ==
  ASSUME NEW S, S \subseteq Goroutines
  PROVE  IsFiniteSet(S) /\ Cardinality(S) \in Nat
<1>1. IsFiniteSet(S)
  BY SlotsAssumption, FS_Subset
<1> QED
  BY <1>1, FS_CardinalityType

(* Every variable keeps its type. *)
LEMMA TypeStep == Inv /\ [Next]_vars => TypeOK'
<1> SUFFICES ASSUME Inv, [Next]_vars PROVE TypeOK'
  OBVIOUS
<1> USE DEF Inv, TypeOK, Labels, Goto
<1>1. CASE UNCHANGED vars
  BY <1>1 DEF vars
<1>2. ASSUME NEW g \in Goroutines, Dispatch(g) \/ Claim(g) \/ ClaimRefused(g)
      PROVE  TypeOK'
  BY <1>2 DEF Dispatch, Claim, ClaimRefused
<1>3. ASSUME NEW g \in Goroutines, Acquire(g) \/ AcquireRefused(g) \/ Release(g)
      PROVE  TypeOK'
  BY <1>3, SlotsAssumption DEF Acquire, AcquireRefused, Release
<1>4. ASSUME NEW g \in Goroutines, UndoClaim(g) \/ TellRefused(g)
                                   \/ TaskReturns(g) \/ Unclaim(g)
      PROVE  TypeOK'
  BY <1>4 DEF UndoClaim, TellRefused, TaskReturns, Unclaim
<1> QED
  BY <1>1, <1>2, <1>3, <1>4 DEF Next, Step

(* A goroutine that moves changes the entries of userTasks together with    *)
(* its own place among the claimants, and nobody else's.                   *)
LEMMA ClaimsStep == Inv /\ [Next]_vars => ClaimsOwned'
<1> SUFFICES ASSUME Inv, [Next]_vars PROVE ClaimsOwned'
  OBVIOUS
<1> USE DEF Inv, TypeOK, Labels, Goto, ClaimsOwned
<1>1. CASE UNCHANGED vars
  BY <1>1 DEF vars, Claimants
<1>2. ASSUME NEW g \in Goroutines, Claim(g)
      PROVE  ClaimsOwned'
  <2>1. g \notin Claimants /\ Claimants' = Claimants \cup {g}
    BY <1>2 DEF Claim, Claimants
  <2>2. uid' = uid /\ userTasks' = userTasks \cup {uid[g]} /\ uid[g] \notin userTasks
    BY <1>2 DEF Claim
  <2> QED
    BY <2>1, <2>2
<1>3. ASSUME NEW g \in Goroutines, UndoClaim(g) \/ Unclaim(g)
      PROVE  ClaimsOwned'
  <2>1. g \in Claimants /\ Claimants' = Claimants \ {g}
    BY <1>3 DEF UndoClaim, Unclaim, Claimants
  <2>2. uid' = uid /\ userTasks' = userTasks \ {uid[g]}
    BY <1>3 DEF UndoClaim, Unclaim
  <2> QED
    BY <2>1, <2>2
<1>4. ASSUME NEW g \in Goroutines, Dispatch(g)
      PROVE  ClaimsOwned'
  <2>1. g \notin Claimants /\ Claimants' = Claimants
    BY <1>4 DEF Dispatch, Claimants
  <2>2. userTasks' = userTasks /\ \A h \in Goroutines \ {g} : uid'[h] = uid[h]
    BY <1>4 DEF Dispatch
  <2>3. \A h \in Claimants : uid'[h] = uid[h]
    BY <2>1, <2>2 DEF Claimants
  <2> QED
    BY <2>1, <2>2, <2>3
<1>5. ASSUME NEW g \in Goroutines,
             ClaimRefused(g) \/ Acquire(g) \/ AcquireRefused(g)
               \/ TellRefused(g) \/ TaskReturns(g) \/ Release(g)
      PROVE  ClaimsOwned'
  <2>1. Claimants' = Claimants
    BY <1>5 DEF ClaimRefused, Acquire, AcquireRefused, TellRefused,
                TaskReturns, Release, Claimants
  <2>2. uid' = uid /\ userTasks' = userTasks
    BY <1>5 DEF ClaimRefused, Acquire, AcquireRefused, TellRefused,
                TaskReturns, Release
  <2> QED
    BY <2>1, <2>2
<1> QED
  BY <1>1, <1>2, <1>3, <1>4, <1>5 DEF Next, Step

(* The count follows the set of slot holders through every step. *)
LEMMA SlotsStep == Inv /\ [Next]_vars => SlotsCounted'
<1> SUFFICES ASSUME Inv, [Next]_vars PROVE SlotsCounted'
  OBVIOUS
<1> USE DEF Inv, TypeOK, Labels, Goto, SlotsCounted
<1>0. SlotHolders \subseteq Goroutines /\ IsFiniteSet(SlotHolders)
  BY GoroutinesFinite DEF SlotHolders
<1>1. CASE UNCHANGED vars
  BY <1>1 DEF vars, SlotHolders
<1>2. ASSUME NEW g \in Goroutines, Acquire(g)
      PROVE  SlotsCounted'
  <2>1. g \notin SlotHolders /\ SlotHolders' = SlotHolders \cup {g}
    BY <1>2 DEF Acquire, SlotHolders
  <2>2. Cardinality(SlotHolders \cup {g}) = Cardinality(SlotHolders) + 1
    BY <1>0, <2>1, FS_AddElement
  <2> QED
    BY <1>2, <2>1, <2>2 DEF Acquire
<1>3. ASSUME NEW g \in Goroutines, Release(g)
      PROVE  SlotsCounted'
  <2>1. g \in SlotHolders /\ SlotHolders' = SlotHolders \ {g}
    BY <1>3 DEF Release, SlotHolders
  <2>2. Cardinality(SlotHolders \ {g}) = Cardinality(SlotHolders) - 1
    BY <1>0, <2>1, FS_RemoveElement
  <2> QED
    BY <1>3, <2>1, <2>2 DEF Release
<1>4. ASSUME NEW g \in Goroutines,
             Dispatch(g) \/ Claim(g) \/ ClaimRefused(g) \/ AcquireRefused(g)
               \/ UndoClaim(g) \/ TellRefused(g) \/ TaskReturns(g) \/ Unclaim(g)
      PROVE  SlotsCounted'
  <2>1. SlotHolders' = SlotHolders
    BY <1>4 DEF Dispatch, Claim, ClaimRefused, AcquireRefused, UndoClaim,
                TellRefused, TaskReturns, Unclaim, SlotHolders
  <2>2. sem' = sem
    BY <1>4 DEF Dispatch, Claim, ClaimRefused, AcquireRefused, UndoClaim,
                TellRefused, TaskReturns, Unclaim
  <2> QED
    BY <2>1, <2>2
<1> QED
  BY <1>1, <1>2, <1>3, <1>4 DEF Next, Step

LEMMA InvInit == Init => Inv
<1> SUFFICES ASSUME Init PROVE Inv
  OBVIOUS
<1>1. TypeOK
  BY SlotsAssumption DEF Init, TypeOK, Labels
<1>2. Claimants = {} /\ SlotHolders = {}
  BY DEF Init, Claimants, SlotHolders
<1>3. ClaimsOwned
  BY <1>2 DEF Init, ClaimsOwned
<1>4. SlotsCounted
  BY <1>2, FS_EmptySet DEF Init, SlotsCounted
<1> QED
  BY <1>1, <1>3, <1>4 DEF Inv

LEMMA InvAlways == Spec => []Inv
<1>1. Inv /\ [Next]_vars => Inv'
  BY TypeStep, ClaimsStep, SlotsStep DEF Inv
<1> QED
  BY InvInit, <1>1, PTL DEF Spec

(* The program counters, the entries and the slot count stay in their types;*)
(* the slot count never passes the capacity of the channel.                *)
THEOREM TypeCorrect == Spec => []TypeOK
<1>1. Inv => TypeOK
  BY DEF Inv
<1> QED
  BY <1>1, InvAlways, PTL

(* No goroutine leaves an entry behind or removes another one's: a user can *)
(* always ask again once the task is over, and never while it is running.  *)
THEOREM ClaimsAreOwned == Spec => []ClaimsOwned
<1>1. Inv => ClaimsOwned
  BY DEF Inv
<1> QED
  BY <1>1, InvAlways, PTL

(* No slot leaks, and none is given back twice. *)
THEOREM SlotsAreCounted == Spec => []SlotsCounted
<1>1. Inv => SlotsCounted
  BY DEF Inv
<1> QED
  BY <1>1, InvAlways, PTL

-----------------------------------------------------------------------------
(* The running tasks of TaskSlots implement Admission. *)

(* Admission sees as many tasks in progress as there are running ones,     *)
(* which is at most the number of slots taken.                             *)
LEMMA RunningCounted ==
  ASSUME Inv
  PROVE  LET P == {<<g, uid[g]>> : g \in Running}
         IN  Cardinality(P) \in Nat /\ Cardinality(P) <= sem
<1> DEFINE P == {<<g, uid[g]>> : g \in Running}
           f == [g \in Running |-> <<g, uid[g]>>]
<1>1. Running \subseteq Goroutines /\ SlotHolders \subseteq Goroutines
      /\ Running \subseteq SlotHolders
  BY DEF Running, SlotHolders
<1>2. f \in Surjection(Running, P)
  <2>1. f \in [Running -> P]
    OBVIOUS
  <2>2. \A p \in P : \E g \in Running : f[g] = p
    OBVIOUS
  <2> QED
    BY <2>1, <2>2 DEF Surjection
<1>3. IsFiniteSet(P) /\ Cardinality(P) <= Cardinality(Running)
  <2> HIDE DEF P, f
  <2> QED
    BY <1>1, <1>2, GoroutinesFinite, FS_Surjection
<1>4. Cardinality(Running) <= Cardinality(SlotHolders)
  BY <1>1, GoroutinesFinite, FS_Subset
<1>5. Cardinality(P) \in Nat
  BY <1>3, FS_CardinalityType
<1>6. Cardinality(SlotHolders) = sem
  BY DEF Inv, SlotsCounted
<1>7. Cardinality(Running) \in Nat /\ Cardinality(SlotHolders) \in Nat
  BY <1>1, GoroutinesFinite
<1> HIDE DEF P
<1>8. Cardinality(P) \in Nat /\ Cardinality(P) <= sem
  BY <1>3, <1>4, <1>5, <1>6, <1>7
<1> QED
  BY <1>8 DEF P

(* The cardinality Admission speaks of is the one of this module. *)
LEMMA SameCardinality == \A S : Promise!Cardinality(S) = Cardinality(S)
BY DEF Promise!Cardinality, Cardinality

(* Starting a task where the semaphore and the claim allow it is a Start of *)
(* Admission, a task's return is a Finish, and all else is a stutter.       *)
LEMMA PromiseStep == Inv /\ [Next]_vars => [Promise!Next]_{<<g, uid[g]>> : g \in Running}
<1> DEFINE P == {<<g, uid[g]>> : g \in Running}
<1> SUFFICES ASSUME Inv, [Next]_vars PROVE Promise!Next \/ P' = P
  OBVIOUS
<1> USE DEF Inv, TypeOK, Labels, Goto
<1>1. CASE UNCHANGED vars
  BY <1>1 DEF vars, Running
<1>2. ASSUME NEW g \in Goroutines, Acquire(g)
      PROVE  Promise!Next
  <2>1. g \notin Running /\ Running' = Running \cup {g}
    BY <1>2 DEF Acquire, Running
  <2>2. PICK u \in Users : u = uid[g]
    OBVIOUS
  <2>3. P' = P \cup {<<g, u>>}
    BY <1>2, <2>1, <2>2 DEF Acquire
  <2>4. \A h \in Running : h # g /\ uid[h] # uid[g]
    <3>1. g \in Claimants /\ Running \subseteq Claimants
      BY <1>2 DEF Acquire, Running, Claimants
    <3> QED
      BY <2>1, <3>1 DEF ClaimsOwned
  <2>5. \A p \in P : p[1] # g /\ p[2] # u
    BY <2>2, <2>4
  <2>6. Promise!Cardinality(P) < Capacity
    BY <1>2, RunningCounted, SlotsAssumption, SameCardinality DEF Acquire
  <2>7. Promise!Start(g, u)
    BY <2>3, <2>5, <2>6 DEF Promise!Start
  <2> QED
    BY <2>7 DEF Promise!Next
<1>3. ASSUME NEW g \in Goroutines, TaskReturns(g)
      PROVE  Promise!Next
  <2>1. g \in Running /\ Running' = Running \ {g}
    BY <1>3 DEF TaskReturns, Running
  <2>2. PICK u \in Users : u = uid[g]
    OBVIOUS
  <2>3. P' = P \ {<<g, u>>} /\ <<g, u>> \in P
    BY <1>3, <2>1, <2>2 DEF TaskReturns
  <2>4. Promise!Finish(g, u)
    BY <2>3 DEF Promise!Finish
  <2> QED
    BY <2>4 DEF Promise!Next
<1>4. ASSUME NEW g \in Goroutines, Dispatch(g)
      PROVE  P' = P
  <2>1. g \notin Running /\ Running' = Running
    BY <1>4 DEF Dispatch, Running
  <2>2. \A h \in Running : uid'[h] = uid[h]
    BY <1>4, <2>1 DEF Dispatch, Running
  <2> QED
    BY <2>1, <2>2
<1>5. ASSUME NEW g \in Goroutines,
             Claim(g) \/ ClaimRefused(g) \/ AcquireRefused(g) \/ UndoClaim(g)
               \/ TellRefused(g) \/ Unclaim(g) \/ Release(g)
      PROVE  P' = P
  <2>1. Running' = Running /\ uid' = uid
    BY <1>5 DEF Claim, ClaimRefused, AcquireRefused, UndoClaim,
                TellRefused, Unclaim, Release, Running
  <2> QED
    BY <2>1
<1> QED
  BY <1>1, <1>2, <1>3, <1>4, <1>5 DEF Next, Step

(* A user has at most one task in progress and the bot at most Capacity,    *)
(* whatever the goroutines do and in whatever order.                       *)
THEOREM TasksAreAdmitted == Spec => ImplementsAdmission
<1>1. Init => Promise!Init
  BY DEF Init, Promise!Init, Running
<1> QED
  BY <1>1, PromiseStep, InvAlways, PTL DEF Spec, ImplementsAdmission, Promise!Spec
=============================================================================
