-------------------------- MODULE TempDirs_proofs --------------------------
(***************************************************************************)
(* Proofs about TempDirs, for all names and all bounds.                    *)
(***************************************************************************)
EXTENDS TempDirs, TLAPS

(* A task that has not outlived MaxAge has its directory, which is no older *)
(* than the task and not about to be removed.                              *)
WorkingSafe ==
  \A n \in Names : task[n] = "working" /\ life[n] <= MaxAge =>
    /\ n \in entries
    /\ n # victim
    /\ age[n] <= life[n]

LEMMA TypeInit == Init => TypeOK
BY TempDirsAssumption DEF Init, TypeOK, All, MaxLimit

LEMMA TypeStep == TypeOK /\ [Next]_vars => TypeOK'
<1> SUFFICES ASSUME TypeOK, [Next]_vars PROVE TypeOK'
  OBVIOUS
<1> USE TempDirsAssumption DEF TypeOK, All, MaxLimit
<1>1. CASE UNCHANGED vars
  BY <1>1 DEF vars
<1>2. CASE Tick
  <2>1. age' \in [All -> 0..MaxLimit + 1]
    BY <1>2 DEF Tick
  <2>2. life' \in [Names -> 0..MaxAge + 1]
    BY <1>2 DEF Tick
  <2>3. timer' \in 0..Interval - 1 /\ due' \in 0..1
    BY <1>2 DEF Tick
  <2>4. limit' \in MaxAge..MaxLimit
    BY <1>2 DEF Tick
  <2> QED
    BY <1>2, <2>1, <2>2, <2>3, <2>4 DEF Tick
<1>3. ASSUME NEW n \in Names, CreateUserDir(n) \/ WriteUserDir(n) PROVE TypeOK'
  BY <1>3 DEF CreateUserDir, WriteUserDir, purgeVars
<1>4. ASSUME NEW n \in Names, CleanUserDir(n) \/ CleanFails(n) PROVE TypeOK'
  BY <1>4 DEF CleanUserDir, CleanFails, purgeVars
<1>5. CASE PurgeStart \/ PurgeStartFails \/ PurgeEnd \/ PurgeRemoveFails
  BY <1>5 DEF PurgeStart, PurgeStartFails, PurgeEnd, PurgeRemoveFails
<1>6. ASSUME NEW e \in All, PurgeSkip(e) \/ PurgeInfoFails(e) PROVE TypeOK'
  BY <1>6 DEF PurgeSkip, PurgeInfoFails
<1>7. ASSUME NEW e \in All, PurgeChoose(e) PROVE TypeOK'
  BY <1>7 DEF PurgeChoose, IsTaskDir
<1>8. CASE PurgeRemove
  BY <1>8 DEF PurgeRemove
<1>9. CASE Restart
  BY <1>9 DEF Restart
<1> QED
  BY <1>1, <1>2, <1>3, <1>4, <1>5, <1>6, <1>7, <1>8, <1>9 DEF Next, Purge

(* Every variable keeps its type: the purge's limit stays at or above       *)
(* MaxAge, and what it is about to remove is a task's directory.            *)
THEOREM TypeCorrect == Spec => []TypeOK
BY TypeInit, TypeStep, PTL DEF Spec

-----------------------------------------------------------------------------
(* The purge's look at an age is sound although it is stale when the        *)
(* removal comes: a directory that was outdated then has a task that has    *)
(* outlived MaxAge, if it has one at all.                                   *)

LEMMA WorkingStep == TypeOK /\ WorkingSafe /\ [Next]_vars => WorkingSafe'
<1> SUFFICES ASSUME TypeOK, WorkingSafe, [Next]_vars PROVE WorkingSafe'
  OBVIOUS
<1> USE TempDirsAssumption DEF TypeOK, WorkingSafe, All, MaxLimit
<1>1. CASE UNCHANGED vars
  BY <1>1 DEF vars
<1>2. CASE Tick
  <2> SUFFICES ASSUME NEW n \in Names, task'[n] = "working", life'[n] <= MaxAge
               PROVE  n \in entries' /\ n # victim' /\ age'[n] <= life'[n]
    OBVIOUS
  <2>1. task[n] = "working" /\ life[n] <= MaxAge /\ life'[n] = life[n] + 1
    BY <1>2 DEF Tick
  <2>2. n \in entries /\ n # victim /\ age[n] <= life[n]
    BY <2>1
  <2>3. age'[n] = age[n] + 1
    BY <1>2, <2>1, <2>2 DEF Tick
  <2> QED
    BY <1>2, <2>1, <2>2, <2>3 DEF Tick
<1>3. ASSUME NEW n \in Names, CreateUserDir(n) \/ WriteUserDir(n) PROVE WorkingSafe'
  BY <1>3 DEF CreateUserDir, WriteUserDir, purgeVars
<1>4. ASSUME NEW n \in Names, CleanUserDir(n) \/ CleanFails(n) PROVE WorkingSafe'
  BY <1>4 DEF CleanUserDir, CleanFails, purgeVars
<1>5. CASE PurgeStart \/ PurgeStartFails \/ PurgeEnd
  BY <1>5 DEF PurgeStart, PurgeStartFails, PurgeEnd
<1>6. ASSUME NEW e \in All, PurgeSkip(e) \/ PurgeInfoFails(e) PROVE WorkingSafe'
  BY <1>6 DEF PurgeSkip, PurgeInfoFails
<1>7. ASSUME NEW e \in All, PurgeChoose(e) PROVE WorkingSafe'
  <2>1. age[e] > MaxAge
    BY <1>7 DEF PurgeChoose, Outdated
  <2>2. e \in Names /\ task[e] = "working" => life[e] > MaxAge
    BY <2>1
  <2> QED
    BY <1>7, <2>2 DEF PurgeChoose
<1>8. CASE PurgeRemove \/ PurgeRemoveFails
  BY <1>8 DEF PurgeRemove, PurgeRemoveFails
<1>9. CASE Restart
  BY <1>9 DEF Restart
<1> QED
  BY <1>1, <1>2, <1>3, <1>4, <1>5, <1>6, <1>7, <1>8, <1>9 DEF Next, Purge

(* No task loses its directory to the purge before it has outlived MaxAge,  *)
(* whatever the two do at the same time and however long other tasks take.  *)
THEOREM LiveDirIsKept == Spec => []LiveDirKept
<1>1. Init => WorkingSafe
  BY DEF Init, WorkingSafe
<1>2. WorkingSafe => LiveDirKept
  BY DEF WorkingSafe, LiveDirKept
<1> QED
  BY <1>1, <1>2, WorkingStep, TypeCorrect, PTL DEF Spec
=============================================================================
