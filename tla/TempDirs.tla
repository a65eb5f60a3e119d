------------------------------ MODULE TempDirs ------------------------------
(***************************************************************************)
(* The temporary directories of download tasks, and the background purge.  *)
(*                                                                         *)
(* A task creates a directory of its own, works in it and removes it when  *)
(* it ends. The purge goroutine lists the data directory once per          *)
(* interval and removes the task directories older than MaxAge: entry by   *)
(* entry, with tasks running between its steps, and with no idea whether   *)
(* the task of a directory is still at work. Directories outlive the       *)
(* process; nothing else here does.                                        *)
(*                                                                         *)
(* Time is counted in ticks of equal, unspecified length.                  *)
(***************************************************************************)
EXTENDS Naturals, FiniteSets

CONSTANTS Names,     \* {uid}_{randomHex} names of task directories
          Files,     \* entries of the data directory that are no directories
          Misnamed,  \* entries with other names, directories or not
          MaxAge,    \* the purge's age limit: 24 hours in the code
          Interval,  \* ticks between two firings of its ticker: one hour
          MaxPurge,  \* bound: a purge takes at most this long
          NoName     \* no entry at all

ASSUME TempDirsAssumption ==
  /\ Names \cap (Files \cup Misnamed) = {}
  /\ MaxAge \in Nat
  /\ Interval \in Nat \ {0}
  /\ MaxPurge \in Nat
  /\ NoName \notin Names \cup Files \cup Misnamed

MaxLimit == MaxAge + MaxPurge

VARIABLES entries,  \* what the data directory holds
          age,      \* ticks since an entry was last modified, up to MaxLimit + 1
          task,     \* the task a name belongs to: "none", "working" or "over"
          life,     \* ticks a working task has taken, up to MaxAge + 1
          timer,    \* ticks since the purge's ticker last fired or was made
          due,      \* ticks in the ticker's channel
          purger,   \* the purge goroutine: "waiting" or "purging"
          limit,    \* how old the cutoff makes an outdated entry, while purging
          todo,     \* listed entries the purge has not come to
          victim    \* the entry it found outdated and is about to remove

vars == <<entries, age, task, life, timer, due, purger, limit, todo, victim>>

All == Names \cup Files \cup Misnamed

TypeOK ==
  /\ entries \in SUBSET All
  /\ age \in [All -> 0..MaxLimit + 1]
  /\ task \in [Names -> {"none", "working", "over"}]
  /\ life \in [Names -> 0..MaxAge + 1]
  /\ timer \in 0..Interval - 1
  /\ due \in 0..1
  /\ purger \in {"waiting", "purging"}
  /\ limit \in MaxAge..MaxLimit
  /\ todo \in SUBSET All
  /\ victim \in Names \cup {NoName}

Init ==
  /\ entries = Files \cup Misnamed
  /\ age = [e \in All |-> 0]
  /\ task = [n \in Names |-> "none"]
  /\ life = [n \in Names |-> 0]
  /\ timer = 0
  /\ due = 0
  /\ purger = "waiting"
  /\ limit = MaxAge
  /\ todo = {}
  /\ victim = NoName

purgeVars == <<timer, due, purger, limit, todo, victim>>

-----------------------------------------------------------------------------
(* Time *)

(* A tick passes. The ticker fires when its interval is over; its channel   *)
(* holds one tick, and a further one is dropped.                           *)
Tick ==
  /\ purger = "purging" => limit < MaxLimit
  /\ age' = [e \in All |-> IF age[e] > MaxLimit THEN age[e] ELSE age[e] + 1]
  /\ life' = [n \in Names |-> IF task[n] # "working" \/ life[n] > MaxAge
                               THEN life[n] ELSE life[n] + 1]
  /\ timer' = IF timer + 1 = Interval THEN 0 ELSE timer + 1
  /\ due' = IF timer + 1 = Interval THEN 1 ELSE due
  /\ limit' = IF purger = "purging" THEN limit + 1 ELSE limit
  /\ UNCHANGED <<entries, task, purger, todo, victim>>

-----------------------------------------------------------------------------
(* Tasks: they take as long as they take                                    *)

(* CreateUserDir. Eight random bytes make the name one that was never used; *)
(* here a name is used again once nothing remembers it.                     *)
CreateUserDir(n) ==
  /\ n \notin entries /\ task[n] = "none"
  /\ n \notin todo /\ n # victim
  /\ entries' = entries \cup {n}
  /\ age' = [age EXCEPT ![n] = 0]
  /\ task' = [task EXCEPT ![n] = "working"]
  /\ UNCHANGED <<life, purgeVars>>

(* The task makes something in the directory itself: the subdirectory of a  *)
(* sticker or a set, or any of the files of an animation. What a sticker or *)
(* a set makes later lies deeper, and leaves the entry's time alone.        *)
WriteUserDir(n) ==
  /\ task[n] = "working" /\ n \in entries
  /\ age' = [age EXCEPT ![n] = 0]
  /\ UNCHANGED <<entries, task, life, purgeVars>>

(* The deferred CleanUserDir removes the directory, if the purge did not.   *)
CleanUserDir(n) ==
  /\ task[n] = "working"
  /\ entries' = entries \ {n}
  /\ task' = [task EXCEPT ![n] = "none"]
  /\ life' = [life EXCEPT ![n] = 0]
  /\ UNCHANGED <<age, purgeVars>>

(* It cannot: the error is logged and the directory stays.                  *)
CleanFails(n) ==
  /\ task[n] = "working"
  /\ n \in entries
  /\ task' = [task EXCEPT ![n] = "over"]
  /\ life' = [life EXCEPT ![n] = 0]
  /\ UNCHANGED <<entries, age, purgeVars>>

-----------------------------------------------------------------------------
(* StartAutoClean and PurgeOutdated *)

(* The ticker's channel is read, the directory listed, the cutoff taken.    *)
PurgeStart ==
  /\ due = 1 /\ purger = "waiting"
  /\ due' = 0
  /\ purger' = "purging"
  /\ limit' = MaxAge
  /\ todo' = entries
  /\ UNCHANGED <<entries, age, task, life, timer, victim>>

(* The directory cannot be listed: an error is logged and that was it.      *)
PurgeStartFails ==
  /\ due = 1 /\ purger = "waiting"
  /\ due' = 0
  /\ UNCHANGED <<entries, age, task, life, timer, purger, limit, todo, victim>>

(* An entry exactly as old as the limit taken for an outdated one. *)
MutOutdatedEarly(e) == age[e] >= limit
(* The comparison with the cutoff the wrong way round. *)
MutOutdatedSwapped(e) == age[e] < limit

(* ModTime().Before(cutoff) *)
Outdated(e) == age[e] > limit

(* Any directory taken for a task's. *)
MutIsTaskDir(e) == e \notin Files

(* entry.IsDir() and userDirName.MatchString(entry.Name())                  *)
IsTaskDir(e) == e \notin Files /\ e \notin Misnamed

(* The next entry is left alone: no task directory, or young enough.        *)
PurgeSkip(e) ==
  /\ purger = "purging" /\ victim = NoName
  /\ e \in todo /\ todo' = todo \ {e}
  /\ IsTaskDir(e) => e \in entries /\ ~Outdated(e)
  /\ UNCHANGED <<entries, age, task, life, timer, due, purger, limit, victim>>

(* Info fails, which it does for an entry that is gone: the purge goes on.  *)
PurgeInfoFails(e) ==
  /\ purger = "purging" /\ victim = NoName
  /\ e \in todo /\ todo' = todo \ {e}
  /\ IsTaskDir(e)
  /\ UNCHANGED <<entries, age, task, life, timer, due, purger, limit, victim>>

(* Info finds the next entry outdated.                                      *)
PurgeChoose(e) ==
  /\ purger = "purging" /\ victim = NoName
  /\ e \in todo /\ todo' = todo \ {e}
  /\ IsTaskDir(e) /\ e \in entries /\ Outdated(e)
  /\ victim' = e
  /\ UNCHANGED <<entries, age, task, life, timer, due, purger, limit>>

(* RemoveAll succeeds; the entry may be gone by now.                        *)
PurgeRemove ==
  /\ victim # NoName
  /\ entries' = entries \ {victim}
  /\ task' = [n \in Names |-> IF n = victim /\ task[n] = "over"
                               THEN "none" ELSE task[n]]
  /\ victim' = NoName
  /\ UNCHANGED <<age, life, timer, due, purger, limit, todo>>

(* RemoveAll fails: the purge goes on with the next entry.                  *)
PurgeRemoveFails ==
  /\ victim # NoName
  /\ victim \in entries
  /\ victim' = NoName
  /\ UNCHANGED <<entries, age, task, life, timer, due, purger, limit, todo>>

PurgeEnd ==
  /\ purger = "purging" /\ todo = {} /\ victim = NoName
  /\ purger' = "waiting"
  /\ limit' = MaxAge
  /\ UNCHANGED <<entries, age, task, life, timer, due, todo, victim>>

-----------------------------------------------------------------------------
(* The process dies and starts again: the tasks are lost, their directories *)
(* stay, and the purge waits a whole interval before it looks.             *)
Restart ==
  /\ task' = [n \in Names |-> IF n \in entries THEN "over" ELSE "none"]
  /\ life' = [n \in Names |-> 0]
  /\ timer' = 0
  /\ due' = 0
  /\ purger' = "waiting"
  /\ limit' = MaxAge
  /\ todo' = {}
  /\ victim' = NoName
  /\ UNCHANGED <<entries, age>>

Purge ==
  \/ PurgeStart \/ PurgeStartFails
  \/ \E e \in All : PurgeSkip(e) \/ PurgeInfoFails(e) \/ PurgeChoose(e)
  \/ PurgeRemove \/ PurgeRemoveFails \/ PurgeEnd

Next ==
  \/ Tick
  \/ \E n \in Names : \/ CreateUserDir(n) \/ WriteUserDir(n)
                      \/ CleanUserDir(n) \/ CleanFails(n)
  \/ Purge
  \/ Restart

Spec == Init /\ [][Next]_vars

(* Time passes, tasks end, the purge goroutine is scheduled, and a listing, *)
(* a look at a directory and a removal that are tried again and again work  *)
(* some time. Restarts may happen or not.                                   *)
FairSpec ==
  /\ Spec
  /\ WF_vars(Tick)
  /\ \A n \in Names : WF_vars(CleanUserDir(n) \/ CleanFails(n))
  /\ WF_vars(Purge)
  /\ SF_vars(PurgeStart)
  /\ \A n \in Names : SF_vars(PurgeChoose(n)) /\ SF_vars(PurgeRemove /\ victim = n)

-----------------------------------------------------------------------------
(* PROPERTIES *)

(* No task loses its directory to the purge before it has taken longer than *)
(* MaxAge, wherever it writes: the purge goes by the directory's time, and  *)
(* removes it some while after it has looked. A task that takes longer can  *)
(* lose it, for nothing tells the purge that it is still at work.           *)
LiveDirKept ==
  \A n \in Names : task[n] = "working" /\ life[n] <= MaxAge => n \in entries

AbandonedGoes ==
  \A n \in Names : task[n] = "over" ~> n \notin entries

(* An abandoned directory goes: of a task that could not remove it, or of   *)
(* one that a restart cut off; provided that the process stays up from     *)
(* some time on.                                                           *)
AbandonedPurged == <>[][~Restart]_vars => AbandonedGoes
=============================================================================
