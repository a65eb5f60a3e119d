---------------------------- MODULE SetDownload ----------------------------
(***************************************************************************)
(* downloadStickerSet: one goroutine for each sticker of the set, at most  *)
(* Slots of them at work, a progress message they edit without a lock, and *)
(* the goroutine of the task that waits for them, archives what they got   *)
(* and reports what they did not.                                          *)
(*                                                                         *)
(* A sticker stands for its worker and for its files. The critical section *)
(* of the mutex is one action; the atomics of the progress throttle are    *)
(* one action each, for nothing makes them atomic together.                *)
(***************************************************************************)
EXTENDS Naturals, FiniteSets

CONSTANTS Stickers,  \* the stickers of the set
          Slots,     \* capacity of the workers' semaphore: 4 in the code
          Window,    \* the throttle's interval: 2 seconds in the code
          MaxClock   \* bound: the clock stops here

ASSUME SetDownloadAssumption ==
  /\ IsFiniteSet(Stickers) /\ Stickers # {}
  /\ Slots \in Nat \ {0}
  /\ Window \in Nat \ {0}
  /\ MaxClock \in Nat /\ MaxClock >= Window

Total == Cardinality(Stickers)

Archives == {"original", "converted"}

VARIABLES main,       \* where the task's goroutine is
          worker,     \* where each worker is
          sem,        \* length of the workers' semaphore
          files,      \* stickers whose files are in the two lists
          unconverted, \* 1 once an original stands for its conversion, too
          completed,  \* workers that are through with their sticker
          done, now, last,  \* each worker's locals in throttledProgress
          stamp,      \* lastProgressUpdate
          clock,      \* the wall clock
          progress,   \* the progress message: "none", "shown" or "deleted"
          archive,    \* what became of each archive
          short,      \* archives that miss a file of their list
          told,       \* messages about the outcome the user has received
          unheard     \* messages about it that Telegram has not taken

locals == <<done, now, last>>
shared == <<sem, files, unconverted, completed, stamp>>
messages == <<told, unheard>>
report == <<progress, archive, short, messages>>
vars   == <<main, worker, shared, locals, clock, report>>

MainLabels ==
  { "find",      \* before GetStickerSet
    "announce",  \* before sendProgress, then the loop that starts the workers
    "join",      \* in wg.Wait
    "delete",    \* before the progress message is deleted
    "count",     \* before the checks of len(originalFiles)
    "original", "converted",  \* before each FCompressVol
    "upload",    \* in the loop over zipPaths
    "end" }

Inside ==  \* the labels of a worker that holds a slot
  {"fetch", "keep", "add", "readDone", "readNow", "readLast", "swap", "edit", "exit"}

Messages == {"notFound", "fatal", "partial", "uploadFailed"}

TypeOK ==
  /\ main \in MainLabels
  /\ worker \in [Stickers -> Inside \cup {"unborn", "slot", "done", "gone"}]
  /\ sem \in 0..Slots
  /\ files \in SUBSET Stickers /\ unconverted \in 0..1
  /\ completed \in 0..Total
  /\ done \in [Stickers -> 0..Total]
  /\ now \in [Stickers -> 0..MaxClock]
  /\ last \in [Stickers -> 0..MaxClock]
  /\ stamp \in 0..MaxClock
  /\ clock \in Window..MaxClock
  /\ progress \in {"none", "shown", "deleted"}
  /\ archive \in [Archives -> {"none", "made", "dropped", "sent", "lost"}]
  /\ short \in SUBSET Archives
  /\ told \in SUBSET Messages /\ unheard \in SUBSET Messages

Init ==
  /\ main = "find"
  /\ worker = [w \in Stickers |-> "unborn"]
  /\ sem = 0 /\ files = {} /\ unconverted = 0 /\ completed = 0 /\ stamp = 0
  /\ done = [w \in Stickers |-> 0]
  /\ now = [w \in Stickers |-> 0]
  /\ last = [w \in Stickers |-> 0]
  /\ clock = Window   \* the epoch is long past: the first edit is never held
  /\ progress = "none"
  /\ archive = [a \in Archives |-> "none"]
  /\ short = {} /\ told = {} /\ unheard = {}

Advance ==
  /\ clock < MaxClock
  /\ clock' = clock + 1
  /\ UNCHANGED <<main, worker, shared, locals, report>>

-----------------------------------------------------------------------------
(* The workers *)

Goto(w, from, to) ==
  /\ worker[w] = from
  /\ worker' = [worker EXCEPT ![w] = to]

(* A semaphore that lets everyone in. *)
MutTakeSlotUnchecked(w) ==
  /\ Goto(w, "slot", "fetch")
  /\ sem' = sem + 1
  /\ UNCHANGED <<main, files, unconverted, completed, stamp, locals, clock, report>>

TakeSlot(w) ==
  /\ sem < Slots
  /\ Goto(w, "slot", "fetch")
  /\ sem' = sem + 1
  /\ UNCHANGED <<main, files, unconverted, completed, stamp, locals, clock, report>>

(* The file is there, and its conversion.                                   *)
Fetch(w) ==
  /\ Goto(w, "fetch", "keep")
  /\ UNCHANGED <<main, shared, locals, clock, report>>

(* The file is there, but its conversion has failed: the original takes its *)
(* place, and a log line is all that says so.                              *)
FetchUnconverted(w) ==
  /\ Goto(w, "fetch", "keep")
  /\ unconverted' = 1
  /\ UNCHANGED <<main, sem, files, completed, stamp, locals, clock, report>>

(* The failed worker returns without giving its slot back. *)
MutFetchFailsKeepsSlot(w) ==
  /\ Goto(w, "fetch", "gone")
  /\ UNCHANGED <<main, shared, locals, clock, report>>

(* The download failed: the worker is done, but with nothing to keep.       *)
FetchFails(w) ==
  /\ Goto(w, "fetch", "add")
  /\ UNCHANGED <<main, shared, locals, clock, report>>

(* Both lists grow while the mutex is held.                                 *)
Keep(w) ==
  /\ Goto(w, "keep", "add")
  /\ files' = files \cup {w}
  /\ UNCHANGED <<main, sem, unconverted, completed, stamp, locals, clock, report>>

Add(w) ==
  /\ Goto(w, "add", "readDone")
  /\ completed' = completed + 1
  /\ UNCHANGED <<main, sem, files, unconverted, stamp, locals, clock, report>>

ReadDone(w) ==
  /\ Goto(w, "readDone", "readNow")
  /\ done' = [done EXCEPT ![w] = completed]
  /\ UNCHANGED <<main, shared, now, last, clock, report>>

ReadNow(w) ==
  /\ Goto(w, "readNow", "readLast")
  /\ now' = [now EXCEPT ![w] = clock]
  /\ UNCHANGED <<main, shared, done, last, clock, report>>

Due(w) == done[w] = Total \/ now[w] >= stamp + Window

(* lastProgressUpdate is loaded, and the time compared with it.             *)
ReadLast(w) ==
  /\ Goto(w, "readLast", IF Due(w) THEN "swap" ELSE "exit")
  /\ last' = [last EXCEPT ![w] = stamp]
  /\ UNCHANGED <<main, shared, done, now, clock, report>>

(* A Store where the code compares and swaps. *)
MutSwapBlind(w) ==
  /\ Goto(w, "swap", "edit")
  /\ stamp' = now[w]
  /\ UNCHANGED <<main, sem, files, unconverted, completed, locals, clock, report>>

(* CompareAndSwap *)
Swap(w) ==
  /\ stamp = last[w]
  /\ Goto(w, "swap", "edit")
  /\ stamp' = now[w]
  /\ UNCHANGED <<main, sem, files, unconverted, completed, locals, clock, report>>

SwapFails(w) ==
  /\ stamp # last[w]
  /\ Goto(w, "swap", "exit")
  /\ UNCHANGED <<main, shared, locals, clock, report>>

(* editText returns: edited, refused, or not tried for lack of a message.   *)
Edit(w) ==
  /\ Goto(w, "edit", "exit")
  /\ UNCHANGED <<main, shared, locals, clock, report>>

(* The first of the deferred functions gives the slot back. The locals are  *)
(* dead.                                                                   *)
Exit(w) ==
  /\ Goto(w, "exit", "done")
  /\ sem' = sem - 1
  /\ done' = [done EXCEPT ![w] = 0]
  /\ now' = [now EXCEPT ![w] = 0]
  /\ last' = [last EXCEPT ![w] = 0]
  /\ UNCHANGED <<main, files, unconverted, completed, stamp, clock, report>>

(* The second, set up before it: wg.Done.                                   *)
Done(w) ==
  /\ Goto(w, "done", "gone")
  /\ UNCHANGED <<main, shared, locals, clock, report>>

Work(w) ==
  \/ TakeSlot(w) \/ Fetch(w) \/ FetchUnconverted(w) \/ FetchFails(w)
  \/ Keep(w) \/ Add(w) \/ ReadDone(w) \/ ReadNow(w) \/ ReadLast(w)
  \/ Swap(w) \/ SwapFails(w) \/ Edit(w) \/ Exit(w) \/ Done(w)

-----------------------------------------------------------------------------
(* The goroutine of the task *)

Proceed(from, to) == main = from /\ main' = to

workers == <<worker, shared, locals, clock>>

(* sendText, which only logs that Telegram has not taken the message.       *)
SendText(m) ==
  \/ told' = told \cup {m} /\ UNCHANGED unheard
  \/ unheard' = unheard \cup {m} /\ UNCHANGED told

FindSet ==
  /\ Proceed("find", "announce")
  /\ UNCHANGED <<workers, report>>

FindSetFails ==
  /\ Proceed("find", "end")
  /\ SendText("notFound")
  /\ UNCHANGED <<workers, progress, archive, short>>

(* sendProgress, which may fail, and the loop that starts the workers.      *)
Announce ==
  /\ Proceed("announce", "join")
  /\ progress' \in {"none", "shown"}
  /\ worker' = [w \in Stickers |-> "slot"]
  /\ UNCHANGED <<shared, locals, clock, archive, short, messages>>

(* The counter taken for the wait group. *)
MutJoinOnCount ==
  /\ completed = Total
  /\ Proceed("join", "delete")
  /\ UNCHANGED <<workers, report>>

(* wg.Wait returns.                                                         *)
Join ==
  /\ \A w \in Stickers : worker[w] = "gone"
  /\ Proceed("join", "delete")
  /\ UNCHANGED <<workers, report>>

(* deleteMessage; its failure is only logged.                               *)
Delete ==
  /\ Proceed("delete", "count")
  /\ progress' \in {progress, IF progress = "shown" THEN "deleted" ELSE progress}
  /\ UNCHANGED <<workers, archive, short, messages>>

NoFiles ==
  /\ files = {}
  /\ Proceed("count", "end")
  /\ SendText("fatal")
  /\ UNCHANGED <<workers, progress, archive, short>>

(* The partial result goes unreported. *)
MutPartialSilent ==
  /\ files # {}
  /\ Proceed("count", "original")
  /\ UNCHANGED <<workers, report>>

SomeFiles ==
  /\ files # {}
  /\ Proceed("count", "original")
  /\ IF Cardinality(files) < Total THEN SendText("partial") ELSE UNCHANGED messages
  /\ UNCHANGED <<workers, progress, archive, short>>

(* FCompressVol on a list. It skips, with a log line, a file os.Stat does   *)
(* not find. A failure is only logged, and drops the volumes that were      *)
(* made; of a list that is skipped altogether there are none either.       *)
Compress(a) ==
  \/ archive' = [archive EXCEPT ![a] = "dropped"] /\ UNCHANGED short
  \/ archive' = [archive EXCEPT ![a] = "made"] /\ short' \in {short, short \cup {a}}

ArchiveOriginal ==
  /\ Proceed("original", "converted")
  /\ Compress("original")
  /\ UNCHANGED <<workers, progress, messages>>

(* Without any archive the task is over.                                    *)
ArchiveConverted ==
  /\ main = "converted"
  /\ Compress("converted")
  /\ IF \A a \in Archives : archive'[a] = "dropped"
       THEN main' = "end" /\ SendText("uploadFailed")
       ELSE main' = "upload" /\ UNCHANGED messages
  /\ UNCHANGED <<workers, progress>>

(* sendDocument on the next archive; one volume stands for all of its.      *)
Upload ==
  /\ main = "upload"
  /\ \E a \in Archives, r \in {"sent", "lost"} :
       /\ archive[a] = "made"
       /\ a = "converted" => archive["original"] # "made"
       /\ archive' = [archive EXCEPT ![a] = r]
  /\ UNCHANGED <<main, workers, progress, short, messages>>

UploadsOver ==
  /\ \A a \in Archives : archive[a] # "made"
  /\ Proceed("upload", "end")
  /\ IF \E a \in Archives : archive[a] = "lost"
       THEN SendText("uploadFailed") ELSE UNCHANGED messages
  /\ UNCHANGED <<workers, progress, archive, short>>

Main ==
  \/ FindSet \/ FindSetFails \/ Announce \/ Join \/ Delete
  \/ NoFiles \/ SomeFiles \/ ArchiveOriginal \/ ArchiveConverted
  \/ Upload \/ UploadsOver

Next == Advance \/ Main \/ \E w \in Stickers : Work(w)

Spec == Init /\ [][Next]_vars

(* Goroutines that can move are scheduled, a semaphore with room serves     *)
(* who waits, and every call out of the process returns.                   *)
FairSpec == Spec /\ WF_vars(Main) /\ \A w \in Stickers : WF_vars(Work(w))

-----------------------------------------------------------------------------
(* PROPERTIES *)

AtWork == {w \in Stickers : worker[w] \in Inside}

(* The semaphore counts the workers between its send and its deferred       *)
(* receive, on every way out of the worker: never more than Slots downloads *)
(* and conversions at once, and no slot lost to a sticker that failed.      *)
SlotsCounted == sem = Cardinality(AtWork)

Said == told \cup unheard \* whether Telegram has taken it or not

(* Once wg.Wait has returned no worker touches the lists, the counter, the  *)
(* semaphore or the progress message any more: the lists are read without   *)
(* the mutex, and a deleted message is not edited. It takes the order of    *)
(* the deferred functions: a worker is waited for until its slot is free.   *)
JoinedClean ==
  main \in {"delete", "count", "original", "converted", "upload", "end"}
    => "notFound" \in Said
       \/ /\ \A w \in Stickers : worker[w] = "gone"
          /\ completed = Total /\ sem = 0

(* "At most once per 2 seconds", as far as it holds: an edit comes at least *)
(* Window after the time recorded for the edit before it, whichever workers *)
(* raced for the two, unless its worker has read the full count.           *)
Throttled ==
  [][\A w \in Stickers :
       worker[w] = "swap" /\ worker'[w] = "edit" /\ done[w] # Total
         => now[w] >= stamp + Window]_vars

(* Of a set that was found the task has said by its end what was lost in    *)
(* the download and in the upload, and nothing that was not: that some or   *)
(* all of the stickers are missing, and that an archive that was there, or  *)
(* the last hope of one, did not arrive. Of anything else that was lost it  *)
(* says nothing: see the property that follows. What it says Telegram may   *)
(* refuse to take, which nobody notices.                                   *)
LossTold ==
  main = "end" /\ "notFound" \notin Said =>
    /\ "fatal" \in Said <=> files = {}
    /\ "partial" \in Said <=> files # {} /\ files # Stickers
    /\ "uploadFailed" \in Said <=>
         /\ files # {}
         /\ \/ \E a \in Archives : archive[a] = "lost"
            \/ \A a \in Archives : archive[a] # "sent"

(* The task comes to its end.                                               *)
Ends == <>(main = "end")

(* The README: "If some items fail, the bot sends the files it could        *)
(* process and reports the partial result". An archive that cannot be       *)
(* written is only logged while the other one is sent, and a conversion     *)
(* that fails is only logged while the original is sent in its place. Even  *)
(* a set with both losses ends without a word.                             *)
BothLossesTold ==
  main = "end" /\ unconverted = 1 /\ (\E a \in Archives : archive[a] = "dropped")
    => Said # {}
=============================================================================
