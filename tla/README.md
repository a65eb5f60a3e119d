# x_sticker_bot: a TLA+ verification project

The bot downloads Telegram stickers, sticker sets and GIFs, converts them and
sends them back. Nothing in it is complicated by itself; what is hard to test is
that everything happens at once: one goroutine for each update, worker goroutines
inside a task, background goroutines that clean up, a process that may be killed,
and calls to Telegram that may fail at any point.

Each module here models one component, from the Go code under `src/internal`.
`PROJECT.json` maps every definition to the lines it stands for. TLC checks the
components on small instances; TLAPS proves the theorems in the `*_proofs` modules
for every value of the constants.

## The system

| Component | State | Operations | Interacts with |
|---|---|---|---|
| Task admission (`command/download.go`, `tryRunTask`) | `userTasks` (sync.Map), `GlobalSem` (channel of 20) | claim, take a slot, run, unclaim, release; two refusals | all goroutines that handle updates share it |
| Task (`HandleMessage`, `HandleDownload`, `downloadSingleSticker`, `handleAnimationDownload`) | its directory, its progress message | create the directory, download, convert, send, clean up | runs inside admission; uses directories, transfer, conversion |
| Set download (`downloadStickerSet`) | lists under a mutex, atomic counters, a semaphore of 4, the progress message | workers; throttled progress; join; two archives; uploads; reports | transfer, conversion, archives |
| File transfer (`downloadTelegramFile`) | attempt counter | get the path, fetch, retry on 429, write | Telegram |
| Archives (`sticker/util.go`) | files on disk | split into volumes, write each | set download |
| Conversion (`sticker/convert.go`, `tgs.go`) | files on disk | pipelines of external programs | set download, tasks |
| Temporary directories (`storage/tempfile.go`) | the data directory | create, clean, hourly purge | tasks; restarts |
| Rate limiter (`ratelimit/limiter.go`) | token buckets, global and for each user and command | allow, allow command, evict idle users | routing |
| Routing (`bot/bot.go`) | none | commands, default handler | limiter, tasks, metrics |
| Polling and health (`bot/polling.go`, `monitor/poll_health.go`) | time of the last good poll | observe, report | dashboard |
| Metrics (`monitor/metrics.go`) | counters, ring buffer of 3600 entries | record, snapshot | routing, dashboard |
| Statistics (`storage/stats.go`) | SQLite counters, the salt | record, query | tasks, dashboard |
| Dashboard (`monitor/dashboard.go`) | none | health, metrics, statistics | Docker's health check, the page |
| Worker pools, messages, configuration, deployment files | none that matters | | |

What is hard in each, at the line where it bites, is the `hazards` list of
`PROJECT.json`, with the properties that would catch it going wrong.

## Modules

### TaskSlots and Admission

`TaskSlots` is `tryRunTask`. A goroutine goes through the labels of `pc`, one for
each operation on shared state: `LoadOrStore` (`Claim`, `ClaimRefused`), the select
on the channel (`Acquire`, `AcquireRefused`), the undo (`UndoClaim`), the refusals'
messages (`TellRefused`), and the deferred `Delete` (`Unclaim`) and receive
(`Release`). `Dispatch` is an update's arrival: the library starts a goroutine for
each update, so any number of them may be at any label; a goroutine of the model
that is idle again stands for a new one. What the task does is one label, `run`.
A panic is not modelled: it ends the process, and with it all of this state.

`Admission` says what this is for, on a set of tasks in progress: one for each
user, at most `Capacity` of them, each one ending. `TaskSlots` implements it with
the goroutines at `run` as the tasks (`Promise`).

`ClaimsOwned` and `SlotsCounted` relate the two shared variables to the program
counters. They say more than the promise: that no path leaves an entry in
`userTasks` behind, that nobody deletes an entry of another goroutine, and that the
deferred receive neither blocks nor frees the slot of another task, although the
claim is deleted *before* the slot is received and a user may therefore hold two
slots for a moment. `Freed` is the liveness they are needed for. What a refused user is
told is less exact: `UserBusy` ("You already have a task in progress") goes by the entry
alone, which an update that is itself being refused for lack of a slot still holds.

### TempDirs

The data directory, the tasks' part in it and the purge goroutine. Time is in ticks;
the ticker fires every `Interval` of them and its channel keeps one (`due`). A purge
lists the directory and takes its cutoff (`PurgeStart`, or `PurgeStartFails`, which ends
it), then goes through the listed entries: `PurgeSkip`, `PurgeInfoFails`, or
`PurgeChoose` when `Info` finds the entry outdated, and, as a separate step,
`PurgeRemove` or `PurgeRemoveFails`. Tasks, restarts and ticks may come between any two
of these. An entry is a task's (`IsTaskDir`) if it is a directory and has the right form
of name: there are also `Files` and `Misnamed` entries, the database among them.

The time of a directory changes when an entry is made in it: by `MkdirAll` for a sticker
or a set, whose files then lie one level deeper, and by each file of an animation, which
go into the directory itself (`WriteUserDir`, which any task may do at any time). A task
takes as long as it takes; `life` counts how long, up to just above `MaxAge`. A name
consists of eight random bytes and is never drawn twice; the model reuses a name once
neither the directory, nor a task, nor the purge remembers it. `CleanUserDir` covers
every way out of a task, the function being deferred; `Restart` is the process killed
and started again, deferred functions not run.

`LiveDirKept` says that a task keeps its directory until it has taken longer than
`MaxAge`. A longer one can lose it while at work: no conversion but that of a .tgs file
has a deadline, `Retry-After` is obeyed whatever it says, and the purge goes by the
directory's time alone. No document says otherwise, so this is not a finding.

### SetDownload

`downloadStickerSet` with one goroutine for each sticker. The progress throttle is
split at each atomic operation (`ReadDone`, `ReadNow`, `ReadLast`, `Swap`), because
the code takes no lock there; the two appends under the mutex are one action
(`Keep`). The loop that starts the workers is one action with the message that
precedes it: a worker that has not been started yet is one that has not moved.
A conversion that fails puts the original in its place (`FetchUnconverted`, recorded in
`unconverted`); an archive stands for all of its volumes and may miss a file that
`os.Stat` did not find (`short`). The deferred functions of a worker are two steps, the
slot first (`Exit`), then `wg.Done` (`Done`). Calls whose errors are only logged may fail:
the edits of the progress message (`progress`), and every message to the user, which is
`told` or `unheard` (`SendText`); `Said` is what was sent off, whatever became of it.

`LossTold` says exactly when a set that was found reports that stickers are missing and
that an upload failed. It does not say that every loss is reported: an archive that
could not be written and a conversion that failed are not, nor is a file that an archive
skipped. `BothLossesTold` asks for the least that README.md:22 promises, a word to the user
when both have happened, and is refuted.

`Throttled` is how far the comment "at most once per 2 seconds" on the throttle
holds: a worker that has read the full count edits at any time, so the last two
edits may be any distance apart.

### Volumes and Archive

`Volumes` is `FCompressVol`, one action for each branch of its loop, and the loop that
writes the volumes. A file is its size. The properties compare the division that was
made with the sizes summed anew (`SizeUpTo`). `OverfullOnlyAlone` is
how far the comment "volumes of up to 50MB each" holds: a file above the limit is
archived in a volume above the limit. `NoEarlySplit` is the reverse, with the code's
`>=`: a file begins a volume only if the one before would reach the limit with it. The
comment on the condition says "would exceed", and its `>=` is stricter than that: two files
that fill a volume exactly are put in two.

`Archive` extends it with the inside of a call of `FCompress`, call by call: the Zip and
ZipFails of `Volumes` happen at its last step (`Close`, `Remove`). The two deferred
functions hand an error to each other through the named result, and run in the reverse
of the order they are written in; `ArchivesWhole` is what comes of it: a path that is
returned is that of an archive with all its members, its directory and its last byte,
and of the one that failed nothing is left unless its removal failed too.

In each module the definitions named `Mut...` are faulty variants of the definition
that follows them; none is used by a specification. Each is there to show that a
property notices the fault: replacing the definition by its variant makes TLC
refute the property that `PROJECT.json` lists with it.

### DownloadTask

One task from its slot to its end, for each kind of update that starts one:
`HandleDownload` for a sticker or a set, `handleAnimationDownload` for a GIF, and
`downloadTelegramFile` with its retry loop, which both go through. Every call out of
the process succeeds or fails, the messages to the user too: `sendText` only logs its
failure, and a message is `told` or `unheard`. `Answered` is what the code sees to: that
a task which has sent no document has sent off a message. A label of `pc` is a place in the code; `return` is
where the deferred `CleanUserDir` runs, which the code sets up only after the
directory has been made, so `MakeDirFails` does not go there. `WholeFileUsed` looks
at the file on disk, which a body cut off leaves there under its final name.
`ProgressGone` says exactly where the progress message is left in the chat: on the
early returns of an animation's task, whose deletion is not deferred, and nowhere
else. A set's task is one step (`DownloadSet`), and `SetDownload` the inside of it.
`recordStat` (see `Requests`) and the sending of hints change nothing here and are left
out.

### Conversion

`Conversion` extends `DownloadTask` with the inside of a conversion, program by program:
`ToPng`, `ToGif` with ffmpeg and gifsicle, and `tgsToGif`, whose renderer and encoder
share one deadline and a directory of frames. The Convert and ConvertFails of the task
happen at its last step, so that `CSpec` implements the task's `Spec` (proved). An exit
without an error leaves a file or none (`out`), for only the .tgs pipeline looks whether
there is one; what is missing is noticed by the archive or the upload (`OutputThere`).
gifsicle works in place and its failure is ignored: it may leave the file `spoilt`.
Only the two programs of the .tgs pipeline may hang, because only they have a deadline:
`Exit` is not fair, `Kill` is, and `Ends` holds because of it. A set converts its stickers
in the same way, as a step of `SetDownload`'s Fetch.

### Requests, with Metrics and UsageStats

`Metrics` and `UsageStats` are the methods of two objects that live as long as the
process and longer, `Requests` the program that calls them: an update comes to a
handler, which asks the limiter (granted or refused as it likes), counts it, and passes
it on; a callback or a message may then make an event. The dashboard takes one page
at a time, the day changes, and the process may be killed and started again.

`RecordRequest` is five steps (the total, the time, the ring buffer, the counter of the
name by `LoadOrStore`, its increment), `Snapshot` one for each thing it loads, and one
for each key `Range` visits; `pending` is what Range still has to come to, which includes
the keys there were and any of those stored meanwhile. `RecordEvent` takes the date and
the hash before it waits for the only database connection (`Prepare`), and its statement
is one step (`Exec`); a report is the two queries of `QueryDailyJSON`. A hash is the pair
of salt and user; a salt is `Given`, or drawn anew by each process.

An update that is neither a message nor a callback is not counted (`Ignore`).

`NothingLost` counts what came against what was counted. `RateRight` says how far
"requests per minute" is one: it is right up to the size of the ring, it saturates
there, and a goroutine held up between its time and the mutex can only make it less.
The size of 3600 is below what the global limit of 100 a second lets through. A snapshot
and a report are of no single moment; `SnapshotFresh` and `ReportConsistent` are what
can be relied on all the same. A report of the last 30 days has 31 dates, the comparison
being inclusive, and 32 when midnight comes between the date and the query: `ReportDays`,
which is what the README, a comment and the dashboard say, is refuted. `hashUID` is taken
to be injective; the code keeps 48 bits of the hash, so two users in many millions may
count as one.

### PollHealth

`pollingHTTPClient.Do`, through which all calls of the bot go, `PollingHealth` and
`/api/health`, between the library's polling loop and Docker's health check. The loop
polls again at once after a success and waits up to the back-off after an error; the
server answers a poll with nothing shortly before the client's deadline. What the
response parses to is one of seven answers. `since` is the age of `lastSuccess`.

How long a start takes until the first poll (`startup`) is any time up to `StartUp`.
The code bounds it by the deadlines of its own calls only: 5 seconds for the getMe of
`tgbot.New`, and the client's 60 for the one that follows. Together with a first poll in
a quiet chat, which takes another 60, this can be longer than the 90 seconds that the
container's health check waits: `UnhealthyMeansTrouble` excepts such a start
(`SlowStart`), which the repository does not speak of.

### RateLimiter

`Allow`, `AllowCommand` and `CleanupStale`, split at every access to something shared:
the lookup in the map (`Load`), `LoadOrStore` (`StoreNew`, `StoreLoaded`), `lastSeen`
under the limiter's mutex (`Touch`), the two buckets (`TakeGlobal`, `RefuseGlobal`,
`Grant`, `RefuseUser`), the cleaner's look at `lastSeen` (`Examine`) and its deletion
(`Evict`). A limiter is an object with an identity, because a request goes on using
one that is no longer in the map; that is where the interesting cases are. A kind is
"general" or a command, each with a bucket of its own in the limiter. A command's
bucket is made, full, at its first use, which is the same as its being full from the
start. The buckets are those of `golang.org/x/time/rate`, in integers: `Cost` ticks
for a token, `Burst` tokens at most.

What the limiter promises is stated against a bucket that is never dropped
(`credit`): `QuotaUnlessRaced` says that a user is never granted more than that
bucket would, except a user whose limiter was dropped while a request had it or
after one had been through it since the cleaner's look (`raced`). Two requests that
make a user's first limiter at once are no exception, and dropping an idle user's
limiter is not either: this is what `Burst * Cost <= MaxIdle` is for, a bucket idle
for that long being full. `RefusedOnlyBeyond` is the converse.

## Runs

| Run | Instance | Shows |
|---|---|---|
| `slots` | 3 goroutines, 3 users, 2 slots | the invariants, `Admission` with its fairness, `Freed` |
| `tempdirs` | 2 names, a file and another directory, `MaxAge` 2, `Interval` 2, a purge of up to 1 tick | no directory purged before its task has taken longer than `MaxAge`, abandoned ones purged if restarts stop |
| `tempdirs_restarts` | 1 name | **refuted**: abandoned directories are purged although the process is restarted for ever |
| `setdownload` | 3 stickers, 2 slots, clock from `Window` to 2 `Window` | the join, the semaphore, the throttle, what is reported and when, termination |
| `setdownload_loss` | 2 stickers | **refuted**: a set that has lost an archive and a conversion is told of either |
| `task` | every kind of task and of file, 3 requests, a deadline of 3 | every return cleans up and answers; no partial file and no failed .tgs conversion is used; frames go; the task ends |
| `limiter` | 2 requests, 2 users, 4 limiters, bursts 2 and 3, `MaxIdle` 2 | the limit over all time, up to the cleaner's race; no refusal within it |
| `limiter_race` | the same | **refuted**: the limit without exception |
| `volumes` | all lists of up to 5 files of sizes 0 to 4 or missing, limit 3, any call failing | the partition and its bounds; whole archives or none |
| `requests` | 3 updates, 2 users, 2 names, a ring of 2, 2 days, 1 restart unless the salt is given | nothing lost or counted twice; what the rate, the snapshot and the report may be relied on for |
| `requests_days` | 2 updates on 2 days, `Days` 1 | **refuted**: a report of N days has at most N |
| `polling` | the code's times in units of 5 s | one failed poll is tolerated; a quiet chat does not make the container unhealthy, nor a start unless it is slow; the report comes to the truth |

The four refuted properties are what a message, the README or a comment of the
repository says; `findings` quotes each and says what the code does instead.

Bounds. Three goroutines are enough for one user's two updates to race while another
user holds a slot, and for both refusals; the safety part is proved for any number.
`tempdirs` counts ages and lives to just above `MaxAge`, which tells all tasks apart that
the comparison does, and lets a purge take one tick (`MaxPurge`), so that an age may
change between its look and its removal; two names let it handle one while the other's
task acts.
In `setdownload` three workers on two slots have one wait while two race in the
throttle; the clock allows edits that are due, not due, and due again. Lists of five
files over these sizes have volumes that end below, at and above the limit, empty
files on each side of a boundary, and files too large at any position. `task` has
the code's own number of requests. In `limiter`, `Burst * Cost = MaxIdle` is the edge
at which a dropped bucket is just full; two requests suffice for the race to make a
limiter, and for one to hold a dropped limiter while the other gets a new one; the
global bucket is smaller than the two users' bursts, so that it refuses as well. Time
passes only while no request is inside the limiter and the cleaner is not running
(microseconds, against a tick of seconds).
In `requests` two goroutines are at work at a time (`MaxBusy`), two updates or an update
and the dashboard, whose one page may last while all three updates come and go: two
make the race for a counter, three overfill the ring of two. The window of the rate and
the days of a report are 0, this minute and today, so that two moments of the clock are
one inside and one outside. `polling` has the real times; a start takes up to 65 seconds
(`StartUp`), the deadlines of its two calls.

Fairness. A goroutine that can move is scheduled, and calls to Telegram and to the
disk return: `httpClient` and the bot's client have timeouts. External converters
have none (except in the TGS pipeline), so that a task ends is an assumption.
Docker checks, the client's timeout ends a poll, and time goes on however many polls
fail at once (strong fairness: an error without a wait must not stop the clock).
Updates need not arrive, restarts need not happen or stop. The removal of a
directory that is tried for ever succeeds some time (strong fairness), and so do the
listing of the data directory and the look at an entry: a removal that always fails
leaves its directory for good, as one expects.

## Proofs

`TaskSlots_proofs`, for any finite set of goroutines and any capacity. The inductive
invariant is `TypeOK /\ ClaimsOwned /\ SlotsCounted`: `ClaimsOwned` makes a claimed
goroutine's user its own (so `Unclaim` removes its own entry and no other), and
`SlotsCounted` turns the channel's guard into a bound on goroutines. From it follow
`TypeCorrect`, `ClaimsAreOwned`, `SlotsAreCounted`, and `TasksAreAdmitted`: every step
is a step of `Admission` or a stutter. In that last proof the tasks in progress, a
set of pairs, are counted by way of the running goroutines, a subset of the slot
holders.

`TempDirs_proofs`, for any names, entries and bounds and tasks of any length:
`TypeCorrect`, by which only what `IsTaskDir` accepts is ever chosen for removal, and
`LiveDirIsKept`. The invariant of the latter (`WorkingSafe`) says of a name that a task
has worked under for at most `MaxAge` that it is in the directory, that it is not the
purge's victim, and that it is no older than its task. The middle part is what makes the
stale look at an age harmless: an outdated name has no task as young as that, and a task
cannot start on a name while the purge remembers it.

`RateLimiter_proofs`, for any requests, users, kinds and bounds with
`Burst * Cost <= MaxIdle`. The inductive invariant has four parts. `OwnedInMap`: the
map and the requests agree on whose each limiter is, also for a limiter that is no
longer in the map. `UnracedExact`: while no limiter of a user's has been dropped in
use, all of the user's requests hold the one in the map, which has no more tokens than
the user's `credit`, and the credit is full or at least as many ticks' worth as the
limiter has been idle; so when an idle limiter is dropped the credit is full, and the
full bucket made next gives nothing away. `NoneBelowCredit`: every bucket of a user's,
dropped or not, has at least the credit. From these follow `QuotaIsKept` and
`RefusalsAreDue`.

`Conversion_proofs`, about `DownloadTask` and `Conversion`. For any number of requests the
invariant of the task ties the directory, the file, the messages and the progress message to
the place in the code, kind by kind. `RefinesTask`: every step of a task with its conversion
step by step is a step of the task or none, by which these theorems carry over
(`TaskPromises`); and, for any deadline, `ConversionIsUsable` and `FramesAreRemoved` follow
from an invariant that ties the output and the frames to the place in the pipeline and the
kind of file.

`SetDownload_proofs`, for any finite set of stickers, any number of slots and any throttle.
The invariant has two counts of workers, those between the slot's take and its release
(`SlotsCounted`) and those past the addition to the counter (`CountsThrough`); the places
the workers can be at, given the place of the task's goroutine (`Lifecycle`), so that after
`wg.Wait` both counts and the semaphore are known and `JoinIsClean`; that whoever is about
to swap the stamp has found it due against the value loaded (`DueWhenLoaded`), which with
the CompareAndSwap gives `ThrottleHolds`; and what has been told and archived at each place
after the join (`SaidSoFar`, `Archived`), for `LossIsTold` and `SetIsAnswered`. The last is
what `DownloadTask` takes for granted of a set when it makes it one step.

`Archive_proofs`, about `Volumes` and `Archive`, for any list of files and any limit.
`RefinesVolumes`: written call by call, FCompressVol is still `Volumes`. The invariant of the
split (`VInv`) is the three properties of the division and that `curSize` is the size of the
volume at hand; what a size summed anew becomes when a file is added is the lemmas about
`SizeOf`. The invariant of the calls (`AInv`) has the volumes before the one at hand whole,
those after it untouched, and the one at hand at the place the call has come to, whatever has
failed in it (`AtHand`).

`Requests_proofs`, about `Requests`, `Metrics` and `UsageStats`, for any finite sets of
goroutines and names, any users, a ring of any size and any window. The inductive invariant:
  - a goroutine has a name exactly while its request is under way or recorded (`Named`);
  - a counter belongs to one name, stays there, and one that was not stored has counted
    nothing (`CountersOwned`): why the loser of the LoadOrStore loses no request;
  - each count is the number of the goroutines it stands for (`CountsRight`); `CountsAddUp`
    follows because the classes of a finite set add up to it (`SumOfClasses`);
  - slot `i` of the ring holds the stamp that was added at `Place(i)`, or nothing
    (`RingRight`), with no modulo in it; `RateIsRight` is then a bijection between the slots
    that count and the last stamps;
  - what a snapshot has so far is between what was recorded when it began and what is now
    (`Reading`), and the days of a report are below the totals, those of the database until
    the second query and its own after it (`Reported`);
  - the rows of the database sum up to the executions (`Stored`, `Executed`).

`PollHealth_proofs`, for all timeouts, back-offs and intervals and starts of any length:
the invariant bounds the age of the last success plus what is left of the present phase by
the polls that have failed since (`OnTime`), which is what `2 * (PollTimeout + Backoff)` is
for; and before the first answer the number of failed checks tells the time (`Starting`).
From these `StaleIsTwoFailures` and `UnhealthyIsTrouble`.

Every invariant that a passing run checks is so a theorem, and the two action properties
(`Throttled`, `UnhealthyMeansTrouble`) are too. Each inductive invariant was checked by TLC
on the instance of its run before it was proved.

The library's theorems of induction take an operator as a parameter, which the installed
provers cannot instantiate. Where a proof needs induction, over the files of a volume
(`Archive_proofs`) or the subsets of a finite set (`Requests_proofs`), it goes by way of
well-founded relations, with a set in place of the predicate (`SetInduction`,
`SubsetInduction`, `GrowingInduction`): a least counterexample would not be one. The sums of
the community modules are unfolded in the same way (`SumsExist`, `SumsUnique`, `SumRemove`).

What the proofs assume is in the modules' ASSUMEs: finite sets of goroutines, stickers and
names, and the relations between the times that are named above. A bound on what the runs
explore (`MaxNow`, `MaxBusy`, `MaxRestarts`, `MaxFiles`, `StartUp` and the like) may have
any value.

Model-checked only: the liveness properties (`Ends`, `Freed`, `ComesToTruth`, the purge of
abandoned directories) and the fairness part of `Admission`, because the prover has neither
fairness nor ENABLED; and what the four refuted runs show.

## Plan

1. Proofs: a set's workers as the tasks of an abstract pool with a join, and the set as a
   step of `DownloadTask` by a refinement of whole behaviours, beyond `SetIsAnswered`.
2. Compositions: admission with tasks and directories (live directories against
   slots; the offer of the whole set while the task still holds the claim).

## Not modelled

The worker pools of `sticker/workers.go`, the conversions to WEBP and WEBM, `SmartConvert`,
the extraction of archives and `RecordError` have no callers (so the dashboard's error rate
is always 0). What external programs do to pixels, command lines, path resolution and the
checks of a .tgs file's contents are data. Messages, configuration, the HTML page, the
admin token and the deployment files have no state. Opening the database and running
without it, the memory and uptime figures, and how a text is cut to a command are left out;
so is the order in which two progress edits reach Telegram.
