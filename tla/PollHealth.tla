----------------------------- MODULE PollHealth -----------------------------
(***************************************************************************)
(* The health of the polling: the HTTP client that records the successful  *)
(* getUpdates calls, the status that is made of the time since the last    *)
(* one, and the container's health check that asks for it. The library's   *)
(* polling loop and Docker are external. Time is in units of the back-off. *)
(***************************************************************************)
EXTENDS Integers

CONSTANTS PollTimeout, \* pollTimeout
          Backoff,     \* the most the library waits after an error
          StartUp,     \* bound: the most it takes until the first poll
          Interval, Retries \* of HEALTHCHECK

ASSUME PollHealthAssumption ==
  /\ PollTimeout \in Nat \ {0} /\ Backoff \in Nat \ {0} /\ StartUp \in Nat
  /\ Interval \in Nat \ {0} /\ Retries \in Nat \ {0}

VARIABLES startup, \* how long this start takes until the first poll
          since,   \* how long ago lastSuccess is
          phase,   \* of the polling loop
          left,    \* the time until the phase ends at the latest
          next,    \* the time until the next health check
          fails,   \* the health checks that have failed in a row
          failures \* history: the polls that have failed in a row

vars == <<startup, since, phase, left, next, fails, failures>>

OneMore(n, most) == IF n < most THEN n + 1 ELSE n

(* One poll that times out is too short for it.                             *)
MutStaleAfter == PollTimeout + Backoff

StaleAfter == 2 * (PollTimeout + Backoff)

Never == -1 \* lastSuccess.IsZero()

TypeOK ==
  /\ startup \in 0..StartUp
  /\ since \in Never..StaleAfter \* not counted further
  /\ phase \in {"init", "poll", "wait"}
  /\ left \in Nat /\ \E most \in {PollTimeout, Backoff, StartUp} : left <= most
  /\ next \in 0..Interval /\ fails \in 0..Retries
  /\ failures \in 0..2 \* nor are more than two

(* Nothing bounds the start but the deadlines of its own calls: the getMe of *)
(* tgbot.New has 5 seconds, the one after it the client's whole timeout.     *)
Init ==
  /\ startup \in 0..StartUp
  /\ since = Never /\ phase = "init" /\ left = startup
  /\ next = Interval /\ fails = 0 /\ failures = 0

-----------------------------------------------------------------------------
(* The HTTP client *)

Good    == {"empty", "updates"} \* 2xx, ok, an array of updates
Answers == Good \cup {"transport error", "read error", "malformed", "not ok", "bad status"}

(* Whatever answers well. *)
MutRecords(method, answer) == answer \in Good

(* Only what has brought an update. *)
MutRecordsUpdates(method, answer) == method = "getUpdates" /\ answer = "updates"

(* pollingHTTPClient.Do: whether it records a success. The first three bad  *)
(* answers are errors to its caller, the others it passes on unrecorded.    *)
Records(method, answer) == method = "getUpdates" /\ answer \in Good

RecordSuccess == since' = 0

Do(method, answer) ==
  IF Records(method, answer) THEN RecordSuccess ELSE UNCHANGED since

(* A next poll that is given the rest of the time of this one as well. *)
MutPollEnds(answer) ==
  /\ phase = "poll" /\ (answer = "empty" => left <= 1)
  /\ Do("getUpdates", answer)
  /\ IF answer \in Good
       THEN phase' = "poll" /\ left' = left + PollTimeout /\ failures' = 0
       ELSE /\ phase' = "wait" /\ left' \in 0..Backoff
            /\ failures' = OneMore(failures, 2)
  /\ UNCHANGED <<startup, next, fails>>

(* The loop polls again at once after a success, and after the back-off if  *)
(* it has failed. The server answers with no updates just before the        *)
(* client's deadline, and at the deadline the call fails.                   *)
PollEnds(answer) ==
  /\ phase = "poll" /\ (answer = "empty" => left <= 1)
  /\ Do("getUpdates", answer)
  /\ IF answer \in Good
       THEN phase' = "poll" /\ left' = PollTimeout /\ failures' = 0
       ELSE /\ phase' = "wait" /\ left' \in 0..Backoff
            /\ failures' = OneMore(failures, 2)
  /\ UNCHANGED <<startup, next, fails>>

PollBegins ==
  /\ phase \in {"init", "wait"} /\ left = 0
  /\ phase' = "poll" /\ left' = PollTimeout
  /\ UNCHANGED <<startup, since, next, fails, failures>>

(* Any other method of the bot, any time.                                   *)
OtherCall(answer) ==
  /\ Do("sendMessage", answer)
  /\ UNCHANGED <<startup, phase, left, next, fails, failures>>

-----------------------------------------------------------------------------
(* The health check *)

Status ==
  IF since = Never THEN "starting"
  ELSE IF since >= StaleAfter THEN "polling_stale" ELSE "ok"

(* /api/health, which answers 503 to all but "ok", as Docker sees it.       *)
Check ==
  /\ next = 0 /\ next' = Interval
  /\ fails' = IF Status = "ok" THEN 0 ELSE OneMore(fails, Retries)
  /\ UNCHANGED <<startup, since, phase, left, failures>>

Unhealthy == fails = Retries

Tick ==
  /\ left > 0 /\ next > 0
  /\ left' = left - 1 /\ next' = next - 1
  /\ since' = IF since = Never THEN Never ELSE OneMore(since, StaleAfter)
  /\ UNCHANGED <<startup, phase, fails, failures>>

Poll == PollBegins \/ (\E a \in Answers : PollEnds(a))

Next == Poll \/ (\E a \in Answers : OtherCall(a)) \/ Check \/ Tick

Spec == Init /\ [][Next]_vars

(* Time goes on however many polls fail at once, the client's timeout ends   *)
(* a poll, and Docker checks.                                               *)
FairSpec ==
  Spec /\ SF_vars(Tick) /\ WF_vars(Check) /\ WF_vars(Poll)

-----------------------------------------------------------------------------
(* PROPERTIES *)

(* A poll that fails, at whatever time of its minute, and the wait after it *)
(* do not make a bot that has polled well stale: it takes a second failure  *)
(* in a row.                                                                *)
StaleMeansTwoFailures == Status = "polling_stale" => failures = 2

(* The start and one whole poll leave no time before the Retries-th check.   *)
SlowStart == startup + PollTimeout >= Retries * Interval

(* The container does not become unhealthy while every poll is answered,    *)
(* neither at the start, when no poll has yet, unless the start itself was  *)
(* slow, nor when no updates come for long; nor does it after one failure,  *)
(* once a poll has succeeded.                                               *)
UnhealthyMeansTrouble ==
  [][~Unhealthy /\ Unhealthy' =>
       IF since = Never THEN failures >= 1 \/ SlowStart ELSE failures = 2]_vars

(* Once the polls are all answered the container is healthy, whatever went  *)
(* before, and once they all fail it is unhealthy, even if every other call *)
(* of the bot succeeds.                                                     *)
ComesToTruth ==
  /\ <>[](failures = 0) => <>[](Status = "ok" /\ ~Unhealthy)
  /\ <>[](failures > 0) => <>[](Status # "ok" /\ Unhealthy)
=============================================================================
