------------------------------ MODULE Requests ------------------------------
(***************************************************************************)
(* The way of an update through the process: the handlers that are         *)
(* registered for it ask the rate limiter, count it as a request or as     *)
(* denied, and pass it on to the command handler, which may record an      *)
(* event of it; the dashboard looks at both counts meanwhile, and the      *)
(* process may be killed and start again.                                  *)
(*                                                                         *)
(* The limiter (RateLimiter) and the tasks (TaskSlots) are modules of      *)
(* their own: here the one grants or refuses as it likes, and of the       *)
(* others only the event is seen.                                          *)
(***************************************************************************)
EXTENDS Metrics

CONSTANTS Kinds,       \* the kinds of updates that come
          Users, Events, Days,  \* see UsageStats
          MaxBusy,     \* bound: goroutines that are at work at a time
          MaxNow,      \* bound: how far the clock runs
          MaxRestarts  \* bound: how often the process is killed

ASSUME RequestsAssumption ==
  /\ Kinds \subseteq {"callback", "message", "command"}
  /\ Events \subseteq {"download", "info"} /\ Days \in Nat
  /\ MaxBusy \in Nat /\ MaxNow \in Nat /\ MaxRestarts \in Nat

VARIABLES salt, row, db, executed, report, query  \* see UsageStats

(* A day is as long as the window of the rate.                              *)
INSTANCE UsageStats WITH Callers <- Updates, today <- now

stats == <<salt, row, db, executed, report, query>>
vars == <<mvars, stats>>

Labels == {"new", "total", "recorded", "event", "done", "gone"} \cup Inside

TypeOK == MTypeOK /\ UTypeOK /\ pc \in [Updates -> Labels]

Init ==
  /\ now = 0 /\ pc = [g \in Updates |-> "new"]
  /\ name = [g \in Updates |-> None] /\ stamp = [g \in Updates |-> 0]
  /\ held = [g \in Updates |-> None]
  /\ metrics = NewMetrics /\ added = <<>> /\ reader = NoReader
  /\ UInit

(* What a kind of update is counted under: the command as it was typed, or  *)
(* the kind.                                                               *)
NamesOf(kind) ==
  IF kind \in {"callback", "message"} THEN Names \cap {kind}
  ELSE Names \ {"callback", "message"}

-----------------------------------------------------------------------------
(* registerCommandHandlers and the handlers *)

(* withRateLimit, defaultHandler: granted, or for /getfid never asked for.  *)
Grant(g) ==
  /\ Goto(g, "new", "total")
  /\ \E kind \in Kinds : \E n \in NamesOf(kind) :
       name' = [name EXCEPT ![g] = n]

Quiet == reader.at = "idle" /\ query = "idle" \* no dashboard request

(* An update that has been recorded is at work again to make an event.      *)
Busy ==
  Cardinality({g \in Updates : pc[g] \notin {"new", "recorded", "done", "gone"}})
    + (IF Quiet THEN 0 ELSE 1)

(* An update with neither a message nor a callback: nobody is asked, and it *)
(* is not counted.                                                         *)
Ignore(g) == Goto(g, "new", "gone") /\ UNCHANGED <<name, stamp, held, metrics, added>>

Route(g) ==
  /\ Busy < MaxBusy
  /\ \/ Ignore(g)
     \/ Grant(g) /\ UNCHANGED <<stamp, held, metrics, added>>
     \/ RecordRateDenied(g)

(* HandleMessage: a callback or a message may make an event, a command does *)
(* not.                                                                    *)
Handle(g) ==
  /\ name[g] \in {"callback", "message"} /\ Goto(g, "recorded", "event")
  /\ Busy < MaxBusy
  /\ \E u \in Users, e \in Events : Prepare(g, u, e)

RecordEvent(g) == Goto(g, "event", "done") /\ (Exec(g) \/ ExecFails(g))

Update(g) ==
  /\ \/ (Route(g) \/ RecordRequest(g)) /\ UNCHANGED stats
     \/ (Handle(g) \/ RecordEvent(g)) /\ UNCHANGED <<name, stamp, held, metrics, added>>
  /\ UNCHANGED <<now, reader>>

(* The dashboard: /api/metrics and /api/stats                               *)
Dashboard ==
  /\ Quiet => Busy < MaxBusy
  /\ \/ query = "idle" /\ Snapshot /\ UNCHANGED stats
     \/ reader.at = "idle" /\ QueryDailyJSON /\ UNCHANGED mvars

Tick ==
  /\ now < MaxNow /\ now' = now + 1
  /\ UNCHANGED <<calls, metrics, added, reader, stats>>

(* The process is killed and starts again, with counters that are zero, a   *)
(* salt that may be another one, and the database it has written.           *)
Restart ==
  /\ salt < MaxRestarts
  /\ salt' = IF salt = Given THEN salt ELSE salt + 1
  /\ pc' = [g \in Updates |-> IF pc[g] = "new" THEN "new" ELSE "gone"]
  /\ name' = [g \in Updates |-> None] /\ stamp' = [g \in Updates |-> 0]
  /\ held' = [g \in Updates |-> None] /\ row' = [g \in Updates |-> NoRow]
  /\ metrics' = NewMetrics /\ added' = <<>> /\ reader' = NoReader
  /\ query' = "idle" /\ report' = NoReport
  /\ UNCHANGED <<now, db, executed>>

Next == (\E g \in Updates : Update(g)) \/ Dashboard \/ Tick \/ Restart

Spec == Init /\ [][Next]_vars

-----------------------------------------------------------------------------
(* PROPERTIES *)

(* Every update with a message or a callback that has come to a handler is  *)
(* counted exactly once since the process started, as a request or as       *)
(* denied, whatever the interleaving of the handlers: under its name too,   *)
(* once RecordRequest has returned. And no event that was written is lost.  *)
NothingLost ==
  /\ CountsAddUp
  /\ metrics.denied = Cardinality({g \in Updates : pc[g] = "done" /\ name[g] = None})
  /\ EventsKept
=============================================================================
