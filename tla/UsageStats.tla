----------------------------- MODULE UsageStats -----------------------------
(***************************************************************************)
(* The usage statistics: RecordEvent, which adds to the row of a day, a    *)
(* hashed user and an event, and QueryDailyJSON, which makes the report of *)
(* /api/stats from two queries in no transaction. Every statement is a     *)
(* step of the database, which outlives the process; the salt of the       *)
(* hashes does so only if it is configured.                                *)
(*                                                                         *)
(* The module is the methods; Requests is the program that calls them.     *)
(***************************************************************************)
EXTENDS Integers, FiniteSets, Functions

CONSTANTS Callers,   \* the goroutines, each with at most one event
          Users,
          Events,    \* single and set downloads are counted alike
          Days       \* how many days back a report goes

VARIABLES today,    \* the UTC date
          salt,     \* statsSalt: Given, or the number of a random one
          row,      \* the row each goroutine is about to add to
          db,       \* daily_events: the count of every row there is
          executed, \* history: how many additions there were, of which users
          report,   \* the report that is being made
          query     \* where the dashboard request is

uvars == <<today, salt, row, db, executed, report, query>>

Given == -1 \* STATS_SALT is set
Salts == Nat \cup {Given}
Rows  == [day : Nat, user : Salts \X Users, event : Events]
NoRow == <<>>
NoReport == [since |-> 0, daily |-> {}, users |-> 0, downloads |-> 0]

UTypeOK ==
  /\ today \in Nat /\ salt \in Salts
  /\ row \in [Callers -> Rows \cup {NoRow}]
  /\ \A r \in DOMAIN db : r \in Rows /\ db[r] \in Nat \ {0}
  /\ query \in {"idle", "daily", "totals", "made"}

UInit ==
  /\ today = 0 /\ salt \in {Given, 0}
  /\ row = [g \in Callers |-> NoRow]
  /\ db = <<>> /\ executed = [n |-> 0, users |-> {}]
  /\ report = NoReport /\ query = "idle"

(* Truncated to 48 bits, and taken to be injective.                         *)
hashUID(u) == <<salt, u>>

-----------------------------------------------------------------------------
(* RecordEvent *)

(* The date and the hash, before the wait for the database.                 *)
Prepare(g, u, e) ==
  /\ row' = [row EXCEPT ![g] = [day |-> today, user |-> hashUID(u), event |-> e]]
  /\ UNCHANGED <<today, salt, db, executed, report, query>>

(* INSERT OR REPLACE, which begins the count of the row again. *)
MutExec(g) ==
  LET r == row[g] IN
  /\ db' = [q \in DOMAIN db \cup {r} |-> IF q = r THEN 1 ELSE db[q]]
  /\ executed' = [n |-> executed.n + 1, users |-> executed.users \cup {r.user[2]}]
  /\ row' = [row EXCEPT ![g] = NoRow]
  /\ UNCHANGED <<today, salt, report, query>>

(* INSERT ... ON CONFLICT DO UPDATE SET count = count + 1                   *)
Exec(g) ==
  LET r == row[g] IN
  /\ db' = [q \in DOMAIN db \cup {r} |->
              IF q # r THEN db[q] ELSE IF r \in DOMAIN db THEN db[r] + 1 ELSE 1]
  /\ executed' = [n |-> executed.n + 1, users |-> executed.users \cup {r.user[2]}]
  /\ row' = [row EXCEPT ![g] = NoRow]
  /\ UNCHANGED <<today, salt, report, query>>

(* Busy for too long, or closed: a log line.                                *)
ExecFails(g) ==
  /\ row' = [row EXCEPT ![g] = NoRow]
  /\ UNCHANGED <<today, salt, db, executed, report, query>>

-----------------------------------------------------------------------------
(* QueryDailyJSON *)

SumOf(rows) == SumFunctionOnSet(db, rows)
UsersOf(rows) == Cardinality({r.user : r \in rows})
Downloads(rows) == SumOf({r \in rows : r.event = "download"})
TheDay(d) == {r \in DOMAIN db : r.day = d}

QuerySince ==
  /\ query = "idle" /\ query' = "daily"
  /\ report' = [NoReport EXCEPT !.since = today - Days]

(* QueryDaily: the days that have rows, each with its users and downloads.  *)
Daily ==
  {[day |-> d, users |-> UsersOf(TheDay(d)), downloads |-> Downloads(TheDay(d))] :
     d \in {r.day : r \in {q \in DOMAIN db : q.day >= report.since}}}

QueryDaily(from, to) ==
  /\ query = from /\ query' = to
  /\ report' = [report EXCEPT !.daily = Daily]

TotalStats(from, to) ==
  /\ query = from /\ query' = to
  /\ report' = [report EXCEPT !.users = UsersOf(DOMAIN db),
                              !.downloads = Downloads(DOMAIN db)]

(* Sent as it is, or, where a query has failed, as zeros.                   *)
Send ==
  /\ query # "idle" /\ query' = "idle"
  /\ report' = NoReport

(* The totals first. *)
MutQueryDailyJSON ==
  /\ QuerySince \/ TotalStats("daily", "totals") \/ QueryDaily("totals", "made") \/ Send
  /\ UNCHANGED <<today, salt, row, db, executed>>

QueryDailyJSON ==
  /\ QuerySince \/ QueryDaily("daily", "totals") \/ TotalStats("totals", "made") \/ Send
  /\ UNCHANGED <<today, salt, row, db, executed>>

-----------------------------------------------------------------------------
(* PROPERTIES *)

(* Every event that was executed is in the database once, also across       *)
(* restarts; and the distinct hashes are the users there were, as long as   *)
(* the salt is given, and never fewer when it is not.                      *)
EventsKept ==
  /\ SumOf(DOMAIN db) = executed.n
  /\ LET users == Cardinality(executed.users)
     IN  /\ UsersOf(DOMAIN db) >= users
         /\ salt = Given => UsersOf(DOMAIN db) = users

(* Events that are recorded between the two queries of a report make its    *)
(* totals larger than its days add up to, never smaller.                   *)
ReportConsistent ==
  query = "made" =>
    /\ SumFunction([d \in report.daily |-> d.downloads]) <= report.downloads
    /\ \A d \in report.daily : d.users <= report.users

(* "QueryDaily returns aggregated stats for the last N days": it asks for   *)
(* the rows from N days before today on, and today is one day more.         *)
ReportDays == query = "made" => Cardinality(report.daily) <= Days
=============================================================================
