------------------------------ MODULE Metrics ------------------------------
(***************************************************************************)
(* The counters behind /api/metrics: RecordRequest and RecordRateDenied,   *)
(* which the goroutines of the updates call, the ring buffer of the latest *)
(* requests, and the Snapshot a dashboard request takes of them, one field *)
(* after the other, while they go on counting. Each access to an atomic,   *)
(* to the sync.Map or under the ring buffer's mutex is a step.             *)
(*                                                                         *)
(* The module is the methods; Requests is the program that calls them.     *)
(***************************************************************************)
EXTENDS Integers, Sequences, FiniteSets, Functions

CONSTANTS Updates,  \* the goroutines, each with one update
          Names,    \* what requests are counted under
          Size,     \* of the ring buffer
          Window,   \* of the rate, "the last minute"
          None      \* no counter, no name

ASSUME MetricsAssumption ==
  /\ IsFiniteSet(Updates) /\ IsFiniteSet(Names)
  /\ Size \in Nat \ {0}
  /\ Window \in Nat
  /\ None \notin Updates \cup Names

VARIABLES now,    \* the clock
          pc,     \* where each goroutine is
          name,   \* its argument of RecordRequest
          stamp,  \* its time.Now()
          held,   \* the counter it has got from commandCounts
          metrics, \* the Metrics
          added,  \* history: the stamps in the order they were added
          reader  \* the dashboard request and the Snapshot it takes

calls == <<pc, name, stamp, held>>
mvars == <<now, calls, metrics, added, reader>>

Never == -1 \* the zero time.Time

(* A counter is named for the goroutine that has made it.                   *)
NewMetrics ==
  [total |-> 0, denied |-> 0,
   counterOf |-> [n \in Names |-> None],     \* commandCounts
   counted   |-> [g \in Updates |-> 0],      \* the value of each counter
   times |-> [i \in 0..Size - 1 |-> Never], pos |-> 0]

NoReader ==
  [at |-> "idle", now |-> 0, total |-> 0, rate |-> 0, denied |-> 0,
   counts |-> [n \in Names |-> 0],
   pending |-> {},  \* the names Range has to come to
   before  |-> {}]  \* history: the requests recorded when it began

MTypeOK ==
  /\ now \in Nat
  /\ name \in [Updates -> Names \cup {None}]
  /\ stamp \in [Updates -> Nat]
  /\ held \in [Updates -> Updates \cup {None}]
  /\ metrics \in
       [total : 0..Cardinality(Updates), denied : 0..Cardinality(Updates),
        counterOf : [Names -> Updates \cup {None}],
        counted : [Updates -> 0..Cardinality(Updates)],
        times : [0..Size - 1 -> Never..now], pos : 0..Size - 1]
  /\ reader \in
       [at : {"idle", "rate", "range", "taken"}, now : Nat,
        total : 0..Cardinality(Updates), rate : 0..Size,
        denied : Nat, counts : [Names -> 0..Cardinality(Updates)],
        pending : SUBSET Names, before : SUBSET Updates]

Goto(g, from, to) == pc[g] = from /\ pc' = [pc EXCEPT ![g] = to]

-----------------------------------------------------------------------------
(* RecordRequest(name[g]) *)

Inside == {"stamp", "ring", "load", "count"} \* after its first step

Counted(g) == name[g] # None /\ pc[g] \notin {"total", "gone"}

AddTotal(g) ==
  /\ Goto(g, "total", "stamp")
  /\ metrics' = [metrics EXCEPT !.total = @ + 1]
  /\ UNCHANGED <<name, stamp, held, added>>

Stamp(g) ==
  /\ Goto(g, "stamp", "ring")
  /\ stamp' = [stamp EXCEPT ![g] = now]
  /\ UNCHANGED <<name, held, metrics, added>>

(* A buffer that stays at its end when it has come there. *)
MutAddRing(g) ==
  /\ Goto(g, "ring", "load")
  /\ metrics' = [metrics EXCEPT !.times[metrics.pos] = stamp[g],
                                !.pos = IF @ + 1 < Size THEN @ + 1 ELSE @]
  /\ added' = Append(added, stamp[g])
  /\ stamp' = [stamp EXCEPT ![g] = 0]
  /\ UNCHANGED <<name, held>>

(* No modulo. *)
MutAddRingPastEnd(g) ==
  /\ Goto(g, "ring", "load")
  /\ metrics' = [metrics EXCEPT !.times[metrics.pos] = stamp[g], !.pos = @ + 1]
  /\ added' = Append(added, stamp[g])
  /\ stamp' = [stamp EXCEPT ![g] = 0]
  /\ UNCHANGED <<name, held>>

(* RingBuffer.Add, which the stamps reach in any order.                     *)
AddRing(g) ==
  /\ Goto(g, "ring", "load")
  /\ metrics' = [metrics EXCEPT !.times[metrics.pos] = stamp[g],
                                !.pos = (@ + 1) % Size]
  /\ added' = Append(added, stamp[g])
  /\ stamp' = [stamp EXCEPT ![g] = 0]
  /\ UNCHANGED <<name, held>>

(* A Store, in place of the counter another goroutine has stored. *)
MutLoadOrStore(g) ==
  /\ Goto(g, "load", "count")
  /\ metrics' = [metrics EXCEPT !.counterOf[name[g]] = g]
  /\ held' = [held EXCEPT ![g] = g]
  /\ UNCHANGED <<name, stamp, added>>

LoadOrStore(g) ==
  /\ Goto(g, "load", "count")
  /\ metrics' = [metrics EXCEPT !.counterOf[name[g]] = IF @ = None THEN g ELSE @]
  /\ held' = [held EXCEPT ![g] = metrics'.counterOf[name[g]]]
  /\ UNCHANGED <<name, stamp, added>>

AddCount(g) ==
  /\ Goto(g, "count", "recorded")
  /\ metrics' = [metrics EXCEPT !.counted[held[g]] = @ + 1]
  /\ held' = [held EXCEPT ![g] = None]
  /\ UNCHANGED <<name, stamp, added>>

RecordRequest(g) ==
  AddTotal(g) \/ Stamp(g) \/ AddRing(g) \/ LoadOrStore(g) \/ AddCount(g)

RecordRateDenied(g) ==
  /\ Goto(g, "new", "done")
  /\ metrics' = [metrics EXCEPT !.denied = @ + 1]
  /\ UNCHANGED <<name, stamp, held, added>>

-----------------------------------------------------------------------------
(* Snapshot *)

CountSince(since) ==
  Cardinality({i \in 0..Size - 1 : metrics.times[i] # Never /\ metrics.times[i] >= since})

Count(n) ==
  IF metrics.counterOf[n] = None THEN 0 ELSE metrics.counted[metrics.counterOf[n]]

(* The time and the total                                                  *)
SnapTotal ==
  /\ reader.at = "idle"
  /\ reader' = [NoReader EXCEPT
       !.at = "rate", !.now = now, !.total = metrics.total,
       !.before = {g \in Updates : Counted(g) /\ pc[g] \notin Inside}]

(* The requests of the window before that time, and the start of Range: it  *)
(* will come to the keys that are there, and perhaps to others that are     *)
(* stored meanwhile.                                                       *)
SnapRate ==
  /\ reader.at = "rate"
  /\ \E more \in SUBSET Names :
       reader' = [reader EXCEPT
         !.at = "range", !.rate = CountSince(reader.now - Window),
         !.pending = more \cup {n \in Names : metrics.counterOf[n] # None}]

(* A callback that returns false stops Range at its first key. *)
MutVisit(n) ==
  /\ reader.at = "range" /\ n \in reader.pending
  /\ reader' = [reader EXCEPT !.counts[n] = Count(n), !.pending = {}]

Visit(n) ==
  /\ reader.at = "range" /\ n \in reader.pending
  /\ reader' = [reader EXCEPT !.counts[n] = Count(n), !.pending = @ \ {n}]

(* Range is over, and the denied are loaded.                                *)
RangeDone ==
  /\ reader.at = "range" /\ reader.pending = {}
  /\ reader' = [reader EXCEPT !.at = "taken", !.denied = metrics.denied]

Reply == reader.at = "taken" /\ reader' = NoReader

Snapshot ==
  /\ SnapTotal \/ SnapRate \/ (\E n \in Names : Visit(n)) \/ RangeDone \/ Reply
  /\ UNCHANGED <<now, calls, metrics, added>>

-----------------------------------------------------------------------------
(* PROPERTIES *)

(* No increment is lost, whatever the interleaving: every granted request   *)
(* is in the total, and the requests under all names are those of the total *)
(* but for the ones inside RecordRequest right now.                        *)
CountsAddUp ==
  /\ metrics.total = Cardinality({g \in Updates : Counted(g)})
  /\ metrics.total = SumFunction([n \in Names |-> Count(n)])
                       + Cardinality({g \in Updates : pc[g] \in Inside})

(* The rate is that of the requests of the window as long as the buffer     *)
(* holds them all, and Size when it does not; only where a goroutine was    *)
(* held up between its stamp and the buffer it may be less. The code's Size *)
(* of 3600 is below what the global limit lets through in a minute.        *)
RateRight ==
  LET since == now - Window
      inWindow == Cardinality({i \in DOMAIN added : added[i] >= since})
      inOrder == \A i, j \in DOMAIN added : i < j => added[i] <= added[j]
  IN  /\ CountSince(since) <= inWindow
      /\ inOrder => CountSince(since) = IF inWindow < Size THEN inWindow ELSE Size

(* A snapshot is not of one moment, but no count of it misses a request     *)
(* that was recorded before it began, or has one that was not made by its   *)
(* end.                                                                    *)
SnapshotFresh ==
  reader.at = "taken" =>
    /\ Cardinality(reader.before) <= reader.total /\ reader.total <= metrics.total
    /\ \A n \in Names :
         /\ Cardinality({g \in reader.before : name[g] = n}) <= reader.counts[n]
         /\ reader.counts[n] <= Count(n)
=============================================================================
