---------------------------- MODULE RateLimiter ----------------------------
(***************************************************************************)
(* The rate limiter: a token bucket for all, one for each user, or user    *)
(* and command, made when first needed, and a goroutine that drops the     *)
(* users who have been idle.                                               *)
(*                                                                         *)
(* A user's entry in the map (userLimiter) is an object of its own: a      *)
(* request that has loaded it goes on using it when the map no longer      *)
(* holds it. Objects are numbered, and a number is used again when nothing *)
(* refers to it.                                                           *)
(*                                                                         *)
(* The buckets are those of golang.org/x/time/rate, an external library,   *)
(* in integers: a token is worth Cost, and every tick adds one, up to the  *)
(* burst.                                                                  *)
(***************************************************************************)
EXTENDS Integers, FiniteSets

CONSTANTS Requests,     \* goroutines that call Allow or AllowCommand
          Users,
          Kinds,        \* "general" updates and the commands
          Objects,      \* numbers of userLimiter objects
          None,         \* no object
          Burst,        \* burst of a user's bucket
          Cost,         \* ticks for a user's bucket to gain a token
          GlobalBurst,  \* tokens of the global bucket, full again every tick
          MaxIdle       \* 30 minutes in the code

ASSUME RateLimiterAssumption ==
  /\ None \notin Objects
  /\ Burst \in Nat \ {0} /\ Cost \in Nat \ {0} /\ GlobalBurst \in Nat \ {0}
  /\ MaxIdle \in Nat
  /\ Burst * Cost <= MaxIdle    \* 10 seconds, or 24, against 30 minutes

VARIABLES users,    \* the map: the object of each user, or None
          tokens,   \* the buckets of each object, in ticks' worth
          idle,     \* ticks since an object's lastSeen
          global,   \* the global bucket
          pc,       \* where each request is
          uid, kind, \* whose it is, and what for
          ul,       \* the object it has got hold of
          cleaner,  \* users the running CleanupStale has not come to
          victim,   \* the user it is about to delete, a set of at most one
          credit,   \* history: what a bucket that is never dropped would hold
          excess,   \* history: users granted more than that
          raced     \* history: users whose object was dropped while in use

vars == <<users, tokens, idle, global, pc, uid, kind, ul, cleaner, victim,
          credit, excess, raced>>

Full == Burst * Cost

Labels == {"away", "load", "store", "touch", "global", "user"}

TypeOK ==
  /\ users \in [Users -> Objects \cup {None}]
  /\ tokens \in [Objects -> [Kinds -> 0..Full]]
  /\ idle \in [Objects -> 0..MaxIdle + 1]
  /\ global \in 0..GlobalBurst
  /\ pc \in [Requests -> Labels]
  /\ uid \in [Requests -> Users] /\ kind \in [Requests -> Kinds]
  /\ ul \in [Requests -> Objects \cup {None}]
  /\ cleaner \in SUBSET Users
  /\ victim \in SUBSET Users /\ Cardinality(victim) <= 1
  /\ credit \in [Users -> [Kinds -> 0..Full]]
  /\ excess \in SUBSET Users
  /\ raced \in SUBSET Users

Init ==
  /\ users = [u \in Users |-> None]
  /\ tokens = [o \in Objects |-> [k \in Kinds |-> Full]]
  /\ idle = [o \in Objects |-> 0]
  /\ global = GlobalBurst
  /\ pc = [r \in Requests |-> "away"]
  /\ uid \in [Requests -> Users] /\ kind \in [Requests -> Kinds]
  /\ ul = [r \in Requests |-> None]
  /\ cleaner = {} /\ victim = {}
  /\ credit = [u \in Users |-> [k \in Kinds |-> Full]]
  /\ excess = {} /\ raced = {}

request == <<uid, kind>>
history == <<credit, excess, raced>>
cleaning == <<cleaner, victim>>

Unused == Objects \ ({users[u] : u \in Users} \cup {ul[r] : r \in Requests})

Goto(r, from, to) ==
  /\ pc[r] = from
  /\ pc' = [pc EXCEPT ![r] = to]

(* A request that is over holds nothing. *)
Leave(r, from) ==
  /\ Goto(r, from, "away")
  /\ ul' = [ul EXCEPT ![r] = None]

-----------------------------------------------------------------------------
(* Time passes when no request is in the limiter and CleanupStale is not    *)
(* running: bound, either is over within a tick. Buckets of objects that    *)
(* are not in use are as good as new.                                      *)
Gain(level) == IF level < Full THEN level + 1 ELSE level

Tick ==
  /\ \A r \in Requests : pc[r] = "away"
  /\ cleaner = {} /\ victim = {}
  /\ tokens' = [o \in Objects |-> [k \in Kinds |->
                  IF o \in Unused THEN Full ELSE Gain(tokens[o][k])]]
  /\ idle' = [o \in Objects |->
                IF o \in Unused THEN 0
                ELSE IF idle[o] > MaxIdle THEN idle[o] ELSE idle[o] + 1]
  /\ credit' = [u \in Users |-> [k \in Kinds |-> Gain(credit[u][k])]]
  /\ global' = GlobalBurst
  /\ UNCHANGED <<users, pc, request, ul, cleaning, excess, raced>>

-----------------------------------------------------------------------------
(* Allow and AllowCommand *)

Arrive(r) ==
  /\ Goto(r, "away", "load")
  /\ \E u \in Users, k \in Kinds :
       /\ uid' = [uid EXCEPT ![r] = u]
       /\ kind' = [kind EXCEPT ![r] = k]
  /\ UNCHANGED <<users, tokens, idle, global, ul, cleaning, history>>

(* users.Load *)
Load(r) ==
  /\ Goto(r, "load", IF users[uid[r]] = None THEN "store" ELSE "touch")
  /\ ul' = [ul EXCEPT ![r] = users[uid[r]]]
  /\ UNCHANGED <<users, tokens, idle, global, request, cleaning, history>>

(* users.LoadOrStore, with a new object; another request may have been      *)
(* faster, and then it is that one's object.                               *)
StoreNew(r) ==
  /\ users[uid[r]] = None
  /\ Goto(r, "store", "touch")
  /\ \E o \in Unused :
       /\ users' = [users EXCEPT ![uid[r]] = o]
       /\ ul' = [ul EXCEPT ![r] = o]
       /\ tokens' = [tokens EXCEPT ![o] = [k \in Kinds |-> Full]]
       /\ idle' = [idle EXCEPT ![o] = 0]
  /\ UNCHANGED <<global, request, cleaning, history>>

(* A Store where the code has LoadOrStore: the faster request's object goes. *)
MutStoreLoadedAnew(r) ==
  /\ users[uid[r]] # None
  /\ Goto(r, "store", "touch")
  /\ \E o \in Unused :
       /\ users' = [users EXCEPT ![uid[r]] = o]
       /\ ul' = [ul EXCEPT ![r] = o]
       /\ tokens' = [tokens EXCEPT ![o] = [k \in Kinds |-> Full]]
       /\ idle' = [idle EXCEPT ![o] = 0]
  /\ UNCHANGED <<global, request, cleaning, history>>

StoreLoaded(r) ==
  /\ users[uid[r]] # None
  /\ Goto(r, "store", "touch")
  /\ ul' = [ul EXCEPT ![r] = users[uid[r]]]
  /\ UNCHANGED <<users, tokens, idle, global, request, cleaning, history>>

(* lastSeen, under the object's mutex; a command's bucket is made there.    *)
Touch(r) ==
  /\ Goto(r, "touch", "global")
  /\ idle' = [idle EXCEPT ![ul[r]] = 0]
  /\ UNCHANGED <<users, tokens, global, request, ul, cleaning, history>>

(* The global bucket is not looked at. *)
MutTakeGlobalAnyway(r) ==
  /\ Goto(r, "global", "user")
  /\ global' = global - 1
  /\ UNCHANGED <<users, tokens, idle, request, ul, cleaning, history>>

TakeGlobal(r) ==
  /\ global > 0
  /\ Goto(r, "global", "user")
  /\ global' = global - 1
  /\ UNCHANGED <<users, tokens, idle, request, ul, cleaning, history>>

(* The user's token taken before the global limit is looked at. *)
MutRefuseGlobalLate(r) ==
  /\ global = 0
  /\ Leave(r, "global")
  /\ tokens[ul[r]][kind[r]] >= Cost
  /\ tokens' = [tokens EXCEPT ![ul[r]][kind[r]] = @ - Cost]
  /\ UNCHANGED <<users, idle, global, request, cleaning, history>>

(* The global limit refuses the request.                                    *)
RefuseGlobal(r) ==
  /\ global = 0
  /\ Leave(r, "global")
  /\ UNCHANGED <<users, tokens, idle, global, request, cleaning, history>>

(* The request is granted, and the never-dropped bucket is charged with it. *)
Grant(r) ==
  LET u == uid[r]
      k == kind[r]
  IN  /\ Leave(r, "user")
      /\ tokens[ul[r]][k] >= Cost
      /\ tokens' = [tokens EXCEPT ![ul[r]][k] = @ - Cost]
      /\ credit' = [credit EXCEPT ![u][k] = IF @ >= Cost THEN @ - Cost ELSE 0]
      /\ excess' = IF credit[u][k] < Cost THEN excess \cup {u} ELSE excess
      /\ UNCHANGED <<users, idle, global, request, cleaning, raced>>

(* The user's limit refuses it; the global token is spent.                  *)
RefuseUser(r) ==
  /\ Leave(r, "user")
  /\ tokens[ul[r]][kind[r]] < Cost
  /\ UNCHANGED <<users, tokens, idle, global, request, cleaning, history>>

Check(r) ==
  \/ Load(r) \/ StoreNew(r) \/ StoreLoaded(r) \/ Touch(r)
  \/ TakeGlobal(r) \/ RefuseGlobal(r) \/ Grant(r) \/ RefuseUser(r)

-----------------------------------------------------------------------------
(* StartCleanup and CleanupStale *)

(* The ticker fires: Range goes over the users that are in the map.         *)
CleanupStart ==
  /\ cleaner = {} /\ victim = {}
  /\ \E u \in Users : users[u] # None
  /\ cleaner' = {u \in Users : users[u] # None}
  /\ UNCHANGED <<users, tokens, idle, global, pc, request, ul, victim, history>>

(* lastSeen is read under the mutex, which is then given up.                *)
Examine ==
  /\ victim = {}
  /\ \E u \in cleaner :
       /\ cleaner' = cleaner \ {u}
       /\ victim' = IF idle[users[u]] > MaxIdle THEN {u} ELSE {}
  /\ UNCHANGED <<users, tokens, idle, global, pc, request, ul, history>>

(* A request has the object, or has been through with it since Examine. *)
InUse(o) == (\E r \in Requests : ul[r] = o) \/ idle[o] <= MaxIdle

(* users.Delete, whatever has happened since Examine. *)
Evict ==
  /\ \E u \in victim :
       /\ users' = [users EXCEPT ![u] = None]
       /\ raced' = IF InUse(users[u]) THEN raced \cup {u} ELSE raced
  /\ victim' = {}
  /\ UNCHANGED <<tokens, idle, global, pc, request, ul, cleaner, credit, excess>>

Cleanup == CleanupStart \/ Examine \/ Evict

Next == Tick \/ Cleanup \/ \E r \in Requests : Arrive(r) \/ Check(r)

Spec == Init /\ [][Next]_vars

-----------------------------------------------------------------------------
(* PROPERTIES *)

(* The limit of a user and a command, over all time: no more than the burst *)
(* and what a bucket gains since, although buckets are dropped and made     *)
(* anew, and two requests may make one for the same user at once; unless    *)
(* the cleaner dropped a bucket that was in use.                           *)
QuotaUnlessRaced == excess \subseteq raced

(* The user's bucket refuses nobody who is within that limit.               *)
RefusedOnlyBeyond ==
  [][\A r \in Requests :
       RefuseUser(r) => credit[uid[r]][kind[r]] < Cost]_vars

(* The README: non-command messages and callbacks are limited to 30 per     *)
(* minute for each user, with a burst of 5; commands alike.                *)
QuotaKept == excess = {}
=============================================================================
