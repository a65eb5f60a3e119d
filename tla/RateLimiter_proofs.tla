------------------------ MODULE RateLimiter_proofs ------------------------
(* Proofs about RateLimiter, for any requests, users, kinds and bounds.      *)
EXTENDS RateLimiter, FiniteSetTheorems, TLAPS

Holding == {"touch", "global", "user"}

(* The objects in the map are each user's own, also those requests hold.    *)
OwnedInMap ==
  /\ \A u, v \in Users : users[u] # None /\ users[u] = users[v] => u = v
  /\ \A r \in Requests, u \in Users :
       ul[r] # None /\ ul[r] = users[u] => uid[r] = u
  /\ \A q, r \in Requests : ul[q] # None /\ ul[q] = ul[r] => uid[q] = uid[r]
  /\ \A r \in Requests : pc[r] \in Holding <=> ul[r] # None
  /\ \A u \in cleaner \cup victim : users[u] # None
  /\ cleaner \cap victim = {}

(* While no bucket of a user's has been dropped in use, all requests of the *)
(* user use the bucket in the map, it holds no more than the credit, and    *)
(* the credit has grown for as long as the bucket has been idle.            *)
Unraced(u) ==
  /\ u \notin excess
  /\ \A r \in Requests : ul[r] # None /\ uid[r] = u => ul[r] = users[u]
  /\ users[u] = None => \A k \in Kinds : credit[u][k] = Full
  /\ users[u] # None =>
       \A k \in Kinds :
         /\ tokens[users[u]][k] <= credit[u][k]
         /\ credit[u][k] = Full \/ credit[u][k] >= idle[users[u]]
  /\ \A r \in Requests :
       pc[r] \in {"global", "user"} /\ uid[r] = u => idle[users[u]] = 0

UnracedExact == \A u \in Users \ raced : Unraced(u)

(* Every bucket of a user's holds at least the credit.                      *)
NoneBelowCredit ==
  /\ \A u \in Users, k \in Kinds :
       users[u] # None => tokens[users[u]][k] >= credit[u][k]
  /\ \A r \in Requests, k \in Kinds :
       ul[r] # None => tokens[ul[r]][k] >= credit[uid[r]][k]

IInv == TypeOK /\ OwnedInMap /\ UnracedExact /\ NoneBelowCredit

(* The constants, with Full for the product: a bucket that has been idle     *)
(* for MaxIdle ticks is full.                                               *)
LEMMA Bounds ==
  /\ None \notin Objects
  /\ Cost \in Nat \ {0} /\ GlobalBurst \in Nat /\ MaxIdle \in Nat
  /\ Full \in Nat \ {0} /\ Full <= MaxIdle
<1>1. Burst * Cost \in Nat \ {0}
  BY RateLimiterAssumption
<1> QED  BY <1>1, RateLimiterAssumption DEF Full

LEMMA GainFacts ==
  ASSUME NEW n \in 0..Full
  PROVE  /\ Gain(n) \in 0..Full
         /\ Gain(n) = IF n = Full THEN Full ELSE n + 1
  BY Bounds DEF Gain

-----------------------------------------------------------------------------
(* Spending a token of a bucket that has one leaves the buckets in range.    *)
LEMMA Spent ==
  ASSUME NEW S, NEW t \in [S -> [Kinds -> 0..Full]], NEW o \in S,
         NEW k \in Kinds, NEW n \in 0..Full
  PROVE  [t EXCEPT ![o][k] = n] \in [S -> [Kinds -> 0..Full]]
<1>1. [t[o] EXCEPT ![k] = n] \in [Kinds -> 0..Full]
  OBVIOUS
<1> QED  BY <1>1

LEMMA AtMostOne ==
  /\ Cardinality({}) <= 1
  /\ \A x : Cardinality({x}) <= 1
<1>1. Cardinality({}) = 0
  BY FS_EmptySet, Zenon
<1>2. ASSUME NEW x PROVE Cardinality({x}) = 1
  BY FS_Singleton, Zenon
<1> QED  BY <1>1, <1>2

(* Every variable keeps its type, whatever the order of requests, cleaner   *)
(* and time: no bucket goes below nothing or above its burst.               *)
LEMMA TypeStep == TypeOK /\ OwnedInMap /\ [Next]_vars => TypeOK'
<1> SUFFICES ASSUME TypeOK, OwnedInMap, [Next]_vars
             PROVE  TypeOK'
    OBVIOUS
<1> USE Bounds DEF TypeOK
<1>1. CASE Tick
  BY <1>1, GainFacts DEF Tick, request, cleaning
<1>2. CASE CleanupStart
  BY <1>2 DEF CleanupStart, request, history
<1>3. CASE Examine
  <2>1. PICK u \in cleaner : /\ cleaner' = cleaner \ {u}
                             /\ victim' = {u} \/ victim' = {}
    BY <1>3 DEF Examine
  <2>2. Cardinality({}) <= 1 /\ Cardinality({u}) <= 1
    BY AtMostOne
  <2> QED  BY <1>3, <2>1, <2>2 DEF Examine, request, history
<1>4. CASE Evict
  <2>1. PICK u \in victim : /\ users' = [users EXCEPT ![u] = None]
                            /\ raced' = raced \cup {u} \/ raced' = raced
    BY <1>4 DEF Evict
  <2>2. Cardinality({}) <= 1
    BY AtMostOne
  <2> QED  BY <1>4, <2>1, <2>2 DEF Evict, request
<1>5. ASSUME NEW r \in Requests, Arrive(r)
      PROVE  TypeOK'
  BY <1>5 DEF Arrive, Goto, Labels, cleaning, history
<1>6. ASSUME NEW r \in Requests, Load(r)
      PROVE  TypeOK'
  BY <1>6 DEF Load, Goto, Labels, request, cleaning, history
<1>7. ASSUME NEW r \in Requests, StoreNew(r)
      PROVE  TypeOK'
  BY <1>7 DEF StoreNew, Unused, Goto, Labels, request, cleaning, history
<1>8. ASSUME NEW r \in Requests, StoreLoaded(r)
      PROVE  TypeOK'
  BY <1>8 DEF StoreLoaded, Goto, Labels, request, cleaning, history
<1>9. ASSUME NEW r \in Requests, Touch(r)
      PROVE  TypeOK'
  <2>1. idle' \in [Objects -> 0..MaxIdle + 1]
    <3>1. 0 \in 0..MaxIdle + 1
      OBVIOUS
    <3>2. idle \in [Objects -> 0..MaxIdle + 1] /\ idle' = [idle EXCEPT ![ul[r]] = 0]
      BY <1>9 DEF Touch
    <3> HIDE DEF TypeOK
    <3> QED  BY <3>1, <3>2
  <2>2. pc' \in [Requests -> Labels]
    BY <1>9 DEF Touch, Goto, Labels
  <2> QED  BY <1>9, <2>1, <2>2 DEF Touch, request, cleaning, history
<1>10. ASSUME NEW r \in Requests, TakeGlobal(r) \/ RefuseGlobal(r)
       PROVE  TypeOK'
  <2>1. global' \in 0..GlobalBurst
    <3>1. global \in 0..GlobalBurst
      OBVIOUS
    <3>2. CASE global > 0 /\ global' = global - 1
      BY <3>1, <3>2
    <3>3. CASE global' = global
      BY <3>1, <3>3
    <3> QED  BY <1>10, <3>2, <3>3 DEF TakeGlobal, RefuseGlobal
  <2>2. pc' \in [Requests -> Labels] /\ ul' \in [Requests -> Objects \cup {None}]
    <3>1. CASE TakeGlobal(r)
      BY <3>1 DEF TakeGlobal, Goto, Labels, request, cleaning, history
    <3>2. CASE RefuseGlobal(r)
      BY <3>2 DEF RefuseGlobal, Leave, Goto, Labels
    <3> QED  BY <1>10, <3>1, <3>2
  <2> QED  BY <1>10, <2>1, <2>2 DEF TakeGlobal, RefuseGlobal, request,
              cleaning, history
<1>11. ASSUME NEW r \in Requests, Grant(r)
       PROVE  TypeOK'
  <2> DEFINE o == ul[r]
             u == uid[r]
             k == kind[r]
  <2>1. o \in Objects /\ u \in Users /\ k \in Kinds
    BY <1>11 DEF Grant, Leave, Goto, OwnedInMap, Holding
  <2>2. tokens[o][k] \in 0..Full /\ credit[u][k] \in 0..Full
    BY <2>1
  <2>3. tokens[o][k] - Cost \in 0..Full
    BY <1>11, <2>2 DEF Grant
  <2>4. tokens' \in [Objects -> [Kinds -> 0..Full]]
    BY <1>11, <2>1, <2>3, Spent DEF Grant
  <2>5. (IF credit[u][k] >= Cost THEN credit[u][k] - Cost ELSE 0) \in 0..Full
    BY <2>2
  <2>6. credit' \in [Users -> [Kinds -> 0..Full]]
    BY <1>11, <2>1, <2>5, Spent DEF Grant
  <2>7. pc' \in [Requests -> Labels] /\ ul' \in [Requests -> Objects \cup {None}]
    BY <1>11 DEF Grant, Leave, Goto, Labels
  <2>8. excess' \in SUBSET Users
    BY <1>11, <2>1 DEF Grant
  <2> QED  BY <1>11, <2>4, <2>6, <2>7, <2>8 DEF Grant, request, cleaning
<1>12. ASSUME NEW r \in Requests, RefuseUser(r)
       PROVE  TypeOK'
  BY <1>12 DEF RefuseUser, Leave, Goto, Labels, request, cleaning, history
<1>13. CASE UNCHANGED vars
  BY <1>13 DEF vars
<1> QED  BY <1>1, <1>2, <1>3, <1>4, <1>5, <1>6, <1>7, <1>8, <1>9, <1>10, <1>11,
            <1>12, <1>13 DEF Next, Cleanup, Check

-----------------------------------------------------------------------------
(* The map and the requests agree on whose each limiter is.                 *)
LEMMA OwnedStep == TypeOK /\ OwnedInMap /\ [Next]_vars => OwnedInMap'
<1> SUFFICES ASSUME TypeOK, OwnedInMap, [Next]_vars
             PROVE  OwnedInMap'
    OBVIOUS
<1> USE Bounds DEF TypeOK, OwnedInMap, Holding
<1>1. CASE Tick
  BY <1>1 DEF Tick, request, cleaning
<1>2. CASE CleanupStart
  BY <1>2 DEF CleanupStart, request, history
<1>3. CASE Examine
  BY <1>3 DEF Examine, request, history
<1>4. CASE Evict
  BY <1>4 DEF Evict, request
<1>5. ASSUME NEW r \in Requests, Arrive(r)
      PROVE  OwnedInMap'
  BY <1>5 DEF Arrive, Goto, cleaning, history
<1>6. ASSUME NEW r \in Requests, Load(r)
      PROVE  OwnedInMap'
  BY <1>6 DEF Load, Goto, request, cleaning, history
<1>7. ASSUME NEW r \in Requests, StoreNew(r)
      PROVE  OwnedInMap'
  BY <1>7 DEF StoreNew, Unused, Goto, request, cleaning, history
<1>8. ASSUME NEW r \in Requests, StoreLoaded(r)
      PROVE  OwnedInMap'
  BY <1>8 DEF StoreLoaded, Goto, request, cleaning, history
<1>9. ASSUME NEW r \in Requests, Touch(r) \/ TakeGlobal(r)
      PROVE  OwnedInMap'
  BY <1>9 DEF Touch, TakeGlobal, Goto, request, cleaning, history
<1>10. ASSUME NEW r \in Requests, RefuseGlobal(r) \/ Grant(r) \/ RefuseUser(r)
       PROVE  OwnedInMap'
  <2>1. /\ pc' = [pc EXCEPT ![r] = "away"]
        /\ ul' = [ul EXCEPT ![r] = None]
        /\ UNCHANGED <<users, uid, cleaner, victim>>
    BY <1>10 DEF RefuseGlobal, Grant, RefuseUser, Leave, Goto, request, cleaning
  <2>2. \A q \in Requests : /\ ul'[q] # None => ul'[q] = ul[q]
                            /\ q # r => pc'[q] = pc[q] /\ ul'[q] = ul[q]
    BY <2>1
  <2>3. pc'[r] = "away" /\ ul'[r] = None
    BY <2>1
  <2> QED  BY <2>1, <2>2, <2>3
<1>11. CASE UNCHANGED vars
  BY <1>11 DEF vars
<1> QED  BY <1>1, <1>2, <1>3, <1>4, <1>5, <1>6, <1>7, <1>8, <1>9, <1>10,
            <1>11 DEF Next, Cleanup, Check

-----------------------------------------------------------------------------
(* A limiter that is dropped without having been in use was idle for so     *)
(* long that the credit is full, and a new one gives nothing away.          *)
LEMMA UnracedStep ==
  TypeOK /\ OwnedInMap /\ UnracedExact /\ [Next]_vars => UnracedExact'
<1> SUFFICES ASSUME TypeOK, OwnedInMap, UnracedExact, [Next]_vars,
                    NEW u \in Users, u \notin raced'
             PROVE  Unraced(u)'
    BY DEF UnracedExact
<1> USE Bounds
<1>0. u \notin raced /\ Unraced(u)
  <2>1. raced \subseteq raced'
    BY DEF Next, vars, Cleanup, Check, Tick, CleanupStart, Examine, Evict, Arrive,
           Load, StoreNew, StoreLoaded, Touch, TakeGlobal, RefuseGlobal, Grant,
           RefuseUser, history
  <2> QED  BY <2>1 DEF UnracedExact
<1>1. CASE Tick
  <2>1. /\ \A k \in Kinds : credit'[u][k] = Gain(credit[u][k])
        /\ UNCHANGED <<users, pc, uid, ul, excess>>
        /\ \A r \in Requests : pc[r] = "away"
    BY <1>1 DEF Tick, request, TypeOK
  <2>2. ASSUME users[u] # None, NEW k \in Kinds
        PROVE  /\ tokens'[users[u]][k] = Gain(tokens[users[u]][k])
               /\ idle'[users[u]] \in 0..idle[users[u]] + 1
    BY <1>1, <2>2 DEF Tick, Unused, TypeOK
  <2>3. ASSUME users[u] # None, NEW k \in Kinds
        PROVE  /\ tokens'[users[u]][k] <= credit'[u][k]
               /\ credit'[u][k] = Full \/ credit'[u][k] >= idle'[users[u]]
    <3>1. /\ tokens[users[u]][k] \in 0..Full /\ credit[u][k] \in 0..Full
          /\ idle[users[u]] \in Nat
      BY <2>3 DEF TypeOK
    <3> QED  BY <1>0, <2>1, <2>2, <2>3, <3>1, GainFacts DEF Unraced
  <2>4. ASSUME users[u] = None, NEW k \in Kinds
        PROVE  credit'[u][k] = Full
    BY <1>0, <2>1, <2>4, GainFacts DEF Unraced
  <2> QED  BY <1>0, <2>1, <2>3, <2>4 DEF Unraced
<1>2. CASE CleanupStart
  BY <1>0, <1>2 DEF CleanupStart, request, history, Unraced
<1>3. CASE Examine
  BY <1>0, <1>3 DEF Examine, request, history, Unraced
<1>4. CASE Evict
  <2>1. PICK v \in victim :
              /\ users' = [users EXCEPT ![v] = None]
              /\ raced' = IF InUse(users[v]) THEN raced \cup {v} ELSE raced
    BY <1>4 DEF Evict
  <2>2. UNCHANGED <<tokens, idle, pc, uid, kind, ul, credit, excess>>
    BY <1>4 DEF Evict, request
  <2>3. v \in Users /\ users[v] \in Objects
    BY <2>1 DEF TypeOK, OwnedInMap
  <2>4. CASE u # v
    BY <1>0, <2>1, <2>2, <2>4 DEF Unraced, TypeOK
  <2>5. CASE u = v
    <3>1. ~InUse(users[u])
      BY <2>1, <2>5
    <3>2. /\ \A r \in Requests : ul[r] # users[u]
          /\ idle[users[u]] > MaxIdle
      BY <2>3, <2>5, <3>1 DEF InUse, TypeOK
    <3>3. \A r \in Requests : ~(ul[r] # None /\ uid[r] = u)
      BY <1>0, <3>2 DEF Unraced
    <3>4. ASSUME NEW k \in Kinds
          PROVE  credit[u][k] = Full
      <4>1. credit[u][k] \in 0..Full /\ idle[users[u]] \in Nat
        BY <2>3, <2>5 DEF TypeOK
      <4> QED  BY <1>0, <2>3, <2>5, <3>2, <4>1 DEF Unraced
    <3>5. users'[u] = None
      BY <2>1, <2>5 DEF TypeOK
    <3>6. \A r \in Requests : pc[r] \in {"global", "user"} => uid[r] # u
      BY <3>3 DEF OwnedInMap, Holding
    <3> QED  BY <1>0, <2>2, <3>3, <3>4, <3>5, <3>6 DEF Unraced
  <2> QED  BY <2>4, <2>5
<1>5. ASSUME NEW r \in Requests, Arrive(r)
      PROVE  Unraced(u)'
  BY <1>0, <1>5 DEF Arrive, Goto, cleaning, history, Unraced, OwnedInMap, Holding,
                    TypeOK
<1>6. ASSUME NEW r \in Requests, Load(r)
      PROVE  Unraced(u)'
  BY <1>0, <1>6 DEF Load, Goto, request, cleaning, history, Unraced, TypeOK
<1>7. ASSUME NEW r \in Requests, StoreNew(r)
      PROVE  Unraced(u)'
  <2>1. PICK o \in Unused :
              /\ users' = [users EXCEPT ![uid[r]] = o]
              /\ ul' = [ul EXCEPT ![r] = o]
              /\ tokens' = [tokens EXCEPT ![o] = [k \in Kinds |-> Full]]
              /\ idle' = [idle EXCEPT ![o] = 0]
    BY <1>7 DEF StoreNew
  <2>2. /\ pc' = [pc EXCEPT ![r] = "touch"]
        /\ users[uid[r]] = None
        /\ UNCHANGED <<uid, credit, excess>>
    BY <1>7 DEF StoreNew, Goto, request, history
  <2>3. /\ o \in Objects
        /\ \A v \in Users : users[v] # o
        /\ \A q \in Requests : ul[q] # o
    BY DEF Unused
  <2>4. CASE u = uid[r]
    <3>1. users[u] = None /\ users'[u] = o /\ o # None
      BY <2>1, <2>2, <2>3, <2>4 DEF TypeOK
    <3>2. \A q \in Requests : ~(ul[q] # None /\ uid[q] = u)
      BY <1>0, <3>1 DEF Unraced
    <3>3. \A q \in Requests : ul'[q] # None /\ uid'[q] = u => ul'[q] = users'[u]
      BY <2>1, <2>2, <3>1, <3>2 DEF TypeOK
    <3>4. \A k \in Kinds : credit'[u][k] = Full
      BY <1>0, <2>2, <3>1 DEF Unraced
    <3>5. \A k \in Kinds : tokens'[o][k] = Full
      BY <2>1, <2>3 DEF TypeOK
    <3>6. \A q \in Requests : ~(pc'[q] \in {"global", "user"} /\ uid'[q] = u)
      BY <2>2, <3>2 DEF OwnedInMap, Holding, TypeOK
    <3>7. u \notin excess'
      BY <1>0, <2>2 DEF Unraced
    <3> QED  BY <3>1, <3>3, <3>4, <3>5, <3>6, <3>7 DEF Unraced
  <2>5. CASE u # uid[r]
    <3>1. users'[u] = users[u] /\ users[u] # o
      BY <2>1, <2>3, <2>5 DEF TypeOK
    <3>2. tokens'[users[u]] = tokens[users[u]] /\ idle'[users[u]] = idle[users[u]]
      BY <2>1, <3>1 DEF TypeOK
    <3>3. \A q \in Requests : uid[q] = u => ul'[q] = ul[q] /\ pc'[q] = pc[q]
      BY <2>1, <2>2, <2>5 DEF TypeOK
    <3> QED  BY <1>0, <2>2, <3>1, <3>2, <3>3 DEF Unraced
  <2> QED  BY <2>4, <2>5
<1>8. ASSUME NEW r \in Requests, StoreLoaded(r)
      PROVE  Unraced(u)'
  BY <1>0, <1>8 DEF StoreLoaded, Goto, request, cleaning, history, Unraced, TypeOK
<1>9. ASSUME NEW r \in Requests, Touch(r)
      PROVE  Unraced(u)'
  <2>1. /\ pc[r] = "touch" /\ pc' = [pc EXCEPT ![r] = "global"]
        /\ idle' = [idle EXCEPT ![ul[r]] = 0]
        /\ UNCHANGED <<users, tokens, uid, ul, credit, excess>>
    BY <1>9 DEF Touch, Goto, request, history
  <2>2. ul[r] \in Objects
    BY <2>1 DEF OwnedInMap, Holding, TypeOK
  <2>3. idle'[users[u]] \in {0, idle[users[u]]}
    BY <2>1, <2>2 DEF TypeOK
  <2>4. uid[r] = u => idle'[users[u]] = 0
    BY <1>0, <2>1, <2>2 DEF Unraced, TypeOK
  <2>5. \A q \in Requests :
          pc'[q] \in {"global", "user"} /\ uid[q] = u => idle'[users[u]] = 0
    BY <1>0, <2>1, <2>3, <2>4 DEF Unraced, TypeOK
  <2>6. ASSUME users[u] # None, NEW k \in Kinds
        PROVE  credit[u][k] = Full \/ credit[u][k] >= idle'[users[u]]
    BY <1>0, <2>3, <2>6 DEF Unraced, TypeOK
  <2> QED  BY <1>0, <2>1, <2>5, <2>6 DEF Unraced
<1>10. ASSUME NEW r \in Requests, TakeGlobal(r)
       PROVE  Unraced(u)'
  BY <1>0, <1>10 DEF TakeGlobal, Goto, request, cleaning, history, Unraced, TypeOK
<1>11. ASSUME NEW r \in Requests, RefuseGlobal(r) \/ RefuseUser(r)
       PROVE  Unraced(u)'
  BY <1>0, <1>11 DEF RefuseGlobal, RefuseUser, Leave, Goto, request, cleaning,
                     history, Unraced, TypeOK
<1>12. ASSUME NEW r \in Requests, Grant(r)
       PROVE  Unraced(u)'
  <2> DEFINE o == ul[r]
             v == uid[r]
             j == kind[r]
  <2>1. /\ pc[r] = "user" /\ pc' = [pc EXCEPT ![r] = "away"]
        /\ ul' = [ul EXCEPT ![r] = None]
        /\ tokens[o][j] >= Cost
        /\ tokens' = [tokens EXCEPT ![o][j] = @ - Cost]
        /\ credit' = [credit EXCEPT ![v][j] = IF @ >= Cost THEN @ - Cost ELSE 0]
        /\ excess' = IF credit[v][j] < Cost THEN excess \cup {v} ELSE excess
        /\ UNCHANGED <<users, idle, uid>>
    BY <1>12 DEF Grant, Leave, Goto, request
  <2>2. o \in Objects /\ v \in Users /\ j \in Kinds
    BY <2>1 DEF OwnedInMap, Holding, TypeOK
  <2>3. \A q \in Requests :
          /\ ul'[q] # None => ul'[q] = ul[q]
          /\ pc'[q] \in {"global", "user"} => pc[q] = pc'[q]
    BY <2>1 DEF TypeOK
  <2>4. CASE u # v
    <3>1. users[u] # o
      BY <2>2, <2>4 DEF OwnedInMap, TypeOK
    <3>2. tokens'[users[u]] = tokens[users[u]] /\ credit'[u] = credit[u]
      BY <2>1, <2>2, <2>4, <3>1 DEF TypeOK
    <3>3. u \notin excess'
      BY <1>0, <2>1, <2>4 DEF Unraced
    <3> QED  BY <1>0, <2>1, <2>3, <3>2, <3>3 DEF Unraced
  <2>5. CASE u = v
    <3>1. o = users[u] /\ users[u] # None /\ idle[users[u]] = 0
      BY <1>0, <2>1, <2>2, <2>5 DEF Unraced
    <3>2. tokens[o][j] <= credit[u][j]
      BY <1>0, <2>2, <3>1 DEF Unraced
    <3>3. /\ tokens[o][j] \in 0..Full /\ credit[u][j] \in 0..Full
      BY <2>2, <2>5 DEF TypeOK
    <3>4. credit[u][j] >= Cost /\ tokens[o][j] - Cost <= credit[u][j] - Cost
      BY <2>1, <3>2, <3>3
    <3>5. u \notin excess'
      BY <1>0, <2>1, <2>5, <3>3, <3>4 DEF Unraced
    <3>6. ASSUME NEW k \in Kinds
          PROVE  /\ tokens'[users[u]][k] <= credit'[u][k]
                 /\ credit'[u][k] >= 0
      <4>1. CASE k = j
        <5>1. /\ tokens'[users[u]][k] = tokens[o][j] - Cost
              /\ credit'[u][k] = credit[u][j] - Cost
          BY <2>1, <2>2, <2>5, <3>1, <3>4, <4>1 DEF TypeOK
        <5> QED  BY <3>3, <3>4, <5>1
      <4>2. CASE k # j
        <5>1. /\ tokens'[users[u]][k] = tokens[users[u]][k]
              /\ credit'[u][k] = credit[u][k]
          BY <2>1, <2>2, <2>5, <3>1, <4>2 DEF TypeOK
        <5>2. credit[u][k] \in 0..Full
          BY DEF TypeOK
        <5> QED  BY <1>0, <3>1, <5>1, <5>2 DEF Unraced
      <4> QED  BY <4>1, <4>2
    <3> QED  BY <1>0, <2>1, <2>3, <3>1, <3>5, <3>6 DEF Unraced
  <2> QED  BY <2>4, <2>5
<1>13. CASE UNCHANGED vars
  BY <1>0, <1>13 DEF vars, Unraced
<1> QED  BY <1>1, <1>2, <1>3, <1>4, <1>5, <1>6, <1>7, <1>8, <1>9, <1>10, <1>11,
            <1>12, <1>13 DEF Next, Cleanup, Check

-----------------------------------------------------------------------------
(* What is taken from a bucket is charged to the credit, and no bucket of   *)
(* the user's gains what the credit does not.                              *)
LEMMA CreditStep ==
  TypeOK /\ OwnedInMap /\ NoneBelowCredit /\ [Next]_vars => NoneBelowCredit'
<1> SUFFICES ASSUME TypeOK, OwnedInMap, NoneBelowCredit, [Next]_vars
             PROVE  NoneBelowCredit'
    OBVIOUS
<1> USE Bounds
<1>1. CASE Tick
  <2>1. /\ \A u \in Users, k \in Kinds : credit'[u][k] = Gain(credit[u][k])
        /\ UNCHANGED <<users, ul>>
        /\ \A r \in Requests : ul[r] = None
    BY <1>1 DEF Tick, request, TypeOK, OwnedInMap, Holding
  <2>2. ASSUME NEW u \in Users, users[u] # None, NEW k \in Kinds
        PROVE  tokens'[users[u]][k] >= credit'[u][k]
    <3>1. tokens'[users[u]][k] = Gain(tokens[users[u]][k])
      BY <1>1, <2>2 DEF Tick, Unused, TypeOK
    <3>2. tokens[users[u]][k] \in 0..Full /\ credit[u][k] \in 0..Full
      BY <2>2 DEF TypeOK
    <3> QED  BY <2>1, <2>2, <3>1, <3>2, GainFacts DEF NoneBelowCredit
  <2> QED  BY <2>1, <2>2 DEF NoneBelowCredit
<1>2. CASE Cleanup
  BY <1>2 DEF Cleanup, CleanupStart, Examine, Evict, request, history,
              NoneBelowCredit, TypeOK
<1>3. ASSUME NEW r \in Requests, Arrive(r)
      PROVE  NoneBelowCredit'
  BY <1>3 DEF Arrive, Goto, cleaning, history, NoneBelowCredit, OwnedInMap, Holding,
              TypeOK
<1>4. ASSUME NEW r \in Requests, Load(r) \/ StoreLoaded(r)
      PROVE  NoneBelowCredit'
  <2>1. /\ ul' = [ul EXCEPT ![r] = users[uid[r]]]
        /\ UNCHANGED <<users, tokens, uid, credit>>
    BY <1>4 DEF Load, StoreLoaded, request, history
  <2> QED  BY <2>1 DEF NoneBelowCredit, TypeOK
<1>5. ASSUME NEW r \in Requests, StoreNew(r)
      PROVE  NoneBelowCredit'
  <2>1. PICK o \in Unused :
              /\ users' = [users EXCEPT ![uid[r]] = o]
              /\ ul' = [ul EXCEPT ![r] = o]
              /\ tokens' = [tokens EXCEPT ![o] = [k \in Kinds |-> Full]]
    BY <1>5 DEF StoreNew
  <2>2. UNCHANGED <<uid, credit>>
    BY <1>5 DEF StoreNew, request, history
  <2>3. \A u \in Users, k \in Kinds : Full >= credit[u][k]
    BY DEF TypeOK
  <2>4. \A k \in Kinds : tokens'[o][k] = Full
    BY <2>1 DEF Unused, TypeOK
  <2>5. \A x \in Objects \ {o} : tokens'[x] = tokens[x]
    BY <2>1 DEF TypeOK
  <2>6. /\ \A u \in Users : users[u] \in Objects \cup {None}
        /\ \A q \in Requests : ul[q] \in Objects \cup {None}
        /\ \A q \in Requests : uid[q] \in Users
    BY DEF TypeOK
  <2>7. ASSUME NEW u \in Users, NEW k \in Kinds, users'[u] # None
        PROVE  tokens'[users'[u]][k] >= credit'[u][k]
    <3>1. users'[u] = o \/ (users'[u] = users[u] /\ users[u] # o)
      BY <2>1 DEF TypeOK, Unused
    <3> QED  BY <2>2, <2>3, <2>4, <2>5, <2>6, <2>7, <3>1 DEF NoneBelowCredit
  <2>8. ASSUME NEW q \in Requests, NEW k \in Kinds, ul'[q] # None
        PROVE  tokens'[ul'[q]][k] >= credit'[uid'[q]][k]
    <3>1. ul'[q] = o \/ (ul'[q] = ul[q] /\ ul[q] # o)
      BY <2>1 DEF TypeOK, Unused
    <3> QED  BY <2>2, <2>3, <2>4, <2>5, <2>6, <2>8, <3>1 DEF NoneBelowCredit
  <2> QED  BY <2>7, <2>8 DEF NoneBelowCredit
<1>6. ASSUME NEW r \in Requests, Touch(r) \/ TakeGlobal(r)
      PROVE  NoneBelowCredit'
  BY <1>6 DEF Touch, TakeGlobal, request, cleaning, history, NoneBelowCredit
<1>7. ASSUME NEW r \in Requests, RefuseGlobal(r) \/ RefuseUser(r)
      PROVE  NoneBelowCredit'
  BY <1>7 DEF RefuseGlobal, RefuseUser, Leave, request, cleaning, history,
              NoneBelowCredit, TypeOK
<1>8. ASSUME NEW r \in Requests, Grant(r)
      PROVE  NoneBelowCredit'
  <2> DEFINE o == ul[r]
             v == uid[r]
             j == kind[r]
  <2>1. /\ pc[r] = "user"
        /\ ul' = [ul EXCEPT ![r] = None]
        /\ tokens[o][j] >= Cost
        /\ tokens' = [tokens EXCEPT ![o][j] = @ - Cost]
        /\ credit' = [credit EXCEPT ![v][j] = IF @ >= Cost THEN @ - Cost ELSE 0]
        /\ UNCHANGED <<users, uid>>
    BY <1>8 DEF Grant, Leave, Goto, request
  <2>2. o \in Objects /\ v \in Users /\ j \in Kinds
    BY <2>1 DEF OwnedInMap, Holding, TypeOK
  <2>3. /\ tokens[o][j] \in 0..Full /\ credit[v][j] \in 0..Full
        /\ tokens[o][j] >= credit[v][j]
    <3>1. tokens[o][j] \in 0..Full /\ credit[v][j] \in 0..Full
      BY <2>2 DEF TypeOK
    <3>2. tokens[o][j] >= credit[v][j]
      BY <2>2 DEF NoneBelowCredit
    <3> QED  BY <3>1, <3>2
  (* An object and its user, before and after. *)
  <2>4. ASSUME NEW x \in Objects, NEW u \in Users, NEW k \in Kinds,
               x = o => u = v, tokens[x][k] >= credit[u][k]
        PROVE  tokens'[x][k] >= credit'[u][k]
    <3>1. credit[u][k] \in 0..Full /\ tokens[x][k] \in 0..Full
      BY DEF TypeOK
    <3>2. CASE x = o /\ k = j
      <4>1. /\ tokens'[x][k] = tokens[o][j] - Cost
            /\ credit'[u][k] = IF credit[v][j] >= Cost THEN credit[v][j] - Cost ELSE 0
        BY <2>1, <2>2, <2>4, <3>2 DEF TypeOK
      <4> QED  BY <2>1, <2>3, <4>1
    <3>3. CASE ~(x = o /\ k = j)
      <4>1. tokens'[x][k] = tokens[x][k]
        BY <2>1, <2>2, <3>3 DEF TypeOK
      <4>2. \/ credit'[u][k] = credit[u][k]
            \/ credit[u][k] >= Cost /\ credit'[u][k] = credit[u][k] - Cost
            \/ credit'[u][k] = 0
        BY <2>1, <2>2 DEF TypeOK
      <4> QED  BY <2>4, <3>1, <4>1, <4>2
    <3> QED  BY <3>2, <3>3
  <2>5. ASSUME NEW u \in Users, NEW k \in Kinds, users'[u] # None
        PROVE  tokens'[users'[u]][k] >= credit'[u][k]
    BY <2>1, <2>2, <2>4, <2>5 DEF NoneBelowCredit, OwnedInMap, TypeOK
  <2>6. ASSUME NEW q \in Requests, NEW k \in Kinds, ul'[q] # None
        PROVE  tokens'[ul'[q]][k] >= credit'[uid'[q]][k]
    <3>1. ul'[q] = ul[q] /\ ul[q] \in Objects /\ uid'[q] = uid[q] /\ uid[q] \in Users
      BY <2>1, <2>6 DEF TypeOK
    <3>2. ul[q] = o => uid[q] = v
      BY <2>2, <2>6, <3>1 DEF OwnedInMap
    <3>3. tokens[ul[q]][k] >= credit[uid[q]][k]
      BY <2>6, <3>1 DEF NoneBelowCredit
    <3> QED  BY <2>4, <3>1, <3>2, <3>3
  <2> QED  BY <2>5, <2>6 DEF NoneBelowCredit
<1>9. CASE UNCHANGED vars
  BY <1>9 DEF vars, NoneBelowCredit
<1> QED  BY <1>1, <1>2, <1>3, <1>4, <1>5, <1>6, <1>7, <1>8, <1>9 DEF Next, Check

-----------------------------------------------------------------------------
LEMMA InitInv == Init => IInv
<1> SUFFICES ASSUME Init PROVE IInv
    OBVIOUS
<1> USE Bounds DEF Init
<1>1. TypeOK
  BY AtMostOne DEF TypeOK, Labels
<1>2. OwnedInMap
  BY DEF OwnedInMap, Holding
<1>3. UnracedExact
  BY DEF UnracedExact, Unraced
<1>4. NoneBelowCredit
  BY DEF NoneBelowCredit
<1> QED  BY <1>1, <1>2, <1>3, <1>4 DEF IInv

LEMMA StepInv == IInv /\ [Next]_vars => IInv'
  BY TypeStep, OwnedStep, UnracedStep, CreditStep DEF IInv

(* The invariant holds of every behaviour: types, owners, exact and         *)
(* sufficient credit.                                                       *)
THEOREM InvariantHolds == Spec => []IInv
  BY InitInv, StepInv, PTL DEF Spec

(* Every variable keeps its type: in particular no bucket is overdrawn and  *)
(* none holds more than its burst.                                          *)
THEOREM TypeCorrect == Spec => []TypeOK
<1>1. IInv => TypeOK
  BY DEF IInv
<1> QED  BY <1>1, InvariantHolds, PTL

(* Dropping idle limiters and making new ones, two at once for one user     *)
(* included, gives no user more than the limit, unless a limiter is dropped *)
(* while in use.                                                            *)
THEOREM QuotaIsKept == Spec => []QuotaUnlessRaced
<1>1. IInv => QuotaUnlessRaced
  BY DEF IInv, TypeOK, UnracedExact, Unraced, QuotaUnlessRaced
<1> QED  BY <1>1, InvariantHolds, PTL

(* A user who is within the limit is never refused by the user's own bucket.*)
THEOREM RefusalsAreDue == Spec => RefusedOnlyBeyond
<1> DEFINE Due == \A r \in Requests :
                    RefuseUser(r) => credit[uid[r]][kind[r]] < Cost
<1>1. IInv => Due
  <2> SUFFICES ASSUME IInv, NEW r \in Requests, RefuseUser(r)
               PROVE  credit[uid[r]][kind[r]] < Cost
      OBVIOUS
  <2>1. pc[r] = "user" /\ tokens[ul[r]][kind[r]] < Cost
    BY DEF RefuseUser, Leave, Goto
  <2>2. ul[r] \in Objects /\ ul[r] # None
    BY <2>1, Bounds DEF IInv, OwnedInMap, Holding, TypeOK
  <2>3. tokens[ul[r]][kind[r]] >= credit[uid[r]][kind[r]]
    BY <2>2 DEF IInv, TypeOK, NoneBelowCredit
  <2>4. /\ tokens[ul[r]][kind[r]] \in 0..Full
        /\ credit[uid[r]][kind[r]] \in 0..Full
    BY <2>2 DEF IInv, TypeOK
  <2> QED  BY <2>1, <2>3, <2>4, Bounds
<1>2. IInv /\ [Next]_vars => [Due]_vars
  BY <1>1
<1> QED  BY <1>2, InvariantHolds, PTL DEF Spec, RefusedOnlyBeyond
=============================================================================
