-------------------------- MODULE PollHealth_proofs --------------------------
(* What PollHealth says about one failed poll and about the container, for  *)
(* all timeouts and intervals.                                             *)
EXTENDS PollHealth, TLAPS

(* How much time the polls since the last success, or since the start, can  *)
(* have taken: `left' is what the present phase may add to it.              *)
OnTime ==
  /\ phase = "init" => since = Never /\ failures = 0
  /\ phase = "wait" => failures >= 1 /\ left <= Backoff
  /\ phase = "poll" => left <= PollTimeout
  /\ since # Never =>
       /\ failures = 0 => since + left <= PollTimeout
       /\ failures = 1 /\ phase = "wait" => since + left <= PollTimeout + Backoff
       /\ failures = 1 /\ phase = "poll" => since + left <= 2 * PollTimeout + Backoff

(* Before the first answer every check fails, so that their number tells    *)
(* the time.                                                                *)
Starting ==
  since = Never /\ failures = 0 =>
    fails * Interval + Interval - next + left
      <= startup + (IF phase = "poll" THEN PollTimeout ELSE 0)

IInv == TypeOK /\ OnTime /\ Starting

LEMMA Constants ==
  /\ PollTimeout \in Nat /\ Backoff \in Nat /\ StartUp \in Nat
  /\ Interval \in Nat /\ Retries \in Nat
  /\ PollTimeout > 0 /\ Backoff > 0 /\ Interval > 0 /\ Retries > 0
BY PollHealthAssumption

LEMMA WaitAdds ==
  ASSUME NEW s \in Int, NEW l \in Nat, NEW m \in 0..Backoff, s + l <= PollTimeout
  PROVE  s + m <= PollTimeout + Backoff
BY Constants

LEMMA InitIInv == Init => IInv
<1> SUFFICES ASSUME Init PROVE IInv OBVIOUS
<1> USE Constants
<1>1. TypeOK BY DEF Init, TypeOK, Never, StaleAfter
<1>2. OnTime BY DEF Init, OnTime
<1>3. Starting BY DEF Init, Starting
<1> QED BY <1>1, <1>2, <1>3 DEF IInv

LEMMA PollEndsIInv ==
  ASSUME IInv, NEW a \in Answers, PollEnds(a)
  PROVE  IInv'
<1> USE Constants DEF IInv
<1>1. CASE a \in Good
  <2>1. since' = 0 /\ phase' = "poll" /\ left' = PollTimeout /\ failures' = 0
        /\ UNCHANGED <<startup, next, fails>>
    BY <1>1 DEF PollEnds, Do, Records, RecordSuccess
  <2>2. TypeOK' BY <2>1 DEF TypeOK, Never, StaleAfter
  <2>3. OnTime' BY <2>1 DEF OnTime, TypeOK, Never
  <2>4. Starting' BY <2>1 DEF Starting, Never
  <2> QED BY <2>2, <2>3, <2>4
<1>2. CASE a \notin Good
  <2>1. /\ phase = "poll" /\ phase' = "wait" /\ left' \in 0..Backoff
        /\ failures' = OneMore(failures, 2)
        /\ UNCHANGED <<startup, since, next, fails>>
    BY <1>2 DEF PollEnds, Do, Records
  <2>2. TypeOK' BY <2>1 DEF TypeOK, OneMore
  <2>3. OnTime'
    <3>1. failures' >= 1 /\ (failures' = 1 => failures = 0)
      BY <2>1 DEF TypeOK, OneMore
    <3>2. since # Never /\ failures' = 1 => since + left' <= PollTimeout + Backoff
      <4> SUFFICES ASSUME since # Never, failures' = 1
                   PROVE  since + left' <= PollTimeout + Backoff
        OBVIOUS
      <4>1. since + left <= PollTimeout BY <3>1 DEF OnTime
      <4>2. since \in Int /\ left \in Nat /\ left' \in 0..Backoff
        BY <2>1 DEF TypeOK, Never
      <4> QED BY <4>1, <4>2, WaitAdds
    <3>3. left' <= Backoff BY <2>1
    <3> QED BY <2>1, <3>1, <3>2, <3>3 DEF OnTime
  <2>4. Starting' BY <2>1 DEF Starting, TypeOK, OneMore
  <2> QED BY <2>2, <2>3, <2>4
<1> QED BY <1>1, <1>2

LEMMA PollBeginsIInv == IInv /\ PollBegins => IInv'
<1> SUFFICES ASSUME IInv, PollBegins PROVE IInv' OBVIOUS
<1> USE Constants DEF IInv
<1>1. /\ phase \in {"init", "wait"} /\ left = 0 /\ phase' = "poll" /\ left' = PollTimeout
      /\ UNCHANGED <<startup, since, next, fails, failures>>
  BY DEF PollBegins
<1>2. TypeOK' BY <1>1 DEF TypeOK
<1>3. OnTime' BY <1>1 DEF OnTime, TypeOK
<1>4. Starting'
  <2> SUFFICES ASSUME since = Never, failures = 0
               PROVE  fails * Interval + Interval - next + PollTimeout <= startup + PollTimeout
    BY <1>1 DEF Starting
  <2> DEFINE spent == fails * Interval
  <2>1. spent \in Nat BY DEF TypeOK
  <2>2. spent + Interval - next + left <= startup BY <1>1 DEF Starting, TypeOK
  <2> HIDE DEF spent
  <2>3. spent + Interval - next + PollTimeout <= startup + PollTimeout
    BY <1>1, <2>1, <2>2 DEF TypeOK
  <2> QED BY <2>3 DEF spent
<1> QED BY <1>2, <1>3, <1>4

LEMMA TickIInv == IInv /\ Tick => IInv'
<1> SUFFICES ASSUME IInv, Tick PROVE IInv' OBVIOUS
<1> USE Constants DEF IInv
<1>1. /\ left > 0 /\ next > 0 /\ left' = left - 1 /\ next' = next - 1
      /\ since' = (IF since = Never THEN Never ELSE OneMore(since, StaleAfter))
      /\ UNCHANGED <<startup, phase, fails, failures>>
  BY DEF Tick
<1>2. TypeOK'
  <2>1. since' \in Never..StaleAfter BY <1>1 DEF TypeOK, OneMore, Never, StaleAfter
  <2>2. left' \in Nat /\ \E most \in {PollTimeout, Backoff, StartUp} : left' <= most
    BY <1>1 DEF TypeOK
  <2> QED BY <1>1, <2>1, <2>2 DEF TypeOK
<1>3. OnTime'
  <2>1. since = Never => since' = Never BY <1>1
  <2>2. since # Never => since' # Never /\ since' <= since + 1 /\ since' \in Int
    BY <1>1 DEF TypeOK, OneMore, Never, StaleAfter
  <2> QED BY <1>1, <2>1, <2>2 DEF OnTime, TypeOK, Never, StaleAfter
<1>4. Starting'
  <2>1. since' = Never => since = Never
    BY <1>1 DEF TypeOK, OneMore, Never, StaleAfter
  <2> SUFFICES ASSUME since = Never, failures = 0
               PROVE  fails * Interval + Interval - next' + left'
                        <= startup + (IF phase = "poll" THEN PollTimeout ELSE 0)
    BY <1>1, <2>1 DEF Starting
  <2> DEFINE spent == fails * Interval
             given == startup + (IF phase = "poll" THEN PollTimeout ELSE 0)
  <2>2. spent \in Nat /\ given \in Nat BY DEF TypeOK
  <2>3. spent + Interval - next + left <= given BY DEF Starting
  <2> HIDE DEF spent, given
  <2>4. spent + Interval - next' + left' <= given BY <1>1, <2>2, <2>3 DEF TypeOK
  <2> QED BY <2>4 DEF spent, given
<1> QED BY <1>2, <1>3, <1>4

LEMMA CheckIInv == IInv /\ Check => IInv'
<1> SUFFICES ASSUME IInv, Check PROVE IInv' OBVIOUS
<1> USE Constants DEF IInv
<1>1. /\ next = 0 /\ next' = Interval
      /\ fails' = IF Status = "ok" THEN 0 ELSE OneMore(fails, Retries)
      /\ UNCHANGED <<startup, since, phase, left, failures>>
  BY DEF Check
<1>2. TypeOK' BY <1>1 DEF TypeOK, OneMore
<1>3. OnTime' BY <1>1 DEF OnTime
<1>4. Starting'
  <2> SUFFICES ASSUME since = Never, failures = 0
               PROVE  fails' * Interval + Interval - Interval + left
                        <= startup + (IF phase = "poll" THEN PollTimeout ELSE 0)
    BY <1>1 DEF Starting
  <2>1. fails' = OneMore(fails, Retries) BY <1>1 DEF Status
  <2>2. fails' \in Nat /\ fails' <= fails + 1 BY <2>1 DEF OneMore, TypeOK
  <2> DEFINE spent == fails * Interval
             spends == fails' * Interval
             given == startup + (IF phase = "poll" THEN PollTimeout ELSE 0)
  <2>3. spent \in Nat /\ spends \in Nat /\ given \in Nat
    <3>1. fails \in Nat BY DEF TypeOK
    <3>2. spent \in Nat BY <3>1
    <3>3. \A m, n \in Nat : m * n \in Nat OBVIOUS
    <3>4. spends \in Nat BY <2>2, <3>3
    <3>5. given \in Nat BY DEF TypeOK
    <3> QED BY <3>2, <3>4, <3>5
  <2>4. spends <= spent + Interval
    <3>1. CASE fails' = fails + 1 BY <3>1 DEF TypeOK
    <3>2. CASE fails' = fails BY <3>2 DEF TypeOK
    <3> QED BY <2>1, <3>1, <3>2 DEF OneMore
  <2>5. spent + Interval - next + left <= given BY DEF Starting
  <2> HIDE DEF spent, spends, given
  <2>6. spends + Interval - Interval + left <= given
    BY <1>1, <2>3, <2>4, <2>5 DEF TypeOK
  <2> QED BY <2>6 DEF spends, given
<1> QED BY <1>2, <1>3, <1>4

(* The calls of other methods change nothing. *)
LEMMA OtherCallStutters == ASSUME NEW a \in Answers, OtherCall(a) PROVE UNCHANGED vars
BY DEF OtherCall, Do, Records, vars

LEMMA NextIInv == IInv /\ [Next]_vars => IInv'
<1> SUFFICES ASSUME IInv, [Next]_vars PROVE IInv' OBVIOUS
<1>1. CASE UNCHANGED vars
  BY <1>1 DEF vars, IInv, TypeOK, OnTime, Starting
<1>2. CASE PollBegins BY <1>2, PollBeginsIInv
<1>3. ASSUME NEW a \in Answers, PollEnds(a) PROVE IInv' BY <1>3, PollEndsIInv
<1>4. ASSUME NEW a \in Answers, OtherCall(a) PROVE IInv'
  BY <1>1, <1>4, OtherCallStutters
<1>5. CASE Check BY <1>5, CheckIInv
<1>6. CASE Tick BY <1>6, TickIInv
<1> QED BY <1>1, <1>2, <1>3, <1>4, <1>5, <1>6 DEF Next, Poll

LEMMA Invariance == Spec => []IInv
BY InitIInv, NextIInv, PTL DEF Spec

(* The types, and so that no counter leaves its bounds. *)
THEOREM TypeCorrect == Spec => []TypeOK
<1>1. IInv => TypeOK BY DEF IInv
<1> QED BY <1>1, Invariance, PTL

LEMMA StaleImplies == IInv => StaleMeansTwoFailures
<1> SUFFICES ASSUME IInv, Status = "polling_stale" PROVE failures = 2
  BY DEF StaleMeansTwoFailures
<1> USE Constants DEF IInv
<1>1. since # Never /\ since >= StaleAfter BY DEF Status
<1>2. failures # 0 BY <1>1 DEF OnTime, TypeOK, StaleAfter
<1>3. failures # 1 BY <1>1 DEF OnTime, TypeOK, StaleAfter
<1> QED BY <1>2, <1>3 DEF TypeOK

(* A bot is stale only after two polls in a row have failed: 2 * (60 + 5)   *)
(* seconds are enough whatever the timeout and the back-off are.           *)
THEOREM StaleIsTwoFailures == Spec => []StaleMeansTwoFailures
BY StaleImplies, Invariance, PTL

LEMMA UnhealthyStep ==
  ASSUME IInv, [Next]_vars, ~Unhealthy, Unhealthy'
  PROVE  IF since = Never THEN failures >= 1 \/ SlowStart ELSE failures = 2
<1> USE PollHealthAssumption DEF IInv
<1>1. Check
  <2>1. fails' # fails BY DEF Unhealthy
  <2> QED BY <2>1, OtherCallStutters DEF Next, Poll, PollBegins, PollEnds, Tick, vars
<1>2. /\ Status # "ok" /\ next = 0
      /\ fails + 1 = Retries
  BY <1>1 DEF Check, Unhealthy, OneMore, TypeOK
<1>3. CASE since # Never
  <2>1. Status = "polling_stale" BY <1>2, <1>3 DEF Status
  <2> QED BY <1>3, <2>1, StaleImplies DEF StaleMeansTwoFailures, TypeOK
<1>4. CASE since = Never
  <2> SUFFICES ASSUME failures = 0 PROVE SlowStart BY <1>4 DEF TypeOK
  <2> DEFINE spent == fails * Interval
  <2>1. spent \in Nat BY DEF TypeOK
  <2>2. spent + Interval = Retries * Interval BY <1>2 DEF TypeOK
  <2>3. spent + Interval - next + left <= startup + PollTimeout
    <3>1. spent + Interval - next + left
            <= startup + (IF phase = "poll" THEN PollTimeout ELSE 0)
      BY <1>4 DEF Starting
    <3> HIDE DEF spent
    <3> QED BY <2>1, <3>1 DEF TypeOK
  <2>4. Retries * Interval \in Nat OBVIOUS
  <2> HIDE DEF spent
  <2> QED BY <1>2, <2>1, <2>2, <2>3, <2>4 DEF TypeOK, SlowStart
<1> QED BY <1>3, <1>4

(* The container turns unhealthy before a first success only if a poll has  *)
(* failed or the start, which nothing bounds, has left the first poll no    *)
(* time before the last check, and after it only if two polls have failed.  *)
THEOREM UnhealthyIsTrouble == Spec => UnhealthyMeansTrouble
<1>1. IInv /\ [Next]_vars
        => [~Unhealthy /\ Unhealthy' =>
              IF since = Never THEN failures >= 1 \/ SlowStart ELSE failures = 2]_vars
  BY UnhealthyStep
<1> QED BY <1>1, Invariance, PTL DEF Spec, UnhealthyMeansTrouble
=============================================================================
