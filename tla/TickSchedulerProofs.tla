------------------------- MODULE TickSchedulerProofs -------------------------
(***************************************************************************)
(* What TickScheduler promises, proved for every clock width, every bound  *)
(* and every set of delays and intervals.                                  *)
(***************************************************************************)
EXTENDS TickScheduler, TLAPS

LEMMA PlusType ==
    ASSUME NEW now \in Nat, NEW delay \in Nat
    PROVE  Plus(now, delay) \in Nat
BY BoundsAssumption DEF Plus

LEMMA ToGameTickType ==
    ASSUME NEW d \in Delays
    PROVE  ToGameTick(d) \in Nat
BY BoundsAssumption, InputAssumption DEF ToGameTick

LEMMA ScriptIntervalType ==
    ASSUME NEW d \in Delays
    PROVE  ScriptInterval(d) \in Nat
BY ToGameTickType, InputAssumption DEF ScriptInterval

----------------------------------------------------------------------------

LEMMA TypeInit == Init => TypeOK
BY BoundsAssumption DEF Init, TypeOK, Phase, NoToken, Begin

LEMMA TypeStep == TypeOK /\ [Next]_vars => TypeOK'
<1> SUFFICES ASSUME TypeOK, [Next]_vars
             PROVE  TypeOK'
  OBVIOUS
<1>0. ticks \in Nat
  BY BoundsAssumption DEF TypeOK
<1> USE BoundsAssumption DEF TypeOK, Phase
<1>1. CASE Tick
  BY <1>1 DEF Tick, Begin, NoToken
<1>2. ASSUME NEW e \in timeouts, CallTimeout(e) PROVE TypeOK'
  BY <1>2 DEF CallTimeout, OneShotEvent
<1>3. CASE TimeoutReturn
  BY <1>3 DEF TimeoutReturn
<1>4. CASE EndTimeouts
  BY <1>4 DEF EndTimeouts
<1>5. ASSUME NEW e \in intervals, CallInterval(e) PROVE TypeOK'
  BY <1>5 DEF CallInterval, IntervalEvent
<1>6. CASE IntervalReturn
  <2>1. ASSUME NEW e \in intervals PROVE Rearmed(e) \in IntervalEvent
    <3>1. Plus(ticks, e.interval) \in Nat
      BY <1>0, PlusType DEF IntervalEvent
    <3> QED
      BY <3>1 DEF Rearmed, IntervalEvent
  <2>2. intervals' \subseteq IntervalEvent
    BY <1>6, <2>1 DEF IntervalReturn
  <2> QED
    BY <1>6, <2>2 DEF IntervalReturn
<1>7. CASE EndIntervals
  BY <1>7 DEF EndIntervals
<1>8. ASSUME NEW d \in Nat, SetTimeOut(d) PROVE TypeOK'
  <2>1. Plus(ticks, d) \in Nat
    BY <1>0, PlusType
  <2> QED
    BY <1>8, <2>1 DEF SetTimeOut, OneShotEvent
<1>9. ASSUME NEW i \in Nat, SetInterval(i) PROVE TypeOK'
  <2>1. Plus(ticks, i) \in Nat
    BY <1>0, PlusType
  <2> QED
    BY <1>9, <2>1 DEF SetInterval, IntervalEvent
<1>10. ASSUME NEW t \in Nat, ClearTimeOut(t) PROVE TypeOK'
  BY <1>10 DEF ClearTimeOut
<1>11. ASSUME NEW t \in Nat, ClearInterval(t) PROVE TypeOK'
  BY <1>11 DEF ClearInterval
<1>12. ASSUME NEW d \in Nat, Continue(d) PROVE TypeOK'
  <2>1. Plus(ticks, d) \in Nat
    BY <1>0, PlusType
  <2>2. running \in Nat /\ running - 1 \in Nat \cup {NoToken}
    BY <1>12 DEF Continue, Tokens, OneShotEvent, NoToken
  <2> QED
    BY <1>12, <2>1, <2>2 DEF Continue, OneShotEvent
<1>13. CASE UNCHANGED vars
  BY <1>13 DEF vars
<1> QED
  BY <1>1, <1>2, <1>3, <1>4, <1>5, <1>6, <1>7, <1>8, <1>9, <1>10, <1>11, <1>12, <1>13,
     ToGameTickType, ScriptIntervalType, InputAssumption DEF Next, Hook

\* The state has its types in every reachable state.
THEOREM TypeCorrect == Spec => []TypeOK
BY TypeInit, TypeStep, PTL DEF Spec

----------------------------------------------------------------------------

(***************************************************************************)
(* Why timeouts run on time: what the loop over them preserves.            *)
(***************************************************************************)

\* Tokens name timers; they are older than the counter that hands them out.
TimeoutTokens ==
    /\ \A e, f \in timeouts : e.token = f.token => e = f
    /\ \A e \in timeouts : e.token < maxTimeout /\ e.since <= ticks

\* The handler that runs is the one of the entry at the iterator.
AtIterator ==
    /\ phase \notin {"timeouts", "intervals"} => running = NoToken
    /\ phase = "timeouts" =>
          /\ last.next <= ticks
          /\ running # NoToken => last.token = running /\ running < maxTimeout
          /\ \A e \in timeouts : e.token = running => e.next = last.next

\* Outside the pass over the timeouts, what is due has been armed in this tick.
NothingLeftBehind ==
    phase \in {"between", "intervals"} =>
        \A e \in timeouts : e.next <= ticks => e.since = ticks

\* Within the pass, what is due is still ahead of the iterator, unless it was
\* armed in this pass with a negative delay; and nothing is late.
DueAhead ==
    phase = "timeouts" =>
        \A e \in timeouts :
            /\ e.next <= ticks /\ (e.since < ticks \/ e.next = ticks) =>
                   Before(last, e) \/ e.token = running
            /\ e.next < ticks /\ e.since < ticks =>
                   e.since = ticks - 1 /\ e.next <= e.since

TimeoutInv ==
    /\ TypeOK
    /\ TimeoutTokens
    /\ AtIterator
    /\ NothingLeftBehind
    /\ DueAhead

LEMMA TimeoutInvInit == Init => TimeoutInv
BY BoundsAssumption
   DEF Init, TimeoutInv, TypeOK, Phase, NoToken, Begin, TimeoutTokens, AtIterator,
       NothingLeftBehind, DueAhead

LEMMA TimeoutInvStep == TimeoutInv /\ TypeOK' /\ [Next]_vars => TimeoutInv'
<1> SUFFICES ASSUME TimeoutInv, TypeOK', [Next]_vars
             PROVE  TimeoutInv'
  OBVIOUS
<1> USE BoundsAssumption DEF TimeoutInv, TypeOK, NoToken
<1>0. ticks \in Nat
  OBVIOUS
<1>1. CASE Tick
  BY <1>0, <1>1
     DEF Tick, TimeoutTokens, AtIterator, NothingLeftBehind, DueAhead, Begin, Before, OneShotEvent
<1>2. ASSUME NEW e \in timeouts, CallTimeout(e) PROVE TimeoutInv'
  BY <1>0, <1>2
     DEF CallTimeout, IsCurrent, TimeoutTokens, AtIterator, NothingLeftBehind, DueAhead, Before,
         OneShotEvent
<1>3. CASE TimeoutReturn
  BY <1>0, <1>3
     DEF TimeoutReturn, Tokens, TimeoutTokens, AtIterator, NothingLeftBehind, DueAhead, Before,
         OneShotEvent
<1>4. CASE EndTimeouts
  BY <1>0, <1>4
     DEF EndTimeouts, TimeoutTokens, AtIterator, NothingLeftBehind, DueAhead, OneShotEvent
<1>5. ASSUME NEW e \in intervals, CallInterval(e) PROVE TimeoutInv'
  BY <1>5 DEF CallInterval, TimeoutTokens, AtIterator, NothingLeftBehind, DueAhead
<1>6. CASE IntervalReturn
  BY <1>6 DEF IntervalReturn, TimeoutTokens, AtIterator, NothingLeftBehind, DueAhead
<1>7. CASE EndIntervals
  BY <1>7 DEF EndIntervals, TimeoutTokens, AtIterator, NothingLeftBehind, DueAhead
<1>8. ASSUME NEW d \in Nat, SetTimeOut(d) PROVE TimeoutInv'
  <2>1. Plus(ticks, d) \in Nat
    BY <1>0, PlusType
  <2> QED
    BY <1>0, <1>8, <2>1
       DEF SetTimeOut, Callable, TimeoutTokens, AtIterator, NothingLeftBehind, DueAhead, Before,
           OneShotEvent
<1>9. ASSUME NEW i \in Nat, SetInterval(i) PROVE TimeoutInv'
  BY <1>9 DEF SetInterval, TimeoutTokens, AtIterator, NothingLeftBehind, DueAhead, Before
<1>10. ASSUME NEW t \in Nat, ClearTimeOut(t) PROVE TimeoutInv'
  BY <1>10 DEF ClearTimeOut, TimeoutTokens, AtIterator, NothingLeftBehind, DueAhead, Before
<1>11. ASSUME NEW t \in Nat, ClearInterval(t) PROVE TimeoutInv'
  BY <1>11 DEF ClearInterval, TimeoutTokens, AtIterator, NothingLeftBehind, DueAhead, Before
<1>12. ASSUME NEW d \in Nat, Continue(d) PROVE TimeoutInv'
  <2>1. Plus(ticks, d) \in Nat
    BY <1>0, PlusType
  <2>2. running \in Nat
    BY <1>12 DEF Continue, Tokens, OneShotEvent
  <2> QED
    BY <1>0, <1>12, <2>1, <2>2
       DEF Continue, TimeoutTokens, AtIterator, NothingLeftBehind, DueAhead, Before,
           OneShotEvent
<1>13. CASE UNCHANGED vars
  BY <1>13 DEF vars, TimeoutTokens, AtIterator, NothingLeftBehind, DueAhead, Before
<1> QED
  BY <1>1, <1>2, <1>3, <1>4, <1>5, <1>6, <1>7, <1>8, <1>9, <1>10, <1>11, <1>12, <1>13,
     ToGameTickType, ScriptIntervalType, InputAssumption DEF Next, Hook

LEMMA OnTime == TimeoutInv => RunsOnTime
BY BoundsAssumption
   DEF TimeoutInv, TypeOK, TimeoutTokens, AtIterator, DueAhead, RunsOnTime, DueTick,
       OneShotEvent, Before

(***************************************************************************)
(* A timeout's handler runs in the tick the timer is for, for every clock  *)
(* width and every sequence of arms, clears and handlers.                  *)
(***************************************************************************)
THEOREM TimeoutsRunOnTime == Spec => []RunsOnTime
BY TimeoutInvInit, TimeoutInvStep, OnTime, TypeCorrect, PTL DEF Spec

(***************************************************************************)
(* The pass over the timeouts misses nothing.                              *)
(***************************************************************************)
THEOREM PassIsComplete == Spec => PassComplete
<1>1. TimeoutInv /\ [Next]_vars
        => [phase = "timeouts" /\ phase' = "intervals" =>
              \A e \in timeouts : e.next <= ticks => e.since = ticks /\ e.next < ticks]_vars
  <2> SUFFICES ASSUME TimeoutInv, [Next]_vars, phase = "timeouts", phase' = "intervals",
                      NEW e \in timeouts, e.next <= ticks
               PROVE  e.since = ticks /\ e.next < ticks
    OBVIOUS
  <2>1. EndTimeouts
    BY DEF Next, Hook, vars, Tick, CallTimeout, TimeoutReturn, CallInterval, IntervalReturn,
           EndIntervals, SetTimeOut, SetInterval, ClearTimeOut, ClearInterval, Continue
  <2>2. ~Before(last, e) /\ e.token # running
    BY <2>1, BoundsAssumption
       DEF EndTimeouts, TimeoutInv, TypeOK, OneShotEvent, NoToken
  <2> QED
    BY <2>2, BoundsAssumption
       DEF TimeoutInv, TypeOK, DueAhead, TimeoutTokens, OneShotEvent
<1> QED
  BY TimeoutInvInit, TimeoutInvStep, <1>1, TypeCorrect, PTL DEF Spec, PassComplete

----------------------------------------------------------------------------

(***************************************************************************)
(* Why intervals run on time.                                              *)
(***************************************************************************)
IntervalInv ==
    /\ TypeOK
    /\ \A e, f \in intervals : e.token = f.token => e = f
    /\ \A e \in intervals : e.token < maxInterval
    /\ phase = "intervals" /\ running # NoToken => running < maxInterval
    /\ \A e \in intervals :
          Positive(e) =>
              /\ phase = "between" => e.next > ticks
              /\ phase \in {"timeouts", "intervals"} => e.next >= ticks
    /\ IntervalOnTime

LEMMA IntervalInvInit == Init => IntervalInv
BY BoundsAssumption
   DEF Init, IntervalInv, TypeOK, Phase, NoToken, Begin, IntervalOnTime

LEMMA IntervalInvStep == IntervalInv /\ TypeOK' /\ [Next]_vars => IntervalInv'
<1> SUFFICES ASSUME IntervalInv, TypeOK', [Next]_vars
             PROVE  IntervalInv'
  OBVIOUS
<1> USE BoundsAssumption DEF IntervalInv, TypeOK, NoToken, Positive, IntervalOnTime
<1>0. ticks \in Nat
  OBVIOUS
<1>1. CASE Tick
  BY <1>0, <1>1 DEF Tick, IntervalEvent
<1>2. ASSUME NEW e \in timeouts, CallTimeout(e) PROVE IntervalInv'
  BY <1>2 DEF CallTimeout
<1>3. CASE TimeoutReturn
  BY <1>3 DEF TimeoutReturn
<1>4. CASE EndTimeouts
  BY <1>4 DEF EndTimeouts, IntervalEvent
<1>5. ASSUME NEW e \in intervals, CallInterval(e) PROVE IntervalInv'
  BY <1>0, <1>5 DEF CallInterval, IntervalEvent
<1>6. CASE IntervalReturn
  BY <1>0, <1>6 DEF IntervalReturn, Tokens, Rearmed, Plus, IntervalEvent
<1>7. CASE EndIntervals
  BY <1>0, <1>7 DEF EndIntervals, IntervalEvent
<1>8. ASSUME NEW d \in Nat, SetTimeOut(d) PROVE IntervalInv'
  BY <1>8 DEF SetTimeOut
<1>9. ASSUME NEW i \in Nat, SetInterval(i) PROVE IntervalInv'
  BY <1>0, <1>9 DEF SetInterval, Callable, Plus, IntervalEvent
<1>10. ASSUME NEW t \in Nat, ClearTimeOut(t) PROVE IntervalInv'
  BY <1>10 DEF ClearTimeOut
<1>11. ASSUME NEW t \in Nat, ClearInterval(t) PROVE IntervalInv'
  BY <1>11 DEF ClearInterval
<1>12. ASSUME NEW d, Continue(d) PROVE IntervalInv'
  BY <1>12 DEF Continue
<1>13. CASE UNCHANGED vars
  BY <1>13 DEF vars
<1> QED
  BY <1>1, <1>2, <1>3, <1>4, <1>5, <1>6, <1>7, <1>8, <1>9, <1>10, <1>11, <1>12, <1>13,
     ToGameTickType, ScriptIntervalType, InputAssumption DEF Next, Hook

(***************************************************************************)
(* An interval's handler runs exactly when the interval is over.           *)
(***************************************************************************)
THEOREM IntervalsRunOnTime == Spec => []IntervalOnTime
<1>1. IntervalInv => IntervalOnTime
  BY DEF IntervalInv
<1> QED
  BY IntervalInvInit, IntervalInvStep, <1>1, TypeCorrect, PTL DEF Spec

(***************************************************************************)
(* A timer that fired or was cleared never comes back.                     *)
(***************************************************************************)
THEOREM TimersStayGone == Spec => NoResurrection
<1> DEFINE Gone ==
      /\ \A t \in 0..(maxTimeout - 1) :
            t \notin Tokens(timeouts) => t \notin Tokens(timeouts')
      /\ \A t \in 0..(maxInterval - 1) :
            t \notin Tokens(intervals) => t \notin Tokens(intervals')
<1>1. TypeOK /\ [Next]_vars => [Gone]_vars
  <2> SUFFICES ASSUME TypeOK, [Next]_vars PROVE Gone \/ UNCHANGED vars
    OBVIOUS
  <2> USE BoundsAssumption DEF TypeOK, Tokens
  <2>1. CASE Tick
    BY <2>1 DEF Tick
  <2>2. CASE Hook
    BY <2>2 DEF Hook, CallTimeout, TimeoutReturn, EndTimeouts, CallInterval, IntervalReturn,
                EndIntervals, Rearmed
  <2>3. ASSUME NEW d, SetTimeOut(d) PROVE Gone
    BY <2>3 DEF SetTimeOut
  <2>4. ASSUME NEW i, SetInterval(i) PROVE Gone
    BY <2>4 DEF SetInterval
  <2>5. ASSUME NEW t, ClearTimeOut(t) \/ ClearInterval(t) PROVE Gone
    BY <2>5 DEF ClearTimeOut, ClearInterval
  <2>6. ASSUME NEW d, Continue(d) PROVE Gone
    BY <2>6 DEF Continue
  <2> QED
    BY <2>1, <2>2, <2>3, <2>4, <2>5, <2>6 DEF Next
<1> QED
  BY <1>1, TypeCorrect, PTL DEF Spec, NoResurrection

----------------------------------------------------------------------------

(***************************************************************************)
(* Why iterators stay valid: the entry at the iterator is in the container.*)
(***************************************************************************)
IteratorInv ==
    /\ phase \notin {"timeouts", "intervals"} => running = NoToken
    /\ ~SelfClear =>
          /\ phase # "undefined"
          /\ phase = "timeouts" /\ running # NoToken => running \in Tokens(timeouts)
          /\ phase = "intervals" /\ running # NoToken => running \in Tokens(intervals)

(***************************************************************************)
(* No iterator of the two loops is invalidated by handlers that leave the  *)
(* timer they were called for alone.                                       *)
(***************************************************************************)
THEOREM IteratorsStayValid == Spec => []IteratorsValid
<1>1. Init => IteratorInv
  BY DEF Init, IteratorInv
<1>2. TypeOK /\ IteratorInv /\ [Next]_vars => IteratorInv'
  <2> SUFFICES ASSUME TypeOK, IteratorInv, [Next]_vars PROVE IteratorInv'
    OBVIOUS
  <2> USE DEF IteratorInv, Tokens
  <2>1. CASE Tick
    BY <2>1 DEF Tick
  <2>2. CASE Hook
    BY <2>2 DEF Hook, CallTimeout, TimeoutReturn, EndTimeouts, CallInterval, IntervalReturn,
                EndIntervals, Rearmed
  <2>3. ASSUME NEW d, SetTimeOut(d) PROVE IteratorInv'
    BY <2>3 DEF SetTimeOut
  <2>4. ASSUME NEW i, SetInterval(i) PROVE IteratorInv'
    BY <2>4 DEF SetInterval
  <2>5. ASSUME NEW t, ClearTimeOut(t) PROVE IteratorInv'
    BY <2>5 DEF ClearTimeOut
  <2>6. ASSUME NEW t, ClearInterval(t) PROVE IteratorInv'
    BY <2>6 DEF ClearInterval
  <2>7. ASSUME NEW d, Continue(d) PROVE IteratorInv'
    BY <2>7 DEF Continue
  <2>8. CASE UNCHANGED vars
    BY <2>8 DEF vars
  <2> QED
    BY <2>1, <2>2, <2>3, <2>4, <2>5, <2>6, <2>7, <2>8 DEF Next
<1>3. IteratorInv => IteratorsValid
  BY DEF IteratorInv, IteratorsValid
<1> QED
  BY <1>1, <1>2, <1>3, TypeCorrect, PTL DEF Spec
=============================================================================
