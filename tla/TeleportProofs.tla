--------------------------- MODULE TeleportProofs ---------------------------
(***************************************************************************)
(* What teleport requests promise, proved for every set of players, every  *)
(* timeout and every clock width.                                          *)
(***************************************************************************)
EXTENDS Teleport, TLAPS

----------------------------------------------------------------------------

\* Tokens are older than the counter that hands them out.
TokensKnown ==
    /\ maxTimeout \in Nat
    /\ running = Timers!NoToken \/ running \in 0..(maxTimeout - 1)
    /\ \A e \in timeouts : e.token \in 0..(maxTimeout - 1)
    /\ tpaTokens \subseteq 0..(maxTimeout - 1)

\* The timer of a pending request is a request's timer, and not the one that is run.
RequestTokens ==
    \A r \in requests : r.token \in tpaTokens /\ r.token # running

\* The loop's iterator stands at the timer whose handler runs.
IteratorInv ==
    /\ phase # "undefined"
    /\ running # Timers!NoToken => phase = "timeouts" /\ running \in Timers!Tokens(timeouts)

RequestInv ==
    /\ TokensKnown
    /\ RequestTokens
    /\ Exclusive
    /\ NoDanglingPlayer
    /\ PendingIffArmed

LEMMA RequestInvInit == Init => RequestInv
BY DEF Init, Timers!Init, Timers!NoToken, Timers!Tokens, RequestInv, TokensKnown, RequestTokens,
       Exclusive, NoDanglingPlayer, PendingIffArmed

LEMMA RequestInvStep == RequestInv /\ [Next]_vars => RequestInv'
<1> SUFFICES ASSUME RequestInv, [Next]_vars PROVE RequestInv'
  OBVIOUS
<1> USE DEF RequestInv, TokensKnown, RequestTokens, Exclusive, NoDanglingPlayer, PendingIffArmed,
            Timers!Tokens, Timers!NoToken, timerVars
<1>1. ASSUME NEW s \in Players, NEW t \in Players, Request(s, t) PROVE RequestInv'
  <2> DEFINE token == maxTimeout
  <2>1. /\ requests' = requests \cup {[source |-> s, target |-> t, token |-> token]}
        /\ tpaTokens' = tpaTokens \cup {token}
        /\ maxTimeout' = maxTimeout + 1
        /\ s \in online /\ t \in online /\ UNCHANGED <<running, online>>
        /\ \A r \in requests : r.source # s /\ r.target # t
    BY <1>1 DEF Request, Timers!SetTimeOut
  <2>2. PICK e : e.token = token /\ timeouts' = timeouts \cup {e}
    BY <1>1 DEF Request, Timers!SetTimeOut
  <2>3. token # running /\ token \notin tpaTokens
    OBVIOUS
  <2>4. TokensKnown' /\ RequestTokens' /\ Exclusive' /\ NoDanglingPlayer'
    <3>1. TokensKnown'
      BY <2>1, <2>2
    <3>2. RequestTokens'
      BY <2>1, <2>3
    <3>3. Exclusive'
      BY <2>1, <2>3
    <3>4. NoDanglingPlayer'
      BY <2>1
    <3> QED
      BY <3>1, <3>2, <3>3, <3>4
  <2>5. {r.token : r \in requests'} = {r.token : r \in requests} \cup {token}
    <3>1. PICK new : new.token = token /\ requests' = requests \cup {new}
      BY <2>1
    <3> QED
      BY ONLY <3>1
  <2>6. {f.token : f \in timeouts'} = {f.token : f \in timeouts} \cup {token}
    BY <2>2
  <2>7. PendingIffArmed'
    BY <2>1, <2>3, <2>5, <2>6
  <2> QED
    BY <2>4, <2>7
<1>2. ASSUME NEW p \in Players, Answer(p) PROVE RequestInv'
  BY <1>2 DEF Answer, Timers!ClearTimeOut
<1>3. ASSUME NEW p \in Players, Join(p) PROVE RequestInv'
  BY <1>3 DEF Join
<1>4. ASSUME NEW p \in Players, Left(p) PROVE RequestInv'
  <2> DEFINE gone == {r \in requests : r.source = p \/ r.target = p}
  <2>1. /\ requests' = requests \ gone
        /\ timeouts' = {e \in timeouts : \A r \in gone : e.token # r.token}
        /\ online' = online \ {p}
        /\ UNCHANGED <<running, maxTimeout, tpaTokens>>
    BY <1>4 DEF Left
  <2>2. TokensKnown' /\ RequestTokens' /\ Exclusive' /\ NoDanglingPlayer'
    BY <2>1
  <2>3. \A r \in requests, q \in gone : r.token = q.token => r \in gone
    OBVIOUS
  <2>4. PendingIffArmed'
    BY <2>1, <2>3
  <2> QED
    BY <2>2, <2>4
<1>5. ASSUME NEW e \in timeouts, CallTimeout(e) PROVE RequestInv'
  BY <1>5 DEF CallTimeout, Expire, Timers!CallTimeout, Timers!IsCurrent
<1>6. CASE Hook
  BY <1>6 DEF Hook, Timers!Tick, Timers!TimeoutReturn, Timers!EndTimeouts, Timers!EndIntervals
<1>7. CASE OtherTimer
  BY <1>7 DEF OtherTimer, Timers!SetTimeOut, Timers!ClearTimeOut
<1>8. CASE UNCHANGED vars
  BY <1>8 DEF vars
<1> QED
  BY <1>1, <1>2, <1>3, <1>4, <1>5, <1>6, <1>7, <1>8 DEF Next, Accept, Deny

(***************************************************************************)
(* A request is only ever about players whose objects exist.               *)
(***************************************************************************)
THEOREM RequestsAreAboutPlayers == Spec => []NoDanglingPlayer
<1>1. RequestInv => NoDanglingPlayer
  BY DEF RequestInv
<1> QED
  BY <1>1, RequestInvInit, RequestInvStep, PTL DEF Spec

(***************************************************************************)
(* A request is pending exactly as long as its timer.                      *)
(***************************************************************************)
THEOREM RequestsHaveTimers == Spec => []PendingIffArmed
<1>1. RequestInv => PendingIffArmed
  BY DEF RequestInv
<1> QED
  BY <1>1, RequestInvInit, RequestInvStep, PTL DEF Spec

(***************************************************************************)
(* No two pending requests share a source, a target or a timer.            *)
(***************************************************************************)
THEOREM RequestsAreExclusive == Spec => []Exclusive
<1>1. RequestInv => Exclusive
  BY DEF RequestInv
<1> QED
  BY <1>1, RequestInvInit, RequestInvStep, PTL DEF Spec

LEMMA IteratorInvStep == RequestInv /\ IteratorInv /\ [Next]_vars => IteratorInv'
<1> SUFFICES ASSUME RequestInv, IteratorInv, [Next]_vars PROVE IteratorInv'
  OBVIOUS
<1> USE DEF IteratorInv, Timers!Tokens, Timers!NoToken, timerVars
<1>1. ASSUME NEW s \in Players, NEW t \in Players, Request(s, t) PROVE IteratorInv'
  BY <1>1 DEF Request, Timers!SetTimeOut
<1>2. ASSUME NEW p \in Players, Answer(p) PROVE IteratorInv'
  BY <1>2 DEF Answer, Timers!ClearTimeOut
<1>3. ASSUME NEW p \in Players, Join(p) PROVE IteratorInv'
  BY <1>3 DEF Join
<1>4. ASSUME NEW p \in Players, Left(p) PROVE IteratorInv'
  BY <1>4 DEF Left, RequestInv, RequestTokens
<1>5. ASSUME NEW e \in timeouts, CallTimeout(e) PROVE IteratorInv'
  BY <1>5 DEF CallTimeout, Timers!CallTimeout
<1>6. CASE Hook
  BY <1>6 DEF Hook, Timers!Tick, Timers!TimeoutReturn, Timers!EndTimeouts, Timers!EndIntervals
<1>7. CASE OtherTimer
  BY <1>7 DEF OtherTimer, Timers!SetTimeOut, Timers!ClearTimeOut
<1>8. CASE UNCHANGED vars
  BY <1>8 DEF vars
<1> QED
  BY <1>1, <1>2, <1>3, <1>4, <1>5, <1>6, <1>7, <1>8 DEF Next, Accept, Deny

(***************************************************************************)
(* No request ever invalidates the iterator of the loop over the timers.   *)
(***************************************************************************)
THEOREM RequestsKeepTimersValid == Spec => []TimersValid
<1>1. Init => IteratorInv
  BY DEF Init, Timers!Init, IteratorInv, Timers!NoToken
<1>2. IteratorInv => TimersValid
  BY DEF IteratorInv, TimersValid
<1> QED
  BY <1>1, <1>2, RequestInvInit, RequestInvStep, IteratorInvStep, PTL DEF Spec

----------------------------------------------------------------------------

(***************************************************************************)
(* Teleport implements TickScheduler: every step of it is one step of the  *)
(* timers, or none, or, when a player leaves, two calls of ClearTimeOut in *)
(* a row.  What TickSchedulerProofs shows of the loops then holds of the   *)
(* timers of requests.                                                     *)
(***************************************************************************)
Loops == INSTANCE TickSchedulerProofs WITH
    MaxIntervals <- 0, Delays <- OtherDelays \cup {Timeout}, NativeIntervals <- {},
    SelfClear <- FALSE

TimerTokens == 0..(MaxTimeouts - 1)

\* ClearTimeOut(t), then ClearTimeOut(u).
ClearBoth(t, u) ==
    /\ Loops!Callable
    /\ phase = "timeouts" => running \notin {t, u}
    /\ timeouts' = {e \in timeouts : e.token \notin {t, u}}
    /\ UNCHANGED <<ticks, phase, running, last, intervals, maxTimeout, maxInterval>>

TimerStep == Loops!Next \/ \E t, u \in TimerTokens : ClearBoth(t, u)

LEMMA TimerInit == Init => Loops!Init
BY DEF Init, Timers!Init, Loops!Init, Timers!NoToken, Loops!NoToken, Timers!Begin, Loops!Begin

LEMMA TokensAreTimers ==
  ASSUME RequestInv, maxTimeout <= MaxTimeouts
  PROVE  \A r \in requests : r.token \in TimerTokens /\ r.token # running
<1>1. /\ \A r \in requests : r.token \in tpaTokens /\ r.token # running
      /\ tpaTokens \subseteq 0..(maxTimeout - 1) /\ maxTimeout \in Nat
  BY DEF RequestInv, RequestTokens, TokensKnown
<1>2. 0..(maxTimeout - 1) \subseteq TimerTokens
  BY <1>1, TimersAssumption DEF TimerTokens
<1> QED  BY <1>1, <1>2

LEMMA LeftClearsTwo ==
  ASSUME RequestInv, maxTimeout <= MaxTimeouts, NEW p \in Players, Left(p)
  PROVE  [TimerStep]_timerVars
<1> DEFINE gone == {r \in requests : r.source = p \/ r.target = p}
<1>1. /\ timeouts' = {e \in timeouts : \A r \in gone : e.token # r.token}
      /\ Timers!Callable
      /\ UNCHANGED <<ticks, phase, running, last, intervals, maxTimeout, maxInterval>>
  BY DEF Left, Callable
<1>2. \A r \in gone : r.token \in TimerTokens /\ r.token # running
  BY TokensAreTimers
<1>3. \A q, r \in gone : q.source = r.source \/ q.target = r.target => q = r
  BY DEF RequestInv, Exclusive
<1>4. CASE gone = {}
  BY <1>1, <1>4 DEF timerVars
<1>5. CASE gone # {}
  <2>1. PICK q, r \in gone : gone = {q, r}
    <3>1. CASE \A g \in gone : g.source = p
      BY <1>3, <1>5, <3>1
    <3>2. CASE \A g \in gone : g.target = p
      BY <1>3, <1>5, <3>2
    <3>3. CASE \E g, h \in gone : g.source # p /\ h.target # p
      BY <1>3, <3>3
    <3> QED  BY <3>1, <3>2, <3>3
  <2>2. timeouts' = {e \in timeouts : e.token \notin {q.token, r.token}}
    BY <1>1, <2>1
  <2>3. ClearBoth(q.token, r.token)
    BY <1>1, <1>2, <2>2 DEF ClearBoth, Timers!Callable, Loops!Callable, Timers!NoToken, Loops!NoToken
  <2> QED  BY <1>2, <2>3 DEF TimerStep
<1> QED  BY <1>4, <1>5

LEMMA TimerSteps ==
  ASSUME RequestInv, maxTimeout <= MaxTimeouts, [Next]_vars
  PROVE  [TimerStep]_timerVars
<1> USE DEF Timers!Callable, Loops!Callable, Timers!NoToken, Loops!NoToken
<1>1. ASSUME NEW d \in OtherDelays \cup {Timeout}, Timers!SetTimeOut(Timers!ToGameTick(d))
      PROVE  Loops!Next
  <2>1. Loops!SetTimeOut(Loops!ToGameTick(d))
    BY <1>1 DEF Timers!SetTimeOut, Loops!SetTimeOut, Timers!ToGameTick, Loops!ToGameTick,
                Timers!Plus, Loops!Plus
  <2> QED  BY <2>1 DEF Loops!Next
<1>2. ASSUME NEW t \in TimerTokens, Timers!ClearTimeOut(t) PROVE Loops!Next
  <2>1. Loops!ClearTimeOut(t)
    BY <1>2 DEF Timers!ClearTimeOut, Loops!ClearTimeOut
  <2> QED  BY <2>1 DEF Loops!Next, TimerTokens
<1>3. \A r \in requests : r.token \in TimerTokens
  BY TokensAreTimers
<1>4. ASSUME NEW s \in Players, NEW t \in Players, Request(s, t) PROVE Loops!Next
  BY <1>1, <1>4 DEF Request
<1>5. ASSUME NEW p \in Players, Answer(p) PROVE Loops!Next
  BY <1>2, <1>3, <1>5 DEF Answer
<1>6. ASSUME NEW p \in Players, Join(p) PROVE UNCHANGED timerVars
  BY <1>6 DEF Join
<1>7. ASSUME NEW p \in Players, Left(p) PROVE [TimerStep]_timerVars
  BY <1>7, LeftClearsTwo
<1>8. ASSUME NEW e \in timeouts, CallTimeout(e) PROVE Loops!Next
  <2>1. Loops!CallTimeout(e)
    BY <1>8 DEF CallTimeout, Timers!CallTimeout, Loops!CallTimeout, Timers!IsCurrent,
                Loops!IsCurrent, Timers!Before, Loops!Before
  <2> QED  BY <2>1 DEF Loops!Next, Loops!Hook
<1>9. ASSUME Hook PROVE Loops!Next
  <2>1. CASE Timers!Tick
    BY <2>1 DEF Timers!Tick, Loops!Tick, Timers!Begin, Loops!Begin, Loops!Next
  <2>2. CASE Timers!TimeoutReturn
    BY <2>2 DEF Timers!TimeoutReturn, Loops!TimeoutReturn, Timers!Tokens, Loops!Tokens,
                Loops!Next, Loops!Hook
  <2>3. CASE Timers!EndTimeouts
    BY <2>3 DEF Timers!EndTimeouts, Loops!EndTimeouts, Timers!Before, Loops!Before,
                Loops!Next, Loops!Hook
  <2>4. CASE Timers!EndIntervals
    BY <2>4 DEF Timers!EndIntervals, Loops!EndIntervals, Loops!Next, Loops!Hook
  <2> QED  BY <1>9, <2>1, <2>2, <2>3, <2>4 DEF Hook
<1>10. ASSUME OtherTimer PROVE Loops!Next
  BY <1>1, <1>2, <1>10 DEF OtherTimer, TimerTokens
<1>11. ASSUME UNCHANGED vars PROVE UNCHANGED timerVars
  BY <1>11 DEF vars
<1> QED
  BY <1>4, <1>5, <1>6, <1>7, <1>8, <1>9, <1>10, <1>11 DEF Next, Accept, Deny, TimerStep

----------------------------------------------------------------------------

\* The loops' invariant survives the two calls of onPlayerLeft as it survives each.
LEMMA LoopsStep == Loops!TimeoutInv /\ [TimerStep]_timerVars => Loops!TimeoutInv'
<1> SUFFICES ASSUME Loops!TimeoutInv, [TimerStep]_timerVars PROVE Loops!TimeoutInv'
  OBVIOUS
<1>0. Loops!TypeOK
  BY DEF Loops!TimeoutInv
<1>1. CASE [Loops!Next]_timerVars
  <2>1. [Loops!Next]_(Loops!vars)
    BY <1>1 DEF timerVars, Loops!vars
  <2>2. Loops!TypeOK'
    BY <1>0, <2>1, Loops!TypeStep, TimersAssumption
  <2> QED  BY <2>1, <2>2, Loops!TimeoutInvStep, TimersAssumption
<1>2. ASSUME NEW t \in TimerTokens, NEW u \in TimerTokens, ClearBoth(t, u)
      PROVE  Loops!TimeoutInv'
  <2>1. /\ timeouts' \subseteq timeouts
        /\ UNCHANGED <<ticks, phase, running, last, intervals, maxTimeout, maxInterval>>
    BY <1>2 DEF ClearBoth
  <2>2. Loops!TypeOK'
    BY <1>0, <2>1 DEF Loops!TypeOK
  <2>3. Loops!TimeoutTokens' /\ Loops!AtIterator'
    BY <2>1 DEF Loops!TimeoutInv, Loops!TimeoutTokens, Loops!AtIterator, Loops!NoToken
  <2>4. Loops!NothingLeftBehind' /\ Loops!DueAhead'
    BY <2>1 DEF Loops!TimeoutInv, Loops!NothingLeftBehind, Loops!DueAhead, Loops!Before
  <2> QED  BY <2>2, <2>3, <2>4 DEF Loops!TimeoutInv
<1> QED  BY <1>1, <1>2 DEF TimerStep

\* What a request's timer is armed for.
ArmedFor ==
    \A e \in timeouts :
        e.token \in tpaTokens => e.next = Loops!Plus(e.since, Loops!ToGameTick(Timeout))

LEMMA ArmedForStep == RequestInv /\ ArmedFor /\ [Next]_vars => ArmedFor'
<1> SUFFICES ASSUME RequestInv, ArmedFor, [Next]_vars PROVE ArmedFor'
  OBVIOUS
<1> USE DEF ArmedFor, timerVars
<1>0. /\ maxTimeout \in Nat /\ tpaTokens \subseteq 0..(maxTimeout - 1)
      /\ \A e \in timeouts : e.token \in 0..(maxTimeout - 1)
  BY DEF RequestInv, TokensKnown
<1>1. ASSUME NEW s \in Players, NEW t \in Players, Request(s, t) PROVE ArmedFor'
  <2>1. /\ tpaTokens' = tpaTokens \cup {maxTimeout}
        /\ timeouts' = timeouts \cup
              {[token |-> maxTimeout, next |-> Timers!Plus(ticks, Timers!ToGameTick(Timeout)),
                since |-> ticks]}
    BY <1>1 DEF Request, Timers!SetTimeOut
  <2>2. \A e \in timeouts : e.token # maxTimeout
    BY <1>0
  <2>3. Timers!Plus(ticks, Timers!ToGameTick(Timeout)) = Loops!Plus(ticks, Loops!ToGameTick(Timeout))
    BY DEF Timers!Plus, Loops!Plus, Timers!ToGameTick, Loops!ToGameTick
  <2> QED  BY <2>1, <2>2, <2>3
<1>2. ASSUME NEW p \in Players, Answer(p) PROVE ArmedFor'
  BY <1>2 DEF Answer, Timers!ClearTimeOut
<1>3. ASSUME NEW p \in Players, Join(p) PROVE ArmedFor'
  BY <1>3 DEF Join
<1>4. ASSUME NEW p \in Players, Left(p) PROVE ArmedFor'
  BY <1>4 DEF Left
<1>5. ASSUME NEW e \in timeouts, CallTimeout(e) PROVE ArmedFor'
  BY <1>5 DEF CallTimeout, Timers!CallTimeout
<1>6. CASE Hook
  BY <1>6 DEF Hook, Timers!Tick, Timers!TimeoutReturn, Timers!EndTimeouts, Timers!EndIntervals
<1>7. CASE OtherTimer
  <2>1. /\ tpaTokens' = tpaTokens
        /\ \A e \in timeouts' : e \in timeouts \/ e.token = maxTimeout
    BY <1>7 DEF OtherTimer, Timers!SetTimeOut, Timers!ClearTimeOut
  <2>2. maxTimeout \notin tpaTokens
    BY <1>0
  <2> QED  BY <2>1, <2>2
<1>8. CASE UNCHANGED vars
  BY <1>8 DEF vars
<1> QED
  BY <1>1, <1>2, <1>3, <1>4, <1>5, <1>6, <1>7, <1>8 DEF Next, Accept, Deny

ExpiryInv == RequestInv /\ Loops!TimeoutInv /\ ArmedFor

LEMMA ExpiryInvariant == Spec => []ExpiryInv
<1>1. Init => ExpiryInv
  <2> SUFFICES ASSUME Init PROVE ExpiryInv
    OBVIOUS
  <2>1. Loops!TimeoutInv
    BY TimerInit, Loops!TimeoutInvInit, TimersAssumption
  <2>2. ArmedFor
    BY DEF Init, Timers!Init, ArmedFor
  <2> QED  BY <2>1, <2>2, RequestInvInit DEF ExpiryInv
<1>2. ExpiryInv /\ [Next]_vars => ExpiryInv'
  <2> SUFFICES ASSUME ExpiryInv, [Next]_vars PROVE ExpiryInv'
    OBVIOUS
  <2>1. maxTimeout <= MaxTimeouts
    BY TimersAssumption DEF ExpiryInv, Loops!TimeoutInv, Loops!TypeOK
  <2>2. [TimerStep]_timerVars
    BY <2>1, TimerSteps DEF ExpiryInv
  <2> QED  BY <2>2, RequestInvStep, LoopsStep, ArmedForStep DEF ExpiryInv
<1> QED  BY <1>1, <1>2, PTL DEF Spec

(***************************************************************************)
(* Requests use the timers as TickScheduler allows: what they do to the    *)
(* containers of the scheduler is SetTimeOut, ClearTimeOut and the steps   *)
(* of the tick hook, nothing else.                                         *)
(***************************************************************************)
THEOREM RequestsUseTimers == Spec => Loops!Init /\ [][TimerStep]_timerVars
<1>1. ExpiryInv /\ [Next]_vars => [TimerStep]_timerVars
  <2> SUFFICES ASSUME ExpiryInv, [Next]_vars PROVE [TimerStep]_timerVars
    OBVIOUS
  <2>1. maxTimeout <= MaxTimeouts
    BY TimersAssumption DEF ExpiryInv, Loops!TimeoutInv, Loops!TypeOK
  <2> QED  BY <2>1, TimerSteps DEF ExpiryInv
<1> QED  BY <1>1, TimerInit, ExpiryInvariant, PTL DEF Spec

(***************************************************************************)
(* No request is timed out too early or too late: the handler that erases  *)
(* it is called exactly when the setting's number of ticks has passed.     *)
(***************************************************************************)
THEOREM RequestsExpireOnTime == Spec => ExpiresOnTime
<1> DEFINE Punctual ==
      \A r \in requests : r \notin requests' /\ running' = r.token =>
         \E e \in timeouts :
            /\ e.token = r.token
            /\ 0 < Timeout /\ MaxTick + Timeout < Modulus => ticks = e.since + Timeout
<1>1. ExpiryInv => Loops!RunsOnTime
  BY Loops!OnTime, TimersAssumption DEF ExpiryInv
<1>2. ExpiryInv /\ Loops!RunsOnTime' /\ [Next]_vars => [Punctual]_vars
  <2> SUFFICES ASSUME ExpiryInv, Loops!RunsOnTime', [Next]_vars,
                      NEW r \in requests, r \notin requests', running' = r.token
               PROVE  \E e \in timeouts :
                         /\ e.token = r.token
                         /\ 0 < Timeout /\ MaxTick + Timeout < Modulus
                               => ticks = e.since + Timeout
    OBVIOUS
  <2>1. r.token \in tpaTokens /\ r.token # running
    BY DEF ExpiryInv, RequestInv, RequestTokens
  <2>2. PICK e \in timeouts : CallTimeout(e)
    BY <2>1 DEF Next, Request, Accept, Deny, Answer, Join, Left, Hook, OtherTimer, vars, timerVars,
                Timers!SetTimeOut, Timers!ClearTimeOut
  <2>3. /\ e.token = r.token /\ running' = e.token /\ phase' = "timeouts"
        /\ timeouts' = timeouts /\ ticks' = ticks /\ e.next <= ticks
    BY <2>2 DEF CallTimeout, Timers!CallTimeout
  <2>4. e \in Loops!OneShotEvent /\ ticks \in 0..MaxTick /\ ticks \in Nat
    BY TimersAssumption DEF ExpiryInv, Loops!TimeoutInv, Loops!TypeOK
  <2>5. e.since <= ticks
    BY DEF ExpiryInv, Loops!TimeoutInv, Loops!TimeoutTokens
  <2>6. e.next = Loops!Plus(e.since, Loops!ToGameTick(Timeout))
    BY <2>1, <2>3 DEF ExpiryInv, ArmedFor
  <2>7. ASSUME 0 < Timeout, MaxTick + Timeout < Modulus PROVE ticks = e.since + Timeout
    <3>1. e.next = e.since + Timeout
      BY <2>4, <2>5, <2>6, <2>7, TimersAssumption
         DEF Loops!Plus, Loops!ToGameTick, Loops!OneShotEvent
    <3>2. ticks = Loops!DueTick(e) \/ (ticks = e.since /\ e.next <= ticks)
      BY <2>3 DEF Loops!RunsOnTime, Loops!DueTick
    <3> QED  BY <2>4, <2>7, <3>1, <3>2, TimersAssumption DEF Loops!DueTick, Loops!OneShotEvent
  <2> QED  BY <2>3, <2>7
<1> QED  BY <1>1, <1>2, ExpiryInvariant, PTL DEF Spec, ExpiresOnTime
=============================================================================
