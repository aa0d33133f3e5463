--------------------------- MODULE TickScheduler ---------------------------
(***************************************************************************)
(* The timers of Base/scheduler.cpp: one-shot timers and intervals kept in *)
(* two ordered containers, and the hook on Level::tick that runs them.     *)
(*                                                                         *)
(* Everything here happens on the server thread.  The interleaving that    *)
(* matters is between the two loops of the hook and the handlers they      *)
(* call: a handler may arm and clear any timer while the loop that called  *)
(* it holds an iterator into the container.  A handler is therefore not    *)
(* one step: it starts with CallTimeout or CallInterval, calls the four    *)
(* operations of the API any number of times, and ends with TimeoutReturn  *)
(* or IntervalReturn.  Between two ticks the same operations are called by *)
(* commands, by other hooks and by scripts.                                *)
(***************************************************************************)
EXTENDS Integers

CONSTANTS
    Modulus,          \* 2^64: GameTick counts in a uint64_t
    MaxTick,          \* bound: the ticks a behaviour has
    MaxTimeouts,      \* bound: calls of SetTimeOut
    MaxIntervals,     \* bound: calls of SetInterval
    Delays,           \* the delays callers pass, negative ones included
    NativeIntervals,  \* the intervals C++ callers pass, unchecked
    SelfClear         \* may a handler clear the timer it was called for?

ASSUME BoundsAssumption ==
    /\ Modulus \in Nat /\ MaxTick \in Nat
    /\ MaxTimeouts \in Nat /\ MaxIntervals \in Nat
    /\ MaxTick < Modulus

ASSUME InputAssumption ==
    /\ Delays \subseteq {d \in Int : -Modulus < d /\ d < Modulus}
    /\ NativeIntervals \subseteq {i \in Nat : i < Modulus}
    /\ SelfClear \in BOOLEAN

VARIABLES
    ticks,        \* current_ticks
    phase,        \* where the server thread is in the tick hook
    running,      \* token of the timer whose handler is on the stack
    last,         \* key of the timeout the loop's iterator stands at, or stood at
    timeouts,     \* container<OneShotEvent>
    intervals,    \* container<IntervalEvent>
    maxTimeout,   \* the static max of SetTimeOut
    maxInterval   \* the static max of SetInterval

vars == <<ticks, phase, running, last, timeouts, intervals, maxTimeout, maxInterval>>

NoToken == -1

(***************************************************************************)
(* A one-shot timer.  `since', the tick it was armed in, is not in the     *)
(* code: it is recorded for the properties and no guard reads it.          *)
(***************************************************************************)
OneShotEvent == [token : Nat, next : Nat, since : Nat]

IntervalEvent == [token : Nat, next : Nat, interval : Nat]

Phase == {"between", "timeouts", "intervals", "undefined"}

Tokens(container) == {e.token : e \in container}

\* SimpleClock::now() + timeout, in uint64_t.
Plus(now, delay) ==
    IF now + delay < Modulus THEN now + delay ELSE now + delay - Modulus

\* An int from a script or a settings file, converted to GameTick.
ToGameTick(delay) == IF delay < 0 THEN delay + Modulus ELSE delay

\* The interval a script gets for the delay it asks for.
ScriptInterval(delay) == IF delay <= 0 THEN 1 ELSE ToGameTick(delay)

(***************************************************************************)
(* The order of the index on `next'.  The index is not unique and inserts  *)
(* behind equal keys; a timeout is inserted once, with a token larger than *)
(* every earlier one, so equal keys are in the order of their tokens.      *)
(***************************************************************************)
Before(a, b) == a.next < b.next \/ (a.next = b.next /\ a.token < b.token)

\* Below every timeout: the iterator at begin().
Begin == [token |-> NoToken, next |-> 0]

----------------------------------------------------------------------------

Init ==
    /\ ticks = 0
    /\ phase = "between"
    /\ running = NoToken
    /\ last = Begin
    /\ timeouts = {} /\ intervals = {}
    /\ maxTimeout = 0 /\ maxInterval = 0

(***************************************************************************)
(* The API.  It is called between ticks and by the handler that runs.      *)
(***************************************************************************)
Callable == phase = "between" \/ running # NoToken

SetTimeOut(timeout) ==
    /\ Callable
    /\ maxTimeout < MaxTimeouts
    /\ maxTimeout' = maxTimeout + 1
    /\ timeouts' = timeouts \cup
           {[token |-> maxTimeout, next |-> Plus(ticks, timeout), since |-> ticks]}
    /\ UNCHANGED <<ticks, phase, running, last, intervals, maxInterval>>

SetInterval(interval) ==
    /\ Callable
    /\ maxInterval < MaxIntervals
    /\ maxInterval' = maxInterval + 1
    /\ intervals' = intervals \cup
           {[token |-> maxInterval, next |-> Plus(ticks, interval), interval |-> interval]}
    /\ UNCHANGED <<ticks, phase, running, last, timeouts, maxTimeout>>

\* Mutant of ClearTimeOut: erases by the key of the other index.
ClearTimeOut_ByTime(token) ==
    /\ Callable
    /\ SelfClear \/ phase # "timeouts" \/ token # running
    /\ timeouts' = {e \in timeouts :
                       \A f \in timeouts : f.token = token => e.next # f.next}
    /\ UNCHANGED <<ticks, phase, running, last, intervals, maxTimeout, maxInterval>>

\* An unknown token is ignored.
ClearTimeOut(token) ==
    /\ Callable
    /\ SelfClear \/ phase # "timeouts" \/ token # running
    /\ timeouts' = {e \in timeouts : e.token # token}
    /\ UNCHANGED <<ticks, phase, running, last, intervals, maxTimeout, maxInterval>>

ClearInterval(token) ==
    /\ Callable
    /\ SelfClear \/ phase # "intervals" \/ token # running
    /\ intervals' = {e \in intervals : e.token # token}
    /\ UNCHANGED <<ticks, phase, running, last, timeouts, maxTimeout, maxInterval>>

(***************************************************************************)
(* The hook on Level::tick.                                                *)
(***************************************************************************)
Tick ==
    /\ phase = "between" /\ ticks < MaxTick
    /\ ticks' = ticks + 1
    /\ phase' = "timeouts" /\ last' = Begin
    /\ UNCHANGED <<running, timeouts, intervals, maxTimeout, maxInterval>>

\* The entry the iterator stands at when the loop tests its condition: the
\* first behind the entry it erased last.
IsCurrent(e) ==
    /\ e \in timeouts /\ Before(last, e)
    /\ \A f \in timeouts : Before(last, f) => f = e \/ Before(e, f)

\* Mutant of CallTimeout: a tick early.
CallTimeout_Early(e) ==
    /\ phase = "timeouts" /\ running = NoToken
    /\ IsCurrent(e) /\ e.next <= ticks + 1
    /\ running' = e.token
    /\ last' = [token |-> e.token, next |-> e.next]
    /\ UNCHANGED <<ticks, phase, timeouts, intervals, maxTimeout, maxInterval>>

\* Mutant of CallTimeout: overdue timers are not considered.
CallTimeout_Exact(e) ==
    /\ phase = "timeouts" /\ running = NoToken
    /\ IsCurrent(e) /\ e.next = ticks
    /\ running' = e.token
    /\ last' = [token |-> e.token, next |-> e.next]
    /\ UNCHANGED <<ticks, phase, timeouts, intervals, maxTimeout, maxInterval>>

CallTimeout(e) ==
    /\ phase = "timeouts" /\ running = NoToken
    /\ IsCurrent(e) /\ e.next <= ticks
    /\ running' = e.token
    /\ last' = [token |-> e.token, next |-> e.next]
    /\ UNCHANGED <<ticks, phase, timeouts, intervals, maxTimeout, maxInterval>>

(***************************************************************************)
(* The handler returns and the loop erases the entry at its iterator.  If  *)
(* the handler erased that entry itself, the iterator dangles and what     *)
(* follows has no defined meaning: the phase "undefined", which is final.  *)
(***************************************************************************)
TimeoutReturn ==
    /\ phase = "timeouts" /\ running # NoToken
    /\ IF running \in Tokens(timeouts)
       THEN /\ timeouts' = {e \in timeouts : e.token # running}
            /\ phase' = phase
       ELSE /\ timeouts' = timeouts
            /\ phase' = "undefined"
    /\ running' = NoToken
    /\ UNCHANGED <<ticks, last, intervals, maxTimeout, maxInterval>>

(***************************************************************************)
(* The handler of the newest timer arms one more ahead of the iterator, at *)
(* a key that is due already, and returns: the loop erases its entry and   *)
(* reaches the new one in the same pass.  Handlers that keep doing so (a   *)
(* script's promise continuations are armed with a delay of 0) keep the    *)
(* loop from ever ending.  The chain must not stop at MaxTimeouts, so the  *)
(* successor is given the token of the entry it replaces: with both at the *)
(* end of the order of tokens, no other entry can tell it from the next.   *)
(***************************************************************************)
Continue(timeout) ==
    LET next == Plus(ticks, timeout)
    IN  /\ phase = "timeouts" /\ running \in Tokens(timeouts)
        /\ running = maxTimeout - 1
        /\ last.next <= next /\ next <= ticks
        /\ timeouts' = {e \in timeouts : e.token # running} \cup
               {[token |-> running, next |-> next, since |-> ticks]}
        /\ running' = NoToken
        /\ last' = IF last.next = next THEN [token |-> running - 1, next |-> next] ELSE last
        /\ UNCHANGED <<ticks, phase, intervals, maxTimeout, maxInterval>>

\* Mutant of EndTimeouts: returns at the first timer due now.
EndTimeouts_OffByOne ==
    /\ phase = "timeouts" /\ running = NoToken
    /\ \A e \in timeouts : Before(last, e) => e.next >= ticks
    /\ phase' = "intervals"
    /\ UNCHANGED <<ticks, running, last, timeouts, intervals, maxTimeout, maxInterval>>

\* The loop returns at the end of the container or at the first timer that is not due.
EndTimeouts ==
    /\ phase = "timeouts" /\ running = NoToken
    /\ \A e \in timeouts : Before(last, e) => e.next > ticks
    /\ phase' = "intervals"
    /\ UNCHANGED <<ticks, running, last, timeouts, intervals, maxTimeout, maxInterval>>

(***************************************************************************)
(* The loop over the intervals starts at begin() again after every call.   *)
(* Which of several timers with the same `next' comes first is left open.  *)
(***************************************************************************)
CallInterval(e) ==
    /\ phase = "intervals" /\ running = NoToken
    /\ e \in intervals /\ \A f \in intervals : e.next <= f.next
    /\ e.next <= ticks
    /\ running' = e.token
    /\ UNCHANGED <<ticks, phase, last, timeouts, intervals, maxTimeout, maxInterval>>

\* Mutant of Rearmed: not advanced.
Rearmed_Same(e) == e

Rearmed(e) ==
    [token |-> e.token, next |-> Plus(ticks, e.interval), interval |-> e.interval]

\* Mutant of IntervalReturn: the entry is copied before the call.
IntervalReturn_CopyFirst ==
    /\ phase = "intervals" /\ running # NoToken
    /\ \E i \in NativeIntervals :
           intervals' = {e \in intervals : e.token # running} \cup
               {[token |-> running, next |-> Plus(ticks, i), interval |-> i]}
    /\ running' = NoToken
    /\ UNCHANGED <<ticks, phase, last, timeouts, maxTimeout, maxInterval>>

\* The entry is copied after the call, erased and inserted again; a handler that
\* cleared its own interval leaves the copy to read an erased entry.
IntervalReturn ==
    /\ phase = "intervals" /\ running # NoToken
    /\ IF running \in Tokens(intervals)
       THEN /\ intervals' = {IF e.token = running THEN Rearmed(e) ELSE e : e \in intervals}
            /\ phase' = phase
       ELSE /\ intervals' = intervals
            /\ phase' = "undefined"
    /\ running' = NoToken
    /\ UNCHANGED <<ticks, last, timeouts, maxTimeout, maxInterval>>

\* The loop returns and the hook calls the original Level::tick.
EndIntervals ==
    /\ phase = "intervals" /\ running = NoToken
    /\ \A e \in intervals : e.next > ticks
    /\ phase' = "between"
    /\ UNCHANGED <<ticks, running, last, timeouts, intervals, maxTimeout, maxInterval>>

Hook ==
    \/ \E e \in timeouts : CallTimeout(e)
    \/ TimeoutReturn
    \/ EndTimeouts
    \/ \E e \in intervals : CallInterval(e)
    \/ IntervalReturn
    \/ EndIntervals

Next ==
    \/ Tick
    \/ Hook
    \/ \E d \in Delays : SetTimeOut(ToGameTick(d))
    \/ \E d \in Delays : Continue(ToGameTick(d))
    \/ \E d \in Delays : SetInterval(ScriptInterval(d))
    \/ \E i \in NativeIntervals : SetInterval(i)
    \/ \E t \in 0..(MaxTimeouts - 1) : ClearTimeOut(t)
    \/ \E t \in 0..(MaxIntervals - 1) : ClearInterval(t)

\* The server thread keeps ticking, and every handler returns.
Fairness == WF_vars(Tick) /\ WF_vars(Hook)

Spec == Init /\ [][Next]_vars

FairSpec == Spec /\ Fairness

----------------------------------------------------------------------------

TypeOK ==
    /\ ticks \in 0..MaxTick
    /\ phase \in Phase
    /\ running \in Nat \cup {NoToken}
    /\ last \in [token : Nat \cup {NoToken}, next : Nat]
    /\ timeouts \subseteq OneShotEvent
    /\ intervals \subseteq IntervalEvent
    /\ maxTimeout \in 0..MaxTimeouts
    /\ maxInterval \in 0..MaxIntervals

\* The tick a timer is for: the one it names, or the next one if it names a tick
\* that is not ahead (a delay of 0 between two ticks, a negative delay).
DueTick(e) == IF e.next > e.since THEN e.next ELSE e.since + 1

(***************************************************************************)
(* A timeout's handler runs in the tick the timer is for, neither earlier  *)
(* nor later, whatever was armed, cleared or wrapped around in the         *)
(* meantime.  The exception: a timer armed by a handler of the pass and    *)
(* already due may still run in that same pass.                            *)
(***************************************************************************)
RunsOnTime ==
    phase = "timeouts" =>
        \A e \in timeouts :
            e.token = running =>
                \/ ticks = DueTick(e)
                \/ ticks = e.since /\ e.next <= ticks

(***************************************************************************)
(* The pass over the timeouts misses nothing: what is still due when it    *)
(* ends was armed during it, with a negative delay, behind the iterator.   *)
(* In particular a delay of 0 asked for in a handler runs in the same      *)
(* pass, which continuations of script promises rely on.                   *)
(***************************************************************************)
PassComplete ==
    [][phase = "timeouts" /\ phase' = "intervals" =>
           \A e \in timeouts : e.next <= ticks =>
               e.since = ticks /\ e.next < ticks]_vars

\* Intervals of a length that does not wrap around within the ticks considered.
Positive(e) == 0 < e.interval /\ e.interval + MaxTick < Modulus

(***************************************************************************)
(* An interval's handler runs exactly when the interval is over: no tick   *)
(* is skipped and none runs it twice, although the handlers of a pass may  *)
(* clear and arm intervals and the loop starts over after each of them.    *)
(***************************************************************************)
IntervalOnTime ==
    phase = "intervals" =>
        \A e \in intervals : e.token = running /\ Positive(e) => e.next = ticks

(***************************************************************************)
(* A timer that fired or was cleared never comes back: its token is not    *)
(* handed out again and the copy that rearms an interval does not          *)
(* resurrect one that was cleared meanwhile.  (The successor Continue arms *)
(* stands for a timer with a token of its own.)                            *)
(***************************************************************************)
NoResurrection ==
    [][/\ \A t \in 0..(maxTimeout - 1) :
              t \notin Tokens(timeouts) => t \notin Tokens(timeouts')
       /\ \A t \in 0..(maxInterval - 1) :
              t \notin Tokens(intervals) => t \notin Tokens(intervals')]_vars

(***************************************************************************)
(* As long as no handler clears the timer it was called for, no iterator   *)
(* of the two loops is ever invalidated, whatever else handlers arm and    *)
(* clear.                                                                  *)
(***************************************************************************)
IteratorsValid == ~SelfClear => phase # "undefined"

\* The server thread neither hangs in the hook nor is lost.
Ticking == phase \in {"between", "undefined"}

\* An interval of 0, or one whose next call wraps around to a tick that is not ahead.
Runaway(e) == Plus(ticks, e.interval) <= ticks

\* Some interval is rearmed, each time it runs, for the tick it runs in.
Hung == \E e \in intervals : Runaway(e)

\* A handler arms its own successor, and that one the next, without end.
Endless == []<><<\E d \in Delays : Continue(ToGameTick(d))>>_vars

(***************************************************************************)
(* Every tick comes to an end, with two exceptions, in which the server    *)
(* hangs in the hook: some interval is rearmed for the tick it runs in, or *)
(* handlers of timeouts keep arming timeouts that are due at once.         *)
(***************************************************************************)
TickEnds == []<>Ticking \/ <>[]Hung \/ Endless

(***************************************************************************)
(* Unless the server hangs in one of these two ways, every timeout for a   *)
(* tick it reaches is run or cleared.                                      *)
(***************************************************************************)
TimeoutResolved ==
    \/ <>[]Hung
    \/ Endless
    \/ \A t \in 0..(MaxTimeouts - 1) :
          (\E e \in timeouts : e.token = t /\ DueTick(e) <= MaxTick)
              ~> (t \notin Tokens(timeouts) \/ phase = "undefined")
=============================================================================
