------------------------------ MODULE Teleport ------------------------------
(***************************************************************************)
(* The teleport requests of Essentials/teleport.cpp: /tpa, /tpaccept and   *)
(* /tpdeny, the timer of each request, and the listener on "left".         *)
(*                                                                         *)
(* The timers are those of TickScheduler, shared with every other mod: a   *)
(* request arms one with SetTimeOut, its handler is called from the tick   *)
(* hook, and the commands clear it.  Players are the addresses of their    *)
(* objects; PlayerDatabase shows that "left" comes before an object is     *)
(* released, for every object that is released.                            *)
(***************************************************************************)
EXTENDS Integers

CONSTANTS
    Modulus, MaxTick, MaxTimeouts,  \* as in TickScheduler
    Players,        \* addresses of Player objects
    Timeout,        \* settings.commands.teleport.timeout, in ticks
    OtherDelays,    \* the delays of timers other mods arm
    ScriptsClear    \* do scripts clear timers they did not arm?

\* What TickScheduler asks of its own constants.
ASSUME TimersAssumption ==
    /\ Modulus \in Nat /\ MaxTick \in Nat /\ MaxTimeouts \in Nat
    /\ MaxTick < Modulus
    /\ OtherDelays \cup {Timeout} \subseteq {d \in Int : -Modulus < d /\ d < Modulus}

VARIABLES
    ticks, phase, running, last, timeouts, intervals, maxTimeout, maxInterval,
    online,     \* the players whose objects exist
    requests,   \* container
    tpaTokens   \* the timers whose handler is that of a request

timerVars == <<ticks, phase, running, last, timeouts, intervals, maxTimeout, maxInterval>>

vars == <<timerVars, online, requests, tpaTokens>>

Timers == INSTANCE TickScheduler WITH
    MaxIntervals <- 0, Delays <- OtherDelays \cup {Timeout}, NativeIntervals <- {},
    SelfClear <- FALSE

TeleportEntry == [source : Players, target : Players, token : Nat]

Init ==
    /\ Timers!Init
    /\ online = {} /\ requests = {} /\ tpaTokens = {}

\* Commands, "left" and other mods run between two ticks or in the handler of
\* another mod's timer; the handler of a request calls none of them.
Callable == Timers!Callable /\ running \notin tpaTokens

----------------------------------------------------------------------------

(***************************************************************************)
(* /tpa.  Each index of the container is unique; both checks are made      *)
(* before the timer is armed.                                              *)
(***************************************************************************)
Request(source, target) ==
    /\ Callable
    /\ source \in online /\ target \in online
    /\ ~\E r \in requests : r.source = source
    /\ ~\E r \in requests : r.target = target
    /\ Timers!SetTimeOut(Timers!ToGameTick(Timeout))
    /\ requests' = requests \cup {[source |-> source, target |-> target, token |-> maxTimeout]}
    /\ tpaTokens' = tpaTokens \cup {maxTimeout}
    /\ UNCHANGED online

\* Mutant of Answer: the timer is not cleared.
Answer_KeepTimer(target) ==
    /\ Callable
    /\ \E r \in requests :
          /\ r.target = target
          /\ requests' = requests \ {r}
    /\ UNCHANGED <<timerVars, online, tpaTokens>>

\* The two ways a target answers: both clear the timer and erase the request.
\* The answer that teleports uses the pointer to the source.
Answer(target) ==
    /\ Callable
    /\ \E r \in requests :
          /\ r.target = target
          /\ Timers!ClearTimeOut(r.token)
          /\ requests' = requests \ {r}
    /\ UNCHANGED <<online, tpaTokens>>

Accept(target) == Answer(target)

Deny(target) == Answer(target)

Join(p) ==
    /\ Callable
    /\ p \notin online
    /\ online' = online \cup {p}
    /\ UNCHANGED <<timerVars, requests, tpaTokens>>

\* Mutant of Left: only the request the player made.
Left_Source(p) ==
    /\ Callable
    /\ p \in online
    /\ online' = online \ {p}
    /\ LET gone == {r \in requests : r.source = p} IN
          /\ requests' = requests \ gone
          /\ timeouts' = {e \in timeouts : \A r \in gone : e.token # r.token}
    /\ UNCHANGED <<ticks, phase, running, last, intervals, maxTimeout, maxInterval, tpaTokens>>

\* onPlayerLeft: the request the player made, then the one made to the player.
Left(p) ==
    /\ Callable
    /\ p \in online
    /\ online' = online \ {p}
    /\ LET gone == {r \in requests : r.source = p \/ r.target = p} IN
          /\ requests' = requests \ gone
          /\ timeouts' = {e \in timeouts : \A r \in gone : e.token # r.token}
    /\ UNCHANGED <<ticks, phase, running, last, intervals, maxTimeout, maxInterval, tpaTokens>>

----------------------------------------------------------------------------

\* Mutant of Expire: tells the target but keeps the request.
Expire_Keep(token) == requests' = requests

\* The handler of a request runs to its end when the loop calls it.
Expire(token) == requests' = {r \in requests : r.token # token}

\* Mutant of CallTimeout: the handler clears its timer, as the commands do.
CallTimeout_Clears(e) ==
    /\ phase = "timeouts" /\ running = Timers!NoToken
    /\ Timers!IsCurrent(e) /\ e.next <= ticks
    /\ running' = e.token
    /\ last' = [token |-> e.token, next |-> e.next]
    /\ IF e.token \in tpaTokens
       THEN Expire(e.token) /\ timeouts' = timeouts \ {e}
       ELSE UNCHANGED <<requests, timeouts>>
    /\ UNCHANGED <<ticks, phase, intervals, maxTimeout, maxInterval, online, tpaTokens>>

CallTimeout(e) ==
    /\ Timers!CallTimeout(e)
    /\ IF e.token \in tpaTokens THEN Expire(e.token) ELSE UNCHANGED requests
    /\ UNCHANGED <<online, tpaTokens>>

\* The rest of the tick hook.
Hook ==
    /\ \/ Timers!Tick
       \/ Timers!TimeoutReturn
       \/ Timers!EndTimeouts
       \/ Timers!EndIntervals
    /\ UNCHANGED <<online, requests, tpaTokens>>

\* Other mods' timers.
OtherTimer ==
    /\ Callable
    /\ \/ \E d \in OtherDelays : Timers!SetTimeOut(Timers!ToGameTick(d))
       \/ \E t \in 0..(MaxTimeouts - 1) :
             /\ t \in tpaTokens => ScriptsClear
             /\ Timers!ClearTimeOut(t)
    /\ UNCHANGED <<online, requests, tpaTokens>>

Next ==
    \/ \E s, t \in Players : Request(s, t)
    \/ \E p \in Players : Accept(p) \/ Deny(p) \/ Join(p) \/ Left(p)
    \/ \E e \in timeouts : CallTimeout(e)
    \/ Hook
    \/ OtherTimer

Spec == Init /\ [][Next]_vars

\* The server ticks; nobody is obliged to answer or to leave.
FairSpec == Spec /\ WF_vars((\E e \in timeouts : CallTimeout(e)) \/ Hook)

----------------------------------------------------------------------------

TypeOK ==
    /\ Timers!TypeOK
    /\ online \subseteq Players
    /\ requests \subseteq TeleportEntry
    /\ tpaTokens \subseteq 0..(maxTimeout - 1)

(***************************************************************************)
(* A request is only about players who are there: whenever an answer or a  *)
(* timeout uses the pointers it holds, they are valid.                     *)
(***************************************************************************)
NoDanglingPlayer == \A r \in requests : r.source \in online /\ r.target \in online

(***************************************************************************)
(* A request is pending exactly as long as its timer: no answered,         *)
(* abandoned or timed out request leaves a timer that would later hit      *)
(* another one, and, unless a script cleared it, no pending request has    *)
(* lost its timer and blocks its players.                                  *)
(***************************************************************************)
PendingIffArmed ==
    LET armed == tpaTokens \cap (Timers!Tokens(timeouts) \ {running})
        pending == {r.token : r \in requests} IN
    IF ScriptsClear THEN armed \subseteq pending ELSE armed = pending

\* One request per source and one per target, so that each index can hold them.
Exclusive ==
    \A q, r \in requests : q.source = r.source \/ q.target = r.target \/ q.token = r.token => q = r

(***************************************************************************)
(* Whatever the commands, the listener on "left" and the expiring requests *)
(* erase while the tick hook runs, and as long as no other mod clears the  *)
(* timer it was called for, the loop's iterator stays valid: an answered   *)
(* or abandoned request never clears the timer whose handler is running.   *)
(***************************************************************************)
TimersValid == phase # "undefined"

(***************************************************************************)
(* A request that its timer erases is exactly as old as the setting says,  *)
(* whatever was asked, answered, armed and cleared in the meantime.        *)
(***************************************************************************)
ExpiresOnTime ==
    [][\A r \in requests : r \notin requests' /\ running' = r.token =>
           \E e \in timeouts :
              /\ e.token = r.token
              /\ 0 < Timeout /\ MaxTick + Timeout < Modulus => ticks = e.since + Timeout]_vars

(***************************************************************************)
(* Every request that times out before the end of the run is resolved,     *)
(* whether or not anybody answers it, and its players can ask again.       *)
(***************************************************************************)
Resolved ==
    \A t \in 0..(MaxTimeouts - 1) :
        (\E r \in requests, e \in timeouts :
            r.token = t /\ e.token = t /\ Timers!DueTick(e) <= MaxTick)
                ~> (~\E r \in requests : r.token = t)
=============================================================================
