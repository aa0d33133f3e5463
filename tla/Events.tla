-------------------------------- MODULE Events --------------------------------
(***************************************************************************)
(* RecursiveEventEmitter (base/event.h) and the emission that uses it for  *)
(* every line of chat (ChatAPI/dllmain.cpp).  A listener is called with a  *)
(* trampoline, and those behind it run only if, when and as often as it    *)
(* calls that; it may refuse the line, throw, or add listeners (scripts    *)
(* do, with onChat) while the emission goes on.                            *)
(***************************************************************************)
EXTENDS Integers, Sequences, SequencesExt

CONSTANTS
    Listeners,  \* each is added once
    Priority,   \* of each
    Acting,     \* possible behaviours: what each listener does, in order
    End,        \* _set.end()
    MaxLines    \* bound: lines of chat

\* The parts of what a listener does; an adaptor's listener ends with "next".
Acts == {"next", "refuse", "throw", "add"}

ASSUME EventsAssumption ==
    /\ Priority \in [Listeners -> Int]
    /\ Acting \subseteq [Listeners -> Seq(Acts)]
    /\ End \notin Listeners /\ MaxLines \in Nat

VARIABLES
    acting,     \* one of Acting
    set,        \* _set, in its order
    added,      \* listeners in the order they were added
    running,    \* calls in progress, innermost last: listener, what it is still to do, and
                \* the iterator of its trampoline
    token,      \* has a listener given a reason? (CallbackToken)
    called,     \* listeners the line has come to, in order
    present,    \* those that were there when it came
    lines,      \* number of lines
    outcome     \* of the last: "none", "pending", "sent", "blocked" or "dropped"

eventsVars == <<acting, set, added, running, token, called, present, lines, outcome>>

EventsInit ==
    /\ acting \in Acting
    /\ set = <<>> /\ added = <<>> /\ running = <<>>
    /\ token = FALSE /\ called = <<>> /\ present = {}
    /\ lines = 0 /\ outcome = "none"

\* How many of the listeners go before a new one: the first ones, as long as they are in before.
Prefix(before) ==
    CHOOSE n \in 0..Len(set) :
       /\ \A i \in 1..n : set[i] \in before
       /\ n < Len(set) => set[n + 1] \notin before

\* Mutant of Emplaced: before those of the same priority.
Emplaced_First(l) == InsertAt(set, Prefix({e \in Listeners : Priority[e] < Priority[l]}) + 1, l)

\* Behind those of the same priority (multiset::emplace).
Emplaced(l) == InsertAt(set, Prefix({e \in Listeners : Priority[e] <= Priority[l]}) + 1, l)

Missing == Listeners \ ToSet(added)

AddListener(l) ==
    /\ l \in Missing
    /\ set' = Emplaced(l) /\ added' = Append(added, l)

\* A mod adds one at any time between two lines.
Register(l) ==
    /\ running = <<>> /\ outcome # "pending" /\ AddListener(l)
    /\ UNCHANGED <<acting, running, token, called, present, lines, outcome>>

Begin == IF set = <<>> THEN End ELSE set[1]
Successor(l) ==
    LET i == CHOOSE j \in 1..Len(set) : set[j] = l
    IN  IF i = Len(set) THEN End ELSE set[i + 1]

\* Trampoline::operator(): the successor is taken before the listener is called.
Invoke(outer, it) ==
    IF it = End THEN running' = outer /\ UNCHANGED called
    ELSE /\ running' = Append(outer, [who |-> it, todo |-> acting[it], it |-> Successor(it)])
         /\ called' = Append(called, it)

\* _displayGameMessage for a player who is in the database.
Line ==
    /\ outcome # "pending" /\ lines < MaxLines
    /\ lines' = lines + 1 /\ outcome' = "pending"
    /\ token' = FALSE /\ present' = ToSet(set)
    /\ running' = IF Begin = End THEN <<>>
                  ELSE <<[who |-> Begin, todo |-> acting[Begin], it |-> Successor(Begin)]>>
    /\ called' = IF Begin = End THEN <<>> ELSE <<Begin>>
    /\ UNCHANGED <<acting, set, added>>

Current == Last(running)
Doing(act) == running # <<>> /\ Current.todo # <<>> /\ Head(Current.todo) = act
Advanced == Front(running) \o <<[Current EXCEPT !.todo = Tail(@)]>>

CallNext ==
    /\ Doing("next") /\ Invoke(Advanced, Current.it)
    /\ UNCHANGED <<acting, set, added, token, present, lines, outcome>>

\* The last reason counts.
GiveReason ==
    /\ Doing("refuse") /\ token' = TRUE /\ running' = Advanced
    /\ UNCHANGED <<acting, set, added, called, present, lines, outcome>>

AddWithin(l) ==
    /\ Doing("add") /\ AddListener(l) /\ running' = Advanced
    /\ UNCHANGED <<acting, token, called, present, lines, outcome>>

AddNothing ==
    /\ Doing("add") /\ Missing = {} /\ running' = Advanced
    /\ UNCHANGED <<acting, set, added, token, called, present, lines, outcome>>

\* Through all calls in progress into the handler of _displayGameMessage.
Throw ==
    /\ Doing("throw") /\ running' = <<>> /\ outcome' = "dropped"
    /\ UNCHANGED <<acting, set, added, token, called, present, lines>>

ListenerReturns ==
    /\ running # <<>> /\ Current.todo = <<>>
    /\ running' = Front(running)
    /\ UNCHANGED <<acting, set, added, token, called, present, lines, outcome>>

\* The rest of _displayGameMessage.
Emitted ==
    /\ outcome = "pending" /\ running = <<>>
    /\ outcome' = IF token THEN "blocked" ELSE "sent"
    /\ UNCHANGED <<acting, set, added, running, token, called, present, lines>>

EventsNext ==
    \/ \E l \in Listeners : Register(l) \/ AddWithin(l)
    \/ Line \/ CallNext \/ GiveReason \/ AddNothing \/ Throw \/ ListenerReturns \/ Emitted

EventsSpec == EventsInit /\ [][EventsNext]_eventsVars

----------------------------------------------------------------------------

EventsTypeOK ==
    /\ acting \in Acting
    /\ set \in Seq(Listeners) /\ added \in Seq(Listeners)
    /\ running \in Seq([who : Listeners, todo : Seq(Acts), it : Listeners \cup {End}])
    /\ token \in BOOLEAN /\ called \in Seq(Listeners) /\ present \subseteq Listeners
    /\ lines \in 0..MaxLines
    /\ outcome \in {"none", "pending", "sent", "blocked", "dropped"}

\* Which of two listeners goes first.
Earlier(k, l) ==
    \/ Priority[k] < Priority[l]
    \/ /\ Priority[k] = Priority[l]
       /\ \E i, j \in 1..Len(added) : i < j /\ added[i] = k /\ added[j] = l

\* Does a listener call those behind it, and does it do so twice?
PassesOn(l) == "next" \in ToSet(acting[l])
PassesOnTwice(l) ==
    \E i, j \in DOMAIN acting[l] : i < j /\ acting[l][i] = "next" /\ acting[l][j] = "next"

(***************************************************************************)
(* A line comes to the listeners in the order of their priorities, and of  *)
(* their registration where those are equal, to none twice, even if some   *)
(* are added before and behind the current one meanwhile (unless a         *)
(* listener calls its trampoline twice); and a line that is sent has come  *)
(* to everyone who was there (unless a listener did not pass it on), and   *)
(* none of them refused it.                                                *)
(***************************************************************************)
CalledInOrder ==
    /\ (\A l \in ToSet(called) : ~PassesOnTwice(l))
          => \A i, j \in 1..Len(called) : i < j => Earlier(called[i], called[j])
    /\ outcome = "sent" =>
          /\ (\A l \in ToSet(called) : PassesOn(l)) => present \subseteq ToSet(called)
          /\ \A l \in ToSet(called) : "refuse" \notin ToSet(acting[l])
=============================================================================
