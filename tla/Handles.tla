------------------------------- MODULE Handles -------------------------------
(***************************************************************************)
(* Functions of scripts that C++ keeps (ScriptSupport/chakra_helper.h):    *)
(* those behind timers, chat listeners, forms and requests.  The           *)
(* engine collects a value that no script reaches and whose reference      *)
(* count is 0, whenever it likes.  A ValueHolder counts; it is copied,     *)
(* moved and assigned with the std::function it was captured by.  A        *)
(* LeakedHolder counts when it is constructed and never gives back; the    *)
(* one that is assigned to, the handler of "/!" in commandapi.cpp, does    *)
(* the reverse.  The default constructor of a ValueHolder leaves its ref   *)
(* unset; only ScriptAuxData uses it (scriptapi.h), and assigns at once.   *)
(***************************************************************************)
EXTENDS Integers, FiniteSets

CONSTANTS
    Callees,     \* JsValueRefs of functions, each made once
    Slots,      \* places for a ValueHolder
    NoHolder,   \* no holder there
    Null,       \* the value of one that was moved from
    MaxCount    \* bound: references to a value

ASSUME HandlesAssumption ==
    /\ NoHolder \notin Callees /\ Null \notin Callees /\ NoHolder # Null
    /\ MaxCount \in Nat /\ IsFiniteSet(Slots)

VARIABLES
    count,      \* JsAddRef's of a value
    reached,    \* values that scripts reach
    collected,  \* those the engine has collected
    holder,     \* the ref of each ValueHolder
    handler,    \* of the LeakedHolder for "/!"
    robbed,     \* values a reference was given back of by one who had not taken it
    lost        \* references that a move assignment has lost, per value

handlesVars == <<count, reached, collected, holder, handler, robbed, lost>>

HandlesInit ==
    /\ count = [v \in Callees |-> 0] /\ reached = Callees /\ collected = {}
    /\ holder = [s \in Slots |-> NoHolder]
    /\ handler = Null /\ robbed = {} /\ lost = [v \in Callees |-> 0]

AddRef(c, v) == IF v = Null THEN c ELSE [c EXCEPT ![v] = @ + 1]

\* JsRelease of a value without references is an error nobody looks at.
Release(c, v) == IF v = Null \/ c[v] = 0 THEN c ELSE [c EXCEPT ![v] = @ - 1]

There(s) == holder[s] # NoHolder
Put(s, v) == holder' = [holder EXCEPT ![s] = v]

\* ValueHolder(JsValueRef): a script passes a function.
Construct(s, v) ==
    /\ ~There(s) /\ v \in reached
    /\ Put(s, v) /\ count' = AddRef(count, v)
    /\ UNCHANGED <<reached, collected, handler, robbed, lost>>

\* ScriptAuxData(): the assignment releases what the memory happened to hold, nothing or
\* a value that a holder had there before.
ConstructUnset(s, unset, v) ==
    /\ ~There(s) /\ v \in reached
    /\ Put(s, v) /\ count' = AddRef(Release(count, unset), v)
    /\ robbed' = robbed \cup ({unset} \ {Null})
    /\ UNCHANGED <<reached, collected, handler, lost>>

\* Mutant of Copy: the copy constructor the compiler would have made.
Copy_Default(s, t) ==
    /\ There(s) /\ ~There(t)
    /\ Put(t, holder[s])
    /\ UNCHANGED <<count, reached, collected, handler, robbed, lost>>

Copy(s, t) ==
    /\ There(s) /\ ~There(t)
    /\ Put(t, holder[s]) /\ count' = AddRef(count, holder[s])
    /\ UNCHANGED <<reached, collected, handler, robbed, lost>>

Move(s, t) ==
    /\ There(s) /\ ~There(t)
    /\ holder' = [holder EXCEPT ![t] = holder[s], ![s] = Null]
    /\ UNCHANGED <<count, reached, collected, handler, robbed, lost>>

Assign(s, v) ==
    /\ There(s) /\ Put(s, v)
    /\ count' = AddRef(Release(count, holder[s]), v)
    /\ UNCHANGED <<reached, collected, handler, robbed, lost>>

AssignCopy(s, t) == There(s) /\ Assign(t, holder[s])
AssignValue(t, v) == v \in reached /\ Assign(t, v)

\* A reference is added that the other holder does not give back.
AssignMove(s, t) ==
    /\ There(s) /\ There(t)
    /\ holder' = [holder EXCEPT ![t] = holder[s], ![s] = Null]
    /\ count' = AddRef(Release(count, holder[t]), holder[s])
    /\ lost' = AddRef(lost, holder[s])
    /\ UNCHANGED <<reached, collected, handler, robbed>>

Destruct(s) ==
    /\ There(s) /\ Put(s, NoHolder) /\ count' = Release(count, holder[s])
    /\ UNCHANGED <<reached, collected, handler, robbed, lost>>

\* setSlashCommandHandler: the old one is released, the new one not added.
SetHandler(v) ==
    /\ v \in reached
    /\ handler' = v /\ robbed' = robbed \cup ({handler} \ {Null})
    /\ count' = Release(count, handler)
    /\ UNCHANGED <<reached, collected, holder, lost>>

\* Scripts forget a value; and get it back when C++ calls it.
Forget(v) ==
    /\ v \in reached /\ reached' = reached \ {v}
    /\ UNCHANGED <<count, collected, holder, handler, robbed, lost>>

Call(s) ==
    /\ holder[s] \in Callees \ collected
    /\ reached' = reached \cup {holder[s]}
    /\ UNCHANGED <<count, collected, holder, handler, robbed, lost>>

Collect ==
    /\ collected' = collected \cup {v \in Callees \ reached : count[v] = 0}
    /\ UNCHANGED <<count, reached, holder, handler, robbed, lost>>

HandlesNext ==
    \/ \E s \in Slots :
          \/ \E v \in Callees :
                \/ Construct(s, v) \/ AssignValue(s, v)
                \/ \E unset \in Callees \cup {Null} : ConstructUnset(s, unset, v)
          \/ \E t \in Slots :
                \/ Copy(s, t) \/ Move(s, t)
                \/ AssignCopy(s, t) \/ AssignMove(s, t)
          \/ Destruct(s) \/ Call(s)
    \/ \E v \in Callees : SetHandler(v) \/ Forget(v)
    \/ Collect

\* The bound on the counts.
HandlesBound == \A v \in Callees : count'[v] <= MaxCount /\ lost'[v] < MaxCount

HandlesSpec == HandlesInit /\ [][HandlesNext /\ HandlesBound]_handlesVars

----------------------------------------------------------------------------

Holding(v) == {s \in Slots : holder[s] = v}

(***************************************************************************)
(* What a ValueHolder holds is not collected, however holders are copied,  *)
(* moved, assigned and destroyed and whatever scripts forget; and once the *)
(* last of them is gone nothing but what move assignments have lost keeps  *)
(* the value.  (A value is excepted once it was the handler of "/!" and    *)
(* was replaced, or ScriptAuxData found it in its memory: a reference of   *)
(* somebody else is given back then.)                                      *)
(***************************************************************************)
HeldIsAlive ==
    \A v \in Callees \ robbed :
       /\ Holding(v) # {} => v \notin collected
       /\ count[v] = Cardinality(Holding(v)) + lost[v]
=============================================================================
