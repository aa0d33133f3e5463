------------------------------- MODULE FormUI -------------------------------
(***************************************************************************)
(* The forms of BuiltinMods/FormUI/dllmain.cpp: a mod sends a player a     *)
(* form with a callback, kept with the player under a random number until  *)
(* the player's answer is in.                                              *)
(*                                                                         *)
(* A player may have several forms before it, and answer them in any       *)
(* order; a callback may send the next form.  What is called here a player *)
(* is the address of its object: the callbacks are auxiliary data of the   *)
(* player database, gone when the player leaves.                           *)
(***************************************************************************)
EXTENDS Naturals, Sequences, FiniteSets

CONSTANTS
    Players,      \* addresses of Player objects
    Ids,          \* what rand() returns
    MaxForms,     \* bound: forms sent
    Callbacks     \* what mods give SendModalForm: records with a field `type'

ASSUME FormAssumption ==
    /\ 0 \in Ids /\ Ids \subseteq Nat
    /\ MaxForms \in Nat

VARIABLES
    online,    \* the players in the player database
    data,      \* FormAuxData of each player: a map, as a set of pairs
    screens,   \* the forms each player has before it
    sent       \* how many forms were sent: a form is its number

formVars == <<online, data, screens, sent>>

\* What the client answers to a form of each type: a number for a list of buttons,
\* true or false for two buttons, an array for a list of inputs.
AnswerKinds == [form |-> "int", modal |-> "bool", custom_form |-> "array"]

\* A form on a screen and an entry of a map.  `form', the number of the form, is
\* not in the code; it tells whose answer a callback gets.
Form == [id : Ids, form : Nat, callback : Callbacks]

InitForms ==
    /\ online = {}
    /\ data = [p \in Players |-> {}]
    /\ screens = [p \in Players |-> {}]
    /\ sent = 0

\* std::map::emplace: an entry with the key stays as it is.
Insert(map, form) ==
    IF \E e \in map : e.id = form.id THEN map ELSE map \cup {form}

Erase(map, id) == {e \in map : e.id # id}

\* Mutant of Alloc: any number.
Alloc_Any(map) == Ids

\* alloc: a number that is not in use.
Alloc(map) == {id \in Ids : \A e \in map : e.id # id}

----------------------------------------------------------------------------

Join(p) ==
    /\ p \notin online
    /\ online' = online \cup {p}
    /\ UNCHANGED <<data, screens, sent>>

\* Mutant of Leave: the auxiliary data stays.
Leave_KeepAux(p) ==
    /\ p \in online
    /\ online' = online \ {p}
    /\ screens' = [screens EXCEPT ![p] = {}]
    /\ UNCHANGED <<data, sent>>

Leave(p) ==
    /\ p \in online
    /\ online' = online \ {p}
    /\ data' = [data EXCEPT ![p] = {}]
    /\ screens' = [screens EXCEPT ![p] = {}]
    /\ UNCHANGED sent

SendModalForm(p, callback) ==
    /\ p \in online /\ sent < MaxForms
    /\ \E id \in Alloc(data[p]) :
          LET form == [id |-> id, form |-> sent + 1, callback |-> callback] IN
          /\ data' = [data EXCEPT ![p] = Insert(@, form)]
          /\ screens' = [screens EXCEPT ![p] = @ \cup {form}]
    /\ sent' = sent + 1
    /\ UNCHANGED online

(***************************************************************************)
(* The client asks for the settings form and a listener of the event       *)
(* server_settings gives one.  Its number is always 0.                     *)
(***************************************************************************)
ServerSettings(p, callback) ==
    /\ p \in online /\ sent < MaxForms
    /\ LET form == [id |-> 0, form |-> sent + 1, callback |-> callback] IN
          /\ data' = [data EXCEPT ![p] = Insert(@, form)]
          /\ screens' = [screens EXCEPT ![p] = @ \cup {form}]
    /\ sent' = sent + 1
    /\ UNCHANGED online

\* The callback that gets the answer to a form with this number.
Found(p, id) == {e \in data[p] : e.id = id}

\* What the callback of an answered form has added to a map.
Grown(map, new) == IF new = {} THEN map ELSE UNION {Insert(map, n) : n \in new}

\* What may remain of a map after the answer to f; `new' is what its callback has sent.
\* The callback may throw; then its entry is erased whatever the answer was.
Answered(map, f, kind, new) ==
    {Erase(Grown(map, new), f.id)}
        \cup (IF kind \in {"bool", "array"} THEN {Grown(map, new)} ELSE {})

(***************************************************************************)
(* The answer to a form.  Its callback runs, which may send another form,  *)
(* given by `next': the empty set or a set with one callback.  Then the    *)
(* entry is erased, if the answer is null or a number or the callback has  *)
(* thrown.  Without a callback nothing happens.                            *)
(***************************************************************************)
Respond(p, f, kind, next) ==
    /\ p \in online /\ f \in screens[p]
    /\ kind \in {"null", AnswerKinds[f.callback.type]}
    /\ \E id \in IF next = {} THEN {0} ELSE Alloc(data[p]) :
          LET new == {[id |-> id, form |-> sent + 1, callback |-> c] : c \in next} IN
          /\ sent' = sent + Cardinality(new) /\ sent' <= MaxForms
          /\ screens' = [screens EXCEPT ![p] = (@ \ {f}) \cup new]
          /\ \E map \in Answered(data[p], f, kind, new) : data' = [data EXCEPT ![p] = map]
    /\ UNCHANGED online

----------------------------------------------------------------------------

FormsTypeOK ==
    /\ online \subseteq Players
    /\ data \in [Players -> SUBSET Form]
    /\ screens \in [Players -> SUBSET Form]
    /\ sent \in 0..MaxForms

(***************************************************************************)
(* The answer to a modal form gets to the callback that was sent with it,  *)
(* whatever other forms the player has before it, however callbacks send   *)
(* forms while theirs are erased, and whoever had the same address before. *)
(* The settings form is the exception: a callback that was not erased, as  *)
(* its form was answered with an array, gets the answer to the next one.   *)
(***************************************************************************)
OwnCallback ==
    \A p \in online : \A f \in screens[p] : f.id # 0 => Found(p, f.id) = {f}

(***************************************************************************)
(* Callbacks are not kept longer than their forms, except for those of     *)
(* forms answered with anything but a number: they stay until the player   *)
(* leaves.                                                                 *)
(***************************************************************************)
ListCallbacksErased ==
    \A p \in Players : \A e \in data[p] :
        e.callback.type = "form" /\ e.id # 0 => e \in screens[p]

(***************************************************************************)
(* An answer finds the callback of its form, and that is not kept behind   *)
(* it (both of the above).                                                 *)
(***************************************************************************)
CallbackPerForm == OwnCallback /\ ListCallbacksErased
=============================================================================
