------------------------------ MODULE Statements ------------------------------
(***************************************************************************)
(* A prepared statement in the hands of a script                           *)
(* (ScriptingSupport/apiset/sqlite3.cpp).  SQLite takes values only for a  *)
(* statement that is ready, keeps them when it is reset, and starts a      *)
(* statement over that is stepped after its end.  execWith and forEachWith *)
(* bind, run, and clean up; they do not when something throws, and the     *)
(* function that forEach calls may use the statement itself.               *)
(***************************************************************************)
EXTENDS Naturals, Sequences, SequencesExt

CONSTANTS
    Parameters, \* how many the statement has
    Numbers,    \* values SQLite copies
    Text,       \* a text or blob: SQLite keeps its address only
    SqlNull,    \* null and undefined
    Illegal,    \* a value Bind_ refuses
    MaxLoops    \* bound: calls of forEach in progress

Keys == 1..Parameters
Stored == Numbers \cup {Text, SqlNull}
BindTypes == Stored \cup {Illegal}

ASSUME StatementsAssumption ==
    /\ Text \notin Numbers /\ SqlNull \notin Numbers \cup {Text}
    /\ Illegal \notin Stored
    /\ Parameters \in Nat /\ MaxLoops \in Nat

VARIABLES
    stmt,       \* "ready", "row" or "halted"
    bound,      \* values of the parameters
    used,       \* those of the run that was stepped last since the statement was clean ...
    asked,      \* ... and what the call that stepped it was given (both kept while `own')
    loops,      \* forEach's in progress, innermost last: what forEachWith was given,
                \* and whether fn is running
    own,        \* since the statement was last clean, has the script used nothing but
                \* execWith and forEachWith, outside of fn?
    thrown      \* has one of those thrown since, and over what?

statementsVars == <<stmt, bound, used, asked, loops, own, thrown>>

Unbound == [k \in Keys |-> SqlNull]
Clean == stmt = "ready" /\ bound = Unbound

StatementsInit ==
    /\ stmt = "ready" /\ bound = Unbound /\ used = Unbound
    /\ loops = <<>> /\ asked = <<>> /\ own = TRUE /\ thrown = "no"

\* Script code runs: not within forEach, or in fn.
Script == loops # <<>> => Last(loops).called
StillOwn == own' = (own /\ loops = <<>>)

Remember(u, a) == IF own' THEN used' = u /\ asked' = a ELSE used' = Unbound /\ asked' = <<>>

\* What BindAll gives Bind_: the elements of an array, of which there may be too many; ...
Arrays == UNION {[1..n -> BindTypes] : n \in 0..(Parameters + 1)}

\* ... and, as the names of an object's properties are read from the object instead of
\* their list, null for the parameters that the properties 0, 1, ... of an object name.
Listed == UNION {[K -> {SqlNull}] : K \in SUBSET Keys}

ValueMaps == Arrays \cup Listed

\* Any other object: what it means to give the parameters its keys name.
Records == UNION {[K -> BindTypes] : K \in SUBSET Keys \ {{}}}

\* What bind gives it.
Pairs == UNION {[{k} -> BindTypes] : k \in 1..(Parameters + 1)}

Fits(ps, k) == stmt = "ready" /\ k \in Keys /\ ps[k] # Illegal
CanBind(ps) == \A k \in DOMAIN ps : Fits(ps, k)

\* The values are taken in turn, up to the one that throws.
Taken(ps) == {k \in DOMAIN ps : \A j \in DOMAIN ps : j <= k => Fits(ps, j)}
Bound(ps) == [k \in Keys |-> IF k \in Taken(ps) THEN ps[k] ELSE bound[k]]

\* sqlite3_step, for a call that was given ps, with values b: a statement that is not in
\* a run begins one.  A text's memory is gone by then.
RunStep(ps, b, result) ==
    /\ stmt' = result
    /\ Remember(IF stmt = "row" THEN used ELSE [k \in Keys |-> IF b[k] = Text THEN Illegal ELSE b[k]],
            ps)

\* reset and clearBindings: outside of its loops a script may make the statement clean.
Cleaned ==
    IF loops = <<>> /\ stmt' = "ready" /\ bound' = Unbound
    THEN own' = TRUE /\ thrown' = "no" /\ asked' = <<>> /\ used' = Unbound
    ELSE StillOwn /\ Remember(used, asked) /\ UNCHANGED thrown

Reset == Script /\ stmt' = "ready" /\ UNCHANGED <<bound, loops>> /\ Cleaned
ClearBindings == Script /\ bound' = Unbound /\ UNCHANGED <<stmt, loops>> /\ Cleaned

\* bind and bindAll.
BindAll(ps) ==
    /\ Script /\ own' = FALSE
    /\ bound' = Bound(ps)
    /\ Remember(used, asked) /\ UNCHANGED <<stmt, loops, thrown>>

\* "row" and errors throw.
Exec(result) ==
    /\ Script /\ own' = FALSE /\ RunStep(<<>>, bound, result)
    /\ UNCHANGED <<bound, loops, thrown>>

\* execWith and forEachWith throw in BindAll ...
BindThrows(ps) ==
    /\ Script /\ ~CanBind(ps) /\ StillOwn
    /\ bound' = Bound(ps) /\ thrown' = "other"
    /\ Remember(used, asked) /\ UNCHANGED <<stmt, loops>>

\* ... over an object, at the first of its keys, which is undefined.
ObjectThrows(object) ==
    /\ Script /\ StillOwn
    /\ thrown' = IF CanBind(object) THEN "object" ELSE "other"
    /\ Remember(used, asked) /\ UNCHANGED <<stmt, bound, loops>>

\* Mutant of ExecWith: reset only.
ExecWith_NoClear(ps) ==
    /\ Script /\ CanBind(ps) /\ StillOwn
    /\ RunStep(ps, Bound(ps), "ready")
    /\ bound' = Bound(ps) /\ UNCHANGED <<loops, thrown>>

\* To its end; ClearBindings and Reset follow.
ExecWith(ps) ==
    /\ Script /\ CanBind(ps) /\ StillOwn
    /\ RunStep(ps, Bound(ps), "ready")
    /\ bound' = Unbound /\ UNCHANGED <<loops, thrown>>

\* A row or an error: nothing follows.
ExecWithThrows(ps, result) ==
    /\ Script /\ CanBind(ps) /\ StillOwn
    /\ RunStep(ps, Bound(ps), result)
    /\ bound' = Bound(ps) /\ thrown' = "other" /\ UNCHANGED loops

\* forEach (with = FALSE) and forEachWith, up to the first step.
ForEach(ps, with) ==
    /\ Script /\ Len(loops) < MaxLoops
    /\ CanBind(ps) /\ (~with => ps = <<>>)
    /\ bound' = Bound(ps)
    /\ own' = (own /\ with /\ loops = <<>>)
    /\ loops' = Append(loops, [given |-> IF own' THEN ps ELSE <<>>, with |-> with, called |-> FALSE])
    /\ Remember(used, asked) /\ UNCHANGED <<stmt, thrown>>

Stepping == loops # <<>> /\ ~Last(loops).called
Called(b) == loops' = Front(loops) \o <<[Last(loops) EXCEPT !.called = b]>>

NextRow ==
    /\ Stepping /\ UNCHANGED <<bound, own, thrown>>
    /\ RunStep(Last(loops).given, bound, "row") /\ Called(TRUE)

\* SQLITE_DONE, and what forEachWith does behind it.
LastRow ==
    /\ Stepping /\ loops' = Front(loops) /\ UNCHANGED <<own, thrown>>
    /\ RunStep(Last(loops).given, bound, IF Last(loops).with THEN "ready" ELSE "halted")
    /\ bound' = IF Last(loops).with THEN Unbound ELSE bound

StepFails ==
    /\ Stepping /\ loops' = Front(loops) /\ UNCHANGED <<bound, own>>
    /\ RunStep(Last(loops).given, bound, "halted") /\ thrown' = "other"

\* fn returns true or nothing ...
CallbackReturns ==
    /\ loops # <<>> /\ Script /\ Called(FALSE)
    /\ UNCHANGED <<stmt, bound, used, asked, own, thrown>>

\* ... or false, or throws: both throw out of forEach.
CallbackStops ==
    /\ loops # <<>> /\ Script /\ loops' = Front(loops) /\ thrown' = "other"
    /\ UNCHANGED <<stmt, bound, used, asked, own>>

StatementsNext ==
    \/ Reset \/ ClearBindings
    \/ \E ps \in ValueMaps \cup Pairs : BindAll(ps)
    \/ \E ps \in ValueMaps :
          \/ BindThrows(ps)
          \/ ExecWith(ps)
          \/ \E result \in {"row", "halted"} : ExecWithThrows(ps, result)
          \/ \E with \in BOOLEAN : ForEach(ps, with)
    \/ \E object \in Records : ObjectThrows(object)
    \/ \E result \in {"row", "halted"} : Exec(result)
    \/ NextRow \/ LastRow \/ StepFails \/ CallbackReturns \/ CallbackStops

StatementsSpec == StatementsInit /\ [][StatementsNext]_statementsVars

----------------------------------------------------------------------------

(***************************************************************************)
(* A script that uses a statement only through execWith and forEachWith,   *)
(* not from within its own loop: whatever has thrown, a call that is not   *)
(* refused runs the statement with every value it gives (but a text may    *)
(* have become anything), as SQLite refuses values for a run that was left *)
(* behind.  Parameters it gives no value for are null, and the statement   *)
(* is clean between the calls, unless a call has thrown and the script has *)
(* not called reset and clearBindings since: then it may run on with the   *)
(* values of an earlier call.                                              *)
(***************************************************************************)
OwnParameters ==
    own =>
       /\ \A k \in DOMAIN asked : asked[k] # Text => used[k] = asked[k]
       /\ thrown = "no" =>
             /\ \A k \in Keys \ DOMAIN asked : used[k] = SqlNull
             /\ loops = <<>> => Clean

(***************************************************************************)
(* What ez.d.ts declares: execWith and forEachWith take an object of       *)
(* values by the names of the parameters.                                  *)
(***************************************************************************)
ObjectsBind == thrown # "object"
=============================================================================
