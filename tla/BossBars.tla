------------------------------ MODULE BossBars ------------------------------
(***************************************************************************)
(* Boss bars (BossBarSupport/bossbar.cpp): bars that scripts put on the    *)
(* screen of a player.  The mod owns a bar through the auxiliary data of   *)
(* its player, a script's handle only refers to it.  When the player       *)
(* changes dimension, bars are removed before and made anew by a timer     *)
(* after; the game may refuse the change when they are removed already.    *)
(* In between and before the timer, scripts go on using them, and the      *)
(* player may leave.                                                       *)
(***************************************************************************)
EXTENDS Naturals, FiniteSets

CONSTANTS
    Players,        \* addresses of player objects
    Bars,           \* each is made once
    RebuildTicks,   \* 20 in the code
    MaxSession      \* bound: how often an address is used

ASSUME BarsAssumption == RebuildTicks \in Nat \ {0} /\ MaxSession \in Nat

VARIABLES
    session,    \* which player is at an address; even: none
    sets,       \* Set::sets, by address: the aux data that owns the bars
    entry,      \* cfg.entry.player of a bar, with its session; <<>> before it is made
    state,      \* Instance::state: what a script asked for last
    timers,     \* <<bar, ticks left>> of the timers Rebuild has set
    actors,     \* per address, bars whose actor is at the client ...
    shown,      \* ... and those it shows
    away,       \* bars removed for a change of dimension that is under way ...
    refused,    \* ... and for one that was then refused
    freed       \* has a timer used a bar that is deleted?

barsVars == <<session, sets, entry, state, timers, actors, shown, away, refused, freed>>

Online(p) == session[p] % 2 = 1
LiveBars == UNION {sets[p] : p \in Players}
Made(b) == entry[b] # <<>>
Owner(b) == entry[b][1]

\* Handle::Valid: the weak pointer has not expired.
Valid(b) == b \in LiveBars

BarsInit ==
    /\ session = [p \in Players |-> 0]
    /\ sets = [p \in Players |-> {}]
    /\ entry = [b \in Bars |-> <<>>]
    /\ state = [b \in Bars |-> TRUE]
    /\ timers = {}
    /\ actors = [p \in Players |-> {}] /\ shown = [p \in Players |-> {}]
    /\ away = {} /\ refused = {} /\ freed = FALSE

\* Hide the bar and remove the actor.
Take(B, p) ==
    /\ actors' = [actors EXCEPT ![p] = @ \ B]
    /\ shown' = [shown EXCEPT ![p] = @ \ B]

\* Handle::Create; scripts pass handles of players who are there.
Create(b, p) ==
    /\ ~Made(b) /\ Online(p)
    /\ entry' = [entry EXCEPT ![b] = <<p, session[p]>>]
    /\ sets' = [sets EXCEPT ![p] = @ \cup {b}]
    /\ actors' = [actors EXCEPT ![p] = @ \cup {b}]
    /\ shown' = [shown EXCEPT ![p] = @ \cup {b}]
    /\ UNCHANGED <<session, state, timers, away, refused, freed>>

Show(b) ==
    /\ Valid(b) /\ state' = [state EXCEPT ![b] = TRUE]
    /\ shown' = [shown EXCEPT ![Owner(b)] = IF b \in actors[Owner(b)] THEN @ \cup {b} ELSE @]
    /\ UNCHANGED <<session, sets, entry, timers, actors, away, refused, freed>>

Hide(b) ==
    /\ Valid(b) /\ state' = [state EXCEPT ![b] = FALSE]
    /\ shown' = [shown EXCEPT ![Owner(b)] = @ \ {b}]
    /\ UNCHANGED <<session, sets, entry, timers, actors, away, refused, freed>>

\* The set gives up its reference, the only one; the destructor hides and removes
\* once more.  A timer of Rebuild stays.
Destory(b) ==
    /\ Valid(b) /\ Take({b}, Owner(b))
    /\ sets' = [sets EXCEPT ![Owner(b)] = @ \ {b}]
    /\ away' = away \ {b} /\ refused' = refused \ {b}
    /\ UNCHANGED <<session, entry, state, timers, freed>>

\* _playerChangeDimension with unk0 = 0: the bars go, and then the game is asked
\* whether it makes the change.  If it does not, nobody brings the bars back.
LeaveDimension(p) ==
    /\ Online(p) /\ Take(sets[p], p)
    /\ \/ away' = away \cup sets[p] /\ refused' = refused \ sets[p]
       \/ refused' = refused \cup (sets[p] \ away) /\ UNCHANGED away
    /\ UNCHANGED <<session, sets, entry, state, timers, freed>>

\* The other call has succeeded: every bar is to be made again when the client is ready.
EnterDimension(p) ==
    /\ Online(p)
    /\ away' = away \ sets[p] /\ refused' = refused \ sets[p]
    /\ timers' = timers \cup {<<b, RebuildTicks>> : b \in sets[p]}
    /\ UNCHANGED <<session, sets, entry, state, actors, shown, freed>>

\* Those whose time has come; they read the bar through a raw this.
Due == {t[1] : t \in {u \in timers : u[2] = 1}}

\* Mutant of BarsTick: the timer only shows the bar.
BarsTick_NoActor ==
    /\ timers # {}
    /\ timers' = {<<t[1], t[2] - 1>> : t \in {u \in timers : u[2] > 1}}
    /\ freed' = (freed \/ ~(Due \subseteq LiveBars))
    /\ shown' = [p \in Players |-> shown[p] \cup (Due \cap sets[p] \cap actors[p])]
    /\ away' = away \ Due /\ refused' = refused \ Due
    /\ UNCHANGED <<session, sets, entry, state, actors>>

\* One tick.  A hidden bar is shown again: the timer does not look at `state'.
BarsTick ==
    /\ timers # {}
    /\ timers' = {<<t[1], t[2] - 1>> : t \in {u \in timers : u[2] > 1}}
    /\ freed' = (freed \/ ~(Due \subseteq LiveBars))
    /\ actors' = [p \in Players |-> actors[p] \cup (Due \cap sets[p])]
    /\ shown' = [p \in Players |-> shown[p] \cup (Due \cap sets[p])]
    /\ away' = away \ Due /\ refused' = refused \ Due
    /\ UNCHANGED <<session, sets, entry, state>>

Join(p) ==
    /\ ~Online(p) /\ session[p] < 2 * MaxSession
    /\ session' = [session EXCEPT ![p] = @ + 1]
    /\ UNCHANGED <<sets, entry, state, timers, actors, shown, away, refused, freed>>

\* _onPlayerLeft erases the auxiliary data, and with it the bars; the client is gone.
Left(p) ==
    /\ Online(p) /\ session' = [session EXCEPT ![p] = @ + 1]
    /\ sets' = [sets EXCEPT ![p] = {}]
    /\ actors' = [actors EXCEPT ![p] = {}] /\ shown' = [shown EXCEPT ![p] = {}]
    /\ away' = away \ sets[p] /\ refused' = refused \ sets[p]
    /\ UNCHANGED <<entry, state, timers, freed>>

\* After a timer has used a deleted bar nothing is known.
BarsNext ==
    /\ ~freed
    /\ \/ \E b \in Bars : (\E p \in Players : Create(b, p)) \/ Show(b) \/ Hide(b) \/ Destory(b)
       \/ \E p \in Players : LeaveDimension(p) \/ EnterDimension(p) \/ Join(p) \/ Left(p)
       \/ BarsTick

BarsSpec == BarsInit /\ [][BarsNext]_barsVars

----------------------------------------------------------------------------

Sessions == 0..(2 * MaxSession)

BarsTypeOK ==
    /\ session \in [Players -> Sessions]
    /\ sets \in [Players -> SUBSET Bars]
    /\ entry \in [Bars -> (Players \X Sessions) \cup {<<>>}]
    /\ state \in [Bars -> BOOLEAN]
    /\ timers \subseteq Bars \X (1..RebuildTicks)
    /\ actors \in [Players -> SUBSET Bars] /\ shown \in [Players -> SUBSET Bars]
    /\ away \subseteq Bars /\ refused \subseteq Bars /\ freed \in BOOLEAN

(***************************************************************************)
(* What a player has on the screen are bars of its own that exist.  It has *)
(* all of those, in view unless a script has hidden them (a rebuilt bar is *)
(* in view even then), but the ones whose timer is to run and the ones     *)
(* that a change of dimension has taken away: a change that is under way,  *)
(* or one that the game has refused.  The latter stay lost until a timer   *)
(* or a later change makes them again (show does not); every other bar,    *)
(* made, hidden or destroyed at any moment of a change, ends up right.     *)
(***************************************************************************)
BarsOnScreen ==
    \A p \in Players :
       /\ shown[p] \subseteq actors[p] /\ actors[p] \subseteq sets[p] \ (away \cup refused)
       /\ \A b \in sets[p] :
             /\ entry[b] = <<p, session[p]>>
             /\ \/ b \in away \cup refused
                \/ \E n \in 1..RebuildTicks : <<b, n>> \in timers
                \/ b \in actors[p] /\ (state[b] => b \in shown[p])
=============================================================================
