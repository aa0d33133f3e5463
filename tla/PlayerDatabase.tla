--------------------------- MODULE PlayerDatabase ---------------------------
(***************************************************************************)
(* The player database of Base/playerdatabase.cpp: the container of online *)
(* players with its unique indices, the events "joined" and "left", the    *)
(* auxiliary data mods attach to a player, and the tables user, login and  *)
(* logout.                                                                 *)
(*                                                                         *)
(* A Player object of the game is its address, and the game reuses the     *)
(* address of an object it has deleted.  Which players connect, and when   *)
(* they leave, is the game's choice.  Both hooks run on the server thread  *)
(* from beginning to end; what can go wrong inside them is an exception,   *)
(* thrown by a listener of an event or by SQLite.                          *)
(***************************************************************************)
EXTENDS Integers, FiniteSets

CONSTANTS
    Addresses,     \* where the game allocates Player objects
    Identities,    \* what a certificate says: records with name, xuid and uuid
    NotANumber,    \* the xuid std::stoull throws on
    NListeners,    \* listeners of each event, called in the order 1..NListeners
    MayThrow,      \* the listeners of each event that may throw
    SqlMayFail,    \* may a statement throw?
    MaxSkew        \* bound: how far login and logout rows may come apart

ASSUME InputAssumption ==
    /\ Identities # {}
    /\ NListeners \in Nat /\ MaxSkew \in Nat \ {0}
    /\ MayThrow \subseteq 1..NListeners
    /\ SqlMayFail \in BOOLEAN

Names == {id.name : id \in Identities}
Xuids == {id.xuid : id \in Identities}
Uuids == {id.uuid : id \in Identities}

\* An entry holds the address and the identity.  The fifth index, on the network
\* identifier, is left out: each connection has its own, like its own address.
PlayerEntry == [player : Addresses, name : Names, xuid : Xuids, uuid : Uuids]

UserRow == [uuid : Uuids, xuid : Xuids, name : Names]

NoAux == "none"

VARIABLES
    alive,      \* addresses that hold a Player object
    identity,   \* whose object it is, for the addresses in alive
    leaving,    \* objects the game was told to kick, or has begun to remove
    container,  \* PlayerDatabase::data
    aux,        \* auxmap: none, or the xuid of the player it was made for
    told,       \* for each listener, the entries it was told joined and not left
    users,      \* the table user
    sessions,   \* for each uuid, its rows in login minus those in logout
    handles     \* entries scripts keep a copy of

vars == <<alive, identity, leaving, container, aux, told, users, sessions, handles>>

\* The difference of two row counts, capped at the bound.
Capped(n) == IF n > MaxSkew THEN MaxSkew ELSE IF n < -MaxSkew THEN -MaxSkew ELSE n

Entry(p, id) == [player |-> p, name |-> id.name, xuid |-> id.xuid, uuid |-> id.uuid]

Players == {e.player : e \in container}

\* The indices on which two entries collide.
Collide(e, f) ==
    e.player = f.player \/ e.name = f.name \/ e.xuid = f.xuid \/ e.uuid = f.uuid

----------------------------------------------------------------------------

Init ==
    /\ alive = {} /\ leaving = {} /\ container = {} /\ users = {} /\ handles = {}
    /\ identity = [p \in Addresses |-> CHOOSE id \in Identities : TRUE]
    /\ aux = [p \in Addresses |-> NoAux]
    /\ told = [i \in 1..NListeners |-> {}]
    /\ sessions = [u \in Uuids |-> 0]

\* Where the game puts the object.  Whether it keeps out a player whose identity
\* is online already is left open.
Admits(p, id) == p \notin alive

\* INSERT OR REPLACE: uuid is the primary key.
Replace(id) ==
    {r \in users : r.uuid # id.uuid} \cup
        {[uuid |-> id.uuid, xuid |-> id.xuid, name |-> id.name]}

\* "joined" reaches the listeners 1..n.
Joined(e, n) ==
    told' = [i \in 1..NListeners |-> IF i <= n THEN told[i] \cup {e} ELSE told[i]]

\* Mutant of Emplaced: the index on the address alone is unique.
Emplaced_ByAddress(e, ref) ==
    IF \E f \in container : f.player = e.player
    THEN ref \in container /\ e.player = ref.player /\ container' = container
    ELSE ref = e /\ container' = container \cup {e}

(***************************************************************************)
(* What emplace leaves in the container, and the entry it returns: the new *)
(* one, or one that it collides with.                                      *)
(***************************************************************************)
Emplaced(e, ref) ==
    IF \E f \in container : Collide(e, f)
    THEN ref \in container /\ Collide(e, ref) /\ container' = container
    ELSE ref = e /\ container' = container \cup {e}

(***************************************************************************)
(* The hook on createNewPlayer.  Its try block, by how far it gets: the    *)
(* xuid cannot be parsed; a listener throws; a statement throws; the end.  *)
(* Except for the last, the player is kicked and the rest is skipped.      *)
(***************************************************************************)
IllegalXuid(p, id) ==
    /\ Admits(p, id) /\ id.xuid = NotANumber
    /\ leaving' = leaving \cup {p}
    /\ UNCHANGED <<container, told, users, sessions, handles>>

\* Mutant of ListenerThrows: the entry is taken back without "left".
ListenerThrows_Rollback(p, id, ref) ==
    /\ Admits(p, id) /\ id.xuid # NotANumber
    /\ ref = Entry(p, id) /\ container' = container
    /\ \E n \in MayThrow : Joined(ref, n - 1)
    /\ leaving' = leaving \cup {p}
    /\ UNCHANGED <<users, sessions, handles>>

\* Mutant of ListenerThrows: the exception is swallowed.
ListenerThrows_NoKick(p, id, ref) ==
    /\ Admits(p, id) /\ id.xuid # NotANumber
    /\ Emplaced(Entry(p, id), ref)
    /\ \E n \in MayThrow : Joined(ref, n - 1)
    /\ UNCHANGED <<users, sessions, handles, leaving>>

ListenerThrows(p, id, ref) ==
    /\ Admits(p, id) /\ id.xuid # NotANumber
    /\ Emplaced(Entry(p, id), ref)
    /\ \E n \in MayThrow : Joined(ref, n - 1)
    /\ leaving' = leaving \cup {p}
    /\ handles' \in {handles, handles \cup {ref}}
    /\ UNCHANGED <<users, sessions>>

SqlThrows(p, id, ref) ==
    /\ SqlMayFail
    /\ Admits(p, id) /\ id.xuid # NotANumber
    /\ Emplaced(Entry(p, id), ref)
    /\ Joined(ref, NListeners)
    /\ users' \in {users, Replace(id)}
    /\ leaving' = leaving \cup {p}
    /\ handles' = handles \cup {ref}
    /\ UNCHANGED sessions

PlayerJoins(p, id, ref) ==
    /\ Admits(p, id) /\ id.xuid # NotANumber
    /\ Emplaced(Entry(p, id), ref)
    /\ Joined(ref, NListeners)
    /\ users' = Replace(id)
    /\ sessions' = [sessions EXCEPT ![id.uuid] = Capped(@ + 1)]
    /\ handles' = handles \cup {ref}
    /\ UNCHANGED leaving

CreateNewPlayer(p, id) ==
    /\ \/ IllegalXuid(p, id)
       \/ \E ref \in container \cup {Entry(p, id)} :
             ListenerThrows(p, id, ref) \/ SqlThrows(p, id, ref) \/ PlayerJoins(p, id, ref)
    /\ alive' = alive \cup {p}
    /\ identity' = [identity EXCEPT ![p] = id]
    /\ UNCHANGED aux

(***************************************************************************)
(* The hook on _onPlayerLeft, for a player in the container; the others    *)
(* are ignored.  The row of the logout comes first, then "left".  If the   *)
(* statement or a listener throws, the exception leaves the hook with the  *)
(* entry and the auxiliary data in place and the object not released: the  *)
(* connection is gone, the player is not.                                  *)
(***************************************************************************)
LogoutThrows(p) ==
    /\ SqlMayFail
    /\ leaving' = leaving \cup {p}
    /\ UNCHANGED <<alive, container, aux, told, sessions>>

LeftListenerThrows(p, e) ==
    /\ sessions' = [sessions EXCEPT ![e.uuid] = Capped(@ - 1)]
    /\ \E n \in MayThrow :
          told' = [i \in 1..NListeners |-> IF i < n THEN told[i] \ {e} ELSE told[i]]
    /\ leaving' = leaving \cup {p}
    /\ UNCHANGED <<alive, container, aux>>

\* Mutant of Released: the auxiliary data is kept.
Released_KeepAux(p, e) ==
    /\ sessions' = [sessions EXCEPT ![e.uuid] = Capped(@ - 1)]
    /\ told' = [i \in 1..NListeners |-> told[i] \ {e}]
    /\ container' = container \ {e}
    /\ alive' = alive \ {p} /\ leaving' = leaving \ {p}
    /\ UNCHANGED aux

\* Mutant of Released: the original is not called.
Released_NoOriginal(p, e) ==
    /\ sessions' = [sessions EXCEPT ![e.uuid] = Capped(@ - 1)]
    /\ told' = [i \in 1..NListeners |-> told[i] \ {e}]
    /\ aux' = [aux EXCEPT ![p] = NoAux]
    /\ container' = container \ {e}
    /\ UNCHANGED <<alive, leaving>>

\* Nothing throws: the game's own function is called and deletes the object.
Released(p, e) ==
    /\ sessions' = [sessions EXCEPT ![e.uuid] = Capped(@ - 1)]
    /\ told' = [i \in 1..NListeners |-> told[i] \ {e}]
    /\ aux' = [aux EXCEPT ![p] = NoAux]
    /\ container' = container \ {e}
    /\ alive' = alive \ {p} /\ leaving' = leaving \ {p}

PlayerLeft(p) ==
    /\ p \in alive
    /\ \E e \in container :
          /\ e.player = p
          /\ LogoutThrows(p) \/ LeftListenerThrows(p, e) \/ Released(p, e)
    /\ UNCHANGED <<identity, users, handles>>

\* GetAuxAuto, as called with the entry a script handle holds: a copy, which the
\* script may keep after the player has left.
GetAux(h) ==
    /\ h \in handles
    /\ aux[h.player] = NoAux
    /\ aux' = [aux EXCEPT ![h.player] = h.xuid]
    /\ UNCHANGED <<alive, identity, leaving, container, told, users, sessions, handles>>

Next ==
    \/ \E p \in Addresses, id \in Identities : CreateNewPlayer(p, id)
    \/ \E p \in Addresses : PlayerLeft(p)
    \/ \E h \in handles : GetAux(h)

Spec == Init /\ [][Next]_vars

----------------------------------------------------------------------------

TypeOK ==
    /\ alive \subseteq Addresses
    /\ identity \in [Addresses -> Identities]
    /\ leaving \subseteq alive
    /\ container \subseteq PlayerEntry
    /\ aux \in [Addresses -> Xuids \cup {NoAux}]
    /\ told \in [1..NListeners -> SUBSET PlayerEntry]
    /\ users \subseteq UserRow
    /\ sessions \in [Uuids -> Int]
    /\ handles \subseteq PlayerEntry

(***************************************************************************)
(* No pointer dangles: every entry is for an object that is alive and for  *)
(* the player whose object it is, and no two entries share a key - even    *)
(* when identities collide, and when a listener or a statement throws      *)
(* halfway through a join or while the player is leaving.                  *)
(***************************************************************************)
EntriesOwned ==
    /\ \A e \in container : e.player \in alive /\ e = Entry(e.player, identity[e.player])
    /\ \A e, f \in container : Collide(e, f) => e = f

(***************************************************************************)
(* A listener that keeps the players it was told of, as teleport requests, *)
(* the bus and scripts do, never keeps one that is gone: whatever a join   *)
(* that fails has announced, "left" takes it back, and a leave that fails  *)
(* halfway leaves the entry where those not yet told find it.              *)
(***************************************************************************)
NoStaleListener == \A i \in 1..NListeners : told[i] \subseteq container

(***************************************************************************)
(* Every player in the database is known to every listener, unless the     *)
(* join failed and the player is being kicked, or a leave failed halfway.  *)
(***************************************************************************)
AnnouncedOrLeaving ==
    \A e \in container : e.player \in leaving \/ \A i \in 1..NListeners : e \in told[i]

(***************************************************************************)
(* When nothing throws and the game keeps identities apart, the table user *)
(* has for every online player the row that looking the player up offline  *)
(* relies on, with the name in use now, and the tables count a login       *)
(* without a logout.                                                       *)
(***************************************************************************)
UserRowCurrent ==
    \A e \in container :
        /\ [uuid |-> e.uuid, xuid |-> e.xuid, name |-> e.name] \in users
        /\ sessions[e.uuid] = 1

(***************************************************************************)
(* When nothing throws and the game keeps identities apart, the only       *)
(* object that is never released, because the hook on leaving ignores it,  *)
(* is that of a player without a numeric xuid.                             *)
(***************************************************************************)
OnlyIllegalLinger ==
    \A p \in alive : p \in Players \/ identity[p].xuid = NotANumber

\* What is kept for the address was made for the player who is there.
Own(p) == aux[p] # NoAux => \E e \in container : e.player = p /\ e.xuid = aux[p]

(***************************************************************************)
(* Auxiliary data of an earlier player at the same address comes from one  *)
(* place only: a lookup through a handle that a script kept of a player    *)
(* who has left, at an address without data.  No join, no leave and no     *)
(* exception makes it, and nothing survives the entry it was made for.     *)
(***************************************************************************)
AuxStaysOwn ==
    [][\A p \in Addresses :
          /\ Own(p) /\ ~Own(p)' =>
                \E h \in handles \ container :
                    h.player = p /\ aux[p] = NoAux /\ aux'[p] = h.xuid
          /\ (\E e \in container \ container' : e.player = p) => aux'[p] = NoAux]_vars
=============================================================================
