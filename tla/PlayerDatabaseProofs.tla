------------------------ MODULE PlayerDatabaseProofs ------------------------
(***************************************************************************)
(* What the player database promises, proved for every set of identities   *)
(* and every choice of what may throw.                                     *)
(***************************************************************************)
EXTENDS MCPlayerDatabase, TLAPS

(***************************************************************************)
(* How one step changes the container, the listeners and the objects: a    *)
(* join adds at most its own entry and tells only of entries that are in   *)
(* the container, a leave removes the entry everywhere or, if it fails, is *)
(* heard by some listeners only, and the rest leaves the three alone.      *)
(***************************************************************************)
JoinStep(p, id) ==
    /\ p \notin alive /\ alive' = alive \cup {p}
    /\ identity' = [identity EXCEPT ![p] = id]
    /\ \/ container' = container
       \/ /\ container' = container \cup {Entry(p, id)} /\ id.xuid # NotANumber
          /\ \A f \in container : ~Collide(Entry(p, id), f)
    /\ \/ told' = told
       \/ \E ref \in container', n \in Int : Joined(ref, n)

LeaveStep(p) ==
    /\ alive' = alive \ {p} /\ identity' = identity
    /\ \E e \in container :
          /\ e.player = p
          /\ container' = container \ {e}
          /\ told' = [i \in 1..NListeners |-> told[i] \ {e}]

HalfStep ==
    /\ UNCHANGED <<alive, identity, container>>
    /\ \E e \in container, n \in Int :
          told' = [i \in 1..NListeners |-> IF i < n THEN told[i] \ {e} ELSE told[i]]

LEMMA JoinIsStep ==
    ASSUME NEW p \in Addresses, NEW id \in Identities, CreateNewPlayer(p, id)
    PROVE  JoinStep(p, id)
<1>1. p \notin alive /\ alive' = alive \cup {p} /\ identity' = [identity EXCEPT ![p] = id]
  BY DEF CreateNewPlayer, IllegalXuid, ListenerThrows, SqlThrows, PlayerJoins, Admits
<1>2. CASE IllegalXuid(p, id)
  BY <1>1, <1>2 DEF IllegalXuid, JoinStep
<1>3. ASSUME NEW ref, NEW n \in Int, id.xuid # NotANumber,
             Emplaced(Entry(p, id), ref), Joined(ref, n)
      PROVE  JoinStep(p, id)
  BY <1>1, <1>3 DEF Emplaced, JoinStep
<1>4. ASSUME NEW ref, ListenerThrows(p, id, ref) PROVE JoinStep(p, id)
  BY <1>3, <1>4, InputAssumption DEF ListenerThrows
<1>5. ASSUME NEW ref, SqlThrows(p, id, ref) \/ PlayerJoins(p, id, ref) PROVE JoinStep(p, id)
  BY <1>3, <1>5, InputAssumption DEF SqlThrows, PlayerJoins
<1> QED
  BY <1>2, <1>4, <1>5 DEF CreateNewPlayer

LEMMA StepCases ==
    ASSUME [Next]_vars
    PROVE  \/ \E p \in Addresses, id \in Identities : JoinStep(p, id)
           \/ \E p \in Addresses : LeaveStep(p)
           \/ HalfStep
           \/ UNCHANGED <<alive, identity, container, told>>
<1>1. ASSUME NEW p \in Addresses, NEW id \in Identities, CreateNewPlayer(p, id)
      PROVE  JoinStep(p, id)
  BY <1>1, JoinIsStep
<1>2. ASSUME NEW p \in Addresses, PlayerLeft(p)
      PROVE  LeaveStep(p) \/ HalfStep \/ UNCHANGED <<alive, identity, container, told>>
  <2>1. identity' = identity
    BY <1>2 DEF PlayerLeft
  <2>2. PICK e \in container : /\ e.player = p
                               /\ LogoutThrows(p) \/ LeftListenerThrows(p, e) \/ Released(p, e)
    BY <1>2 DEF PlayerLeft
  <2>3. CASE LogoutThrows(p)
    BY <2>1, <2>3 DEF LogoutThrows
  <2>4. CASE LeftListenerThrows(p, e)
    <3>1. PICK n \in MayThrow :
             told' = [i \in 1..NListeners |-> IF i < n THEN told[i] \ {e} ELSE told[i]]
      BY <2>4 DEF LeftListenerThrows
    <3>2. n \in Int
      BY InputAssumption
    <3> QED
      BY <2>1, <2>4, <3>1, <3>2 DEF LeftListenerThrows, HalfStep
  <2>5. CASE Released(p, e)
    BY <2>1, <2>2, <2>5 DEF Released, LeaveStep
  <2> QED
    BY <2>2, <2>3, <2>4, <2>5
<1>3. ASSUME NEW h \in handles, GetAux(h)
      PROVE  UNCHANGED <<alive, identity, container, told>>
  BY <1>3 DEF GetAux
<1>4. CASE UNCHANGED vars
  BY <1>4 DEF vars
<1> QED
  BY <1>1, <1>2, <1>3, <1>4 DEF Next

----------------------------------------------------------------------------

\* The part of the type invariant the proofs need.
CoreType ==
    /\ identity \in [Addresses -> Identities]
    /\ container \subseteq PlayerEntry
    /\ told \in [1..NListeners -> SUBSET PlayerEntry]

LEMMA EntryType ==
    ASSUME NEW p \in Addresses, NEW id \in Identities
    PROVE  Entry(p, id) \in PlayerEntry
BY DEF Entry, PlayerEntry, Names, Xuids, Uuids

\* An xuid that does not parse ends the join before the entry is made.
Numeric == \A e \in container : e.xuid # NotANumber

DatabaseInv == CoreType /\ EntriesOwned /\ NoStaleListener /\ Numeric

LEMMA DatabaseInvStep == DatabaseInv /\ [Next]_vars => DatabaseInv'
<1> SUFFICES ASSUME DatabaseInv, [Next]_vars PROVE DatabaseInv'
  OBVIOUS
<1> USE DEF DatabaseInv, CoreType
<1>1. ASSUME NEW p \in Addresses, NEW id \in Identities, JoinStep(p, id) PROVE DatabaseInv'
  <2>1. Entry(p, id) \in PlayerEntry
    BY EntryType
  <2>2. identity' \in [Addresses -> Identities] /\ container' \subseteq PlayerEntry
    BY <1>1, <2>1 DEF JoinStep
  <2>3. told' \in [1..NListeners -> SUBSET PlayerEntry] /\ NoStaleListener'
    BY <1>1, <2>2 DEF JoinStep, Joined, NoStaleListener
  <2>4. EntriesOwned'
    <3>1. \A e \in container : e.player \in alive /\ e.player # p
      BY <1>1 DEF JoinStep, EntriesOwned
    <3>2. \A e \in container : e.player \in alive' /\ e = Entry(e.player, identity'[e.player])
      BY <1>1, <3>1 DEF JoinStep, EntriesOwned, PlayerEntry
    <3>3. LET e == Entry(p, id) IN e.player \in alive' /\ e = Entry(e.player, identity'[e.player])
      BY <1>1 DEF JoinStep, Entry
    <3>4. \A e, f \in container' : Collide(e, f) => e = f
      BY <1>1 DEF JoinStep, EntriesOwned, Collide
    <3> QED
      BY <1>1, <3>2, <3>3, <3>4 DEF JoinStep, EntriesOwned
  <2>5. Numeric'
    BY <1>1 DEF JoinStep, Numeric, Entry
  <2> QED
    BY <2>2, <2>3, <2>4, <2>5
<1>2. ASSUME NEW p \in Addresses, LeaveStep(p) PROVE DatabaseInv'
  <2>1. CoreType' /\ NoStaleListener'
    BY <1>2 DEF LeaveStep, NoStaleListener
  <2>2. \A f \in container' : f \in container /\ f.player # p
    BY <1>2 DEF LeaveStep, EntriesOwned, Collide
  <2>3. EntriesOwned'
    BY <1>2, <2>2 DEF LeaveStep, EntriesOwned
  <2> QED
    BY <2>1, <2>2, <2>3 DEF Numeric
<1>3. CASE HalfStep
  <2>1. \A i \in 1..NListeners : told'[i] \subseteq told[i]
    BY <1>3 DEF HalfStep
  <2>2. told' \in [1..NListeners -> SUBSET PlayerEntry] /\ NoStaleListener'
    BY <1>3, <2>1 DEF HalfStep, NoStaleListener
  <2>3. EntriesOwned'
    BY <1>3 DEF HalfStep, EntriesOwned
  <2> QED
    BY <1>3, <2>2, <2>3 DEF HalfStep, Numeric
<1>4. CASE UNCHANGED <<alive, identity, container, told>>
  BY <1>4 DEF EntriesOwned, NoStaleListener, Numeric
<1> QED
  BY <1>1, <1>2, <1>3, <1>4, StepCases

LEMMA DatabaseInvInit == Init => DatabaseInv
<1> SUFFICES ASSUME Init PROVE DatabaseInv
  OBVIOUS
<1>1. (CHOOSE id \in Identities : TRUE) \in Identities
  BY InputAssumption
<1> QED
  BY <1>1 DEF Init, DatabaseInv, CoreType, EntriesOwned, NoStaleListener, Numeric

(***************************************************************************)
(* No pointer in the database dangles and no two entries share a key,      *)
(* whatever collides and whatever throws.                                  *)
(***************************************************************************)
THEOREM EntriesAreOwned == Spec => []EntriesOwned
<1>1. DatabaseInv => EntriesOwned
  BY DEF DatabaseInv
<1> QED
  BY <1>1, DatabaseInvInit, DatabaseInvStep, PTL DEF Spec

(***************************************************************************)
(* No listener keeps a player that is gone.                                *)
(***************************************************************************)
THEOREM ListenersAreCurrent == Spec => []NoStaleListener
<1>1. DatabaseInv => NoStaleListener
  BY DEF DatabaseInv
<1> QED
  BY <1>1, DatabaseInvInit, DatabaseInvStep, PTL DEF Spec

----------------------------------------------------------------------------

LEMMA AnnouncedStep ==
    DatabaseInv /\ AnnouncedOrLeaving /\ [Next]_vars => AnnouncedOrLeaving'
<1> SUFFICES ASSUME DatabaseInv, AnnouncedOrLeaving, [Next]_vars PROVE AnnouncedOrLeaving'
  OBVIOUS
<1> USE DEF DatabaseInv, CoreType
<1>1. ASSUME NEW p \in Addresses, NEW id \in Identities, NEW ref, NEW n \in Int,
             Emplaced(Entry(p, id), ref), Joined(ref, n), leaving \subseteq leaving',
             p \in leaving' \/ n = NListeners
      PROVE  AnnouncedOrLeaving'
  <2>1. \A i \in 1..NListeners : told[i] \subseteq told'[i]
    BY <1>1 DEF Joined
  <2>2. ASSUME NEW e \in container PROVE e.player \in leaving' \/ \A i \in 1..NListeners : e \in told'[i]
    BY <1>1, <2>1 DEF AnnouncedOrLeaving
  <2>3. CASE container' = container
    BY <2>2, <2>3 DEF AnnouncedOrLeaving
  <2>4. CASE container' # container
    <3>1. ref = Entry(p, id) /\ container' = container \cup {ref} /\ ref.player = p
      BY <1>1, <2>4 DEF Emplaced, Entry
    <3>2. n = NListeners => \A i \in 1..NListeners : ref \in told'[i]
      BY <1>1, InputAssumption DEF Joined
    <3> QED
      BY <1>1, <2>2, <3>1, <3>2 DEF AnnouncedOrLeaving
  <2> QED
    BY <2>3, <2>4
<1>2. ASSUME NEW p \in Addresses, NEW id \in Identities, CreateNewPlayer(p, id)
      PROVE  AnnouncedOrLeaving'
  <2>1. CASE IllegalXuid(p, id)
    BY <2>1 DEF IllegalXuid, AnnouncedOrLeaving
  <2>2. ASSUME NEW ref, ListenerThrows(p, id, ref) PROVE AnnouncedOrLeaving'
    <3>1. PICK n \in MayThrow : Joined(ref, n - 1)
      BY <2>2 DEF ListenerThrows
    <3>2. n - 1 \in Int
      BY InputAssumption
    <3> QED
      BY <1>1, <2>2, <3>1, <3>2 DEF ListenerThrows
  <2>3. ASSUME NEW ref, SqlThrows(p, id, ref) \/ PlayerJoins(p, id, ref) PROVE AnnouncedOrLeaving'
    BY <1>1, <2>3, InputAssumption DEF SqlThrows, PlayerJoins
  <2> QED
    BY <1>2, <2>1, <2>2, <2>3 DEF CreateNewPlayer
<1>3. ASSUME NEW p \in Addresses, PlayerLeft(p) PROVE AnnouncedOrLeaving'
  <2>1. PICK e \in container : /\ e.player = p
                               /\ LogoutThrows(p) \/ LeftListenerThrows(p, e) \/ Released(p, e)
    BY <1>3 DEF PlayerLeft
  <2>2. \A f \in container : f.player = p => f = e
    BY <2>1 DEF EntriesOwned, Collide
  <2>3. CASE LogoutThrows(p)
    BY <2>3 DEF LogoutThrows, AnnouncedOrLeaving
  <2>4. CASE LeftListenerThrows(p, e)
    <3>1. container' = container /\ leaving' = leaving \cup {p}
      BY <2>4 DEF LeftListenerThrows
    <3>2. ASSUME NEW f \in container, f # e, NEW i \in 1..NListeners, f \in told[i]
          PROVE  f \in told'[i]
      BY <2>4, <3>2 DEF LeftListenerThrows
    <3> QED
      BY <2>1, <3>1, <3>2 DEF AnnouncedOrLeaving
  <2>5. CASE Released(p, e)
    BY <2>1, <2>2, <2>5 DEF Released, AnnouncedOrLeaving
  <2> QED
    BY <2>1, <2>3, <2>4, <2>5
<1>4. ASSUME NEW h \in handles, GetAux(h) PROVE AnnouncedOrLeaving'
  BY <1>4 DEF GetAux, AnnouncedOrLeaving
<1>5. CASE UNCHANGED vars
  BY <1>5 DEF vars, AnnouncedOrLeaving
<1> QED
  BY <1>2, <1>3, <1>4, <1>5 DEF Next

(***************************************************************************)
(* Every listener knows every player in the database, but for those whose  *)
(* join has failed, who are being kicked, and those whose leave has.       *)
(***************************************************************************)
THEOREM PlayersAreAnnounced == Spec => []AnnouncedOrLeaving
<1>1. Init => AnnouncedOrLeaving
  BY DEF Init, AnnouncedOrLeaving
<1> QED
  BY <1>1, AnnouncedStep, DatabaseInvInit, DatabaseInvStep, PTL DEF Spec

----------------------------------------------------------------------------

LEMMA TypeStep == TypeOK /\ [Next]_vars => TypeOK'
<1> SUFFICES ASSUME TypeOK, [Next]_vars PROVE TypeOK'
  OBVIOUS
<1> USE DEF TypeOK
<1>1. ASSUME NEW p \in Addresses, NEW id \in Identities, CreateNewPlayer(p, id) PROVE TypeOK'
  <2>1. /\ alive' = alive \cup {p} /\ identity' = [identity EXCEPT ![p] = id] /\ aux' = aux
    BY <1>1 DEF CreateNewPlayer
  <2>2. Entry(p, id) \in PlayerEntry
    BY EntryType
  <2>3. CASE IllegalXuid(p, id)
    BY <2>1, <2>3 DEF IllegalXuid
  <2>4. ASSUME NEW ref \in container \cup {Entry(p, id)}, NEW n \in Int,
               Emplaced(Entry(p, id), ref), Joined(ref, n)
        PROVE  container' \subseteq PlayerEntry /\ told' \in [1..NListeners -> SUBSET PlayerEntry]
    BY <2>2, <2>4 DEF Emplaced, Joined
  <2>5. ASSUME NEW ref \in container \cup {Entry(p, id)}, ListenerThrows(p, id, ref) PROVE TypeOK'
    <3>1. PICK n \in MayThrow : Joined(ref, n - 1)
      BY <2>5 DEF ListenerThrows
    <3>2. n - 1 \in Int
      BY InputAssumption
    <3>3. container' \subseteq PlayerEntry /\ told' \in [1..NListeners -> SUBSET PlayerEntry]
      BY <2>4, <2>5, <3>1, <3>2 DEF ListenerThrows
    <3> QED
      BY <2>1, <2>2, <2>5, <3>3 DEF ListenerThrows
  <2>6. [uuid |-> id.uuid, xuid |-> id.xuid, name |-> id.name] \in UserRow
    BY DEF UserRow, Names, Xuids, Uuids
  <2>7. ASSUME NEW ref \in container \cup {Entry(p, id)}, SqlThrows(p, id, ref) PROVE TypeOK'
    <3>1. container' \subseteq PlayerEntry /\ told' \in [1..NListeners -> SUBSET PlayerEntry]
      BY <2>4, <2>7, InputAssumption DEF SqlThrows
    <3> QED
      BY <2>1, <2>2, <2>6, <2>7, <3>1 DEF SqlThrows, Replace
  <2>8. ASSUME NEW ref \in container \cup {Entry(p, id)}, PlayerJoins(p, id, ref) PROVE TypeOK'
    <3>1. container' \subseteq PlayerEntry /\ told' \in [1..NListeners -> SUBSET PlayerEntry]
      BY <2>4, <2>8, InputAssumption DEF PlayerJoins
    <3>2. \A n \in Int : Capped(n + 1) \in Int
      BY InputAssumption DEF Capped
    <3>3. sessions' \in [Uuids -> Int]
      BY <2>8, <3>2 DEF PlayerJoins
    <3> QED
      BY <2>1, <2>2, <2>6, <2>8, <3>1, <3>3 DEF PlayerJoins, Replace
  <2> QED
    BY <1>1, <2>3, <2>5, <2>7, <2>8 DEF CreateNewPlayer
<1>2. ASSUME NEW p \in Addresses, PlayerLeft(p) PROVE TypeOK'
  <2>1. \A n \in Int : Capped(n - 1) \in Int
    BY InputAssumption DEF Capped
  <2>2. PICK e \in container : LogoutThrows(p) \/ LeftListenerThrows(p, e) \/ Released(p, e)
    BY <1>2 DEF PlayerLeft
  <2>3. e.uuid \in Uuids
    BY DEF PlayerEntry
  <2>4. UNCHANGED <<identity, users, handles>> /\ p \in alive
    BY <1>2 DEF PlayerLeft
  <2>5. CASE LogoutThrows(p)
    BY <2>4, <2>5 DEF LogoutThrows
  <2>6. CASE LeftListenerThrows(p, e)
    <3>1. sessions' \in [Uuids -> Int]
      BY <2>1, <2>3, <2>6 DEF LeftListenerThrows
    <3>2. told' \in [1..NListeners -> SUBSET PlayerEntry]
      BY <2>6 DEF LeftListenerThrows
    <3> QED
      BY <2>4, <2>6, <3>1, <3>2 DEF LeftListenerThrows
  <2>7. CASE Released(p, e)
    <3>1. sessions' \in [Uuids -> Int]
      BY <2>1, <2>3, <2>7 DEF Released
    <3> QED
      BY <2>4, <2>7, <3>1 DEF Released
  <2> QED
    BY <2>2, <2>5, <2>6, <2>7
<1>3. ASSUME NEW h \in handles, GetAux(h) PROVE TypeOK'
  <2>1. h.xuid \in Xuids
    BY DEF PlayerEntry
  <2> QED
    BY <1>3, <2>1 DEF GetAux
<1>4. CASE UNCHANGED vars
  BY <1>4 DEF vars
<1> QED
  BY <1>1, <1>2, <1>3, <1>4 DEF Next

LEMMA TypeInit == Init => TypeOK
<1> SUFFICES ASSUME Init PROVE TypeOK
  OBVIOUS
<1>1. (CHOOSE id \in Identities : TRUE) \in Identities
  BY InputAssumption
<1> QED
  BY <1>1 DEF Init, TypeOK

(***************************************************************************)
(* Types are kept, and only objects that are alive are being kicked.       *)
(***************************************************************************)
THEOREM TypeCorrect == Spec => []TypeOK
BY TypeInit, TypeStep, PTL DEF Spec

----------------------------------------------------------------------------

AuxType == aux \in [Addresses -> Xuids \cup {NoAux}]

(***************************************************************************)
(* A player comes to find data of an earlier one only by a lookup through  *)
(* a handle of that earlier player, and no data survives its entry: for    *)
(* every set of identities, whatever throws and whatever scripts keep.     *)
(***************************************************************************)
THEOREM AuxDataStaysOwn == Spec => AuxStaysOwn
<1> DEFINE Kept(p) ==
      /\ Own(p) /\ ~Own(p)' =>
            \E h \in handles \ container :
                h.player = p /\ aux[p] = NoAux /\ aux'[p] = h.xuid
      /\ (\E e \in container \ container' : e.player = p) => aux'[p] = NoAux
<1>1. Init => AuxType
  BY DEF Init, AuxType
<1>2. DatabaseInv /\ AuxType /\ handles \subseteq PlayerEntry /\ [Next]_vars
         => AuxType' /\ [\A p \in Addresses : Kept(p)]_vars
  <2> SUFFICES ASSUME DatabaseInv, AuxType, handles \subseteq PlayerEntry, [Next]_vars
               PROVE  AuxType' /\ (UNCHANGED vars \/ \A p \in Addresses : Kept(p))
    OBVIOUS
  <2> USE DEF DatabaseInv, CoreType, AuxType, Own
  <2>1. ASSUME NEW q \in Addresses, NEW id \in Identities, CreateNewPlayer(q, id)
        PROVE  AuxType' /\ \A p \in Addresses : Kept(p)
    <3>1. container \subseteq container' /\ aux' = aux
      BY <2>1, JoinIsStep DEF JoinStep, CreateNewPlayer
    <3> QED
      BY <3>1
  <2>2. ASSUME NEW q \in Addresses, PlayerLeft(q)
        PROVE  AuxType' /\ \A p \in Addresses : Kept(p)
    <3>1. PICK e \in container : /\ e.player = q
                                 /\ LogoutThrows(q) \/ LeftListenerThrows(q, e) \/ Released(q, e)
      BY <2>2 DEF PlayerLeft
    <3>2. CASE LogoutThrows(q) \/ LeftListenerThrows(q, e)
      BY <3>2 DEF LogoutThrows, LeftListenerThrows
    <3>3. CASE Released(q, e)
      <4>1. container' = container \ {e} /\ aux' = [aux EXCEPT ![q] = NoAux]
        BY <3>3 DEF Released
      <4> QED
        BY <3>1, <4>1
    <3> QED
      BY <3>1, <3>2, <3>3
  <2>3. ASSUME NEW h \in handles, GetAux(h)
        PROVE  AuxType' /\ \A p \in Addresses : Kept(p)
    <3>1. h.player \in Addresses /\ h.xuid \in Xuids
      BY DEF PlayerEntry
    <3>2. aux' = [aux EXCEPT ![h.player] = h.xuid] /\ aux[h.player] = NoAux /\ container' = container
      BY <2>3 DEF GetAux
    <3> QED
      BY <3>1, <3>2
  <2>4. CASE UNCHANGED vars
    BY <2>4 DEF vars
  <2> QED
    BY <2>1, <2>2, <2>3, <2>4 DEF Next
<1>3. TypeOK => handles \subseteq PlayerEntry
  BY DEF TypeOK
<1> QED
  BY <1>1, <1>2, <1>3, DatabaseInvInit, DatabaseInvStep, TypeInit, TypeStep, PTL
     DEF Spec, AuxStaysOwn

----------------------------------------------------------------------------

\* The tables count a login without a logout for those who are online, and none for
\* the others.
RowsMatch ==
    \A u \in Uuids : (\A e \in container : e.uuid # u) => sessions[u] = 0

SmoothInv == smooth => Smooth /\ UserRowCurrent /\ OnlyIllegalLinger /\ RowsMatch

LEMMA SmoothJoins ==
    ASSUME TypeOK, DatabaseInv, DatabaseInv', Smooth', UserRowCurrent, OnlyIllegalLinger, RowsMatch,
           NEW p \in Addresses, NEW id \in Identities, CreateNewPlayer(p, id)
    PROVE  UserRowCurrent' /\ OnlyIllegalLinger' /\ RowsMatch'
<1> USE DEF TypeOK, DatabaseInv, CoreType
<1>1. p \notin alive /\ alive' = alive \cup {p} /\ identity' = [identity EXCEPT ![p] = id]
  BY JoinIsStep DEF JoinStep
<1>2. CASE IllegalXuid(p, id)
  BY <1>1, <1>2 DEF IllegalXuid, UserRowCurrent, OnlyIllegalLinger, RowsMatch, Players
<1>3. CASE ~IllegalXuid(p, id)
  <2>1. PICK ref : ListenerThrows(p, id, ref) \/ SqlThrows(p, id, ref) \/ PlayerJoins(p, id, ref)
    BY <1>3 DEF CreateNewPlayer
  <2>2. id.xuid # NotANumber /\ Emplaced(Entry(p, id), ref)
    BY <2>1 DEF ListenerThrows, SqlThrows, PlayerJoins
  <2>3. p \notin leaving'
    BY <1>1, <2>2 DEF Smooth
  <2>4. PlayerJoins(p, id, ref)
    BY <2>1, <2>3 DEF ListenerThrows, SqlThrows
  <2>5. \A e \in container : e.player # p /\ e.player \in alive /\ ~Collide(Entry(p, id), e)
    <3> SUFFICES ASSUME NEW e \in container
                 PROVE  e.player # p /\ e.player \in alive /\ ~Collide(Entry(p, id), e)
      OBVIOUS
    <3>1. e.player \in alive /\ e = Entry(e.player, identity[e.player]) /\ e.player # p
      BY <1>1 DEF EntriesOwned
    <3>2. identity'[e.player] = identity[e.player] /\ identity'[p] = id
      BY <1>1, <3>1 DEF PlayerEntry
    <3>3. Entry(e.player, identity'[e.player]) = e /\ p \in alive' /\ e.player \in alive'
      BY <1>1, <3>1, <3>2
    <3> QED
      BY <3>1, <3>2, <3>3 DEF Smooth
  <2>6. container' = container \cup {Entry(p, id)}
    BY <2>2, <2>5 DEF Emplaced
  <2>7. id.uuid \in Uuids /\ sessions[id.uuid] = 0 /\ \A e \in container : e.uuid # id.uuid
    <3>1. Entry(p, id).uuid = id.uuid /\ id.uuid \in Uuids
      BY DEF Entry, Uuids
    <3>2. \A e \in container : e.uuid # id.uuid
      BY <2>5, <3>1 DEF Collide
    <3> QED
      BY <3>1, <3>2 DEF RowsMatch
  <2>8. sessions' = [sessions EXCEPT ![id.uuid] = 1]
    <3>1. sessions' = [sessions EXCEPT ![id.uuid] = Capped(sessions[id.uuid] + 1)]
      BY <2>4 DEF PlayerJoins
    <3>2. Capped(0 + 1) = 1
      BY InputAssumption DEF Capped
    <3> QED
      BY <2>7, <3>1, <3>2
  <2>9. UserRowCurrent'
    <3>1. Entry(p, id).uuid = id.uuid /\ Entry(p, id).xuid = id.xuid /\ Entry(p, id).name = id.name
      BY DEF Entry
    <3>2. users' = Replace(id)
      BY <2>4 DEF PlayerJoins
    <3>3. \A e \in container : e.uuid \in Uuids
      BY DEF PlayerEntry
    <3> QED
      BY <2>6, <2>7, <2>8, <3>1, <3>2, <3>3 DEF UserRowCurrent, Replace, RowsMatch
  <2>10. OnlyIllegalLinger'
    <3>1. Entry(p, id).player = p
      BY DEF Entry
    <3>2. p \in Players' /\ Players \subseteq Players'
      BY <2>6, <3>1 DEF Players
    <3>3. \A q \in alive : identity'[q] = identity[q]
      BY <1>1
    <3> QED
      BY <1>1, <3>2, <3>3 DEF OnlyIllegalLinger
  <2>11. RowsMatch'
    <3>1. Entry(p, id).uuid = id.uuid
      BY DEF Entry
    <3>2. \A u \in Uuids : u # id.uuid => sessions'[u] = sessions[u]
      BY <2>7, <2>8
    <3>3. \A u \in Uuids : (\A e \in container' : e.uuid # u)
                              => u # id.uuid /\ \A e \in container : e.uuid # u
      BY <2>6, <3>1
    <3> QED
      BY <3>2, <3>3 DEF RowsMatch
  <2> QED
    BY <2>9, <2>10, <2>11
<1> QED
  BY <1>2, <1>3

LEMMA SmoothLeaves ==
    ASSUME TypeOK, DatabaseInv, Smooth', UserRowCurrent, OnlyIllegalLinger, RowsMatch,
           NEW p \in Addresses, PlayerLeft(p)
    PROVE  UserRowCurrent' /\ OnlyIllegalLinger' /\ RowsMatch'
<1> USE DEF TypeOK, DatabaseInv, CoreType
<1>0. PICK e \in container : /\ e.player = p
                             /\ LogoutThrows(p) \/ LeftListenerThrows(p, e) \/ Released(p, e)
  BY DEF PlayerLeft
<1>1. /\ e.player = p /\ container' = container \ {e} /\ alive' = alive \ {p}
      /\ sessions' = [sessions EXCEPT ![e.uuid] = Capped(@ - 1)]
  <2>1. identity' = identity
    BY DEF PlayerLeft
  <2>2. e.xuid = identity[p].xuid /\ e.xuid # NotANumber
    <3>1. e = Entry(p, identity[p])
      BY <1>0 DEF EntriesOwned
    <3> QED
      BY <3>1 DEF Numeric, Entry
  <2>3. p \notin leaving'
    BY <2>1, <2>2 DEF Smooth
  <2>4. Released(p, e)
    BY <1>0, <2>3 DEF LogoutThrows, LeftListenerThrows
  <2> QED
    BY <1>0, <2>4 DEF Released
<1>2. users' = users /\ identity' = identity
  BY DEF PlayerLeft
<1>3. sessions' = [sessions EXCEPT ![e.uuid] = 0] /\ e.uuid \in Uuids
  <2>1. Capped(1 - 1) = 0
    BY InputAssumption DEF Capped
  <2> QED
    BY <1>1, <2>1 DEF UserRowCurrent, PlayerEntry
<1>4. \A f \in container' : f \in container /\ f.uuid # e.uuid /\ f.uuid \in Uuids
  BY <1>1 DEF EntriesOwned, Collide, PlayerEntry
<1>5. UserRowCurrent' /\ RowsMatch'
  BY <1>1, <1>2, <1>3, <1>4 DEF UserRowCurrent, RowsMatch
<1>6. OnlyIllegalLinger'
  BY <1>1, <1>2 DEF OnlyIllegalLinger, Players
<1> QED
  BY <1>5, <1>6

(***************************************************************************)
(* In behaviours in which the game keeps identities apart and nothing      *)
(* throws but std::stoull, every player who is online has a row with the   *)
(* current name and one login without a logout, and only players without a *)
(* numeric xuid are never released.                                        *)
(***************************************************************************)
THEOREM SmoothRowsAreCurrent == MCSpec => []SmoothIsCurrent
<1>1. MCInit => TypeOK /\ DatabaseInv /\ SmoothInv
  BY TypeInit, DatabaseInvInit
     DEF MCInit, Init, SmoothInv, Smooth, UserRowCurrent, OnlyIllegalLinger, RowsMatch
<1>2. TypeOK /\ DatabaseInv /\ SmoothInv /\ [MCNext]_<<vars, smooth>>
         => TypeOK' /\ DatabaseInv' /\ SmoothInv'
  <2> SUFFICES ASSUME TypeOK, DatabaseInv, SmoothInv, [MCNext]_<<vars, smooth>>
               PROVE  TypeOK' /\ DatabaseInv' /\ SmoothInv'
    OBVIOUS
  <2>1. [Next]_vars /\ smooth' = smooth
    BY DEF MCNext
  <2>2. TypeOK' /\ DatabaseInv'
    BY <2>1, TypeStep, DatabaseInvStep
  <2>3. ASSUME smooth PROVE Smooth'
    <3>1. CASE UNCHANGED vars
      BY <2>3, <3>1 DEF SmoothInv, Smooth, vars
    <3> QED
      BY <2>3, <3>1 DEF MCNext
  <2>4. ASSUME smooth PROVE UserRowCurrent' /\ OnlyIllegalLinger' /\ RowsMatch'
    <3>1. UserRowCurrent /\ OnlyIllegalLinger /\ RowsMatch
      BY <2>4 DEF SmoothInv
    <3>2. ASSUME NEW p \in Addresses, NEW id \in Identities, CreateNewPlayer(p, id)
          PROVE  UserRowCurrent' /\ OnlyIllegalLinger' /\ RowsMatch'
      BY <2>2, <2>3, <2>4, <3>1, <3>2, SmoothJoins
    <3>3. ASSUME NEW p \in Addresses, PlayerLeft(p)
          PROVE  UserRowCurrent' /\ OnlyIllegalLinger' /\ RowsMatch'
      BY <2>3, <2>4, <3>1, <3>3, SmoothLeaves
    <3>4. ASSUME NEW h \in handles, GetAux(h)
          PROVE  UserRowCurrent' /\ OnlyIllegalLinger' /\ RowsMatch'
      BY <3>1, <3>4 DEF GetAux, UserRowCurrent, OnlyIllegalLinger, RowsMatch, Players
    <3>5. CASE UNCHANGED vars
      BY <3>1, <3>5 DEF vars, UserRowCurrent, OnlyIllegalLinger, RowsMatch, Players
    <3> QED
      BY <2>1, <3>2, <3>3, <3>4, <3>5 DEF Next
  <2> QED
    BY <2>1, <2>2, <2>3, <2>4 DEF SmoothInv
<1>3. SmoothInv => SmoothIsCurrent
  BY DEF SmoothInv, SmoothIsCurrent
<1> QED
  BY <1>1, <1>2, <1>3, PTL DEF MCSpec
=============================================================================
