-------------------------- MODULE MCPlayerDatabase --------------------------
(***************************************************************************)
(* The player database with a few identities.  In some behaviours, the     *)
(* smooth ones, the game keeps identities apart and nothing throws except  *)
(* on an xuid that is not a number; in the others, anything goes.          *)
(***************************************************************************)
EXTENDS PlayerDatabase

VARIABLE smooth

Identity(name, xuid, uuid) == [name |-> name, xuid |-> xuid, uuid |-> uuid]

\* One player under two names, another whose name or xuid is that of the first,
\* and one without an xuid.
Colliding == {Identity("n1", "x1", "u1"), Identity("n2", "x1", "u1"),
              Identity("n1", "x2", "u2"), Identity("n3", "nan", "u3")}

Smooth ==
    /\ \A p, q \in alive :
          Collide(Entry(p, identity[p]), Entry(q, identity[q])) => p = q
    /\ \A p \in leaving : identity[p].xuid = NotANumber

MCInit == Init /\ smooth \in BOOLEAN

MCNext == Next /\ UNCHANGED smooth /\ (smooth => Smooth')

MCSpec == MCInit /\ [][MCNext]_<<vars, smooth>>

\* UserRowCurrent and OnlyIllegalLinger, in smooth behaviours: createNewPlayer writes
\* the row of the player and a login, and _onPlayerLeft finds everyone it let in.
SmoothIsCurrent == smooth => UserRowCurrent /\ OnlyIllegalLinger
=============================================================================
