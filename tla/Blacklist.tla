------------------------------ MODULE Blacklist ------------------------------
(***************************************************************************)
(* The blacklist of BuiltinMods/Blacklist: the tables uuid, xuid and name, *)
(* the hook on isBlocked that a login goes through, and the commands ban   *)
(* and unban, which look players up in the user table of the player        *)
(* database.                                                               *)
(*                                                                         *)
(* An account stands for its uuid.  Its name may change between two of its *)
(* logins, and accounts without a xuid all have the xuid NoXuid (0).       *)
(* Commands and logins run on the server thread, one after the other.      *)
(* Reasons, sources, the name columns of the tables uuid and xuid, and the *)
(* table iplog are written and never read back: they are left out.         *)
(***************************************************************************)
EXTENDS Naturals, Sequences

CONSTANTS
    Accounts,    \* the accounts, each its uuid
    Xuids,       \* xuids accounts may have
    NoXuid,      \* the xuid 0
    Names,       \* names accounts may take
    BanKinds,    \* the kinds of target operators give to /ban
    Leftovers    \* uuids the bytes of an empty optional may happen to hold

ASSUME AccountAssumption ==
    /\ Leftovers \subseteq Accounts
    /\ BanKinds \subseteq {"uuid", "xuid", "name"}
    /\ NoXuid \in Xuids

\* What a command is given: a string that is the text of a uuid, of a number, or
\* of neither.
Targets == [kind : {"uuid"}, value : Accounts] \cup [kind : {"xuid"}, value : Xuids]
                \cup [kind : {"name"}, value : Names]

OfflinePlayerEntry == [uuid : Accounts, xuid : Xuids, name : Names]

VARIABLES
    Xuid,         \* the xuid of each account, which never changes
    name,         \* the name of each account now
    users,        \* the table user of the player database, in rowid order
    playing,      \* accounts with a connection
    online,       \* the entries in the player database's container
    kicked,       \* accounts whose connection was told to close
    uuidRows,     \* the keys of the table uuid
    xuidRows,     \* the keys of the table xuid
    nameRows,     \* the keys of the table name: what the operator wrote
    turnedAway,   \* accounts a login was refused to, and no command pardoned since
    cameAs,       \* history: the names each account has come to a login under
    selected,     \* history: the accounts operators banned by selector
    bannedNames   \* history: the names operators banned

rows == <<uuidRows, xuidRows, nameRows>>
history == <<cameAs, selected, bannedNames>>
vars == <<Xuid, name, users, playing, online, kicked, rows, turnedAway, history>>

Init ==
    /\ Xuid \in [Accounts -> Xuids]
    /\ \A a, b \in Accounts : Xuid[a] = Xuid[b] => a = b \/ Xuid[a] = NoXuid
    /\ name \in [Accounts -> Names]
    /\ \A a, b \in Accounts : name[a] = name[b] => a = b
    /\ users = <<>>
    /\ playing = {} /\ online = {} /\ kicked = {}
    /\ uuidRows = {} /\ xuidRows = {} /\ nameRows = {}
    /\ turnedAway = {} /\ cameAs = {} /\ selected = {} /\ bannedNames = {}

Entry(a) == [uuid |-> a, xuid |-> Xuid[a], name |-> name[a]]

----------------------------------------------------------------------------
(***************************************************************************)
(* The user table.  A row is found by a scan in rowid order, so of several *)
(* rows with one name, or with the xuid 0, the first one is taken: that of *)
(* the player whose last login is longest ago.                             *)
(***************************************************************************)
Matches(t) ==
    {i \in 1..Len(users) : \/ t.kind = "uuid" /\ users[i].uuid = t.value
                           \/ t.kind = "xuid" /\ users[i].xuid = t.value
                           \/ t.kind = "name" /\ users[i].name = t.value}

FindOffline(t) == users[CHOOSE i \in Matches(t) : \A j \in Matches(t) : i <= j]

\* INSERT OR REPLACE: the new row goes to the end, the old one of this uuid away.
Without(i) == SubSeq(users, 1, i - 1) \o SubSeq(users, i + 1, Len(users))
Replace(row) ==
    LET old == Matches([kind |-> "uuid", value |-> row.uuid])
    IN  Append(IF old = {} THEN users ELSE Without(CHOOSE i \in old : TRUE), row)

----------------------------------------------------------------------------
(***************************************************************************)
(* Logins.                                                                 *)
(***************************************************************************)
ByUUID(a) == a \in uuidRows
ByXUID(a) == Xuid[a] \in xuidRows
ByName(a) == [kind |-> "name", value |-> name[a]] \in nameRows

Blocked(a) == ByUUID(a) \/ ByXUID(a) \/ ByName(a)

\* Mutant of UpdateIDs: a ban by name stays one by name.
UpdateIDs_Nothing(a) == UNCHANGED <<uuidRows, xuidRows>>

\* Mutant of UpdateIDs: after a match in any of the tables.
UpdateIDs_Always(a) ==
    /\ uuidRows' = uuidRows \cup {a}
    /\ xuidRows' = xuidRows \cup {Xuid[a]}

\* updateIDs, after a match in the table name only.
UpdateIDs(a) ==
    IF ByUUID(a) \/ ByXUID(a)
    THEN UNCHANGED <<uuidRows, xuidRows>>
    ELSE /\ uuidRows' = uuidRows \cup {a}
         /\ xuidRows' = xuidRows \cup {Xuid[a]}

\* An account comes to a login under its name.
Comes(a) ==
    /\ a \notin playing
    /\ cameAs' = cameAs \cup {<<a, name[a]>>}

\* isBlocked says yes.
RefuseLogin(a) ==
    /\ Comes(a) /\ Blocked(a)
    /\ UpdateIDs(a)
    /\ turnedAway' = turnedAway \cup {a}
    /\ UNCHANGED <<name, users, playing, online, kicked, nameRows, selected, bannedNames>>

\* The indices of the container on which an entry collides: two players without
\* an xuid, or one who comes under the name an earlier one was let in with.
Taken(a) == \E e \in online : e.xuid = Xuid[a] \/ e.name = name[a]

(***************************************************************************)
(* isBlocked says no, and createNewPlayer records the player.  If a key is *)
(* taken the player plays all the same, but has no entry in the container. *)
(***************************************************************************)
Admit(a) ==
    /\ Comes(a) /\ ~Blocked(a)
    /\ playing' = playing \cup {a}
    /\ online' = IF Taken(a) THEN online ELSE online \cup {Entry(a)}
    /\ users' = Replace(Entry(a))
    /\ UNCHANGED <<name, kicked, rows, turnedAway, selected, bannedNames>>

\* The connection ends, because the player or a kick closes it.
Leave(a) ==
    /\ a \in playing
    /\ playing' = playing \ {a}
    /\ online' = {e \in online : e.uuid # a}
    /\ kicked' = kicked \ {a}
    /\ UNCHANGED <<name, users, rows, turnedAway, history>>

\* The service that gives names gives one to one account at a time.
ChangeName(a, n) ==
    /\ \A b \in Accounts : name[b] # n
    /\ name' = [name EXCEPT ![a] = n]
    /\ UNCHANGED <<users, playing, online, kicked, rows, turnedAway, history>>

----------------------------------------------------------------------------
(***************************************************************************)
(* /ban.                                                                   *)
(***************************************************************************)
\* AddOp on the identity of a player: the uuid if there is no xuid.
AddPlayer(row) ==
    /\ uuidRows' = IF row.xuid = NoXuid THEN uuidRows \cup {row.uuid} ELSE uuidRows
    /\ xuidRows' = IF row.xuid = NoXuid THEN xuidRows ELSE xuidRows \cup {row.xuid}
    /\ UNCHANGED nameRows

\* BanCommand, on a player the container has.  For the others the command ends with
\* "commands.ban.error.unexpected".
Ban(e) ==
    /\ kicked' = kicked \cup {e.uuid}
    /\ AddPlayer(e)
    /\ selected' = selected \cup {e.uuid}
    /\ UNCHANGED <<name, users, playing, online, turnedAway, cameAs, bannedNames>>

\* Mutant of KickOnline: the ban is left to take effect at the next login.
KickOnline_Later(row) == kicked' = kicked

KickOnline(row) == kicked' = kicked \cup {e.uuid : e \in {f \in online : f.uuid = row.uuid}}

\* BanNameCommand: the target is a name, whatever it looks like.
BanName(t) ==
    /\ t.kind \in BanKinds
    /\ IF t.kind = "name" /\ Matches(t) # {}
       THEN AddPlayer(FindOffline(t)) /\ KickOnline(FindOffline(t))
       ELSE /\ nameRows' = nameRows \cup {t}
            /\ UNCHANGED <<kicked, uuidRows, xuidRows>>
    /\ bannedNames' = IF t.kind = "name" THEN bannedNames \cup {t.value} ELSE bannedNames
    /\ UNCHANGED <<name, users, playing, online, turnedAway, cameAs, selected>>

----------------------------------------------------------------------------
(***************************************************************************)
(* /unban.                                                                 *)
(***************************************************************************)
\* Whom an unban of these keys may be meant for.
Pardon(us, xs, ns) ==
    turnedAway' = {a \in turnedAway : a \notin us /\ Xuid[a] \notin xs
                        /\ [kind |-> "name", value |-> name[a]] \notin ns}

\* The history forgets a ban when no row is left that it can have put there.
Forget ==
    LET left == {a \in Accounts : a \in uuidRows' \/ Xuid[a] \in xuidRows'}
    IN  /\ selected' = selected \cap left
        /\ bannedNames' = {n \in bannedNames : \/ [kind |-> "name", value |-> n] \in nameRows'
                                               \/ \E a \in left : <<a, n>> \in cameAs}

\* RemoveOp.
Remove(us, xs, ns) ==
    /\ uuidRows' = uuidRows \ us
    /\ xuidRows' = xuidRows \ xs
    /\ nameRows' = nameRows \ ns
    /\ Pardon(us, xs, ns)
    /\ Forget

RemoveEntry(row) ==
    Remove({row.uuid}, {row.xuid}, {[kind |-> "name", value |-> row.name]})

\* A target no player has: the uuid that is removed then is read from an empty
\* optional.
RemoveUnknown(t) ==
    \/ t.kind = "uuid" /\ \E us \in {{}} \cup {{u} : u \in Leftovers} : Remove(us, {}, {})
    \/ t.kind = "xuid" /\ Remove({}, {t.value}, {})
    \/ t.kind = "name" /\ Remove({}, {}, {t})

Unban(t) ==
    /\ IF Matches(t) # {} THEN RemoveEntry(FindOffline(t)) ELSE RemoveUnknown(t)
    /\ UNCHANGED <<name, users, playing, online, kicked, cameAs>>

----------------------------------------------------------------------------

Next ==
    /\ \/ \E a \in Accounts : RefuseLogin(a) \/ Admit(a) \/ \E n \in Names : ChangeName(a, n)
       \/ \E a \in playing : Leave(a)
       \/ \E e \in online : Ban(e)
       \/ \E t \in Targets : BanName(t) \/ Unban(t)
    /\ UNCHANGED Xuid

Spec == Init /\ [][Next]_vars

----------------------------------------------------------------------------
(***************************************************************************)
(* Properties.                                                             *)
(***************************************************************************)
TypeOK ==
    /\ Xuid \in [Accounts -> Xuids]
    /\ name \in [Accounts -> Names]
    /\ users \in Seq(OfflinePlayerEntry)
    /\ playing \subseteq Accounts
    /\ online \subseteq OfflinePlayerEntry
    /\ kicked \subseteq playing
    /\ uuidRows \subseteq Accounts
    /\ xuidRows \subseteq Xuids
    /\ nameRows \subseteq Targets
    /\ turnedAway \subseteq Accounts
    /\ cameAs \subseteq Accounts \X Names
    /\ selected \subseteq Accounts /\ bannedNames \subseteq Names

\* Who was refused a login stays out until a command removes a key of theirs:
\* taking another name does not help, because a match by name bans the uuid and
\* the xuid too (dllmain.cpp, updateIDs).
TurnedAwayStaysOut == \A a \in turnedAway : Blocked(a)

\* Whom operators may have meant: who was selected, and who has ever come under a
\* name that was banned, before the ban or after it; bans that were lifted do not
\* count.
Meant(a) == a \in selected \/ \E n \in bannedNames : <<a, n>> \in cameAs

(***************************************************************************)
(* A login is refused for one of three reasons: operators may have meant   *)
(* the account (a name found in the user table may be one it used long     *)
(* ago: commands.cpp:65), or they banned the name it has now, or it has no *)
(* xuid and an account without one, that they may have meant, has put 0    *)
(* into the table xuid (dllmain.cpp:166).  Nobody else is hit, whoever     *)
(* renames, logs in and is unbanned in between.                            *)
(***************************************************************************)
NobodyElseIsBlocked ==
    \A a \in Accounts : Blocked(a) =>
        \/ Meant(a)
        \/ name[a] \in bannedNames
        \/ Xuid[a] = NoXuid /\ \E b \in Accounts : Meant(b) /\ Xuid[b] = NoXuid

Banned(a) == a \in uuidRows \/ (Xuid[a] \in xuidRows /\ Xuid[a] # NoXuid)

Unlisted(a) == \A e \in online : e.uuid # a

\* The account has come under a name that another has come under.
SharesName(a) ==
    \E b \in Accounts, n \in Names : a # b /\ {<<a, n>>, <<b, n>>} \subseteq cameAs

(***************************************************************************)
(* Whose identity is banned is kicked and does not come back (commands.cpp *)
(* and isBlocked).  One kind of player goes on playing: who found a key of *)
(* the container taken at the login, because of the xuid 0 or of a name    *)
(* that somebody else had used; neither form of /ban finds that player.    *)
(* (The row 0 of the table xuid, which no command adds, keeps out those    *)
(* who come, and leaves those who play alone.)                             *)
(***************************************************************************)
BannedIsKicked ==
    \A a \in playing :
        Banned(a) /\ a \notin kicked => Unlisted(a) /\ (Xuid[a] = NoXuid \/ SharesName(a))

\* README.md: "`/unban target`", "target can be player name / uuid / xuid": when
\* the command is given the name of an account, the account can log in again.
UnbanLiftsBan ==
    [][\A a \in Accounts : Unban([kind |-> "name", value |-> name[a]]) => ~Blocked(a)']_vars
=============================================================================
