----------------------------- MODULE StoreProofs -----------------------------
(***************************************************************************)
(* What the mods' databases keep: the balances of Economy, for all         *)
(* players, amounts and balances, the names of CustomName, for every set   *)
(* of players, and the bans of Blacklist, for all accounts, xuids and      *)
(* names.                                                                  *)
(***************************************************************************)
EXTENDS Economy, CustomName, Blacklist, SequenceTheorems, WellFoundedInduction, TLAPS

\* The state has its types in every reachable state.
THEOREM EconomyTypeCorrect == EconomySpec => []EconomyTypeOK
<1> USE AmountAssumption DEF EconomyTypeOK, Balance
<1>1. EconomyInit => EconomyTypeOK
  BY DEF EconomyInit
<1>2. EconomyTypeOK /\ [EconomyNext]_economyVars => EconomyTypeOK'
  <2> SUFFICES ASSUME EconomyTypeOK, [EconomyNext]_economyVars PROVE EconomyTypeOK'
    OBVIOUS
  <2>1. ASSUME NEW p \in Holders, NEW amount \in Amounts, UpdateBalance(p, amount) PROVE EconomyTypeOK'
    BY <2>1 DEF UpdateBalance, InSums, Inserted
  <2>2. ASSUME NEW targets \in SUBSET Holders, NEW amount \in Amounts, Begin(targets, amount)
        PROVE EconomyTypeOK'
    BY <2>2 DEF Begin
  <2>3. ASSUME NEW p \in remaining, UpdateNext(p) PROVE EconomyTypeOK'
    BY <2>3 DEF UpdateNext, InSums, Inserted
  <2>4. CASE Commit \/ Rollback \/ UNCHANGED economyVars
    BY <2>4 DEF Commit, Rollback, economyVars
  <2> QED
    BY <2>1, <2>2, <2>3, <2>4 DEF EconomyNext
<1> QED
  BY <1>1, <1>2, PTL DEF EconomySpec

(***************************************************************************)
(* Inside a command the connection sees, for the targets it has come to,   *)
(* the balance the trigger has let pass, and for all others what the file  *)
(* has.                                                                    *)
(***************************************************************************)
CommandInv ==
    command # NoCommand =>
        /\ before.balances = committed
        /\ view = [p \in Holders |->
               IF p \in before.targets \ remaining
               THEN GetBalance(committed[p]) + command
               ELSE committed[p]]
        /\ \A p \in before.targets \ remaining :
               committed[p] # NoRow => GetBalance(committed[p]) + command >= 0

LEMMA CommandInvStep == EconomyTypeOK /\ CommandInv /\ [EconomyNext]_economyVars => CommandInv'
<1> SUFFICES ASSUME EconomyTypeOK, CommandInv, [EconomyNext]_economyVars PROVE CommandInv'
  OBVIOUS
<1> USE AmountAssumption DEF EconomyTypeOK, Balance, CommandInv
<1>1. ASSUME NEW p \in Holders, NEW amount \in Amounts, UpdateBalance(p, amount) PROVE CommandInv'
  BY <1>1 DEF UpdateBalance
<1>2. ASSUME NEW targets \in SUBSET Holders, NEW amount \in Amounts, Begin(targets, amount)
      PROVE CommandInv'
  <2>1. before'.targets \ remaining' = {}
    BY <1>2 DEF Begin
  <2>2. view = committed
    BY <1>2 DEF Begin
  <2> QED
    BY <1>2, <2>1, <2>2 DEF Begin
<1>3. ASSUME NEW p \in remaining, UpdateNext(p) PROVE CommandInv'
  <2>1. view[p] = committed[p] /\ p \in before.targets
    BY <1>3 DEF UpdateNext
  <2>2. before'.targets \ remaining' = (before.targets \ remaining) \cup {p}
    BY <1>3 DEF UpdateNext
  <2>3. committed[p] # NoRow => GetBalance(committed[p]) + command >= 0
    <3>1. p \in Holders /\ command \in Int /\ ~Prohibited(p, command)
      BY <1>3, <2>1 DEF UpdateNext
    <3>2. committed[p] # NoRow => committed[p] \in Int
      BY <3>1
    <3> QED
      BY <2>1, <3>1, <3>2 DEF Prohibited, GetBalance
  <2>4. view' = [q \in Holders |->
                   IF q \in (before.targets \ remaining) \cup {p}
                   THEN GetBalance(committed[q]) + command
                   ELSE committed[q]]
    BY <1>3, <2>1 DEF UpdateNext, Inserted
  <2>5. before' = before /\ committed' = committed /\ command' = command /\ command # NoCommand
    BY <1>3 DEF UpdateNext
  <2> QED
    BY <2>2, <2>3, <2>4, <2>5
<1>4. CASE Commit \/ Rollback
  BY <1>4 DEF Commit, Rollback
<1>5. CASE UNCHANGED economyVars
  BY <1>5 DEF economyVars
<1> QED
  BY <1>1, <1>2, <1>3, <1>4, <1>5 DEF EconomyNext

LEMMA CommandInvariant == EconomySpec => []CommandInv
<1>1. EconomyInit => CommandInv
  BY DEF EconomyInit, CommandInv
<1> QED
  BY <1>1, CommandInvStep, EconomyTypeCorrect, PTL DEF EconomySpec

\* How the balance of one player changes in a step.
LEMMA BalanceStep ==
  ASSUME EconomyTypeOK, CommandInv, [EconomyNext]_economyVars, NEW p \in Holders
  PROVE  \/ committed'[p] = committed[p]
         \/ committed[p] = NoRow /\ committed'[p] \in Amounts
         \/ committed[p] # NoRow /\ ~Owes(committed'[p])
<1> USE AmountAssumption DEF EconomyTypeOK, Balance
<1>1. ASSUME NEW q \in Holders, NEW amount \in Amounts, UpdateBalance(q, amount),
             committed[p] # NoRow, q = p
      PROVE  ~Owes(committed'[p])
  BY <1>1 DEF UpdateBalance, Inserted, Prohibited, GetBalance, Owes
<1>2. ASSUME NEW q \in Holders, NEW amount \in Amounts, UpdateBalance(q, amount), q # p
      PROVE  committed'[p] = committed[p]
  BY <1>2 DEF UpdateBalance, Inserted
<1>3. ASSUME Commit, committed[p] # NoRow
      PROVE  committed'[p] = committed[p] \/ ~Owes(committed'[p])
  <2>1. command # NoCommand /\ committed' = view /\ remaining = {}
    BY <1>3 DEF Commit
  <2>2. committed[p] \in Int /\ command \in Int
    BY <1>3, <2>1
  <2>3. CASE p \in before.targets
    <3>1. committed[p] + command >= 0 /\ committed'[p] = committed[p] + command
      BY <1>3, <2>1, <2>2, <2>3 DEF CommandInv, GetBalance
    <3> QED
      BY <2>2, <3>1 DEF Owes
  <2>4. CASE p \notin before.targets
    BY <2>1, <2>4 DEF CommandInv
  <2> QED
    BY <2>3, <2>4
<1>5. ASSUME NEW q \in Holders, NEW amount \in Amounts, UpdateBalance(q, amount),
             committed[p] = NoRow, q = p
      PROVE  committed'[p] \in Amounts
  <2>1. view[p] = NoRow /\ committed'[p] = GetBalance(NoRow) + amount
    BY <1>5 DEF UpdateBalance, Inserted
  <2>2. amount \in Int
    BY <1>5
  <2> QED
    BY <1>5, <2>1, <2>2 DEF GetBalance
<1>6. ASSUME Commit, committed[p] = NoRow
      PROVE  committed'[p] = NoRow \/ committed'[p] \in Amounts
  <2>1. command \in Amounts /\ committed' = view /\ command # NoCommand
    BY <1>6 DEF Commit
  <2>2. committed'[p] = (IF p \in before.targets \ remaining THEN GetBalance(NoRow) + command ELSE NoRow)
    BY <1>6, <2>1 DEF CommandInv
  <2>3. command \in Int
    BY <2>1
  <2> QED
    BY <2>1, <2>2, <2>3 DEF GetBalance
<1>4. (\E targets \in SUBSET Holders, amount \in Amounts : Begin(targets, amount))
        \/ (\E q \in remaining : UpdateNext(q)) \/ Rollback \/ UNCHANGED economyVars
      => committed' = committed
  BY DEF Begin, UpdateNext, Rollback, economyVars
<1>7. ASSUME NEW q \in Holders, NEW amount \in Amounts, UpdateBalance(q, amount)
      PROVE  \/ committed'[p] = committed[p]
             \/ committed[p] = NoRow /\ committed'[p] \in Amounts
             \/ committed[p] # NoRow /\ ~Owes(committed'[p])
  BY <1>1, <1>2, <1>5, <1>7
<1> QED
  BY <1>3, <1>4, <1>6, <1>7 DEF EconomyNext

(***************************************************************************)
(* A debt is the first change of a player's log, as it was asked for, and  *)
(* stays as it is until it is paid off at once: for all amounts, targets   *)
(* of commands, failures and deaths.                                       *)
(***************************************************************************)
THEOREM DebtsAreFirstChanges == EconomySpec => DebtIsTheFirstChange
<1>1. EconomyTypeOK /\ CommandInv /\ [EconomyNext]_economyVars
        => [\A p \in Holders :
               Owes(committed'[p]) =>
                   \/ committed'[p] = committed[p]
                   \/ committed[p] = NoRow /\ committed'[p] \in Amounts]_economyVars
  BY BalanceStep
<1> QED
  BY <1>1, EconomyTypeCorrect, CommandInvariant, PTL DEF EconomySpec, DebtIsTheFirstChange

(***************************************************************************)
(* update-balance changes the balances of all its targets or of nobody.    *)
(***************************************************************************)
THEOREM CommandsAreAtomic == EconomySpec => AllOrNothing
<1> DEFINE A == command # NoCommand =>
                  \/ committed' = before.balances
                  \/ committed' = [p \in Holders |->
                        IF p \in before.targets
                        THEN GetBalance(before.balances[p]) + command
                        ELSE before.balances[p]]
<1>1. EconomyTypeOK /\ CommandInv /\ [EconomyNext]_economyVars => [A]_economyVars
  <2> SUFFICES ASSUME EconomyTypeOK, CommandInv, [EconomyNext]_economyVars, command # NoCommand PROVE A
    BY DEF economyVars
  <2> USE DEF CommandInv, EconomyTypeOK
  <2>1. CASE Commit
    BY <2>1 DEF Commit
  <2>2. CASE \E p \in remaining : UpdateNext(p)
    BY <2>2 DEF UpdateNext
  <2>3. CASE Rollback \/ UNCHANGED economyVars
    BY <2>3 DEF Rollback, economyVars
  <2> QED
    BY <2>1, <2>2, <2>3 DEF EconomyNext, UpdateBalance, Begin
<1> QED
  BY <1>1, EconomyTypeCorrect, CommandInvariant, PTL DEF EconomySpec, AllOrNothing

----------------------------------------------------------------------------

\* What each statement finds when it comes to be executed.
AtStatement ==
    /\ pc \notin {"create_new", "copy", "add_column", "commit"} => work = file
    /\ pc \in {"switch", "rename"} => file.custom_name # NoTable
    /\ pc \in {"rename", "create_new", "copy"} => file.version = 0
    /\ pc = "add_column" => file.version < 2
    /\ pc = "create_new" =>
          /\ work.custom_name_bak_0 \in [schema : 0..2, rows : {names}]
          /\ work.custom_name_bak_0 = file.custom_name
    /\ pc = "copy" =>
          /\ work.custom_name_bak_0 = file.custom_name
          /\ work.custom_name = [schema |-> 1, rows |-> {}]
          /\ work.custom_name_bak_0 \in [schema : 0..2, rows : {names}]
    /\ pc = "add_column" =>
          /\ work.custom_name \in [schema : 0..2, rows : {names}]
          /\ work.custom_name.schema = 2 => work.custom_name = file.custom_name
    /\ pc = "commit" => work.custom_name = [schema |-> 2, rows |-> names]
    /\ pc = "create" => file.custom_name \in {NoTable, [schema |-> 2, rows |-> names]}
    /\ pc = "pragma" => file.custom_name = [schema |-> 2, rows |-> names]
    /\ pc = "running" => file.version = 2

\* A file of version 2 or later has the newest table.
NewestIsNewest ==
    file.version >= 2 => file.custom_name = [schema |-> 2, rows |-> names]

\* A file of version 0 with a table is as the first release left it, or its
\* migration was committed.
OldestOrMigrated ==
    file.version = 0 /\ file.custom_name # NoTable =>
        \/ file.custom_name.schema = 2
        \/ file.custom_name.schema = 0 /\ file.custom_name_bak_0 = NoTable

MigrationInv ==
    /\ NamesTypeOK /\ NamesKept /\ AtStatement /\ NewestIsNewest /\ OldestOrMigrated
    /\ RefusedForAReason

LEMMA MigrationInvInit == NamesInit => MigrationInv
<1> SUFFICES ASSUME NamesInit PROVE MigrationInv
  OBVIOUS
<1>1. CASE file.custom_name = NoTable
  BY <1>1, TableAssumption
     DEF NamesInit, MigrationInv, NamesTypeOK, NamesKept, AtStatement, NewestIsNewest, OldestOrMigrated,
         RefusedForAReason, Database, Table
<1>2. CASE file.custom_name # NoTable
  BY <1>2, TableAssumption
     DEF NamesInit, MigrationInv, NamesTypeOK, NamesKept, AtStatement, NewestIsNewest, OldestOrMigrated,
         RefusedForAReason, Database, Table
<1> QED
  BY <1>1, <1>2

LEMMA MigrationInvStep == MigrationInv /\ [NamesNext]_namesVars => MigrationInv'
<1> SUFFICES ASSUME MigrationInv, [NamesNext]_namesVars PROVE MigrationInv'
  OBVIOUS
<1> USE TableAssumption
    DEF MigrationInv, NamesTypeOK, NamesKept, AtStatement, NewestIsNewest,
        OldestOrMigrated, RefusedForAReason, Statement, Database, Table
<1>1. CASE Start \/ Exists \/ Die
  BY <1>1 DEF Start, Exists, Die
<1>2. CASE Switch
  BY <1>2 DEF Switch, Refuse
<1>3. CASE Rename
  <2>1. CASE work.custom_name_bak_0 # NoTable
    BY <1>3, <2>1 DEF Rename, Refuse
  <2>2. CASE work.custom_name_bak_0 = NoTable
    <3>1. /\ work = file /\ file' = file /\ names' = names /\ pc' = "create_new"
          /\ file.custom_name \in [schema : 0..2, rows : {names}] /\ file.version = 0
      BY <1>3, <2>2 DEF Rename, Execute
    <3>2. work' = [custom_name |-> NoTable, custom_name_bak_0 |-> file.custom_name,
                   version |-> file.version]
      BY <1>3, <2>2, <3>1, ZenonT(40) DEF Rename, Execute
    <3>3. work' \in Database
      BY <3>1, <3>2
    <3> QED
      BY <3>1, <3>2, <3>3
  <2> QED
    BY <2>1, <2>2
<1>4. CASE CreateNew
  BY <1>4 DEF CreateNew, Execute
<1>5. CASE Copy
  BY <1>5 DEF Copy, Refuse, Execute
<1>6. CASE AddColumn
  BY <1>6 DEF AddColumn, Refuse, Execute
<1>7. CASE CommitMigration
  BY <1>7 DEF CommitMigration
<1>8. CASE Create
  BY <1>8 DEF Create
<1>9. CASE Pragma
  BY <1>9 DEF Pragma
<1>10. ASSUME NEW S \in SUBSET Owners, SetCustomName(S) \/ ClearCustomName(S)
       PROVE MigrationInv'
  <2>1. pc = "running" /\ work = file /\ file' = work' /\ pc' = pc
    BY <1>10 DEF SetCustomName, ClearCustomName
  <2>2. /\ file.custom_name = [schema |-> 2, rows |-> names] /\ file.version = 2
        /\ file.custom_name # NoTable
    BY <2>1
  <2>3. /\ names' \in SUBSET Owners
        /\ file' = [custom_name |-> [schema |-> 2, rows |-> names'],
                    custom_name_bak_0 |-> file.custom_name_bak_0, version |-> 2]
    BY <1>10, <2>1, <2>2 DEF SetCustomName, ClearCustomName
  <2>4. file' \in Database /\ file'.custom_name # NoTable
    BY <2>3
  <2> QED
    BY <2>1, <2>3, <2>4
<1>11. CASE UNCHANGED namesVars
  BY <1>11 DEF namesVars
<1> QED
  BY <1>1, <1>2, <1>3, <1>4, <1>5, <1>6, <1>7, <1>8, <1>9, <1>10, <1>11 DEF NamesNext

LEMMA MigrationInvariant == NamesSpec => []MigrationInv
  BY MigrationInvInit, MigrationInvStep, PTL DEF NamesSpec

(***************************************************************************)
(* No name is lost, whatever statement the process dies at.                *)
(***************************************************************************)
THEOREM NamesAreKept == NamesSpec => []NamesKept
<1>1. MigrationInv => NamesKept
  BY DEF MigrationInv
<1> QED
  BY <1>1, MigrationInvariant, PTL

(***************************************************************************)
(* The server runs on the newest table only.                               *)
(***************************************************************************)
THEOREM RunsOnTheNewest == NamesSpec => []RunsOnNewest
<1>1. MigrationInv => RunsOnNewest
  BY DEF MigrationInv, AtStatement, NewestIsNewest, NamesTypeOK, RunsOnNewest
<1> QED
  BY <1>1, MigrationInvariant, PTL

(***************************************************************************)
(* It refuses to start for a later version or after a death in the window  *)
(* between two commits, and for no other reason.                           *)
(***************************************************************************)
THEOREM RefusesForAReason == NamesSpec => []RefusedForAReason
<1>1. MigrationInv => RefusedForAReason
  BY DEF MigrationInv
<1> QED
  BY <1>1, MigrationInvariant, PTL

----------------------------------------------------------------------------
(***************************************************************************)
(* Bans.                                                                   *)
(***************************************************************************)
\* Rows and entries are of accounts that have come to a login under their name.
Genuine(r) == r.xuid = Xuid[r.uuid] /\ <<r.uuid, r.name>> \in cameAs

\* Where the rows come from.
RowsAreMeant ==
    /\ \A a \in uuidRows : a \in Accounts /\ Meant(a)
    /\ \A x \in xuidRows : \E b \in Accounts : Meant(b) /\ Xuid[b] = x
    /\ \A t \in nameRows : t.kind = "name" => t.value \in bannedNames

\* Whom the container has, it has once, and who is banned there is being kicked; who
\* plays without an entry found a key taken.
ListedOrTaken ==
    /\ \A e, f \in online : e.uuid = f.uuid => e = f
    /\ \A e \in online : e.uuid \in playing /\ (Banned(e.uuid) => e.uuid \in kicked)
    /\ \A a \in playing : Unlisted(a) => Xuid[a] = NoXuid \/ SharesName(a)

BanTypes ==
    /\ Xuid \in [Accounts -> Xuids]
    /\ \A a, b \in Accounts : Xuid[a] = Xuid[b] => a = b \/ Xuid[a] = NoXuid
    /\ name \in [Accounts -> Names]
    /\ users \in Seq(OfflinePlayerEntry)
    /\ \A i \in 1..Len(users) : Genuine(users[i])
    /\ playing \subseteq Accounts
    /\ online \subseteq OfflinePlayerEntry
    /\ \A e \in online : Genuine(e)
    /\ nameRows \subseteq Targets
    /\ turnedAway \subseteq Accounts

BanInv ==
    /\ BanTypes
    /\ \A a \in turnedAway : ByUUID(a) \/ ByXUID(a)
    /\ RowsAreMeant
    /\ ListedOrTaken

\* The first of the rows that match is a row of the table, and matches.
LEMMA FoundIsRow ==
    ASSUME NEW t, Matches(t) # {}
    PROVE  \E i \in 1..Len(users) : i \in Matches(t) /\ FindOffline(t) = users[i]
<1>1. PICK m \in Matches(t) : \A j \in Matches(t) : ~(<<j, m>> \in OpToRel(<, Nat))
  <2>1. Matches(t) \subseteq Nat
    BY DEF Matches
  <2> QED
    BY <2>1, NatLessThanWellFounded, WFMin
<1>2. \A j \in Matches(t) : m <= j
  <2>1. ASSUME NEW j \in Nat, NEW k \in Nat, ~(<<j, k>> \in OpToRel(<, Nat)) PROVE k <= j
    BY <2>1 DEF OpToRel
  <2>2. Matches(t) \subseteq Nat
    BY DEF Matches
  <2> QED
    BY <1>1, <2>1, <2>2
<1>3. PICK c \in Matches(t) : FindOffline(t) = users[c]
  BY <1>2 DEF FindOffline
<1> QED
  BY <1>3 DEF Matches

\* INSERT OR REPLACE adds one row and no other.
LEMMA ReplaceAddsRow ==
    ASSUME users \in Seq(OfflinePlayerEntry), NEW row \in OfflinePlayerEntry
    PROVE  /\ Replace(row) \in Seq(OfflinePlayerEntry)
           /\ \A i \in 1..Len(Replace(row)) :
                 \/ Replace(row)[i] = row
                 \/ \E j \in 1..Len(users) : Replace(row)[i] = users[j]
<1> DEFINE old == Matches([kind |-> "uuid", value |-> row.uuid])
           k == CHOOSE i \in old : TRUE
           kept == IF old = {} THEN users ELSE Without(k)
<1>1. /\ kept \in Seq(OfflinePlayerEntry)
      /\ \A i \in 1..Len(kept) : \E j \in 1..Len(users) : kept[i] = users[j]
  <2>1. CASE old = {}
    BY <2>1
  <2>2. CASE old # {}
    <3>1. k \in 1..Len(users)
      BY <2>2 DEF Matches
    <3> HIDE DEF k, old
    <3> DEFINE a == SubSeq(users, 1, k - 1)
               b == SubSeq(users, k + 1, Len(users))
    <3>2. /\ a \in Seq(OfflinePlayerEntry) /\ Len(a) = k - 1
          /\ \A i \in 1..(k - 1) : a[i] = users[i]
      BY <3>1, SubSeqProperties
    <3>3. /\ b \in Seq(OfflinePlayerEntry) /\ Len(b) = Len(users) - k
          /\ \A i \in 1..(Len(users) - k) : b[i] = users[k + i]
      <4>1. k + 1 \in 1..(Len(users) + 1) /\ Len(users) \in Nat
        BY <3>1
      <4>2. b \in Seq(OfflinePlayerEntry) /\ Len(b) = Len(users) - (k + 1) + 1
            /\ \A i \in 1..(Len(users) - (k + 1) + 1) : b[i] = users[k + 1 + i - 1]
        BY <4>1, SubSeqProperties
      <4> QED
        BY <4>1, <4>2, <3>1
    <3>4. Without(k) = a \o b
      BY DEF Without
    <3> HIDE DEF a, b
    <3>5. /\ a \o b \in Seq(OfflinePlayerEntry) /\ Len(a \o b) = Len(a) + Len(b)
          /\ \A i \in 1..(Len(a) + Len(b)) :
                (a \o b)[i] = IF i <= Len(a) THEN a[i] ELSE b[i - Len(a)]
      BY <3>2, <3>3, ConcatProperties
    <3>6. ASSUME NEW i \in 1..Len(a \o b)
          PROVE  \E j \in 1..Len(users) : (a \o b)[i] = users[j]
      <4>1. CASE i <= Len(a)
        BY <4>1, <3>1, <3>2, <3>3, <3>5, <3>6
      <4>2. CASE i > Len(a)
        <5>1. i - Len(a) \in 1..(Len(users) - k) /\ k + (i - Len(a)) \in 1..Len(users)
          BY <4>2, <3>1, <3>2, <3>3, <3>5, <3>6
        <5> QED
          BY <5>1, <4>2, <3>1, <3>2, <3>3, <3>5, <3>6
      <4> QED
        BY <4>1, <4>2, <3>2, <3>6
    <3>7. kept = a \o b
      BY <2>2, <3>4
    <3> QED
      BY <3>5, <3>6, <3>7
  <2> QED
    BY <2>1, <2>2
<1>2. Replace(row) = Append(kept, row)
  BY DEF Replace
<1> HIDE DEF kept
<1>3. /\ Append(kept, row) \in Seq(OfflinePlayerEntry)
      /\ Len(Append(kept, row)) = Len(kept) + 1
      /\ \A i \in 1..Len(kept) : Append(kept, row)[i] = kept[i]
      /\ Append(kept, row)[Len(kept) + 1] = row
  BY <1>1, AppendProperties
<1> QED
  <2>1. Len(kept) \in Nat
    BY <1>1
  <2> QED
    BY <1>1, <1>2, <1>3, <2>1, SMTT(20)

LEMMA BanInit == Init => BanInv
<1> SUFFICES ASSUME Init PROVE BanInv
  OBVIOUS
<1>1. users \in Seq(OfflinePlayerEntry) /\ Len(users) = 0
  BY EmptySeq DEF Init
<1> QED
  BY <1>1 DEF Init, BanInv, BanTypes, RowsAreMeant, ListedOrTaken

\* The history only grows in a step that lifts no ban.
LEMMA MeantGrows ==
    ASSUME cameAs \subseteq cameAs', selected \subseteq selected', bannedNames \subseteq bannedNames',
           NEW a, Meant(a)
    PROVE  Meant(a)'
BY DEF Meant

LEMMA SharesNameGrows ==
    ASSUME cameAs \subseteq cameAs', NEW a, SharesName(a)
    PROVE  SharesName(a)'
BY DEF SharesName

LEMMA BanRefuseLogin ==
    ASSUME BanInv, NEW a \in Accounts, RefuseLogin(a), UNCHANGED Xuid
    PROVE  BanInv'
<1> USE DEF BanInv, BanTypes
<1>1. /\ UNCHANGED <<name, users, playing, online, kicked, nameRows, selected, bannedNames>>
      /\ a \notin playing /\ turnedAway' = turnedAway \cup {a}
      /\ cameAs' = cameAs \cup {<<a, name[a]>>} /\ UpdateIDs(a)
  BY DEF RefuseLogin, Comes
<1>2. BanTypes'
  BY <1>1 DEF Genuine
<1>3. \A b \in turnedAway' : (ByUUID(b) \/ ByXUID(b))'
  BY <1>1 DEF UpdateIDs, ByUUID, ByXUID
<1>4. RowsAreMeant'
  <2>1. \A b \in Accounts : Meant(b) => Meant(b)'
    BY <1>1, MeantGrows
  <2>2. CASE UNCHANGED <<uuidRows, xuidRows>>
    BY <1>1, <2>1, <2>2 DEF RowsAreMeant
  <2>3. CASE ~(ByUUID(a) \/ ByXUID(a))
    <3>1. [kind |-> "name", value |-> name[a]] \in nameRows
      BY <2>3 DEF RefuseLogin, Blocked, ByName
    <3>2. name[a] \in bannedNames
      BY <3>1 DEF RowsAreMeant
    <3>3. Meant(a)'
      BY <1>1, <3>2 DEF Meant
    <3>4. uuidRows' = uuidRows \cup {a} /\ xuidRows' = xuidRows \cup {Xuid[a]}
      BY <1>1, <2>3 DEF UpdateIDs
    <3> QED
      BY <1>1, <2>1, <3>3, <3>4 DEF RowsAreMeant
  <2> QED
    BY <1>1, <2>2, <2>3 DEF UpdateIDs
<1>5. ListedOrTaken'
  <2>1. \A b \in playing : SharesName(b) => SharesName(b)'
    BY <1>1, SharesNameGrows
  <2>2. ASSUME NEW e \in online, Banned(e.uuid)' PROVE Banned(e.uuid)
    <3>1. e.uuid \in playing /\ e.uuid \in Accounts /\ e.uuid # a
      BY <1>1 DEF ListedOrTaken
    <3>2. Xuid[e.uuid] = Xuid[a] => Xuid[e.uuid] = NoXuid
      BY <3>1
    <3> QED
      BY <1>1, <2>2, <3>1, <3>2 DEF UpdateIDs, Banned
  <2> QED
    BY <1>1, <2>1, <2>2 DEF ListedOrTaken, Unlisted
<1> QED
  BY <1>2, <1>3, <1>4, <1>5

LEMMA BanAdmit ==
    ASSUME BanInv, NEW a \in Accounts, Admit(a), UNCHANGED Xuid
    PROVE  BanInv'
<1> USE DEF BanInv, BanTypes
<1>1. /\ UNCHANGED <<name, kicked, uuidRows, xuidRows, nameRows, turnedAway, selected, bannedNames>>
      /\ a \notin playing /\ playing' = playing \cup {a} /\ ~Blocked(a)
      /\ cameAs' = cameAs \cup {<<a, name[a]>>}
      /\ online' = IF Taken(a) THEN online ELSE online \cup {Entry(a)}
      /\ users' = Replace(Entry(a))
  BY DEF Admit, Comes, rows
<1>2. /\ Entry(a) \in OfflinePlayerEntry /\ Entry(a).uuid = a /\ Entry(a).xuid = Xuid[a]
      /\ Entry(a).name = name[a]
  BY DEF Entry, OfflinePlayerEntry
<1>3. BanTypes'
  <2>3. /\ users' \in Seq(OfflinePlayerEntry)
        /\ \A i \in 1..Len(users') :
              users'[i] = Entry(a) \/ \E j \in 1..Len(users) : users'[i] = users[j]
    BY <1>1, <1>2, ReplaceAddsRow
  <2>4. \A i \in 1..Len(users') : Genuine(users[i])'
    <3> SUFFICES ASSUME NEW i \in 1..Len(users') PROVE Genuine(users[i])'
      OBVIOUS
    <3>1. CASE users'[i] = Entry(a)
      BY <1>1, <1>2, <3>1 DEF Genuine
    <3>2. CASE users'[i] # Entry(a)
      <4>1. PICK j \in 1..Len(users) : users'[i] = users[j]
        BY <2>3, <3>2
      <4> QED
        BY <1>1, <4>1 DEF Genuine
    <3> QED
      BY <3>1, <3>2
  <2>5. online' \subseteq OfflinePlayerEntry /\ \A e \in online' : Genuine(e)'
    <3>1. Entry(a).xuid = Xuid'[Entry(a).uuid] /\ <<Entry(a).uuid, Entry(a).name>> \in cameAs'
      BY <1>1, <1>2
    <3> QED
      BY <1>1, <1>2, <3>1 DEF Genuine
  <2> QED
    BY <1>1, <2>3, <2>4, <2>5
<1>4. \A b \in turnedAway' : (ByUUID(b) \/ ByXUID(b))'
  BY <1>1 DEF ByUUID, ByXUID
<1>5. RowsAreMeant'
  <2>1. \A b \in Accounts : Meant(b) => Meant(b)'
    BY <1>1, MeantGrows
  <2> QED
    BY <1>1, <2>1 DEF RowsAreMeant
<1>6. ListedOrTaken'
  <2>1. \A b \in playing : SharesName(b) => SharesName(b)'
    BY <1>1, SharesNameGrows
  <2>2. \A b : Banned(b)' <=> Banned(b)
    BY <1>1 DEF Banned
  <2>3. ~Banned(a)
    BY <1>1 DEF Blocked, ByUUID, ByXUID, Banned
  <2>4. \A e \in online : e.uuid # a
    BY <1>1 DEF ListedOrTaken
  <2>5. CASE Taken(a)
    <3>1. PICK e \in online : e.xuid = Xuid[a] \/ e.name = name[a]
      BY <2>5 DEF Taken
    <3>2. /\ e.uuid \in Accounts /\ e.uuid # a /\ e.xuid = Xuid[e.uuid] /\ e.name \in Names
          /\ <<e.uuid, e.name>> \in cameAs
      BY <2>4 DEF Genuine, OfflinePlayerEntry
    <3>3. Xuid[a] = NoXuid \/ SharesName(a)'
      <4>1. CASE e.xuid = Xuid[a]
        BY <3>2, <4>1
      <4>2. CASE e.name = name[a]
        <5>1. {<<a, e.name>>, <<e.uuid, e.name>>} \subseteq cameAs'
          BY <1>1, <3>2, <4>2
        <5> QED
          BY <3>2, <5>1 DEF SharesName
      <4> QED
        BY <3>1, <4>1, <4>2
    <3> QED
      BY <1>1, <2>1, <2>2, <2>5, <3>3 DEF ListedOrTaken, Unlisted
  <2>6. CASE ~Taken(a)
    BY <1>1, <1>2, <2>1, <2>2, <2>3, <2>4, <2>6 DEF ListedOrTaken, Unlisted
  <2> QED
    BY <2>5, <2>6
<1> QED
  BY <1>3, <1>4, <1>5, <1>6

LEMMA BanLeave ==
    ASSUME BanInv, NEW a \in playing, Leave(a), UNCHANGED Xuid
    PROVE  BanInv'
<1> USE DEF BanInv, BanTypes
<1>1. /\ UNCHANGED <<name, users, uuidRows, xuidRows, nameRows, turnedAway, cameAs, selected, bannedNames>>
      /\ playing' = playing \ {a} /\ kicked' = kicked \ {a}
      /\ online' = {e \in online : e.uuid # a}
  BY DEF Leave, rows, history
<1>2. BanTypes' /\ \A b \in turnedAway' : (ByUUID(b) \/ ByXUID(b))'
  BY <1>1 DEF Genuine, ByUUID, ByXUID
<1>3. RowsAreMeant'
  BY <1>1 DEF RowsAreMeant, Meant
<1>4. ListedOrTaken'
  <2>1. \A b \in playing : SharesName(b) => SharesName(b)'
    BY <1>1, SharesNameGrows
  <2>2. \A b : Banned(b)' <=> Banned(b)
    BY <1>1 DEF Banned
  <2> QED
    BY <1>1, <2>1, <2>2 DEF ListedOrTaken, Unlisted
<1> QED
  BY <1>2, <1>3, <1>4

\* A ban of the account of a row, aimed at it by selector or by a name it came under.
LEMMA BanAddPlayer ==
    ASSUME BanInv, NEW row \in OfflinePlayerEntry, Genuine(row), AddPlayer(row),
           \A e \in online : e.uuid = row.uuid => e.uuid \in kicked',
           kicked \subseteq kicked',
           selected \subseteq selected', bannedNames \subseteq bannedNames',
           row.uuid \in selected' \/ row.name \in bannedNames',
           UNCHANGED <<Xuid, name, users, playing, online, turnedAway, cameAs>>
    PROVE  BanInv'
<1> USE DEF BanInv, BanTypes
<1>1. row.uuid \in Accounts /\ row.xuid = Xuid[row.uuid] /\ <<row.uuid, row.name>> \in cameAs
  BY DEF OfflinePlayerEntry, Genuine
<1>2. BanTypes'
  BY DEF Genuine, AddPlayer
<1>3. \A b \in turnedAway' : (ByUUID(b) \/ ByXUID(b))'
  BY DEF AddPlayer, ByUUID, ByXUID
<1>4. RowsAreMeant'
  <2>1. \A b \in Accounts : Meant(b) => Meant(b)'
    BY MeantGrows
  <2>2. Meant(row.uuid)'
    BY <1>1 DEF Meant
  <2>3. UNCHANGED nameRows
    BY DEF AddPlayer
  <2>4. \A b \in uuidRows' : b \in Accounts /\ Meant(b)'
    BY <1>1, <2>1, <2>2 DEF AddPlayer, RowsAreMeant
  <2>5. \A x \in xuidRows' : \E b \in Accounts : Meant(b)' /\ Xuid[b] = x
    BY <1>1, <2>1, <2>2 DEF AddPlayer, RowsAreMeant
  <2> QED
    BY <2>3, <2>4, <2>5 DEF RowsAreMeant
<1>5. ListedOrTaken'
  <2>1. ASSUME NEW e \in online, Banned(e.uuid)' PROVE e.uuid \in kicked'
    <3>1. e.uuid \in Accounts
      BY DEF OfflinePlayerEntry
    <3>2. CASE e.uuid = row.uuid
      BY <3>2
    <3>3. CASE e.uuid # row.uuid
      <4>1. Banned(e.uuid)
        BY <1>1, <2>1, <3>1, <3>3 DEF Banned, AddPlayer
      <4> QED
        BY <4>1 DEF ListedOrTaken
    <3> QED
      BY <3>2, <3>3
  <2>2. \A b \in playing : SharesName(b) => SharesName(b)'
    BY SharesNameGrows
  <2> QED
    BY <2>1, <2>2 DEF ListedOrTaken, Unlisted
<1> QED
  BY <1>2, <1>3, <1>4, <1>5

LEMMA BanCommandBan ==
    ASSUME BanInv, NEW e \in online, Ban(e), UNCHANGED Xuid
    PROVE  BanInv'
<1>1. /\ e \in OfflinePlayerEntry /\ Genuine(e) /\ AddPlayer(e)
      /\ \A f \in online : f.uuid = e.uuid => f.uuid \in kicked'
      /\ kicked \subseteq kicked'
      /\ selected \subseteq selected' /\ bannedNames \subseteq bannedNames' /\ e.uuid \in selected'
      /\ UNCHANGED <<Xuid, name, users, playing, online, turnedAway, cameAs>>
  BY DEF Ban, BanInv, BanTypes
<1> QED
  BY <1>1, BanAddPlayer

LEMMA BanCommandBanName ==
    ASSUME BanInv, NEW t \in Targets, BanName(t), UNCHANGED Xuid
    PROVE  BanInv'
<1> USE DEF BanInv, BanTypes
<1>1. /\ UNCHANGED <<Xuid, name, users, playing, online, turnedAway, cameAs, selected>>
      /\ bannedNames \subseteq bannedNames' /\ (t.kind = "name" => t.value \in bannedNames')
  BY DEF BanName
<1>2. CASE t.kind = "name" /\ Matches(t) # {}
  <2> DEFINE row == FindOffline(t)
  <2>1. PICK i \in 1..Len(users) : i \in Matches(t) /\ row = users[i]
    BY <1>2, FoundIsRow
  <2>2. row \in OfflinePlayerEntry /\ Genuine(row)
    BY <2>1, ElementOfSeq
  <2>3. row.name = t.value
    BY <1>2, <2>1 DEF Matches
  <2>4. AddPlayer(row) /\ KickOnline(row)
    BY <1>2 DEF BanName
  <2> HIDE DEF row
  <2>5. kicked \subseteq kicked' /\ \A e \in online : e.uuid = row.uuid => e.uuid \in kicked'
    BY <2>4 DEF KickOnline
  <2>6. row.name \in bannedNames'
    BY <1>1, <1>2, <2>3
  <2> QED
    BY <1>1, <2>2, <2>4, <2>5, <2>6, BanAddPlayer
<1>3. CASE ~(t.kind = "name" /\ Matches(t) # {})
  <2>1. nameRows' = nameRows \cup {t} /\ UNCHANGED <<kicked, uuidRows, xuidRows>>
    BY <1>3 DEF BanName
  <2>2. \A b \in Accounts : Meant(b) => Meant(b)'
    BY <1>1, MeantGrows
  <2>3. RowsAreMeant'
    BY <1>1, <2>1, <2>2 DEF RowsAreMeant
  <2>4. ListedOrTaken'
    <3>1. \A b \in playing : SharesName(b) => SharesName(b)'
      BY <1>1, SharesNameGrows
    <3>2. \A b : Banned(b)' <=> Banned(b)
      BY <1>1, <2>1 DEF Banned
    <3> QED
      BY <1>1, <2>1, <3>1, <3>2 DEF ListedOrTaken, Unlisted
  <2>5. BanTypes' /\ \A b \in turnedAway' : (ByUUID(b) \/ ByXUID(b))'
    BY <1>1, <2>1 DEF Genuine, ByUUID, ByXUID
  <2> QED
    BY <2>3, <2>4, <2>5
<1> QED
  BY <1>2, <1>3

LEMMA BanRemove ==
    ASSUME BanInv, NEW us, NEW xs, NEW ns, Remove(us, xs, ns),
           UNCHANGED <<Xuid, name, users, playing, online, kicked, cameAs>>
    PROVE  BanInv'
<1> USE DEF BanInv, BanTypes
<1>1. BanTypes' /\ \A b \in turnedAway' : (ByUUID(b) \/ ByXUID(b))'
  BY DEF Remove, Pardon, Genuine, ByUUID, ByXUID
<1>2. /\ uuidRows' \subseteq uuidRows /\ xuidRows' \subseteq xuidRows /\ nameRows' \subseteq nameRows
      /\ Forget
  BY DEF Remove
<1>3. ASSUME NEW b \in Accounts, Meant(b), b \in uuidRows' \/ Xuid[b] \in xuidRows'
      PROVE  Meant(b)'
  BY <1>2, <1>3 DEF Meant, Forget
<1>4. RowsAreMeant'
  <2>1. \A b \in uuidRows' : b \in Accounts /\ Meant(b)'
    BY <1>2, <1>3 DEF RowsAreMeant
  <2>2. \A x \in xuidRows' : \E b \in Accounts : Meant(b)' /\ Xuid[b] = x
    BY <1>2, <1>3 DEF RowsAreMeant
  <2>3. ASSUME NEW t \in nameRows', t.kind = "name" PROVE t.value \in bannedNames'
    <3>1. t \in nameRows /\ t \in Targets
      BY <1>2
    <3>2. t = [kind |-> "name", value |-> t.value]
      BY <2>3, <3>1 DEF Targets
    <3>3. t.value \in bannedNames
      BY <2>3, <3>1 DEF RowsAreMeant
    <3> QED
      BY <1>2, <2>3, <3>2, <3>3 DEF Forget
  <2> QED
    BY <2>1, <2>2, <2>3 DEF RowsAreMeant
<1>5. ListedOrTaken'
  BY <1>2 DEF ListedOrTaken, Unlisted, SharesName, Banned
<1> QED
  BY <1>1, <1>4, <1>5

LEMMA BanUnchanged ==
    ASSUME BanInv, name' \in [Accounts -> Names],
           UNCHANGED <<Xuid, users, playing, online, kicked, uuidRows, xuidRows, nameRows, turnedAway,
                       cameAs, selected, bannedNames>>
    PROVE  BanInv'
<1> USE DEF BanInv, BanTypes
<1>1. BanTypes' /\ \A b \in turnedAway' : (ByUUID(b) \/ ByXUID(b))'
  BY DEF Genuine, ByUUID, ByXUID
<1>2. RowsAreMeant'
  BY DEF RowsAreMeant, Meant
<1>3. ListedOrTaken'
  <2>1. \A b \in playing : SharesName(b) => SharesName(b)'
    BY SharesNameGrows
  <2>2. \A b : Banned(b)' <=> Banned(b)
    BY DEF Banned
  <2> QED
    BY <2>1, <2>2 DEF ListedOrTaken, Unlisted
<1> QED
  BY <1>1, <1>2, <1>3

LEMMA BanStep == BanInv /\ [Next]_vars => BanInv'
<1> SUFFICES ASSUME BanInv, [Next]_vars PROVE BanInv'
  OBVIOUS
<1>1. ASSUME NEW a \in Accounts, NEW n \in Names, ChangeName(a, n), UNCHANGED Xuid PROVE BanInv'
  <2>1. name' \in [Accounts -> Names]
    BY <1>1 DEF ChangeName, BanInv, BanTypes
  <2> QED
    BY <1>1, <2>1, BanUnchanged DEF ChangeName, rows, history
<1>2. ASSUME NEW t \in Targets, Unban(t), UNCHANGED Xuid PROVE BanInv'
  <2>1. \E us, xs, ns : Remove(us, xs, ns)
    BY <1>2 DEF Unban, RemoveEntry, RemoveUnknown
  <2> QED
    BY <1>2, <2>1, BanRemove DEF Unban
<1>3. CASE UNCHANGED vars
  <2>1. name' \in [Accounts -> Names]
    BY <1>3 DEF vars, BanInv, BanTypes
  <2> QED
    BY <1>3, <2>1, BanUnchanged DEF vars, rows, history
<1> QED
  BY <1>1, <1>2, <1>3, BanRefuseLogin, BanAdmit, BanLeave, BanCommandBan, BanCommandBanName DEF Next

(***************************************************************************)
(* Who was refused a login stays out until a command removes a key of      *)
(* theirs, whatever names they take (updateIDs).                           *)
(***************************************************************************)
THEOREM TurnedAwayStayOut == Spec => []TurnedAwayStaysOut
<1>1. BanInv => TurnedAwayStaysOut
  BY DEF BanInv, TurnedAwayStaysOut, Blocked
<1> QED
  BY <1>1, BanInit, BanStep, PTL DEF Spec

(***************************************************************************)
(* Bans hit whom operators may have meant, for any accounts, names and     *)
(* xuids, with the one exception of the xuid 0.                            *)
(***************************************************************************)
THEOREM BansHitTheirTargets == Spec => []NobodyElseIsBlocked
<1>1. BanInv => NobodyElseIsBlocked
  <2> SUFFICES ASSUME BanInv, NEW a \in Accounts, Blocked(a)
               PROVE  \/ Meant(a) \/ name[a] \in bannedNames
                      \/ Xuid[a] = NoXuid /\ \E b \in Accounts : Meant(b) /\ Xuid[b] = NoXuid
    BY DEF NobodyElseIsBlocked
  <2> USE DEF BanInv, BanTypes, RowsAreMeant
  <2>1. CASE ByUUID(a)
    BY <2>1 DEF ByUUID
  <2>2. CASE ByXUID(a)
    BY <2>2 DEF ByXUID
  <2>3. CASE ByName(a)
    BY <2>3 DEF ByName
  <2> QED
    BY <2>1, <2>2, <2>3 DEF Blocked
<1> QED
  BY <1>1, BanInit, BanStep, PTL DEF Spec

(***************************************************************************)
(* Nobody whose uuid or xuid is banned plays on, but for a player who has  *)
(* no entry in the container, because the xuid 0 or the name was taken.    *)
(***************************************************************************)
THEOREM BannedAreKicked == Spec => []BannedIsKicked
<1>1. BanInv => BannedIsKicked
  BY DEF BanInv, ListedOrTaken, BannedIsKicked, Unlisted
<1> QED
  BY <1>1, BanInit, BanStep, PTL DEF Spec
=============================================================================
