------------------------------ MODULE CustomName ------------------------------
(***************************************************************************)
(* The table custom_name of the Essentials: the migration initDatabase     *)
(* does when the server starts, statement by statement, and the commands   *)
(* that change the table when it runs (database.cpp, custom_name.cpp).     *)
(*                                                                         *)
(* The process may die between any two statements and be started again.    *)
(* SQLite then has the file as the last commit left it; a statement that   *)
(* is not in a transaction is one.  A row is its player: the columns do    *)
(* not matter here.                                                        *)
(***************************************************************************)
EXTENDS Naturals

CONSTANTS
    Owners,     \* players who can have a custom name
    NoTable     \* no table of that name

ASSUME TableAssumption == NoTable \notin [schema : 0..2, rows : SUBSET Owners]

\* A table: schema 0 has the columns uuid_a and uuid_b, 1 has uuid, 2 has nametag too.
Table == [schema : 0..2, rows : SUBSET Owners] \cup {NoTable}

Database == [custom_name : Table, custom_name_bak_0 : Table, version : 0..3]

VARIABLES
    file,      \* the database as of the last commit
    work,      \* the database as the open connection sees it
    pc,        \* the statement that comes next, "down", "running" or "refused"
    names      \* the players who have a custom name, as the operator has it

namesVars == <<file, work, pc, names>>

Statement == {"exists", "switch", "rename", "create_new", "copy", "add_column",
              "commit", "create", "pragma"}

\* The databases releases of the mod have left behind, and that of a later one.
NamesInit ==
    /\ names \in SUBSET Owners
    /\ \E v \in 0..3, bak \in {NoTable, [schema |-> 0, rows |-> names]} :
          /\ bak # NoTable => v \in {1, 2}
          /\ file = [custom_name |-> [schema |-> IF v = 3 THEN 2 ELSE v, rows |-> names],
                     custom_name_bak_0 |-> bak, version |-> v]
       \/ /\ names = {}
          /\ file = [custom_name |-> NoTable, custom_name_bak_0 |-> NoTable, version |-> 0]
    /\ work = file
    /\ pc = "down"

Start ==
    /\ pc \in {"down", "refused"}
    /\ pc' = "exists"
    /\ work' = file
    /\ UNCHANGED <<file, names>>

Exists ==
    /\ pc = "exists"
    /\ pc' = IF file.custom_name = NoTable THEN "create" ELSE "switch"
    /\ UNCHANGED <<file, work, names>>

\* exit(1): an open transaction is rolled back.
Refuse == pc' = "refused" /\ work' = file /\ UNCHANGED <<file, names>>

\* Mutant of Switch: version 2 is not expected.
Switch_NoNewest ==
    /\ pc = "switch"
    /\ \/ /\ work.version \in 0..1
          /\ pc' = IF work.version = 0 THEN "rename" ELSE "add_column"
          /\ UNCHANGED <<file, work, names>>
       \/ work.version > 1 /\ Refuse

\* The transaction begins.  (PRAGMA user_version is read before.)
Switch ==
    /\ pc = "switch"
    /\ \/ /\ work.version \in 0..2
          /\ pc' = CASE work.version = 0 -> "rename"
                     [] work.version = 1 -> "add_column"
                     [] work.version = 2 -> "commit"
          /\ UNCHANGED <<file, work, names>>
       \/ work.version > 2 /\ Refuse

\* Mutant of Execute: there is no transaction.
Execute_AutoCommit(db, next) == work' = db /\ file' = db /\ pc' = next /\ UNCHANGED names

\* A statement inside the transaction.
Execute(db, next) == work' = db /\ pc' = next /\ UNCHANGED <<file, names>>

\* ALTER TABLE custom_name RENAME TO custom_name_bak_0.
Rename ==
    /\ pc = "rename"
    /\ IF work.custom_name_bak_0 # NoTable
       THEN Refuse
       ELSE Execute([work EXCEPT !.custom_name = NoTable, !.custom_name_bak_0 = work.custom_name],
                    "create_new")

\* CREATE TABLE custom_name.
CreateNew ==
    /\ pc = "create_new"
    /\ Execute([work EXCEPT !.custom_name = [schema |-> 1, rows |-> {}]], "copy")

\* INSERT INTO custom_name SELECT make_uuid(uuid_a, uuid_b) ... FROM custom_name_bak_0.
Copy ==
    /\ pc = "copy"
    /\ IF work.custom_name_bak_0.schema # 0
       THEN Refuse
       ELSE Execute([work EXCEPT !.custom_name.rows = work.custom_name_bak_0.rows], "add_column")

\* ALTER TABLE custom_name ADD COLUMN nametag.
AddColumn ==
    /\ pc = "add_column"
    /\ IF work.custom_name.schema = 2
       THEN Refuse
       ELSE Execute([work EXCEPT !.custom_name.schema = 2], "commit")

CommitMigration ==
    /\ pc = "commit"
    /\ file' = work
    /\ pc' = "create"
    /\ UNCHANGED <<work, names>>

\* CREATE TABLE IF NOT EXISTS custom_name.
Create ==
    /\ pc = "create"
    /\ work' = IF work.custom_name = NoTable
               THEN [work EXCEPT !.custom_name = [schema |-> 2, rows |-> {}]]
               ELSE work
    /\ file' = work'
    /\ pc' = "pragma"
    /\ UNCHANGED names

\* PRAGMA user_version = 2.
Pragma ==
    /\ pc = "pragma"
    /\ work' = [work EXCEPT !.version = 2]
    /\ file' = work'
    /\ pc' = "running"
    /\ UNCHANGED names

Die ==
    /\ pc \notin {"down", "refused"}
    /\ pc' = "down"
    /\ work' = file
    /\ UNCHANGED <<file, names>>

\* /custom-name set, for the players of the selector, in a transaction.
SetCustomName(S) ==
    /\ pc = "running"
    /\ work' = [work EXCEPT !.custom_name.rows = @ \cup S]
    /\ file' = work'
    /\ names' = names \cup S
    /\ UNCHANGED pc

ClearCustomName(S) ==
    /\ pc = "running"
    /\ work' = [work EXCEPT !.custom_name.rows = @ \ S]
    /\ file' = work'
    /\ names' = names \ S
    /\ UNCHANGED pc

NamesNext ==
    \/ Start \/ Exists \/ Switch \/ Rename \/ CreateNew \/ Copy \/ AddColumn \/ CommitMigration
    \/ Create \/ Pragma \/ Die
    \/ \E S \in SUBSET Owners : SetCustomName(S) \/ ClearCustomName(S)

NamesSpec == NamesInit /\ [][NamesNext]_namesVars

----------------------------------------------------------------------------

NamesTypeOK ==
    /\ file \in Database
    /\ work \in Database
    /\ pc \in Statement \cup {"down", "running", "refused"}
    /\ names \subseteq Owners

\* Whatever statement the process dies at, the rows of the table are there when
\* the file is looked at again: the migration moves them in one transaction.
NamesKept == IF file.custom_name = NoTable THEN names = {} ELSE file.custom_name.rows = names

\* The commands, whose statements name the columns uuid and nametag, only ever
\* see the newest table.
RunsOnNewest == pc = "running" => file.custom_name.schema = 2 /\ file.version = 2 /\ work = file

\* The server refuses to start only when the version is that of a later release,
\* or when it died between the commit of a migration, or the creation of the
\* table, and the PRAGMA that follows.
RefusedForAReason ==
    pc = "refused" => file.version = 3 \/ (file.version < 2 /\ file.custom_name.schema = 2)
=============================================================================
