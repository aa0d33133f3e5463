------------------------------- MODULE Economy -------------------------------
(***************************************************************************)
(* The balances of BuiltinMods/Economy: the table transaction_log with its *)
(* trigger, the view balance over it, the API other mods and scripts call, *)
(* and the command update-balance, which changes the balances of several   *)
(* players in one transaction.                                             *)
(*                                                                         *)
(* The log is abstracted to the sum of each player's rows: the view has no *)
(* row for a player without rows.  Everything runs on the server thread;   *)
(* what comes between two steps is the death of the process, and any       *)
(* statement may fail.  The sums stay below 2^63.                          *)
(***************************************************************************)
EXTENDS Integers

CONSTANTS
    Holders,     \* players who may have a balance, each its uuid
    Amounts,     \* changes that are asked for
    Sums,        \* bound: balances a behaviour reaches
    NoRow,       \* the view has no row
    NoCommand    \* no command is being executed

ASSUME AmountAssumption ==
    /\ Amounts \subseteq Int /\ Sums \subseteq Int
    /\ NoRow \notin Int /\ NoCommand \notin Int

Balance == Sums \cup {NoRow}

VARIABLES
    committed,   \* the view balance as the database file has it
    view,        \* the view balance as this connection sees it
    command,     \* the amount update-balance is adding, or NoCommand
    remaining,   \* targets it has not come to
    before       \* the balances when it began, and its targets

economyVars == <<committed, view, command, remaining, before>>

EconomyInit ==
    /\ committed = [p \in Holders |-> NoRow]
    /\ view = committed
    /\ command = NoCommand
    /\ remaining = {}
    /\ before = [balances |-> committed, targets |-> {}]

\* GetBalance: 0 if the view has no row.
GetBalance(b) == IF b = NoRow THEN 0 ELSE b

\* Mutant of Prohibited: looks at the balance before the change.
Prohibited_Before(p, amount) == view[p] # NoRow /\ view[p] < 0

\* The trigger's condition: NULL, which is not true, for a player without rows.
Prohibited(p, amount) == view[p] # NoRow /\ view[p] + amount < 0

Inserted(balances, p, amount) == [balances EXCEPT ![p] = GetBalance(@) + amount]

InSums(p, amount) == GetBalance(view[p]) + amount \in Sums

\* UpdateBalance by another mod or a script, outside of a transaction.  If the
\* trigger or the statement fails nothing changes.
UpdateBalance(p, amount) ==
    /\ command = NoCommand
    /\ InSums(p, amount) /\ ~Prohibited(p, amount)
    /\ view' = Inserted(view, p, amount)
    /\ committed' = view'
    /\ UNCHANGED <<command, remaining, before>>

\* /update-balance: the selector has found targets, and the transaction begins.
Begin(targets, amount) ==
    /\ command = NoCommand /\ targets # {}
    /\ command' = amount
    /\ remaining' = targets
    /\ before' = [balances |-> committed, targets |-> targets]
    /\ UNCHANGED <<committed, view>>

\* Mutant of UpdateNext: the insertion takes effect at once.
UpdateNext_NoTransaction(p) ==
    /\ command # NoCommand /\ p \in remaining
    /\ InSums(p, command) /\ ~Prohibited(p, command)
    /\ view' = Inserted(view, p, command)
    /\ committed' = view'
    /\ remaining' = remaining \ {p}
    /\ UNCHANGED <<command, before>>

UpdateNext(p) ==
    /\ command # NoCommand /\ p \in remaining
    /\ InSums(p, command) /\ ~Prohibited(p, command)
    /\ view' = Inserted(view, p, command)
    /\ remaining' = remaining \ {p}
    /\ UNCHANGED <<committed, command, before>>

Commit ==
    /\ command # NoCommand /\ remaining = {}
    /\ committed' = view
    /\ command' = NoCommand
    /\ UNCHANGED <<view, remaining, before>>

\* The trigger refuses, a statement or COMMIT fails: the destructor of the
\* transaction rolls it back.  If the process dies, the journal does.
Rollback ==
    /\ command # NoCommand
    /\ view' = committed
    /\ command' = NoCommand
    /\ remaining' = {}
    /\ UNCHANGED <<committed, before>>

EconomyNext ==
    \/ \E p \in Holders, amount \in Amounts : UpdateBalance(p, amount)
    \/ \E targets \in SUBSET Holders, amount \in Amounts : Begin(targets, amount)
    \/ \E p \in remaining : UpdateNext(p)
    \/ Commit \/ Rollback

EconomySpec == EconomyInit /\ [][EconomyNext]_economyVars

----------------------------------------------------------------------------

EconomyTypeOK ==
    /\ committed \in [Holders -> Balance]
    /\ view \in [Holders -> Balance]
    /\ command \in Amounts \cup {NoCommand}
    /\ remaining \subseteq before.targets
    /\ command = NoCommand => view = committed
    /\ before.balances \in [Holders -> Balance] /\ before.targets \subseteq Holders

Owes(b) == b # NoRow /\ b < 0

\* database.cpp:17: "Prohibition of negative balance", as /balance reports it.
NoDebt == \A p \in Holders : GetBalance(committed[p]) >= 0

(***************************************************************************)
(* The one way into debt is the first change a player's log has, which the *)
(* trigger lets pass because the view has no row to add it to: by mods, by *)
(* a command over several targets, after failures and deaths.  From then   *)
(* on the debt neither grows nor shrinks: it is paid off at once.          *)
(***************************************************************************)
DebtIsTheFirstChange ==
    [][\A p \in Holders :
          Owes(committed'[p]) =>
              \/ committed'[p] = committed[p]
              \/ committed[p] = NoRow /\ committed'[p] \in Amounts]_economyVars

\* Other players of a command see all of it or nothing: it adds its amount to all
\* of its targets, or changes nothing (command.cpp, UpdateBalanceCommand).
AllOrNothing ==
    [][command # NoCommand =>
          \/ committed' = before.balances
          \/ committed' = [p \in Holders |->
                IF p \in before.targets
                THEN GetBalance(before.balances[p]) + command
                ELSE before.balances[p]]]_economyVars
=============================================================================
