------------------------------ MODULE MCStores ------------------------------
(***************************************************************************)
(* What mods keep of the players on small instances: the databases of      *)
(* Economy and of the custom names, and warps with their menus.  They      *)
(* share no state: a behaviour is one of them, chosen at its start, and    *)
(* the others rest in their first state.                                   *)
(***************************************************************************)
EXTENDS Economy, CustomName, Warp, TLC

CONSTANTS p1, a, b

VARIABLE store      \* what this behaviour is about

MCAmounts == {-2, -1, 1, 2}
MCSums == -3..3

OnePlayer == {p1}
TwoNames == {a, b}
OtherMod == {[type |-> "custom_form", menu |-> "other", list |-> <<>>]}
AnyName == Permutations(TwoNames)

MCInit ==
    /\ store \in {"economy", "names", "warps"}
    /\ EconomyInit /\ NamesInit /\ Init
    /\ store # "names" => names = {} /\ file.custom_name = NoTable

MCNext ==
    \/ store = "economy" /\ EconomyNext /\ UNCHANGED <<namesVars, vars, store>>
    \/ store = "names" /\ NamesNext /\ UNCHANGED <<economyVars, vars, store>>
    \/ store = "warps" /\ Next /\ UNCHANGED <<economyVars, namesVars, store>>

MCSpec == MCInit /\ [][MCNext]_<<economyVars, namesVars, vars, store>>
=============================================================================
