-------------------------------- MODULE Warp --------------------------------
(***************************************************************************)
(* Warps, of Essentials/warp.cpp: places players keep under names, places  *)
(* for everybody, the commands /warp and /global-warp, and the menu, made  *)
(* of forms.  What a menu does is decided by the list its callback has     *)
(* copied when it was shown.                                               *)
(*                                                                         *)
(* Of a place only the height is kept.  A player stands for its uuid, too: *)
(* the tables survive its leaving, its forms do not.                       *)
(***************************************************************************)
EXTENDS FormUI, Integers, SequencesExt

CONSTANTS
    Names,     \* names a player may give
    Heights,   \* the heights of players who set a warp
    NoWarp,    \* no row
    Nowhere,   \* no teleport yet
    Limit      \* how many warps a listener of set_warp lets a player have

Menus == {"local", "global"}

ASSUME WarpAssumption ==
    /\ Heights \subseteq Int /\ NoWarp \notin Int
    /\ Limit \in Nat /\ IsFiniteSet(Names)
    /\ \A c \in Callbacks : c.menu \notin Menus

VARIABLES
    own,      \* the table warp
    global,   \* the table global_warp
    moved     \* where each player was sent last

warpVars == <<own, global, moved>>
vars == <<formVars, warpVars>>

WarpInfo == [name : Names, y : Int]

\* A SELECT without ORDER BY gives the rows in any order.
Lists(table) ==
    SetToSeqs({[name |-> n, y |-> table[n]] : n \in {m \in Names : table[m] # NoWarp}})

Count(table) == Cardinality({n \in Names : table[n] # NoWarp})

Init ==
    /\ InitForms
    /\ own = [p \in Players |-> [n \in Names |-> NoWarp]]
    /\ global = [n \in Names |-> NoWarp]
    /\ moved = [p \in Players |-> Nowhere]

----------------------------------------------------------------------------
(***************************************************************************)
(* The tables.                                                             *)
(***************************************************************************)
\* Mutant of SetWarp: the listeners are asked before the row is written.
SetWarp_AskFirst(p, name, y) ==
    /\ p \in online
    /\ \/ Count(own[p]) <= Limit /\ own' = [own EXCEPT ![p][name] = y]
       \/ own' = own
    /\ UNCHANGED <<formVars, global, moved>>

(***************************************************************************)
(* SetWarp writes the row, asks the listeners, and commits if none of them *)
(* has refused or thrown; otherwise the transaction is rolled back.  One   *)
(* listener counts the rows of the player, the new one included.           *)
(***************************************************************************)
SetWarp(p, name, y) ==
    /\ p \in online
    /\ LET written == [own[p] EXCEPT ![name] = y] IN
          \/ Count(written) <= Limit /\ own' = [own EXCEPT ![p] = written]
          \/ own' = own
    /\ UNCHANGED <<formVars, global, moved>>

DelWarp(p, name) ==
    /\ p \in online
    /\ own' = [own EXCEPT ![p][name] = NoWarp]
    /\ UNCHANGED <<formVars, global, moved>>

SetGlobalWarp(name, y) ==
    /\ global' = [global EXCEPT ![name] = y]
    /\ UNCHANGED <<formVars, own, moved>>

DelGlobalWarp(name) ==
    /\ global' = [global EXCEPT ![name] = NoWarp]
    /\ UNCHANGED <<formVars, own, moved>>

\* WarpSystem::Warp: a listener of the event warp may refuse.
WarpPlayer(p, info) == moved' = [moved EXCEPT ![p] = info] \/ moved' = moved

\* /warp to: GetWarp and GetGlobalWarp take one from the height.
WarpTo(p, table, name) ==
    /\ p \in online
    /\ table[name] # NoWarp
    /\ WarpPlayer(p, [name |-> name, y |-> table[name] - 1])
    /\ UNCHANGED <<formVars, own, global>>

----------------------------------------------------------------------------
(***************************************************************************)
(* The menu.                                                               *)
(***************************************************************************)
LocalMenu(p) == {[type |-> "form", menu |-> "local", list |-> l] : l \in Lists(own[p])}

GlobalMenu == {[type |-> "form", menu |-> "global", list |-> l] : l \in Lists(global)}

EmptyMenu == {[type |-> "modal", menu |-> "empty", list |-> <<>>]}

\* showUi: the forms that may be shown first.
ShowUi(p) ==
    IF Count(global) # 0 THEN GlobalMenu
    ELSE IF Count(own[p]) = 0 THEN EmptyMenu ELSE LocalMenu(p)

Ui(p) ==
    /\ \E callback \in ShowUi(p) : SendModalForm(p, callback)
    /\ UNCHANGED warpVars

\* The buttons of a menu, as the player reads them.
Buttons(menu) ==
    LET names == [i \in 1..Len(menu.list) |-> menu.list[i].name]
    IN  IF menu.menu = "global" THEN <<"ui.warp.jump">> \o names ELSE names

\* Mutant of Picked: the button that leads to the other menu is forgotten.
Picked_NoJump(menu, ret) ==
    IF ret < Len(menu.list) THEN {menu.list[ret + 1]} ELSE {}

\* The warp a callback takes for the number it is given.
Picked(menu, ret) ==
    IF menu.menu = "local"
    THEN IF ret < Len(menu.list) THEN {menu.list[ret + 1]} ELSE {}
    ELSE IF 0 < ret /\ ret <= Len(menu.list) THEN {menu.list[ret]} ELSE {}

\* The player presses a button of a menu: the callback registered under the number
\* of the form gets the number of the button.
Press(p, f, button) ==
    /\ f.callback.menu \in Menus /\ button \in 1..Len(Buttons(f.callback))
    /\ \E e \in Found(p, f.id) :
          IF e.callback.menu = "global" /\ button = 1
          THEN /\ \E c \in LocalMenu(p) : Respond(p, f, "int", {c})
               /\ UNCHANGED moved
          ELSE /\ Respond(p, f, "int", {})
               /\ \/ \E info \in Picked(e.callback, button - 1) : WarpPlayer(p, info)
                  \/ Picked(e.callback, button - 1) = {} /\ UNCHANGED moved
    /\ UNCHANGED <<own, global>>

\* Answers no callback of a menu does anything with, and answers to other forms.
Close(p, f) ==
    /\ \E kind \in {"null", "bool", "array", "int"} :
          /\ kind = "int" => f.callback.menu \notin Menus
          /\ Respond(p, f, kind, {})
    /\ UNCHANGED warpVars

Others ==
    /\ \/ \E p \in Players : Join(p) \/ Leave(p)
       \/ \E p \in Players, c \in Callbacks : SendModalForm(p, c) \/ ServerSettings(p, c)
    /\ UNCHANGED warpVars

Next ==
    \/ \E p \in Players : Ui(p)
    \/ \E p \in Players : \E f \in screens[p] :
          Close(p, f) \/ \E button \in 1..(Cardinality(Names) + 1) : Press(p, f, button)
    \/ \E p \in Players, n \in Names :
          \/ DelWarp(p, n) \/ WarpTo(p, own[p], n) \/ WarpTo(p, global, n)
          \/ \E y \in Heights : SetWarp(p, n, y)
    \/ \E n \in Names : DelGlobalWarp(n) \/ \E y \in Heights : SetGlobalWarp(n, y)
    \/ Others

Spec == Init /\ [][Next]_vars

----------------------------------------------------------------------------

TypeOK ==
    /\ own \in [Players -> [Names -> Heights \cup {NoWarp}]]
    /\ global \in [Names -> Heights \cup {NoWarp}]
    /\ moved \in [Players -> WarpInfo \cup {Nowhere}]

(***************************************************************************)
(* The button a player presses takes it to the warp whose name is on it,   *)
(* at the place the warp had when the menu was made, although the callback *)
(* is found by the number of the form, the menu with global warps has one  *)
(* button more than warps, and the tables may have changed.  Menus with    *)
(* the number 0 are the exception: the answer to a settings form, which    *)
(* has that number too, erases their callbacks, and the next menu may get  *)
(* the number.                                                             *)
(***************************************************************************)
ButtonsLead ==
    [][\A p \in Players : moved'[p] # moved[p] =>
          \A f \in screens[p] \ screens'[p] : f.id # 0 =>
              \A button \in 1..Len(Buttons(f.callback)) : Press(p, f, button) =>
                  /\ moved'[p] \in Range(f.callback.list)
                  /\ moved'[p].name = Buttons(f.callback)[button]]_vars

(***************************************************************************)
(* A listener of set_warp that refuses when it counts too many warps keeps *)
(* every player within the limit, and lets a player who has reached it     *)
(* still set a name anew: the row is written before the listeners are      *)
(* asked, and taken back if one refuses.                                   *)
(***************************************************************************)
WithinLimit == \A p \in Players : Count(own[p]) <= Limit
=============================================================================
