----------------------------- MODULE WarpProofs -----------------------------
(***************************************************************************)
(* What forms and warps promise, proved for every set of players, names    *)
(* and numbers, every bound on forms and every limit on warps.             *)
(***************************************************************************)
EXTENDS Warp, FiniteSetTheorems, TLAPS

----------------------------------------------------------------------------
(***************************************************************************)
(* Forms.                                                                  *)
(***************************************************************************)
\* A map has one entry for each number, and every form with a number of its own has
\* the entry that was made with it.
OneEntry(map) == \A d, e \in map : d.id = e.id => d = e

Registered(map, forms) == \A f \in forms : f.id # 0 => f \in map

\* Entries of menus whose form is gone are gone.
NoLeftovers(map, forms) ==
    \A e \in map : e.callback.type = "form" /\ e.id # 0 => e \in forms

FormInv ==
    /\ online \subseteq Players
    /\ data = [p \in Players |-> data[p]]
    /\ screens = [p \in Players |-> screens[p]]
    /\ \A p \in Players :
          /\ OneEntry(data[p])
          /\ Registered(data[p], screens[p])
          /\ NoLeftovers(data[p], screens[p])

\* What std::map::emplace keeps: one entry for each number.
LEMMA InsertKeepsOne ==
    ASSUME NEW map, NEW form, OneEntry(map) PROVE OneEntry(Insert(map, form))
BY DEF OneEntry, Insert

\* A form that is sent under a number that is not in use, or under 0.
LEMMA InsertForm ==
    ASSUME NEW map, NEW forms, NEW form,
           OneEntry(map), Registered(map, forms), NoLeftovers(map, forms),
           form.id # 0 => \A e \in map : e.id # form.id
    PROVE  /\ OneEntry(Insert(map, form))
           /\ Registered(Insert(map, form), forms \cup {form})
           /\ NoLeftovers(Insert(map, form), forms \cup {form})
BY DEF OneEntry, Registered, NoLeftovers, Insert

\* The answer to a form, whose callback may have sent another one.
LEMMA AnswerForm ==
    ASSUME NEW map, NEW forms, NEW f \in forms, NEW kind, NEW new, NEW rest \in Answered(map, f, kind, new),
           OneEntry(map), Registered(map, forms), NoLeftovers(map, forms),
           kind \in {"null", AnswerKinds[f.callback.type]},
           new = {} \/ \E form : new = {form} /\ (\A e \in map : e.id # form.id)
    PROVE  /\ OneEntry(rest)
           /\ Registered(rest, (forms \ {f}) \cup new)
           /\ NoLeftovers(rest, (forms \ {f}) \cup new)
<1> DEFINE grown == Grown(map, new)
           all == forms \cup new
<1>1. /\ OneEntry(grown)
      /\ Registered(grown, all)
      /\ NoLeftovers(grown, all)
  <2>1. CASE new = {}
    BY <2>1 DEF Grown
  <2>2. CASE new # {}
    <3>1. PICK form : new = {form} /\ (\A e \in map : e.id # form.id)
      BY <2>2
    <3>2. grown = Insert(map, form)
      <4>1. {Insert(map, n) : n \in {form}} = {Insert(map, form)}
        OBVIOUS
      <4>2. UNION {Insert(map, form)} = Insert(map, form)
        OBVIOUS
      <4> QED
        BY <3>1, <4>1, <4>2 DEF Grown
    <3>3. /\ OneEntry(Insert(map, form))
          /\ Registered(Insert(map, form), forms \cup {form})
          /\ NoLeftovers(Insert(map, form), forms \cup {form})
      BY <3>1, InsertForm
    <3> HIDE DEF grown
    <3> QED
      BY <3>1, <3>2, <3>3
  <2> QED
    BY <2>1, <2>2
<1>2. f.id # 0 => f \in map /\ \A e \in grown : e.id = f.id => e = f
  BY <1>1 DEF Registered, OneEntry, Grown, Insert
<1>3. \A g \in new : f.id # 0 => g.id # f.id
  BY <1>2
<1> HIDE DEF grown
<1>4. CASE rest = Erase(grown, f.id)
  BY <1>1, <1>2, <1>3, <1>4 DEF OneEntry, Registered, NoLeftovers, Erase
<1>5. CASE rest = grown /\ kind \in {"bool", "array"}
  <2>1. f.callback.type # "form"
    BY <1>5 DEF AnswerKinds
  <2> QED
    BY <1>1, <1>2, <1>5, <2>1 DEF OneEntry, Registered, NoLeftovers
<1> QED
  BY <1>4, <1>5 DEF Answered, grown

LEMMA FormInvInit == Init => FormInv
BY DEF Init, InitForms, FormInv, OneEntry, Registered, NoLeftovers

\* A step that inserts one form into one map.
LEMMA FormSent ==
    ASSUME FormInv, NEW p \in Players, NEW form,
           form.id # 0 => \A e \in data[p] : e.id # form.id,
           online' = online,
           data' = [data EXCEPT ![p] = Insert(data[p], form)],
           screens' = [screens EXCEPT ![p] = screens[p] \cup {form}]
    PROVE  FormInv'
<1>1. /\ data'[p] = Insert(data[p], form) /\ screens'[p] = screens[p] \cup {form}
      /\ \A q \in Players \ {p} : data'[q] = data[q] /\ screens'[q] = screens[q]
      /\ DOMAIN data' = Players /\ DOMAIN screens' = Players
  BY DEF FormInv
<1>2. /\ OneEntry(data'[p])
      /\ Registered(data'[p], screens'[p])
      /\ NoLeftovers(data'[p], screens'[p])
  BY <1>1, InsertForm DEF FormInv
<1> QED
  BY <1>1, <1>2 DEF FormInv

LEMMA SendKeeps ==
    ASSUME FormInv, NEW p \in Players, NEW c, SendModalForm(p, c) PROVE FormInv'
<1>1. PICK id \in Alloc(data[p]) :
        /\ data' = [data EXCEPT ![p] = Insert(@, [id |-> id, form |-> sent + 1, callback |-> c])]
        /\ screens' = [screens EXCEPT ![p] = @ \cup {[id |-> id, form |-> sent + 1, callback |-> c]}]
        /\ online' = online
  BY DEF SendModalForm
<1>2. \A e \in data[p] : e.id # id
  BY DEF Alloc
<1> DEFINE form == [id |-> id, form |-> sent + 1, callback |-> c]
<1>3. form.id = id
  OBVIOUS
<1> HIDE DEF form
<1> QED
  BY <1>1, <1>2, <1>3, FormSent DEF form

LEMMA SettingsKeep ==
    ASSUME FormInv, NEW p \in Players, NEW c, ServerSettings(p, c) PROVE FormInv'
<1> DEFINE form == [id |-> 0, form |-> sent + 1, callback |-> c]
<1>1. /\ data' = [data EXCEPT ![p] = Insert(data[p], form)]
      /\ screens' = [screens EXCEPT ![p] = screens[p] \cup {form}]
      /\ form.id = 0 /\ online' = online
  BY DEF ServerSettings
<1> HIDE DEF form
<1> QED
  BY <1>1, FormSent

LEMMA RespondKeeps ==
    ASSUME FormInv, NEW p \in Players, NEW f, NEW kind, NEW next, Respond(p, f, kind, next),
           next = {} \/ \E c : next = {c}
    PROVE  FormInv'
<1>1. PICK id \in IF next = {} THEN {0} ELSE Alloc(data[p]) :
        LET new == {[id |-> id, form |-> sent + 1, callback |-> c] : c \in next} IN
        /\ screens' = [screens EXCEPT ![p] = (@ \ {f}) \cup new]
        /\ \E map \in Answered(data[p], f, kind, new) : data' = [data EXCEPT ![p] = map]
  BY DEF Respond
<1> DEFINE new == {[id |-> id, form |-> sent + 1, callback |-> c] : c \in next}
<1>2. PICK map \in Answered(data[p], f, kind, new) : data' = [data EXCEPT ![p] = map]
  BY <1>1
<1>3. new = {} \/ \E form : new = {form} /\ (\A e \in data[p] : e.id # form.id)
  <2>1. CASE next = {}
    BY <2>1
  <2>2. CASE next # {}
    <3>1. PICK c : next = {c}
      BY <2>2
    <3>2. new = {[id |-> id, form |-> sent + 1, callback |-> c]}
      BY <3>1
    <3>3. \A e \in data[p] : e.id # id
      BY <1>1, <2>2 DEF Alloc
    <3> QED
      BY <3>2, <3>3
  <2> QED
    BY <2>1, <2>2
<1>4. screens' = [screens EXCEPT ![p] = (screens[p] \ {f}) \cup new]
  BY <1>1
<1> HIDE DEF new
<1>5. online' = online /\ f \in screens[p] /\ kind \in {"null", AnswerKinds[f.callback.type]}
  BY DEF Respond
<1>6. OneEntry(data[p]) /\ Registered(data[p], screens[p]) /\ NoLeftovers(data[p], screens[p])
  BY DEF FormInv
<1>7. /\ OneEntry(map)
      /\ Registered(map, (screens[p] \ {f}) \cup new)
      /\ NoLeftovers(map, (screens[p] \ {f}) \cup new)
  BY <1>3, <1>5, <1>6, AnswerForm
<1>8. /\ data'[p] = map /\ screens'[p] = (screens[p] \ {f}) \cup new
      /\ \A q \in Players \ {p} : data'[q] = data[q] /\ screens'[q] = screens[q]
      /\ data' = [q \in Players |-> data'[q]] /\ screens' = [q \in Players |-> screens'[q]]
  BY <1>2, <1>4 DEF FormInv
<1> QED
  BY <1>5, <1>7, <1>8 DEF FormInv

LEMMA FormInvStep == FormInv /\ [Next]_vars => FormInv'
<1> SUFFICES ASSUME FormInv, [Next]_vars PROVE FormInv'
  OBVIOUS
<1>1. ASSUME UNCHANGED formVars PROVE FormInv'
  BY <1>1 DEF FormInv, formVars
<1>2. ASSUME NEW p \in Players, Ui(p) PROVE FormInv'
  BY <1>2, SendKeeps DEF Ui
<1>3. ASSUME NEW p \in Players, NEW f \in screens[p], Close(p, f) PROVE FormInv'
  BY <1>3, RespondKeeps DEF Close
<1>4. ASSUME NEW p \in Players, NEW f \in screens[p], NEW button, Press(p, f, button) PROVE FormInv'
  BY <1>4, RespondKeeps DEF Press
<1>5. ASSUME NEW p \in Players, Join(p) PROVE FormInv'
  BY <1>5 DEF Join, FormInv
<1>6. ASSUME NEW p \in Players, Leave(p) PROVE FormInv'
  BY <1>6 DEF Leave, FormInv, OneEntry, Registered, NoLeftovers
<1>7. CASE Others
  BY <1>5, <1>6, <1>7, SendKeeps, SettingsKeep DEF Others
<1>8. CASE UNCHANGED vars
  BY <1>1, <1>8 DEF vars
<1>9. ASSUME NEW p \in Players, NEW n \in Names, NEW y,
             DelWarp(p, n) \/ WarpTo(p, own[p], n) \/ WarpTo(p, global, n) \/ SetWarp(p, n, y)
      PROVE  FormInv'
  BY <1>1, <1>9 DEF DelWarp, WarpTo, SetWarp
<1>10. ASSUME NEW n \in Names, NEW y, DelGlobalWarp(n) \/ SetGlobalWarp(n, y) PROVE FormInv'
  BY <1>1, <1>10 DEF DelGlobalWarp, SetGlobalWarp
<1> QED
  BY <1>2, <1>3, <1>4, <1>7, <1>8, <1>9, <1>10 DEF Next

(***************************************************************************)
(* The answer to a modal form finds the callback that was sent with it,    *)
(* whatever other forms there are: SendModalForm, the handler of answers   *)
(* and _onPlayerLeft keep one entry for each number and form.              *)
(***************************************************************************)
THEOREM AnswersGetToTheirCallbacks == Spec => []OwnCallback
<1>1. FormInv => OwnCallback
  BY DEF FormInv, OneEntry, Registered, OwnCallback, Found
<1> QED
  BY <1>1, FormInvInit, FormInvStep, PTL DEF Spec

(***************************************************************************)
(* The callback of a list of buttons is erased with its form: answers to   *)
(* it are null or numbers.                                                 *)
(***************************************************************************)
THEOREM MenusAreForgotten == Spec => []ListCallbacksErased
<1>1. FormInv => ListCallbacksErased
  BY DEF FormInv, NoLeftovers, ListCallbacksErased
<1> QED
  BY <1>1, FormInvInit, FormInvStep, PTL DEF Spec

(***************************************************************************)
(* Every form has its callback as long as it is before the player, and a   *)
(* list of buttons no longer.                                              *)
(***************************************************************************)
THEOREM FormsHaveTheirCallbacks == Spec => []CallbackPerForm
BY AnswersGetToTheirCallbacks, MenusAreForgotten, PTL DEF CallbackPerForm

----------------------------------------------------------------------------
(***************************************************************************)
(* Warps.                                                                  *)
(***************************************************************************)
LEMMA FewerWarps ==
    ASSUME NEW table, NEW n \in Names, table = [m \in Names |-> table[m]]
    PROVE  Count([table EXCEPT ![n] = NoWarp]) <= Count(table) /\ Count(table) \in Nat
<1> DEFINE left == {m \in Names : [table EXCEPT ![n] = NoWarp][m] # NoWarp}
           there == {m \in Names : table[m] # NoWarp}
<1>1. left \subseteq there
  OBVIOUS
<1>2. IsFiniteSet(there)
  BY WarpAssumption, FS_Subset
<1> QED
  BY <1>1, <1>2, FS_Subset, FS_CardinalityType DEF Count

LimitInv ==
    /\ own = [p \in Players |-> own[p]]
    /\ \A p \in Players : own[p] = [n \in Names |-> own[p][n]]
    /\ WithinLimit

LEMMA LimitInvStep == LimitInv /\ [Next]_vars => LimitInv'
<1> SUFFICES ASSUME LimitInv, [Next]_vars PROVE LimitInv'
  OBVIOUS
<1>1. ASSUME UNCHANGED own PROVE LimitInv'
  BY <1>1 DEF LimitInv, WithinLimit, Count
<1>2. ASSUME NEW p \in Players, NEW n \in Names, NEW y \in Heights, SetWarp(p, n, y) PROVE LimitInv'
  <2> DEFINE written == [own[p] EXCEPT ![n] = y]
  <2>1. CASE own' = own
    BY <1>1, <2>1
  <2>2. CASE Count(written) <= Limit /\ own' = [own EXCEPT ![p] = written]
    <3>1. /\ own'[p] = written /\ \A q \in Players \ {p} : own'[q] = own[q]
          /\ own' = [q \in Players |-> own'[q]]
          /\ written = [m \in Names |-> written[m]]
      BY <2>2 DEF LimitInv
    <3> HIDE DEF written
    <3> QED
      BY <2>2, <3>1 DEF LimitInv, WithinLimit, Count
  <2> QED
    BY <1>2, <2>1, <2>2 DEF SetWarp
<1>3. ASSUME NEW p \in Players, NEW n \in Names, DelWarp(p, n) PROVE LimitInv'
  <2> DEFINE left == [own[p] EXCEPT ![n] = NoWarp]
  <2>1. /\ own'[p] = left /\ \A q \in Players \ {p} : own'[q] = own[q]
        /\ own' = [q \in Players |-> own'[q]]
        /\ left = [m \in Names |-> left[m]]
    BY <1>3 DEF DelWarp, LimitInv
  <2>2. Count(left) <= Limit
    <3>1. Count(left) <= Count(own[p]) /\ Count(own[p]) \in Nat
      BY FewerWarps DEF LimitInv
    <3>2. Count(left) \in Nat
      <4>1. left = [m \in Names |-> left[m]]
        BY <2>1
      <4> HIDE DEF left
      <4> QED
        BY <4>1, FewerWarps, <1>3
    <3> QED
      BY <3>1, <3>2, WarpAssumption DEF LimitInv, WithinLimit
  <2> HIDE DEF left
  <2> QED
    BY <2>1, <2>2 DEF LimitInv, WithinLimit, Count
<1>4. ASSUME NEW p \in Players, NEW f, NEW button, Ui(p) \/ Close(p, f) \/ Press(p, f, button)
      PROVE  LimitInv'
  BY <1>1, <1>4 DEF Ui, Close, Press, warpVars
<1>5. ASSUME NEW p \in Players, NEW n \in Names, WarpTo(p, own[p], n) \/ WarpTo(p, global, n) PROVE LimitInv'
  BY <1>1, <1>5 DEF WarpTo
<1>6. ASSUME NEW n \in Names, NEW y, SetGlobalWarp(n, y) \/ DelGlobalWarp(n) PROVE LimitInv'
  BY <1>1, <1>6 DEF SetGlobalWarp, DelGlobalWarp
<1>7. CASE Others \/ UNCHANGED vars
  BY <1>1, <1>7 DEF Others, warpVars, vars
<1> QED
  BY <1>2, <1>3, <1>4, <1>5, <1>6, <1>7 DEF Next

(***************************************************************************)
(* A listener of set_warp that counts the rows after the write and refuses *)
(* keeps every player within its limit.                                    *)
(***************************************************************************)
THEOREM PlayersStayWithinLimit == Spec => []WithinLimit
<1>1. Init => LimitInv
  <2> SUFFICES ASSUME Init, NEW p \in Players PROVE Count(own[p]) <= Limit
    BY DEF Init, LimitInv, WithinLimit
  <2>1. {n \in Names : own[p][n] # NoWarp} = {}
    BY DEF Init
  <2> QED
    BY <2>1, FS_EmptySet, WarpAssumption DEF Count
<1>2. LimitInv => WithinLimit
  BY DEF LimitInv
<1> QED
  BY <1>1, <1>2, LimitInvStep, PTL DEF Spec

----------------------------------------------------------------------------
(***************************************************************************)
(* Menus.                                                                  *)
(***************************************************************************)
Tables == [Names -> Heights \cup {NoWarp}]

\* The lists menus have copied are lists of rows.
MenuInv ==
    /\ own \in [Players -> Tables] /\ global \in Tables
    /\ moved = [p \in Players |-> moved[p]]
    /\ screens = [p \in Players |-> screens[p]]
    /\ \A p \in Players : \A f \in screens[p] :
          f.callback.menu \in Menus => f.callback.list \in Seq(WarpInfo)

\* What a SELECT returns is a list of rows.
LEMMA ListsAreRows == ASSUME NEW table \in Tables PROVE Lists(table) \subseteq Seq(WarpInfo)
<1> DEFINE there == {m \in Names : table[m] # NoWarp}
           row == [n \in there |-> [name |-> n, y |-> table[n]]]
           rows == {[name |-> n, y |-> table[n]] : n \in there}
<1>1. rows \subseteq WarpInfo
  <2>1. ASSUME NEW n \in there PROVE [name |-> n, y |-> table[n]] \in [name : Names, y : Int]
    <3>1. n \in Names /\ table[n] \in Heights
      BY <2>1 DEF Tables
    <3> HIDE DEF there
    <3> QED
      BY <3>1, WarpAssumption
  <2> QED
    BY <2>1 DEF WarpInfo
<1>2. Cardinality(rows) \in Nat
  <2>1. IsFiniteSet(there)
    BY WarpAssumption, FS_Subset
  <2>2. row \in Surjection(there, rows)
    BY DEF Surjection
  <2> HIDE DEF there, row, rows
  <2> QED
    BY <2>1, <2>2, FS_Surjection, FS_CardinalityType
<1>3. Lists(table) = SetToSeqs(rows)
  BY DEF Lists
<1> HIDE DEF rows, there, row
<1>4. ASSUME NEW l \in SetToSeqs(rows) PROVE l \in Seq(WarpInfo)
  <2>1. l \in [1..Cardinality(rows) -> rows]
    BY DEF SetToSeqs
  <2>2. l \in [1..Cardinality(rows) -> WarpInfo]
    BY <1>1, <2>1
  <2> QED
    BY <1>2, <2>2
<1> QED
  BY <1>3, <1>4

\* The callbacks of menus, and those of other mods.
ListOf(c) == c.menu \in Menus => c.list \in Seq(WarpInfo)

LEMMA MenusCopyRows ==
    ASSUME MenuInv, NEW p \in Players, NEW c \in LocalMenu(p) \cup GlobalMenu \cup EmptyMenu \cup Callbacks
    PROVE  ListOf(c)
<1>1. own[p] \in Tables /\ global \in Tables
  BY DEF MenuInv
<1> QED
  BY <1>1, ListsAreRows, WarpAssumption DEF LocalMenu, GlobalMenu, EmptyMenu, ListOf, Menus

\* A step that leaves each player's forms, but for forms with such callbacks.
LEMMA ScreensKeep ==
    ASSUME MenuInv, NEW p \in Players, NEW new, NEW gone,
           \A f \in new : ListOf(f.callback),
           screens' = [screens EXCEPT ![p] = (@ \ gone) \cup new],
           own' \in [Players -> Tables], global' \in Tables,
           moved' = [q \in Players |-> moved'[q]]
    PROVE  MenuInv'
<1>1. /\ screens'[p] = (screens[p] \ gone) \cup new
      /\ \A q \in Players \ {p} : screens'[q] = screens[q]
      /\ screens' = [q \in Players |-> screens'[q]]
  BY DEF MenuInv
<1> QED
  BY <1>1 DEF MenuInv, ListOf

\* A step that sends nobody a form and answers none.
LEMMA TablesKeep ==
    ASSUME MenuInv, \A p \in Players : screens'[p] \subseteq screens[p],
           screens' = [p \in Players |-> screens'[p]],
           own' \in [Players -> Tables], global' \in Tables,
           moved' = [p \in Players |-> moved'[p]]
    PROVE  MenuInv'
BY DEF MenuInv

LEMMA SendCopies ==
    ASSUME MenuInv, NEW p \in Players, NEW c, ListOf(c),
           SendModalForm(p, c) \/ ServerSettings(p, c), UNCHANGED warpVars
    PROVE  MenuInv'
<1>1. PICK id : screens' = [screens EXCEPT ![p] = @ \cup {[id |-> id, form |-> sent + 1, callback |-> c]}]
  BY DEF SendModalForm, ServerSettings
<1> DEFINE new == {[id |-> id, form |-> sent + 1, callback |-> c]}
<1>2. screens' = [screens EXCEPT ![p] = (@ \ {}) \cup new]
  BY <1>1
<1>3. \A f \in new : ListOf(f.callback)
  OBVIOUS
<1> HIDE DEF new
<1>4. own' \in [Players -> Tables] /\ global' \in Tables /\ moved' = [q \in Players |-> moved'[q]]
  BY DEF MenuInv, warpVars
<1> QED
  BY <1>2, <1>3, <1>4, ScreensKeep

LEMMA RespondCopies ==
    ASSUME MenuInv, NEW p \in Players, NEW f, NEW kind, NEW next, Respond(p, f, kind, next),
           \A c \in next : ListOf(c), UNCHANGED <<own, global>>,
           moved' = [q \in Players |-> moved'[q]]
    PROVE  MenuInv'
<1>1. PICK id \in IF next = {} THEN {0} ELSE Alloc(data[p]) :
        LET new == {[id |-> id, form |-> sent + 1, callback |-> c] : c \in next} IN
        screens' = [screens EXCEPT ![p] = (@ \ {f}) \cup new]
  BY DEF Respond
<1> DEFINE new == {[id |-> id, form |-> sent + 1, callback |-> c] : c \in next}
<1>2. \A g \in new : ListOf(g.callback)
  OBVIOUS
<1>3. screens' = [screens EXCEPT ![p] = (@ \ {f}) \cup new]
  BY <1>1
<1> HIDE DEF new
<1>4. own' \in [Players -> Tables] /\ global' \in Tables
  BY DEF MenuInv
<1> QED
  BY <1>2, <1>3, <1>4, ScreensKeep

LEMMA MovedKeeps ==
    ASSUME NEW p \in Players, NEW info, moved = [q \in Players |-> moved[q]],
           WarpPlayer(p, info) \/ UNCHANGED moved
    PROVE  moved' = [q \in Players |-> moved'[q]]
BY DEF WarpPlayer

LEMMA MenuInvStep == MenuInv /\ [Next]_vars => MenuInv'
<1> SUFFICES ASSUME MenuInv, [Next]_vars PROVE MenuInv'
  OBVIOUS
<1>1. ASSUME NEW p \in Players, Ui(p) PROVE MenuInv'
  <2>1. PICK c \in ShowUi(p) : SendModalForm(p, c)
    BY <1>1 DEF Ui
  <2>2. ListOf(c)
    BY MenusCopyRows DEF ShowUi
  <2> QED
    BY <1>1, <2>1, <2>2, SendCopies DEF Ui
<1>2. ASSUME NEW p \in Players, NEW f \in screens[p], Close(p, f) PROVE MenuInv'
  <2>1. moved' = [q \in Players |-> moved'[q]] /\ UNCHANGED <<own, global>>
    BY <1>2 DEF Close, warpVars, MenuInv
  <2>2. PICK kind : Respond(p, f, kind, {})
    BY <1>2 DEF Close
  <2> QED
    BY <2>1, <2>2, RespondCopies
<1>3. ASSUME NEW p \in Players, NEW f \in screens[p], NEW button, Press(p, f, button) PROVE MenuInv'
  <2>1. PICK next : Respond(p, f, "int", next) /\ next \subseteq LocalMenu(p)
    BY <1>3 DEF Press
  <2>2. \A c \in next : ListOf(c)
    BY <2>1, MenusCopyRows
  <2>3. moved' = [q \in Players |-> moved'[q]] /\ UNCHANGED <<own, global>>
    BY <1>3, MovedKeeps DEF Press, MenuInv
  <2> QED
    BY <2>1, <2>2, <2>3, RespondCopies
<1>4. ASSUME UNCHANGED formVars, own' \in [Players -> Tables], global' \in Tables,
             moved' = [p \in Players |-> moved'[p]]
      PROVE  MenuInv'
  BY <1>4, TablesKeep DEF formVars, MenuInv
<1>5. ASSUME NEW p \in Players, NEW n \in Names, NEW y \in Heights, SetWarp(p, n, y) PROVE MenuInv'
  <2>1. [own[p] EXCEPT ![n] = y] \in Tables
    BY DEF MenuInv, Tables
  <2>2. own' \in [Players -> Tables]
    BY <1>5, <2>1 DEF SetWarp, MenuInv
  <2> QED
    BY <1>4, <1>5, <2>2 DEF SetWarp, MenuInv
<1>6. ASSUME NEW p \in Players, NEW n \in Names, DelWarp(p, n) PROVE MenuInv'
  <2>1. own' \in [Players -> Tables]
    BY <1>6 DEF DelWarp, MenuInv, Tables
  <2> QED
    BY <1>4, <1>6, <2>1 DEF DelWarp, MenuInv
<1>7. ASSUME NEW p \in Players, NEW n \in Names, WarpTo(p, own[p], n) \/ WarpTo(p, global, n) PROVE MenuInv'
  BY <1>4, <1>7, MovedKeeps DEF WarpTo, MenuInv
<1>8. ASSUME NEW n \in Names, DelGlobalWarp(n) \/ \E y \in Heights : SetGlobalWarp(n, y)
      PROVE  MenuInv'
  <2>1. global' \in Tables
    BY <1>8 DEF SetGlobalWarp, DelGlobalWarp, MenuInv, Tables
  <2> QED
    BY <1>4, <1>8, <2>1 DEF SetGlobalWarp, DelGlobalWarp, MenuInv
<1>9. CASE Others
  <2>1. own' \in [Players -> Tables] /\ global' \in Tables /\ moved' = [p \in Players |-> moved'[p]]
    BY <1>9 DEF Others, warpVars, MenuInv
  <2>2. ASSUME NEW p \in Players, Join(p) \/ Leave(p) PROVE MenuInv'
    BY <2>1, <2>2, TablesKeep DEF Join, Leave, MenuInv
  <2>3. ASSUME NEW p \in Players, NEW c \in Callbacks, SendModalForm(p, c) \/ ServerSettings(p, c)
        PROVE  MenuInv'
    BY <1>9, <2>3, MenusCopyRows, SendCopies DEF Others
  <2> QED
    BY <1>9, <2>2, <2>3 DEF Others
<1>10. CASE UNCHANGED vars
  BY <1>4, <1>10 DEF vars, warpVars, MenuInv
<1>11. ASSUME NEW p \in Players, NEW n \in Names,
              \/ DelWarp(p, n) \/ WarpTo(p, own[p], n) \/ WarpTo(p, global, n)
              \/ \E y \in Heights : SetWarp(p, n, y)
       PROVE  MenuInv'
  BY <1>5, <1>6, <1>7, <1>11
<1>12. ASSUME NEW p \in Players, NEW f \in screens[p],
              Close(p, f) \/ \E button \in 1..(Cardinality(Names) + 1) : Press(p, f, button)
       PROVE  MenuInv'
  BY <1>2, <1>3, <1>12
<1> QED
  BY <1>1, <1>8, <1>9, <1>10, <1>11, <1>12 DEF Next

\* The warp a menu takes for a button has the name that is on it.
LEMMA PickedIsOnButton ==
    ASSUME NEW menu, menu.menu \in Menus, menu.list \in Seq(WarpInfo),
           NEW button \in 1..Len(Buttons(menu)), ~(menu.menu = "global" /\ button = 1),
           NEW info \in Picked(menu, button - 1)
    PROVE  info \in Range(menu.list) /\ info.name = Buttons(menu)[button]
<1> DEFINE list == menu.list
           names == [i \in 1..Len(list) |-> list[i].name]
<1>1. Len(list) \in Nat /\ DOMAIN list = 1..Len(list) /\ \A i \in 1..Len(list) : list[i].name \in Names
  <2>1. list \in Seq(WarpInfo)
    OBVIOUS
  <2>2. \A r \in WarpInfo : r.name \in Names
    BY DEF WarpInfo
  <2> HIDE DEF list
  <2> QED
    BY <2>1, <2>2
<1>2. names \in Seq(Names) /\ Len(names) = Len(list)
  BY <1>1
<1>3. CASE menu.menu = "local"
  <2>1. Buttons(menu) = names
    BY <1>3 DEF Buttons
  <2>2. button \in 1..Len(list) /\ info = list[button]
    BY <1>1, <1>2, <1>3, <2>1 DEF Picked
  <2> QED
    BY <1>1, <2>1, <2>2 DEF Range
<1>4. CASE menu.menu = "global"
  <2>1. Buttons(menu) = <<"ui.warp.jump">> \o names
    BY <1>4 DEF Buttons
  <2>2. button - 1 \in 1..Len(list) /\ info = list[button - 1]
    BY <1>1, <1>4 DEF Picked
  <2>3. (<<"ui.warp.jump">> \o names)[button] = names[button - 1]
    BY <1>1, <1>2, <2>2
  <2> QED
    BY <1>1, <2>1, <2>2, <2>3 DEF Range
<1> QED
  BY <1>3, <1>4 DEF Menus

(***************************************************************************)
(* A button leads to the warp whose name is on it, whatever was set and    *)
(* deleted since the menu was shown, and in whatever order a player        *)
(* answers its forms.                                                      *)
(***************************************************************************)
THEOREM ButtonsLeadToTheirWarps == Spec => ButtonsLead
<1>1. Init => MenuInv
  BY DEF Init, InitForms, MenuInv, Tables
<1>2. ASSUME FormInv, MenuInv, [Next]_vars, NEW p \in Players, moved'[p] # moved[p],
             NEW f \in screens[p] \ screens'[p], f.id # 0,
             NEW button \in 1..Len(Buttons(f.callback)), Press(p, f, button)
      PROVE  /\ moved'[p] \in Range(f.callback.list)
             /\ moved'[p].name = Buttons(f.callback)[button]
  <2>1. f.callback.menu \in Menus /\ f.callback.list \in Seq(WarpInfo)
    BY <1>2 DEF Press, MenuInv
  <2>2. Found(p, f.id) = {f}
    BY <1>2 DEF FormInv, OneEntry, Registered, Found
  <2>3. ~(f.callback.menu = "global" /\ button = 1)
    BY <1>2, <2>2 DEF Press
  <2>4. PICK info \in Picked(f.callback, button - 1) : WarpPlayer(p, info)
    BY <1>2, <2>2, <2>3 DEF Press
  <2>5. moved'[p] = info
    BY <1>2, <2>4 DEF WarpPlayer, MenuInv
  <2> QED
    BY <2>1, <2>3, <2>4, <2>5, PickedIsOnButton
<1>3. FormInv /\ MenuInv /\ [Next]_vars =>
        [\A p \in Players : moved'[p] # moved[p] =>
          \A f \in screens[p] \ screens'[p] : f.id # 0 =>
              \A button \in 1..Len(Buttons(f.callback)) : Press(p, f, button) =>
                  /\ moved'[p] \in Range(f.callback.list)
                  /\ moved'[p].name = Buttons(f.callback)[button]]_vars
  BY <1>2
<1> QED
  BY <1>1, <1>3, FormInvInit, FormInvStep, MenuInvStep, PTL DEF Spec, ButtonsLead
=============================================================================
