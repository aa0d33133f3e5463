------------------------------ MODULE HookChain ------------------------------
(***************************************************************************)
(* The hooks mods set on functions of the game (ModLoader/hook_impl.cpp):  *)
(* static objects of each DLL register them while it is mapped, and        *)
(* funchook patches the functions once, when Base and with it every mod is *)
(* mapped.  A hook reaches what it replaces through its variable           *)
(* `original'; a second hook on a function is put between the first and    *)
(* what that one called.                                                   *)
(***************************************************************************)
EXTENDS Naturals, Sequences

CONSTANTS
    Functions,  \* functions of the game, by address
    Hooks,
    Target,     \* the function a hook is set on
    Dll,        \* the DLL a hook is in
    Code,       \* the function's own code, behind funchook's trampoline
    None        \* no hook, or a variable that is not set

ASSUME HooksAssumption ==
    /\ Target \in [Hooks -> Functions]
    /\ Code \notin Hooks /\ None \notin Hooks /\ Code # None

VARIABLES
    hookmap,    \* the hook whose `original' the entry of a function points to
    original,   \* of each hook
    installed,  \* has funchook patched the functions?
    refused,    \* DLLs that are not mapped, as one of their hooks was refused
    order       \* per function, what a call of it runs: not in the code

hooksVars == <<hookmap, original, installed, refused, order>>

HooksInit ==
    /\ hookmap = [f \in Functions |-> None]
    /\ original = [h \in Hooks |-> None]
    /\ installed = FALSE /\ refused = {}
    /\ order = [f \in Functions |-> <<>>]

\* The DLL is being mapped, and the constructor of this hook's object runs.
Unregistered(h) == original[h] = None /\ Dll[h] \notin refused

\* The first hook on a function is the one funchook jumps to.
RegisterFirst(h) ==
    /\ Unregistered(h) /\ hookmap[Target[h]] = None /\ ~installed
    /\ original' = [original EXCEPT ![h] = Code]
    /\ hookmap' = [hookmap EXCEPT ![Target[h]] = h]
    /\ order' = [order EXCEPT ![Target[h]] = <<h>>]
    /\ UNCHANGED <<installed, refused>>

\* Mutant of RegisterNext: the two assignments the other way round.
RegisterNext_Swapped(h) ==
    LET first == hookmap[Target[h]] IN
    /\ Unregistered(h) /\ first # None
    /\ original' = [original EXCEPT ![first] = h, ![h] = h]
    /\ order' = [order EXCEPT ![Target[h]] = <<first, h>> \o Tail(@)]
    /\ UNCHANGED <<hookmap, installed, refused>>

\* A later one is called by the first, and calls what the first called.  This
\* needs no patch and works after the installation too.
RegisterNext(h) ==
    LET first == hookmap[Target[h]] IN
    /\ Unregistered(h) /\ first # None
    /\ original' = [original EXCEPT ![h] = original[first], ![first] = h]
    /\ order' = [order EXCEPT ![Target[h]] = <<first, h>> \o Tail(@)]
    /\ UNCHANGED <<hookmap, installed, refused>>

\* THookRegister throws: the symbol is not found, or funchook refuses, as it does
\* once the functions are patched.  The DLL is unmapped again; hooks it has
\* registered before stay in their chains.
Refuse(h) ==
    /\ Unregistered(h)
    /\ refused' = refused \cup {Dll[h]}
    /\ UNCHANGED <<hookmap, original, installed, order>>

\* HealthCheck: funchook_install, when LoadLibrary of Base.dll has returned.
Install ==
    /\ ~installed /\ installed' = TRUE
    /\ UNCHANGED <<hookmap, original, refused, order>>

HooksNext == (\E h \in Hooks : RegisterFirst(h) \/ RegisterNext(h) \/ Refuse(h)) \/ Install

HooksSpec == HooksInit /\ [][HooksNext]_hooksVars

----------------------------------------------------------------------------

HooksTypeOK ==
    /\ hookmap \in [Functions -> Hooks \cup {None}]
    /\ original \in [Hooks -> Hooks \cup {Code, None}]
    /\ installed \in BOOLEAN
    /\ refused \subseteq {Dll[h] : h \in Hooks}
    /\ order \in [Functions -> Seq(Hooks)]

(***************************************************************************)
(* A call of a function comes through every hook that was registered on it *)
(* exactly once, the first one outermost and then the latest first, and    *)
(* ends in the function's own code: following `original' from the entry    *)
(* hookmap knows is going through `order'.  (That holds for the hooks of a *)
(* refused DLL too, whose code is gone.)                                   *)
(***************************************************************************)
CallsEveryHookOnce ==
    /\ \A f \in Functions :
          /\ IF order[f] = <<>> THEN hookmap[f] = None ELSE hookmap[f] = order[f][1]
          /\ \A i \in 1..Len(order[f]) :
                /\ Target[order[f][i]] = f
                /\ original[order[f][i]] = IF i = Len(order[f]) THEN Code ELSE order[f][i + 1]
                /\ \A j \in 1..Len(order[f]) : order[f][i] = order[f][j] => i = j
    /\ \A h \in Hooks : original[h] # None => \E i \in 1..Len(order[Target[h]]) : order[Target[h]][i] = h
=============================================================================
