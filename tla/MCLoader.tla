------------------------------ MODULE MCLoader ------------------------------
(***************************************************************************)
(* The loader with three mods and the chains of hooks with two functions.  *)
(* A behaviour is one of either, chosen at its start; the other rests.     *)
(***************************************************************************)
EXTENDS ModLoader, HookChain, TLC

CONSTANTS a, b, c, old, new, f, g, h1, h2, h3, h4, d1, d2

VARIABLE part

MCMods == {a, b, c}
MCValues == {old, new}

\* No imports, chains, one mod that imports two, cycles of two and of three.
MCImporting ==
    {a :> A @@ b :> B @@ c :> C :
        A \in {{}, {b}, {b, c}}, B \in {{}, {c}}, C \in {{}, {a}}}

\* A new server, and one with a disabled mod and one the file does not name.
MCFiles ==
    {[m \in MCMods |-> [enabled |-> "yes", value |-> Unreadable]],
     a :> [enabled |-> "unset", value |-> new] @@ b :> [enabled |-> "no", value |-> new]
         @@ c :> [enabled |-> "yes", value |-> new]}

MCEdits ==
    {[enabled |-> "yes", value |-> new], [enabled |-> "bad", value |-> new],
     [enabled |-> "no", value |-> old]}

\* A write is cut off behind the first section.
MCTorn == {{a}}

\* Three hooks of two DLLs on one function, one on another.
MCTarget == h1 :> f @@ h2 :> f @@ h3 :> f @@ h4 :> g
MCDll == h1 :> d1 @@ h2 :> d1 @@ h3 :> d2 @@ h4 :> d2

MCInit ==
    /\ part \in {"loader", "hooks"}
    /\ LoaderInit /\ HooksInit
    /\ part = "hooks" => /\ customYaml = CHOOSE file \in Files : TRUE
                         /\ imports = CHOOSE r \in Importing : TRUE

MCNext ==
    \/ part = "loader" /\ LoaderNext /\ UNCHANGED <<hooksVars, part>>
    \/ part = "hooks" /\ HooksNext /\ UNCHANGED <<loaderVars, part>>

allVars == <<loaderVars, hooksVars, part>>

MCSpec ==
    /\ MCInit /\ [][MCNext]_allVars
    /\ WF_allVars(part = "loader" /\ LoadStep /\ UNCHANGED <<hooksVars, part>>)
=============================================================================
