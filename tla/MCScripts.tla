------------------------------ MODULE MCScripts ------------------------------
(***************************************************************************)
(* What scripts are given: modules, handles, commands with parameters,     *)
(* statements, the events of the chat, and boss bars.  A behaviour is one  *)
(* of one part, chosen at its start; the others rest.                      *)
(***************************************************************************)
EXTENDS ScriptModules, Handles, CommandParameters, Statements, Events, BossBars, TLC

CONSTANTS x, y, z, index, b, sa, sb, nowhere, ez, lz, dA, dB, dS, dU, bB, E, L

VARIABLE part

\* index.js and b.js in one directory, sub/a.js and sub/b.js in another.  dA, dB, dS
\* and dU are "./a.js", "./b.js", "./sub/a.js" and "../b.js", bB is "b.js"; E and L are names of mods.
MCFiles == {index, b, sa, sb, nowhere}
MCSpecs == {dA, dB, dS, dU, bB, E, L}
MCRaw == dA :> None @@ dB :> None @@ dS :> None @@ dU :> None @@ bB :> b @@ E :> ez @@ L :> lz

AtTop ==
    dA :> nowhere @@ dB :> b @@ dS :> sa @@ dU :> nowhere @@ bB :> b @@ E :> nowhere @@ L :> nowhere
InSub ==
    dA :> sa @@ dB :> sb @@ dS :> nowhere @@ dU :> b @@ bB :> sb @@ E :> nowhere @@ L :> nowhere
MCResolve == index :> AtTop @@ b :> AtTop @@ nowhere :> AtTop @@ sa :> InSub @@ sb :> InSub

\* With cycles, and with a name that means different files, in a cycle too.
MCImporting ==
    {index :> I @@ b :> B @@ sa :> A @@ sb :> S @@ nowhere :> <<>> :
        I \in {<<dS>>, <<dB, dS>>, <<bB, dS, E>>}, A \in {<<>>, <<bB>>, <<dB, E>>},
        B \in {<<>>, <<dS>>, <<L>>, <<E, dS, E>>}, S \in {<<>>, <<dU, dA>>, <<E>>}}
MCAbsent == {{nowhere}, {nowhere, b}, {nowhere, sb}}

MCSizeOf == "bool" :> 1 @@ "enum" :> 2 @@ "players" :> 3

MCPriority == x :> 1 @@ y :> 1 @@ z :> 0
MCActing ==
    {x :> X @@ y :> Y @@ z :> Z :
        X \in {<<"next">>, <<"add", "next">>, <<"next", "add", "next">>},
        Y \in {<<"next">>, <<"refuse">>, <<"refuse", "next">>, <<"next", "throw">>},
        Z \in {<<"next">>, <<"add", "next">>, <<"next", "add">>}}

MCInit ==
    /\ part \in {"modules", "handles", "parameters", "statements", "events", "bars"}
    /\ ModulesInit /\ HandlesInit /\ ParametersInit
    /\ StatementsInit /\ EventsInit /\ BarsInit
    /\ part # "modules" => /\ imports = CHOOSE i \in Importing : TRUE
                           /\ absent = CHOOSE A \in Absent : TRUE
    /\ part # "events" => acting = CHOOSE a \in Acting : TRUE

MCNext ==
    \/ /\ part = "modules" /\ ModulesNext
       /\ UNCHANGED <<handlesVars, parametersVars, statementsVars, eventsVars, barsVars, part>>
    \/ /\ part = "handles" /\ HandlesNext /\ HandlesBound
       /\ UNCHANGED <<modulesVars, parametersVars, statementsVars, eventsVars, barsVars, part>>
    \/ /\ part = "parameters" /\ ParametersNext
       /\ UNCHANGED <<modulesVars, handlesVars, statementsVars, eventsVars, barsVars, part>>
    \/ /\ part = "statements" /\ StatementsNext
       /\ UNCHANGED <<modulesVars, handlesVars, parametersVars, eventsVars, barsVars, part>>
    \/ /\ part = "events" /\ EventsNext
       /\ UNCHANGED <<modulesVars, handlesVars, parametersVars, statementsVars, barsVars, part>>
    \/ /\ part = "bars" /\ BarsNext
       /\ UNCHANGED <<modulesVars, handlesVars, parametersVars, statementsVars, eventsVars, part>>

allVars == <<modulesVars, handlesVars, parametersVars, statementsVars, eventsVars, barsVars, part>>

MCSpec == MCInit /\ [][MCNext]_allVars
=============================================================================
