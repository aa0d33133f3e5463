-------------------------- MODULE CommandParameters --------------------------
(***************************************************************************)
(* Commands that scripts register (ScriptingSupport/apiset/commandapi.cpp).*)
(* A command object is one block of memory: the parameters lie behind the  *)
(* Command, an optional one is followed by a flag.  The offsets are        *)
(* computed three times, by code that must agree: for the game's parser,   *)
(* which writes values and flags, for the constructor and destructor, and  *)
(* for the call of the script's function.                                  *)
(***************************************************************************)
EXTENDS Naturals, Sequences

CONSTANTS
    Types,      \* of parameters: "bool", "int", "enum", "players" ...
    SizeOf,     \* of each
    Selectors,  \* the types that are a CommandSelector<T> ...
    Target,     \* ... and sizeof(T)
    Enums,      \* names for addEnum
    MaxParams,  \* bounds: parameters of an overload
    MaxOverloads

ASSUME ParametersAssumption ==
    /\ SizeOf \in [Types -> Nat \ {0}] /\ Selectors \subseteq Types
    /\ Target \in Nat /\ MaxParams \in Nat /\ MaxOverloads \in Nat

VARIABLES
    enumerations,   \* tidmap: the names that addEnum has seen
    overloads,      \* of registerOverride: sequences of parameters
    command,        \* the overload whose command exists; 0: none
    given,          \* the parameters the parser finds in the line
    parsed,         \* those it is through with
    memory,         \* byte by byte, from the end of CustomCommand
    arguments,      \* of the script's function; <<>> before the call
    outside         \* has the parser written beyond the command's memory?

parametersVars == <<enumerations, overloads, command, given, parsed, memory, arguments, outside>>

Params == [type : Types, enum : Enums, optional : BOOLEAN]

\* CommandDataDefinition::size.
ParamSize(d) == SizeOf[d.type] + (IF d.optional THEN 1 ELSE 0)

\* Where the i-th parameter begins; behind the last: CommandDataHolder::size.
Offset(defs, i) ==
    LET begin[j \in 1..(Len(defs) + 1)] ==
          IF j = 1 THEN 0 ELSE begin[j - 1] + ParamSize(defs[j - 1])
    IN  begin[i]
Bytes(defs, i) == Offset(defs, i)..(Offset(defs, i) + SizeOf[defs[i].type] - 1)

\* Mutant of FlagOffset: the flag at the end of the parameter, not behind it.
FlagOffset_Inside(defs, i) == Offset(defs, i) + SizeOf[defs[i].type] - 1

\* The flag as `generate' tells the parser; selectors take the size of what they select.
FlagOffset(defs, i) ==
    Offset(defs, i) + (IF defs[i].type \in Selectors THEN Target ELSE SizeOf[defs[i].type])

\* ... and as `fetch' reads it.
FetchedFlag(defs, i) == Offset(defs, i) + SizeOf[defs[i].type]

ParametersInit ==
    /\ enumerations = {} /\ overloads = <<>>
    /\ command = 0 /\ given = {} /\ parsed = {}
    /\ memory = [n \in {} |-> "new"] /\ arguments = <<>> /\ outside = FALSE

\* addEnum; a name that is there keeps its id.
AddEnum(e) ==
    /\ enumerations' = enumerations \cup {e}
    /\ UNCHANGED <<overloads, command, given, parsed, memory, arguments, outside>>

\* registerOverride; an enum that is not there throws out of GenCommandDataHolder.
RegisterOverride(defs) ==
    /\ Len(overloads) < MaxOverloads
    /\ \A i \in 1..Len(defs) : defs[i].type = "enum" => defs[i].enum \in enumerations
    /\ overloads' = Append(overloads, defs)
    /\ UNCHANGED <<enumerations, command, given, parsed, memory, arguments, outside>>

\* FuncPack::wrapper and the constructor: values are initialised, flags are not.
Make(o, line) ==
    LET defs == overloads[o]
        bytes == UNION {Bytes(defs, i) : i \in 1..Len(defs)}
    IN
    /\ command = 0
    /\ \A i \in 1..Len(defs) : ~defs[i].optional => i \in line
    /\ command' = o /\ given' = line /\ parsed' = {} /\ arguments' = <<>>
    /\ memory' = [n \in 0..(Offset(defs, Len(defs) + 1) - 1) |->
                    IF n \in bytes THEN "default" ELSE "new"]
    /\ UNCHANGED <<enumerations, overloads, outside>>

\* The parser stores a value, and says in the flag of an optional parameter whether it
\* has been given.
Parse(i) ==
    LET defs == overloads[command]
        flags == IF defs[i].optional THEN {FlagOffset(defs, i)} ELSE {}
        value == IF i \in given THEN Bytes(defs, i) ELSE {}
    IN
    /\ command # 0 /\ i \notin parsed /\ \A j \in 1..(i - 1) : j \in parsed
    /\ parsed' = parsed \cup {i}
    /\ outside' = ~(flags \cup value \subseteq DOMAIN memory)
    /\ memory' = [n \in DOMAIN memory |->
                    IF n \in flags THEN (IF i \in given THEN "set" ELSE "unset")
                    ELSE IF n \in value THEN <<i, n - Offset(defs, i)>> ELSE memory[n]]
    /\ UNCHANGED <<enumerations, overloads, command, given, arguments>>

\* What `fetch' makes of the bytes of parameter i.
Fetched(defs, i) ==
    LET bytes == [n \in 0..(SizeOf[defs[i].type] - 1) |-> memory[Offset(defs, i) + n]]
        flag == memory[FetchedFlag(defs, i)]
    IN  IF defs[i].optional /\ flag = "unset" THEN "undefined"
        ELSE IF defs[i].optional /\ flag # "set" THEN "garbage"
        ELSE IF \A n \in DOMAIN bytes : bytes[n] = <<i, n>> THEN "value"
        ELSE IF \A n \in DOMAIN bytes : bytes[n] = "default" THEN "default" ELSE "garbage"

\* CustomCommand::execute.
Execute ==
    LET defs == overloads[command] IN
    /\ command # 0 /\ arguments = <<>> /\ parsed = 1..Len(defs)
    /\ arguments' = [i \in 1..Len(defs) |-> Fetched(defs, i)]
    /\ UNCHANGED <<enumerations, overloads, command, given, parsed, memory, outside>>

\* The game destroys the command, executed or not.
Destroy ==
    /\ command # 0
    /\ command' = 0 /\ given' = {} /\ parsed' = {} /\ arguments' = <<>>
    /\ memory' = [n \in {} |-> "new"]
    /\ UNCHANGED <<enumerations, overloads, outside>>

\* After a write outside nothing is known.
ParametersNext ==
    /\ ~outside
    /\ \/ \E e \in Enums : AddEnum(e)
       \/ \E n \in 0..MaxParams : \E defs \in [1..n -> Params] : RegisterOverride(defs)
       \/ \E o \in 1..Len(overloads) :
             \E line \in SUBSET (1..Len(overloads[o])) : Make(o, line)
       \/ command # 0 /\ \E i \in 1..Len(overloads[command]) : Parse(i)
       \/ Execute \/ Destroy

ParametersSpec == ParametersInit /\ [][ParametersNext]_parametersVars

----------------------------------------------------------------------------

\* An optional selector: `generate' and `fetch' disagree about its flag.
Misplaced(d) == d.optional /\ d.type \in Selectors

(***************************************************************************)
(* A script's function gets, for each parameter in its place, the value    *)
(* the line gives it, and undefined when the line gives none, whatever the *)
(* types before and behind it and whichever of them are optional, and the  *)
(* parser stays inside the command; as long as no selector is optional.    *)
(***************************************************************************)
ArgumentsAsGiven ==
    (command # 0 => \A i \in 1..Len(overloads[command]) : ~Misplaced(overloads[command][i]))
       => /\ ~outside
          /\ \A i \in 1..Len(arguments) :
                arguments[i] = IF i \in given THEN "value" ELSE "undefined"
=============================================================================
