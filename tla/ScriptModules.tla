---------------------------- MODULE ScriptModules ----------------------------
(***************************************************************************)
(* Modules of scripts (ScriptingSupport/script_loader.cpp).  The engine    *)
(* parses the source of a module and, before it returns, asks FetchModule  *)
(* for every module that source imports; FetchModule parses the ones it    *)
(* does not find in mod_cache, and so on.  A module gets into the cache    *)
(* when it and all it imports have been parsed.                            *)
(***************************************************************************)
EXTENDS Naturals, Sequences, SequencesExt

CONSTANTS
    Files,      \* paths below scripts/
    Root,       \* index.js
    Builtins,   \* names of the modules mods register ...
    Lazy,       \* ... and those of them whose mod is not loaded
    Specs,      \* specifiers, as sources spell them
    Raw,        \* the path or name that a specifier is, letter by letter
    Resolve,    \* the file a specifier means in a file, from that file's directory
    None,       \* the Raw of specifiers like "./a.js"
    Importing,  \* possible contents of the directory: what each file imports, in order
    Absent,     \* possible sets of files that are not there
    MaxStack,   \* stands for the size of the stack of the server thread
    MaxImports  \* bound: calls of import() by code that runs

ASSUME ModulesAssumption ==
    /\ Root \in Files /\ Lazy \subseteq Builtins
    /\ Files \cap Builtins = {} /\ None \notin Files \cup Builtins
    /\ Raw \in [Specs -> Files \cup Builtins \cup {None}]
    /\ Resolve \in [Files -> [Specs -> Files]]
    /\ Importing \subseteq [Files -> Seq(Specs)]
    /\ \A A \in Absent : A \subseteq Files
    /\ MaxStack \in Nat /\ MaxImports \in Nat

VARIABLES
    imports,    \* one of Importing
    absent,     \* one of Absent
    modcache,   \* path or name to number of a record: mod_cache
    records,    \* the file or name each module record was made for
    parsing,    \* calls of JsParseModuleSource in progress, innermost last: the record,
                \* what of its imports is to be fetched, and whether import() asked for it
    broken,     \* records the engine has an error for
    links,      \* what imports were answered with: importer, specifier and record
    calls,      \* of import() so far
    overflow    \* has the stack run over?

modulesVars == <<imports, absent, modcache, records, parsing, broken, links, calls, overflow>>

ModulesInit ==
    /\ imports \in Importing /\ absent \in Absent /\ Root \notin absent
    /\ modcache = [p \in {} |-> 0] /\ records = <<>> /\ parsing = <<>>
    /\ broken = {} /\ links = {} /\ calls = 0 /\ overflow = FALSE

Innermost == Last(parsing)
Specifier == Head(Innermost.todo)
Importer == records[Innermost.rec]
Wanted == Resolve[Importer][Specifier]
Fetching == parsing # <<>> /\ ~overflow /\ Innermost.todo # <<>>

Cached(p, r) ==
    modcache' = [q \in DOMAIN modcache \cup {p} |-> IF q = p THEN r ELSE modcache[q]]

\* The callback of the last of `outer' has refused an import: the importer has an
\* error, and its other imports are not looked at.
Refuse(outer) ==
    LET c == Last(outer) IN
    /\ broken' = broken \cup (IF c.dynamic THEN {} ELSE {c.rec})
    /\ parsing' = Front(outer) \o <<[c EXCEPT !.todo = <<>>]>>
    /\ UNCHANGED links

\* It has answered with record r; one that has an error is refused by the engine.
Answer(outer, r) ==
    LET c == Last(outer) IN
    IF r \in broken THEN Refuse(outer)
    ELSE /\ links' = links \cup {[from |-> c.rec, by |-> Head(c.todo), to |-> r]}
         /\ parsing' = Front(outer) \o <<[c EXCEPT !.todo = Tail(@)]>>
         /\ UNCHANGED broken

\* loadCustomScript; the root is not put into the cache.
LoadRoot ==
    /\ records = <<>>
    /\ records' = <<Root>>
    /\ parsing' = <<[rec |-> 1, todo |-> imports[Root], dynamic |-> TRUE]>>
    /\ UNCHANGED <<imports, absent, modcache, broken, links, calls, overflow>>

\* import() in the code of a module.
Import(r, s) ==
    /\ parsing = <<>> /\ records # <<>> /\ calls < MaxImports /\ records[r] \in Files
    /\ calls' = calls + 1
    /\ parsing' = <<[rec |-> r, todo |-> <<s>>, dynamic |-> TRUE]>>
    /\ UNCHANGED <<imports, absent, modcache, records, broken, links, overflow>>

\* Found under p.
FromCache(p) ==
    /\ p \in DOMAIN modcache /\ Answer(parsing, modcache[p])
    /\ UNCHANGED <<imports, absent, modcache, records, calls, overflow>>

\* The specifier as it is spelled comes first, whatever the importer's directory is ...
FetchByName == Fetching /\ FromCache(Raw[Specifier])

\* ... then the lists of modules that mods have registered ...
FetchBuiltin ==
    LET name == Raw[Specifier] IN
    /\ Fetching /\ name \notin DOMAIN modcache /\ name \in Builtins \ Lazy
    /\ records' = Append(records, name)
    /\ Cached(name, Len(records) + 1)
    /\ Answer(parsing, Len(records) + 1)
    /\ UNCHANGED <<imports, absent, calls, overflow>>

FetchUnloaded ==
    /\ Fetching /\ Raw[Specifier] \in Lazy
    /\ Refuse(parsing)
    /\ UNCHANGED <<imports, absent, modcache, records, calls, overflow>>

\* ... then the file it means.
ByPath == Fetching /\ Raw[Specifier] \notin DOMAIN modcache \cup Builtins

FetchByPath == ByPath /\ FromCache(Wanted)

\* LoadModuleFromFile throws after the record was made.
FetchAbsent ==
    /\ ByPath /\ Wanted \notin DOMAIN modcache /\ Wanted \in absent
    /\ records' = Append(records, Wanted)
    /\ Refuse(parsing)
    /\ UNCHANGED <<imports, absent, modcache, calls, overflow>>

\* JsParseModuleSource is called inside the call for the importer.
FetchFile ==
    /\ ByPath /\ Wanted \notin DOMAIN modcache /\ Wanted \notin absent
    /\ IF Len(parsing) = MaxStack
       THEN overflow' = TRUE /\ UNCHANGED <<records, parsing>>
       ELSE /\ records' = Append(records, Wanted)
            /\ parsing' = Append(parsing, [rec |-> Len(records) + 1,
                                           todo |-> imports[Wanted], dynamic |-> FALSE])
            /\ UNCHANGED overflow
    /\ UNCHANGED <<imports, absent, modcache, broken, links, calls>>

Returning == parsing # <<>> /\ ~overflow /\ Innermost.todo = <<>>

\* Mutant of Parsed: only modules without imports are cached.
Parsed_LeavesOnly ==
    /\ Returning /\ ~Innermost.dynamic
    /\ IF imports[Importer] = <<>> THEN Cached(Importer, Innermost.rec) ELSE UNCHANGED modcache
    /\ Answer(Front(parsing), Innermost.rec)
    /\ UNCHANGED <<imports, absent, records, calls, overflow>>

\* JsParseModuleSource returns; its result is not looked at, so a module with an error
\* gets into the cache as well.
Parsed ==
    /\ Returning /\ ~Innermost.dynamic
    /\ Cached(Importer, Innermost.rec)
    /\ Answer(Front(parsing), Innermost.rec)
    /\ UNCHANGED <<imports, absent, records, calls, overflow>>

\* The root is parsed, or an import() answered.
ImportDone ==
    /\ Returning /\ Innermost.dynamic
    /\ parsing' = Front(parsing)
    /\ UNCHANGED <<imports, absent, modcache, records, broken, links, calls, overflow>>

FetchModule ==
    FetchByName \/ FetchBuiltin \/ FetchUnloaded \/ FetchByPath \/ FetchAbsent \/ FetchFile

ModulesNext ==
    \/ LoadRoot
    \/ \E r \in 1..Len(records), s \in Specs : Import(r, s)
    \/ FetchModule \/ Parsed \/ ImportDone

ModulesSpec == ModulesInit /\ [][ModulesNext]_modulesVars

----------------------------------------------------------------------------

\* What an import means: the module a mod has registered, else the file.
Meant(l) == IF Raw[l.by] \in Builtins THEN Raw[l.by] ELSE Resolve[records[l.from]][l.by]

\* A specifier that is spelled like the path of another file than the one it means.
Ambiguous(l) == Raw[l.by] \in Files /\ Raw[l.by] # Meant(l)

\* The same import of the same module, answered with two modules.
Diverted ==
    \E k, l \in links :
       /\ k.by = l.by /\ records[k.from] = records[l.from]
       /\ records[k.to] # records[l.to]

(***************************************************************************)
(* All who import a module get the same record of it, in which its code    *)
(* runs once and its state is shared: whatever imports what, in whichever  *)
(* order, with files and mods that are not there, at the start and by      *)
(* import() later.  (An ambiguous import gets the other file when that is  *)
(* in the cache already, and its own when it is not.  Two such answers     *)
(* inside a cycle end the cycle, with two records of the modules in it.    *)
(* The root is another module to those who import it.)                     *)
(***************************************************************************)
SharedModules ==
    /\ \A l \in links : ~Ambiguous(l) => records[l.to] = Meant(l)
    /\ \A k, l \in links :
          ~Ambiguous(k) /\ ~Ambiguous(l) /\ Meant(k) = Meant(l) => k.to = l.to \/ Diverted
=============================================================================
