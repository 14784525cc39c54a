------------------------------ MODULE Pipeline ------------------------------
(***************************************************************************)
(* run_pipeline (pipeline.py) from a repository to a command graph, and    *)
(* the generation of a client from that graph.  The OpenAPI documents are  *)
(* read first, then the parser of the detected framework runs, or both     *)
(* when none was detected, then the layers are merged route by route.      *)
(***************************************************************************)
EXTENDS FastApi, Django, OpenApi, Client, ConfigDetector

VARIABLES
    stage,     \* "openapi", "fastapi", "django", "merge", "graph", "generate", "done", "refused"
    document,  \* OpenAPI documents read
    openapi,   \* their routes
    pending,   \* routes to be merged
    merged,
    config,    \* base URL and authentication
    graph,     \* the CommandGraph's subcommands
    client     \* the generated commands

coreVars == <<openapi, pending, merged, config, graph, client>>
vars == <<repo, stage, document, coreVars, fastapiVars, djangoVars>>

Stages == {"openapi", "fastapi", "django", "merge", "graph", "generate", "done", "refused"}

Init ==
    /\ repo \in Repos
    /\ stage = "openapi" /\ document = 0 /\ openapi = <<>>
    /\ FastApiInit /\ DjangoInit
    /\ pending = <<>> /\ merged = <<>>
    /\ config = MergedConfig(NoConfig, [url |-> "", auth |-> "", var |-> ""])
    /\ graph = <<>> /\ client = <<>>

\* framework is what detect_framework said: None is "none".
Wants(framework) == Files # <<>> /\ repo.framework \in {framework, "none"}

\* parse_openapi: one document.
ReadDocument ==
    /\ stage = "openapi" /\ document < Len(repo.specs)
    /\ document' = document + 1
    /\ openapi' = openapi \o SpecRoutes(repo.specs[document'])
    /\ UNCHANGED <<repo, stage, pending, merged, config, graph, client, fastapiVars, djangoVars>>

StartFastApi ==
    /\ stage = "openapi" /\ document = Len(repo.specs)
    /\ stage' = "fastapi"
    /\ pass' = IF Wants("fastapi") THEN "prefixes" ELSE pass
    /\ UNCHANGED <<repo, document, coreVars, read, prefixOf, fastapi, djangoVars>>

RunFastApi ==
    /\ stage = "fastapi" /\ FastApiStep
    /\ UNCHANGED <<repo, stage, document, coreVars, djangoVars>>

StartDjango ==
    /\ stage = "fastapi" /\ (Wants("fastapi") => pass = "over")
    /\ stage' = "django"
    /\ IF Wants("django") THEN walk' = "on" /\ starts' = Starts ELSE UNCHANGED <<walk, starts>>
    /\ UNCHANGED <<repo, document, coreVars, fastapiVars, stack, visited, django, handled>>

RunDjango ==
    /\ stage = "django" /\ DjangoStep
    /\ UNCHANGED <<repo, stage, document, coreVars, fastapiVars>>

\* Without a framework the parser that found more routes wins, Django on a tie.
AstRoutes ==
    IF Wants("fastapi") /\ (Wants("django") => Len(django) < Len(fastapi)) THEN fastapi ELSE django

Offered == openapi \o AstRoutes

StartMerge ==
    /\ stage = "django" /\ (Wants("django") => walk = "over")
    /\ stage' = "merge" /\ pending' = Offered
    /\ UNCHANGED <<repo, document, openapi, merged, config, graph, client, fastapiVars, djangoVars>>

MergeRoute ==
    /\ stage = "merge" /\ pending # <<>>
    /\ merged' = Merged(merged, Head(pending))
    /\ pending' = Tail(pending)
    /\ UNCHANGED <<repo, stage, document, openapi, config, graph, client, fastapiVars, djangoVars>>

DetectConfig ==
    /\ stage = "merge" /\ pending = <<>>
    /\ stage' = "graph" /\ config' = MergedConfig(Detected, repo.user)
    /\ UNCHANGED <<repo, document, openapi, pending, merged, graph, client, fastapiVars, djangoVars>>

BuildGraph ==
    /\ stage = "graph"
    /\ stage' = "generate" /\ graph' = CommandGraph(merged)
    /\ UNCHANGED <<repo, document, openapi, pending, merged, config, client, fastapiVars, djangoVars>>

\* generate(): refused with a RuntimeError when a generated file does not parse.
Generate ==
    /\ stage = "generate"
    /\ client' = GeneratedClient(graph, repo.lifecycle)
    /\ stage' = IF \A i \in DOMAIN graph : Valid(client'[i]) THEN "done" ELSE "refused"
    /\ UNCHANGED <<repo, document, openapi, pending, merged, config, graph, fastapiVars, djangoVars>>

\* The end: what is left to do is nothing.
Finished == stage \in {"done", "refused"} /\ UNCHANGED vars

Next ==
    \/ ReadDocument \/ StartFastApi \/ RunFastApi \/ StartDjango \/ RunDjango
    \/ StartMerge \/ MergeRoute \/ DetectConfig \/ BuildGraph \/ Generate \/ Finished

Spec == Init /\ [][Next]_vars

-----------------------------------------------------------------------------

\* The shape of the pipeline's state.
TypeOK ==
    /\ stage \in Stages
    /\ document \in 0..Len(repo.specs) /\ read \in 0..Len(Files)
    /\ pass \in {"off", "prefixes", "routes", "over"} /\ walk \in {"off", "on", "over"}
    /\ DOMAIN prefixOf \subseteq DOMAIN Files /\ visited \subseteq DOMAIN Files
    /\ \A i \in DOMAIN stack : stack[i].file \in visited
    /\ \A r \in ToSet(openapi \o fastapi \o django) : r.method \in HttpMethods /\ r.path # <<>>
    /\ config.auth \in AuthTypes

\* The routes merged so far are those offered so far, one for every method and
\* path up to the names of parameters and slashes at the end, and of several with
\* one identity it is the last: AST routes override the OpenAPI document
\* (merge_routes: "Later layers win on conflicts").
MergedRight ==
    stage \in {"merge", "graph", "generate", "done", "refused"} =>
        LET n == Len(Offered) - Len(pending)
        IN  /\ \A i, j \in DOMAIN merged : Key(merged[i]) = Key(merged[j]) => i = j
            /\ \A i \in 1..n : \E j \in DOMAIN merged : Key(merged[j]) = Key(Offered[i])
            /\ \A j \in DOMAIN merged : \E i \in 1..n :
                 /\ merged[j] = Offered[i]
                 /\ \A k \in (i + 1)..n : Key(Offered[k]) # Key(Offered[i])

\* No later command takes the name of a route's command.
NotHidden(i) ==
    /\ \A j \in DOMAIN merged : j > i => CommandName(merged[j]) # CommandName(merged[i])
    /\ repo.lifecycle => CommandName(merged[i]) \notin {<<"login">>, <<"logout">>}

\* Invoked by its name, the command of every route that a command can express
\* sends the request that route asks for, whatever renaming its parameters went
\* through; a route is only lost to a namesake that comes later, and all are when
\* two parameters of one route get the same name or a command's function takes a name
\* the template calls (_route_to_command_name, _build_command_context, cli.py.j2).
ClientReaches ==
    stage = "done" /\ (\A i \in DOMAIN merged : Distinct(merged[i]) /\ Apart(merged[i])) =>
        \A i \in DOMAIN merged : Expressible(merged[i]) /\ NotHidden(i) =>
            Requested(client, CommandName(merged[i])) = Wanted(merged[i])

\* The client talks to the right base URL with the right kind of authentication.
ConfigDetected == stage \in {"graph", "generate", "done", "refused"} => ConfigRight(config)

\* What is left to do in a stage.
AllPatterns ==
    Len(FlattenSeq([f \in DOMAIN Files |-> IF Files[f].broken THEN <<>> ELSE Patterns(f)]))
Left ==
    CASE stage = "openapi" -> Len(repo.specs) - document
      [] stage = "fastapi" /\ pass = "prefixes" -> 2 * Len(Files) + 2 - read
      [] stage = "fastapi" /\ pass = "routes" -> Len(Files) + 1 - read
      [] stage = "django" /\ walk = "on" ->
           1 + 3 * (AllPatterns - Len(handled)) + 2 * Len(starts) + Len(stack)
      [] stage = "merge" -> Len(pending)
      [] OTHER -> 0

Order == <<"openapi", "fastapi", "django", "merge", "graph", "generate", "done">>
Rank(s) == IF s = "refused" THEN 7 ELSE CHOOSE i \in 1..7 : Order[i] = s

\* Whatever the repository is, cycles of includes and broken files included, each
\* step ends its stage or leaves less to do in it, and never less than nothing:
\* as no state but the last is stuck, every parse comes to an end.
ParsingAdvances ==
    [][\/ Rank(stage') > Rank(stage)
       \/ stage' = stage /\ 0 <= Left' /\ Left' < Left]_vars
=============================================================================
