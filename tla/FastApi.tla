------------------------------- MODULE FastApi -------------------------------
(***************************************************************************)
(* FastApiParser.parse (parsers/fastapi_parser.py): a first pass over all  *)
(* files maps files to the prefixes they are included under, a second one  *)
(* extracts the routes of every file.  One step is one file of one pass.   *)
(***************************************************************************)
EXTENDS Repository

VARIABLES
    pass,      \* "off", "prefixes", "routes", "over"
    read,      \* files read in this pass
    prefixOf,  \* file_prefix_map: file -> prefix
    fastapi    \* the routes found

fastapiVars == <<pass, read, prefixOf, fastapi>>

FastApiInit == pass = "off" /\ read = 0 /\ prefixOf = <<>> /\ fastapi = <<>>

-----------------------------------------------------------------------------
(* The first pass.                                                         *)

\* A string literal, or a name that is a string constant of the file; any
\* other expression is Unknown.
Unknown == <<[k |-> "unknown", n |-> <<>>]>>
Value(text, constants) ==
    IF text.k = "text" THEN text.p
    ELSE IF text.name \in DOMAIN constants THEN constants[text.name] ELSE Unknown

\* _resolve_router_to_file: "mod.router" or a name; an imported name is looked
\* up by the last part of its dotted path.
RouterFile(router, imports) ==
    LET dotted == ImportOf(imports, router.name)
    IN  IF dotted # <<>> THEN FileByStem(Last(dotted))
        ELSE IF router.k = "attr" THEN FileByStem(router.name) ELSE 0

\* _IncludeRouterCollector over one statement
Collect(acc, s) ==
    CASE s.k = "import" -> [acc EXCEPT !.imports = IF s.from THEN Append(@, s) ELSE @]
      [] s.k = "const" -> [acc EXCEPT !.constants = Put(@, s.name, s.value)]
      [] s.k = "include" ->
           LET file   == RouterFile(s.router, acc.imports)
               prefix == Value(s.prefix, acc.constants)
           IN  IF file # 0 /\ prefix \notin {<<>>, Unknown}
                 THEN [acc EXCEPT !.prefixes = Put(@, file, prefix)] ELSE acc
      [] OTHER -> acc

PrefixesIn(file) ==
    IF file.broken THEN <<>>
    ELSE FoldLeft(Collect, [imports |-> <<>>, constants |-> <<>>, prefixes |-> <<>>],
                  file.body).prefixes

-----------------------------------------------------------------------------
(* The second pass.                                                        *)

DIParamNames ==
    {<<"request">>, <<"response">>, <<"db">>, <<"session">>, <<"current", "_", "user">>,
     <<"background", "_", "tasks">>, <<"token">>, <<"authorization">>, <<"credentials">>}

\* An argument is [name, dep, form]: dep says whether Depends(...) (or a type that
\* stands for it) is in its annotation, in its default value or nowhere.
IsDependencyParam(arg) == arg.name \in DIParamNames \/ arg.dep = "annotation"

FormFields == <<Param(<<"username">>, "query"), Param(<<"password">>, "query")>>

\* _extract_params
FunctionParams(args, path) ==
    LET used == Filter(args, LAMBDA a : a.name \notin {<<"self">>, <<"cls">>})
        one(a) == IF IsDependencyParam(a)
                    THEN IF a.form THEN FormFields ELSE <<>>
                    ELSE <<Param(a.name, IF a.name \in Params(path) THEN "path" ELSE "query")>>
    IN  FlattenSeq([i \in DOMAIN used |-> one(used[i])])

\* Mutation of FullPath: the router's own prefix comes first.
SwappedPath(filePrefix, routerPrefix, path) ==
    LET p == RStrip(routerPrefix) \o RStrip(filePrefix) \o path IN IF p = <<>> THEN Root ELSE p

\* Mutation of FullPath: an empty path stays empty.
BarePath(filePrefix, routerPrefix, path) == RStrip(filePrefix) \o RStrip(routerPrefix) \o path

FullPath(filePrefix, routerPrefix, path) ==
    LET p == RStrip(filePrefix) \o RStrip(routerPrefix) \o path IN IF p = <<>> THEN Root ELSE p

\* _RouteExtractor over one statement: the last APIRouter prefix seen in the
\* file is the prefix of every route that follows.
Extract(acc, s) ==
    CASE s.k = "const" -> [acc EXCEPT !.constants = Put(@, s.name, s.value)]
      [] s.k = "router" -> IF s.prefix.k = "text" THEN [acc EXCEPT !.prefix = s.prefix.p] ELSE acc
      [] s.k = "route" ->
           LET path == Value(s.path, acc.constants)
               full == FullPath(acc.filePrefix, acc.prefix, path)
           IN  IF path = Unknown \/ s.method \notin HttpMethods THEN acc
               ELSE [acc EXCEPT !.routes = Append(@,
                       Route(s.method, full, s.fn, FunctionParams(s.args, full), "ast"))]
      [] OTHER -> acc

RoutesIn(file, filePrefix) ==
    IF file.broken THEN <<>>
    ELSE FoldLeft(Extract, [constants |-> <<>>, prefix |-> <<>>, routes |-> <<>>,
                            filePrefix |-> filePrefix], file.body).routes

-----------------------------------------------------------------------------
(* The passes.                                                             *)

ReadPrefixes ==
    /\ pass = "prefixes" /\ read < Len(Files)
    /\ read' = read + 1
    /\ prefixOf' = Updated(prefixOf, PrefixesIn(Files[read']))
    /\ UNCHANGED <<pass, fastapi>>

SecondPass ==
    /\ pass = "prefixes" /\ read = Len(Files)
    /\ pass' = "routes" /\ read' = 0
    /\ UNCHANGED <<prefixOf, fastapi>>

ExtractRoutes ==
    /\ pass = "routes" /\ read < Len(Files)
    /\ read' = read + 1
    /\ fastapi' = fastapi \o RoutesIn(Files[read'],
                      IF read' \in DOMAIN prefixOf THEN prefixOf[read'] ELSE <<>>)
    /\ UNCHANGED <<pass, prefixOf>>

FastApiEnds ==
    /\ pass = "routes" /\ read = Len(Files)
    /\ pass' = "over"
    /\ UNCHANGED <<read, prefixOf, fastapi>>

FastApiStep == ReadPrefixes \/ SecondPass \/ ExtractRoutes \/ FastApiEnds

-----------------------------------------------------------------------------
(* What FastAPI itself serves, for repositories the parser claims to read:  *)
(* the prefix of the including call, the prefix of the router a route is    *)
(* declared on, and the path.                                              *)

\* The module whose router an include_router call is given: as module.router, or
\* by the name under which the router was imported from the module.
ModuleOf(imports, router) ==
    LET path == ImportOf(imports, router.name)
    IN  IF router.k = "attr" \/ path = <<>> THEN path ELSE Front(path)

\* The calls that include a file's router, wherever they are.
Inclusions(f) ==
    {c \in UNION {{g} \X DOMAIN Files[g].body : g \in DOMAIN Files} :
        LET s == Files[c[1]].body[c[2]]
            module == ModuleOf(Imports(Files[c[1]]), s.router)
        IN  s.k = "include" /\ module # <<>> /\ Last(module) = Stem(Files[f])}

\* What the names of a file stand for when its i-th statement is reached.
ConstantsBefore(body, i) ==
    LET set == {j \in 1..(i - 1) : body[j].k = "const"}
    IN  [n \in {body[j].name : j \in set} |-> body[Max({j \in set : body[j].name = n})].value]

CalledWith(c) ==
    LET body == Files[c[1]].body IN Value(body[c[2]].prefix, ConstantsBefore(body, c[2]))
IncludedUnder(f) ==
    IF Inclusions(f) = {} THEN <<>> ELSE CalledWith(CHOOSE c \in Inclusions(f) : TRUE)

Routers(f) == {i \in DOMAIN Files[f].body : Files[f].body[i].k = "router"}
RouterPrefix(f, on) ==
    IF on = <<"app">> THEN <<>> ELSE Files[f].body[CHOOSE i \in Routers(f) : TRUE].prefix.p

OwnPath(f, i) == LET body == Files[f].body IN Value(body[i].path, ConstantsBefore(body, i))
ServedPath(f, i) == IncludedUnder(f) \o RouterPrefix(f, Files[f].body[i].on) \o OwnPath(f, i)

\* "A path prefix must not end with '/'", FastAPI asserts.
PlainPrefix(p) == p # Unknown /\ (p # <<>> => Last(p) # Empty)

\* What a call includes is imported once, before the call: a module by a from
\* import or under its own name, a router from its module.
Imported(body, i) ==
    LET named == {j \in DOMAIN body : body[j].k = "import" /\ body[j].local = body[i].router.name}
    IN  \E j \in 1..(i - 1) :
            /\ named = {j}
            /\ IF body[i].router.k = "attr" THEN body[j].from \/ body[j].local = Last(body[j].path)
                                           ELSE body[j].from /\ Len(body[j].path) > 1

\* A router's prefix is a literal.  A call includes what was imported.  A route is
\* on the app, or on a router that precedes it; it has a path, no parameter of
\* which has a converter or the name of a dependency.
ReadableStatement(f, i) ==
    LET body == Files[f].body
        s    == body[i]
    IN  /\ s.k = "router"  => s.prefix.k = "text" /\ PlainPrefix(s.prefix.p)
        /\ s.k = "include" => Imported(body, i) /\ PlainPrefix(CalledWith(<<f, i>>))
        /\ s.k = "route"   =>
             /\ IF s.on = <<"app">> THEN Routers(f) = {}
                ELSE \E j \in Routers(f) : j < i /\ body[j].var = s.on
             /\ OwnPath(f, i) # Unknown /\ ServedPath(f, i) # <<>>
             /\ \A p \in ToSet(OwnPath(f, i)) : p.k # "conv" /\ (p.k = "par" => p.n \notin DIParamNames)

\* One router per file, included once, from a file that is not included itself.
ReadableFile(f) ==
    /\ ~Files[f].broken
    /\ \A i, j \in Routers(f) : i = j
    /\ (Routers(f) = {}) <=> (Inclusions(f) = {})
    /\ \A c, d \in Inclusions(f) : c = d
    /\ \A c \in Inclusions(f) : Inclusions(c[1]) = {}
    /\ \A i \in DOMAIN Files[f].body : ReadableStatement(f, i)

\* No two files share a name, and each is one the parser claims to read.
Readable ==
    /\ \A f, g \in DOMAIN Files : Stem(Files[f]) = Stem(Files[g]) => f = g
    /\ \A f \in DOMAIN Files : ReadableFile(f)

\* ... and every router is included as module.router.
ByModule ==
    Readable /\ \A f \in DOMAIN Files : \A s \in ToSet(Files[f].body) :
                   s.k = "include" => s.router.k = "attr"

ServedIn(f) ==
    {[method |-> Files[f].body[i].method, path |-> ServedPath(f, i), fn |-> Files[f].body[i].fn] :
        i \in {j \in DOMAIN Files[f].body : /\ Files[f].body[j].k = "route"
                                            /\ Files[f].body[j].method \in HttpMethods}}

Served == UNION {ServedIn(f) : f \in DOMAIN Files}
FoundByAst == {[method |-> r.method, path |-> r.path, fn |-> r.fn] : r \in ToSet(fastapi)}

\* Of a repository that includes its routers as module.router, the parser finds
\* exactly the routes FastAPI serves, each under its full path, in whatever order
\* the files are scanned and wherever the router is included
\* (_build_file_prefix_map, _process_function).
FastApiServed == pass = "over" /\ ByModule => FoundByAst = Served

\* What the guide promises: so it does where include_router is given the name of
\* an imported router (Pattern 2 of _resolve_router_to_file).
PrefixesTracked == pass = "over" /\ Readable => FoundByAst = Served
=============================================================================
