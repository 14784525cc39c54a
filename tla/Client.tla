------------------------------- MODULE Client -------------------------------
(***************************************************************************)
(* The commands of a generated client (generators/pip_generator.py and the *)
(* shape of templates/pip_package/cli.py.j2) and the requests they send.   *)
(***************************************************************************)
EXTENDS Routes

\* str.lower(): the vocabulary's capitalised tokens
Lower(n) ==
    [i \in DOMAIN n |-> CASE n[i] = "Id" -> "id" [] n[i] = "Name" -> "name" [] OTHER -> n[i]]
Snake(n) == Retoken(Lower(n), {"-", ":", "$"}, "_")

Reserved == {<<"raw", "_", "body">>, <<"pretty">>, <<"body">>, <<"data">>, <<"result">>, <<"params">>}
Keywords == {<<"from">>, <<"class">>, <<"import">>, <<"in">>}   \* of Python, as far as used here
ApiCall == <<"api", "_", "call">>
TemplateNames == {<<"app">>, <<"typer">>, <<"json">>, ApiCall}   \* what cli.py's commands call

\* func_name: not lower-cased, so that a capital letter becomes an underscore
FuncName(n) ==
    [i \in DOMAIN n |-> CASE n[i] = "Id" -> "_d" [] n[i] = "Name" -> "_ame"
                          [] n[i] \in {"-", ":", "$"} -> "_" [] OTHER -> n[i]]

\* Mutation of PythonName: the parameter may hide a name the template uses.
PlainName(n) == Snake(n)

\* _make_python_name
PythonName(n) == IF Snake(n) \in Reserved THEN Snake(n) \o <<"_", "val">> ELSE Snake(n)

HasBody(method) == method \in {"POST", "PUT", "PATCH"}

\* _is_path_param
IsPathParam(name, endpoint) == \E s \in ToSet(endpoint) : s \in {Par(name), Par(Dashed(name))}

\* A placeholder {name:path} of a template names the variable name_path.
Placeholder(s) == IF s.k = "conv" THEN Par(Snake(s.n) \o <<"_", "path">>) ELSE Par(Snake(s.n))

\* Mutation of Template: the variables keep the names the route gives them.
RawTemplate(endpoint, params) ==
    [i \in DOMAIN endpoint |-> IF endpoint[i].k = "lit" THEN endpoint[i] ELSE Placeholder(endpoint[i])]

\* The placeholder of a path parameter gets the variable's name,
Renamed(path, p) == Retoken(path, {Par(p.name)}, Par(PythonName(p.name)))

\* one after the other; then whatever is not allowed in a name is replaced in all.
Template(endpoint, params) ==
    LET renamed == FoldLeft(Renamed, endpoint, params)
    IN  [i \in DOMAIN renamed |-> IF renamed[i].k = "lit" THEN renamed[i] ELSE Placeholder(renamed[i])]

\* _build_command_context
CommandOf(sub) ==
    LET path == Filter(sub.params, LAMBDA p : IsPathParam(p.name, sub.endpoint))
        rest == Filter(sub.params, LAMBDA p : ~IsPathParam(p.name, sub.endpoint))
        flags == {rest[i].flag : i \in DOMAIN rest}
    IN  [name     |-> sub.name,
         method   |-> sub.method,
         template |-> Template(sub.endpoint, path),
         path     |-> path,
         query    |-> IF HasBody(sub.method) THEN <<>> ELSE rest,
         body     |-> IF HasBody(sub.method) THEN rest ELSE <<>>,
         rawBody  |-> HasBody(sub.method) /\ <<"body">> \in flags]

Parameters(c) == c.path \o c.query \o c.body

\* The arguments of the command's function.
Arguments(c) ==
    LET ps == Parameters(c)
    IN  [i \in DOMAIN ps |-> PythonName(ps[i].name)] \o <<<<"pretty">>>>
        \o (IF c.body # <<>> /\ ~c.rawBody THEN <<<<"raw", "_", "body">>>> ELSE <<>>)

\* _validate_generated_code: ast.parse refuses a keyword for a name.  It does not
\* mind an argument given twice, which is for the compiler to find.
Valid(c) == ToSet(Arguments(c)) \cap Keywords = {} /\ FuncName(c.name) \notin Keywords

\* generate(): commands, then login and logout if the service has them.
GeneratedClient(graph, lifecycle) ==
    [i \in DOMAIN graph |-> CommandOf(graph[i])]
    \o (IF lifecycle THEN <<[name |-> <<"login">>], [name |-> <<"logout">>]>> ELSE <<>>)

\* Python compiles all of cli.py or nothing: one command with an argument twice
\* and no command runs.
Loads(client) ==
    \A c \in ToSet(client) : "template" \in DOMAIN c => IsInjective(Arguments(c))

\* Typer keeps the last command of a name.
Invoked(client, name) == client[SelectLastInSeq(client, LAMBDA c : c.name = name)]

\* The request a command sends if each argument is given its parameter's name for
\* a value: the path's placeholders are looked up among the arguments.
Lookup(c, variable) ==
    LET ps == Parameters(c)
        i  == SelectLastInSeq(ps, LAMBDA p : PythonName(p.name) = variable)
    IN  IF i = 0 THEN <<"NameError">> ELSE ps[i].name

Sent(c) ==
    [method |-> c.method,
     path   |-> [i \in DOMAIN c.template |->
                   IF c.template[i].k = "lit" THEN c.template[i].n ELSE Lookup(c, c.template[i].n)],
     query  |-> {<<PythonName(p.name), p.name>> : p \in ToSet(c.query)},
     body   |-> IF c.rawBody THEN {<<<<>>, <<"body">>>>}   \* that argument is the whole body
                ELSE {<<PythonName(p.name), p.name>> : p \in ToSet(c.body)}]

\* The commands' functions are names of cli.py beside those its template calls: one
\* that takes such a name takes it from every command, a parameter from its own
\* (the text of a raw body goes through json before it is sent).
Shadowed(client) == \E c \in ToSet(client) : FuncName(c.name) \in TemplateNames
Hides(c) ==
    \E p \in ToSet(Parameters(c)) :
        \/ PythonName(p.name) = ApiCall
        \/ c.rawBody /\ PythonName(p.name) = <<"json">>

\* What a command that is invoked comes to: its request, answered and printed, or an
\* exception.
Requested(client, name) ==
    IF Loads(client) /\ ~Shadowed(client) /\ ~Hides(Invoked(client, name))
      THEN Sent(Invoked(client, name))
      ELSE [error |-> "Exception"]

\* The request the route asks for: what the path names goes into the path, wherever
\* it was declared.
Wanted(r) ==
    LET rest    == {p \in ToSet(r.params) : p.name \notin Params(r.path)}
        at(loc) == {<<p.name, p.name>> : p \in {q \in rest : q.loc = loc}}
    IN  [method |-> r.method,
         path   |-> [i \in DOMAIN r.path |-> r.path[i].n],
         query  |-> at("query"),
         body   |-> at("body")]

\* No two parameters of a route get one name.
Distinct(r) == IsInjective([i \in DOMAIN r.params |-> PythonName(r.params[i].name)])

\* Its function takes no name from the template.
Apart(r) == FuncName(CommandName(r)) \notin TemplateNames

\* What a command can express: every placeholder is a parameter, every other
\* parameter is sent where the API reads it, under a name Python can have, and none
\* hides the template's api_call.
Expressible(r) ==
    LET rest == {p \in ToSet(r.params) : ~IsPathParam(p.name, r.path)}
    IN  /\ \A s \in ToSet(r.path) : s.k = "lit" \/ s = Par(s.n)
        /\ \A p \in ToSet(r.params) : PythonName(p.name) # ApiCall
        /\ Params(r.path) \subseteq {p.name : p \in ToSet(r.params)}
        /\ \A p \in rest : /\ p.loc = IF HasBody(r.method) THEN "body" ELSE "query"
                           /\ PythonName(p.name) = p.name
=============================================================================
