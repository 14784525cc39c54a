------------------------------- MODULE Django -------------------------------
(***************************************************************************)
(* DjangoParser.parse (parsers/django_parser.py): every urls.py is a       *)
(* starting point, those with include() calls first, and the includes are  *)
(* followed by a collector per file, each remembered in one visited set.   *)
(* The collectors' recursion is the stack; one step opens a collector,     *)
(* handles one URL pattern of the innermost one, or returns from it.       *)
(***************************************************************************)
EXTENDS Repository

VARIABLES
    starts,      \* files still to be started from
    stack,       \* the active collectors: [file, prefix, todo]
    visited,     \* files a collector was opened for
    django,      \* the routes found
    handled,     \* history: the patterns handled, <<file, index>>
    walk         \* "off", "on", "over"

djangoVars == <<starts, stack, visited, django, handled, walk>>

DjangoInit ==
    /\ starts = <<>> /\ stack = <<>> /\ visited = {} /\ django = <<>>
    /\ handled = <<>> /\ walk = "off"

-----------------------------------------------------------------------------
(* Finding modules, functions and classes.                                 *)

\* _resolve_module_to_file: relative to the file's directory, then to the root,
\* then to each directory above the file's, at last any file with that stem.
ModuleFile(f, module) ==
    LET dir  == Dir(Files[f])
        bases == <<dir, <<>>>> \o [i \in 1..Len(dir) |-> SubSeq(dir, 1, Len(dir) - i)]
        tried == FlattenSeq([i \in DOMAIN bases |->
                   <<bases[i] \o module, bases[i] \o module \o <<"__init__">>>>])
        at(loc) == SelectInSeq(Files, LAMBDA g : g.loc = loc)
        hit   == SelectInSeq(tried, LAMBDA loc : at(loc) # 0)
        near  == SelectLastInSeq(Files, LAMBDA g : Stem(g) = Last(module) /\ Dir(g) = dir)
    IN  IF module = <<>> THEN 0
        ELSE IF hit # 0 THEN at(tried[hit])
        ELSE IF near # 0 THEN near ELSE FileByStem(Last(module))

\* ast.walk: functions and methods alike
Callables(file) ==
    IF file.broken THEN <<>>
    ELSE Of(file, "func") \o FlattenSeq([i \in DOMAIN Of(file, "class") |-> Of(file, "class")[i].methods])

Named(seq, name) == Filter(seq, LAMBDA x : x.name = name)

ClassesIn(f, name) ==
    IF f = 0 \/ Files[f].broken THEN <<>> ELSE Named(Of(Files[f], "class"), name)

\* The first file of a sequence that has the class: a sequence of at most one class.
FirstClass(files, name) ==
    LET i == SelectInSeq(files, LAMBDA g : ClassesIn(g, name) # <<>>)
    IN  IF i = 0 THEN <<>> ELSE <<ClassesIn(files[i], name)[1]>>

FirstFile(f, first, second) ==
    IF ModuleFile(f, first) # 0 THEN ModuleFile(f, first) ELSE ModuleFile(f, second)

\* The class a name stands for: of this file, imported by name, or of any
\* imported module (_resolve_class_from_imports).
ClassFor(f, name) ==
    LET imports == Imports(Files[f])
        direct  == Filter(imports, LAMBDA m : m.local = name \/ (Len(m.path) > 1 /\ Last(m.path) = name))
    IN  IF ClassesIn(f, name) # <<>> THEN <<Last(ClassesIn(f, name))>>
        ELSE FirstClass([i \in DOMAIN direct |-> FirstFile(f, Front(direct[i].path), direct[i].path)]
                        \o [i \in DOMAIN imports |-> FirstFile(f, imports[i].path, <<imports[i].local>>)],
                        name)

\* The file a view written mod.name is looked for in.
SourceFile(f, mod) ==
    LET path == ImportOf(Imports(Files[f]), mod)
    IN  ModuleFile(f, IF path = <<>> THEN <<mod>> ELSE path)

\* _resolve_func: <<>> or the function; a bare name is looked up in this file only.
FunctionFor(f, view) ==
    LET here  == Named(Callables(Files[f]), view.name)
        there == IF view.mod = "" THEN 0 ELSE SourceFile(f, view.mod)
    IN  IF here # <<>> THEN <<Last(here)>>
        ELSE IF there = 0 \/ Named(Callables(Files[there]), view.name) = <<>> THEN <<>>
        ELSE <<Named(Callables(Files[there]), view.name)[1]>>

-----------------------------------------------------------------------------
(* Tables of Django REST framework and of Django's class-based views.      *)

Action(name, method, detail) == [name |-> name, method |-> method, detail |-> detail]
ListAct   == <<Action(<<"list">>, "GET", FALSE)>>
CreateAct == <<Action(<<"create">>, "POST", FALSE)>>
FetchAct  == <<Action(<<"retrieve">>, "GET", TRUE)>>
UpdateAct == <<Action(<<"update">>, "PUT", TRUE), Action(<<"partial", "_", "update">>, "PATCH", TRUE)>>
DeleteAct == <<Action(<<"destroy">>, "DELETE", TRUE)>>

ActionsOf ==
    [ModelViewSet         |-> ListAct \o CreateAct \o FetchAct \o UpdateAct \o DeleteAct,
     ReadOnlyModelViewSet |-> ListAct \o FetchAct,
     ListModelMixin       |-> ListAct,   CreateModelMixin  |-> CreateAct,
     RetrieveModelMixin   |-> FetchAct,  UpdateModelMixin  |-> UpdateAct,
     DestroyModelMixin    |-> DeleteAct,
     ListAPIView          |-> ListAct,   CreateAPIView     |-> CreateAct,
     RetrieveAPIView      |-> FetchAct,  UpdateAPIView     |-> UpdateAct,
     DestroyAPIView       |-> DeleteAct, ListCreateAPIView |-> ListAct \o CreateAct,
     RetrieveUpdateAPIView        |-> FetchAct \o UpdateAct,
     RetrieveDestroyAPIView       |-> FetchAct \o DeleteAct,
     RetrieveUpdateDestroyAPIView |-> FetchAct \o UpdateAct \o DeleteAct]

\* Base classes with "ViewSet" in their names; BaseViewSet is one of the project's own.
ViewSets == {"ModelViewSet", "ReadOnlyModelViewSet", "GenericViewSet", "ViewSet", "BaseViewSet"}
Mixins   == {"ListModelMixin", "CreateModelMixin", "RetrieveModelMixin", "UpdateModelMixin", "DestroyModelMixin"}

ShowViews == {"ListView", "DetailView", "TemplateView", "RedirectView", "PasswordChangeDoneView",
              "PasswordResetDoneView", "PasswordResetCompleteView"}
FormViews == {"CreateView", "UpdateView", "DeleteView", "FormView", "LoginView", "LogoutView",
              "PasswordChangeView", "PasswordResetView", "PasswordResetConfirmView"}
CbvBases  == ShowViews \cup FormViews \cup {"View"}

StandardActions(class) ==
    FlattenSeq([i \in DOMAIN class.bases |->
        IF class.bases[i] \in DOMAIN ActionsOf THEN ActionsOf[class.bases[i]] ELSE <<>>])

IsViewSet(class) == \E b \in ToSet(class.bases) : b \in ViewSets \cup Mixins

VerbOf == [get |-> "GET", post |-> "POST", put |-> "PUT", patch |-> "PATCH",
           delete |-> "DELETE", head |-> "HEAD", options |-> "OPTIONS"]

MethodNamed(class, name) == Named(class.methods, name)

\* Methods written on the class, else those its first generic base answers to, else GET.
ViewMethods(class) ==
    LET written == Filter(class.methods, LAMBDA m : m.name \in {<<v>> : v \in DOMAIN VerbOf})
        bases   == Filter(class.bases, LAMBDA b : b \in ShowViews \cup FormViews)
    IN  IF written # <<>>
          THEN Filter([i \in DOMAIN written |-> VerbOf[written[i].name[1]]], LAMBDA v : v \in HttpMethods)
        ELSE IF bases = <<>> \/ bases[1] \in ShowViews THEN <<"GET">> ELSE <<"GET", "POST">>

-----------------------------------------------------------------------------
(* From URL patterns to routes.                                            *)

SkipParams == {<<"self">>, <<"cls">>, <<"request">>, <<"format">>, <<"args">>, <<"kwargs">>}

\* _extract_func_params and _path_params_to_route_params
ArgumentParams(args, own) ==
    LET used == Filter(args, LAMBDA a : a.name \notin SkipParams)
    IN  [i \in DOMAIN used |-> Param(used[i].name, IF used[i].name \in own THEN "path" ELSE "query")]
OwnParams(route) ==
    LET pars == Filter(route, LAMBDA s : s.k = "par")
    IN  [i \in DOMAIN pars |-> Param(pars[i].n, "path")]

\* _convert_django_path, _convert_regex_path: no slash at the end, one in front;
\* of an unnamed group the characters that are not special remain as text.
Converted(pattern) ==
    LET segs == Strip([i \in DOMAIN pattern.route |->
                  IF pattern.route[i] = Group THEN Lit(<<"0-9">>) ELSE pattern.route[i]])
    IN  IF segs = <<>> THEN Root ELSE segs

\* Mutation of PathUnder: an include's prefix is forgotten.
PathAlone(prefix, pattern) == Converted(pattern)

PathUnder(prefix, pattern) == Collapse(RStrip(prefix) \o Converted(pattern))

ParamsFor(functions, own, otherwise) ==
    IF functions = <<>> THEN otherwise
    ELSE ArgumentParams(functions[1].args, {own[i].name : i \in DOMAIN own})

\* _handle_class_view; actions is the constant-valued keywords of as_view().
ClassRoutes(class, path, own, actions) ==
    IF ~IsViewSet(class)
      THEN [i \in DOMAIN ViewMethods(class) |->
             LET verb == CHOOSE v \in DOMAIN VerbOf : VerbOf[v] = ViewMethods(class)[i]
             IN  Route(ViewMethods(class)[i], path, <<class.name>>,
                       ParamsFor(MethodNamed(class, <<verb>>), own, own), "ast")]
    ELSE IF actions = <<>>
      THEN [i \in DOMAIN StandardActions(class) |->
             LET a == StandardActions(class)[i] IN Route(a.method, path, a.name, own, "ast")]
    ELSE LET known == Filter(actions, LAMBDA a : a.method \in HttpMethods)
         IN  [i \in DOMAIN known |->
               Route(known[i].method, path, known[i].name,
                     ParamsFor(MethodNamed(class, known[i].name), own, own), "ast")]

\* name = Class.as_view(), plain or decorated, at the top of the view's module:
\* the class is of that module, or one of Django's own.
AssignedClass(f, view) ==
    LET g == IF view.mod = "" THEN f ELSE SourceFile(f, view.mod)
        named == IF g = 0 \/ Files[g].broken THEN <<>> ELSE Named(Of(Files[g], "assign"), view.name)
        found == SelectInSeq(named, LAMBDA a : ClassesIn(g, a.class) # <<>> \/ a.class \in CbvBases)
    IN  IF found = 0 THEN <<>>
        ELSE IF ClassesIn(g, named[found].class) # <<>> THEN <<ClassesIn(g, named[found].class)[1]>>
        ELSE <<[name |-> named[found].class, bases |-> <<named[found].class>>, methods |-> <<>>]>>

\* @api_view(methods), GET without one.
FunctionRoutes(function, path, own) ==
    LET methods == Filter(function.api, LAMBDA v : v \in HttpMethods)
    IN  [i \in DOMAIN methods |->
           Route(methods[i], path, function.name, ParamsFor(<<function>>, own, own), "ast")]

\* The routers of a file, and the registrations that follow the making of theirs.
Registrations(file) ==
    LET makes(i, s) == file.body[i].k = "newrouter" /\ file.body[i].var = s.var
    IN  [vars |-> {s.var : s \in ToSet(Of(file, "newrouter"))},
         regs |-> Picked(file.body, {i \in DOMAIN file.body :
                    file.body[i].k = "register" /\ \E j \in 1..(i - 1) : makes(j, file.body[i])})]

Pk == <<Param(<<"pk">>, "path")>>
UnderRouter(prefix, reg, detail, suffix) ==
    LET own == IF Strip(reg.prefix) = <<>> THEN Root ELSE Strip(reg.prefix)
    IN  Collapse(RStrip(prefix) \o own \o (IF detail THEN <<Par(<<"pk">>)>> ELSE <<>>) \o suffix)

\* _expand_router_urls and _expand_viewset_actions for one registration
RegistrationRoutes(f, prefix, reg) ==
    LET found == ClassFor(f, reg.viewset)
        class == found[1]
        acts  == StandardActions(class)
        extra == Filter(class.methods, LAMBDA m : m.action # "none")
        own(detail) == IF detail THEN Pk ELSE <<>>
        standard(a) == Route(a.method, UnderRouter(prefix, reg, a.detail, <<>>), a.name,
                             ParamsFor(MethodNamed(class, a.name), own(a.detail), <<>>), "ast")
        suffix(m) == IF m.url = <<>> THEN <<Lit(Dashed(m.name))>> ELSE m.url
        methods(m) == Filter(m.api, LAMBDA v : v \in HttpMethods)
        added(m) == [i \in DOMAIN methods(m) |->
                       Route(methods(m)[i], UnderRouter(prefix, reg, m.action = "detail", suffix(m)),
                             m.name, ParamsFor(<<m>>, own(m.action = "detail"), <<>>), "ast")]
    IN  IF found = <<>> THEN <<>>
        ELSE [i \in DOMAIN acts |-> standard(acts[i])] \o FlattenSeq([i \in DOMAIN extra |-> added(extra[i])])

\* _dispatch_view, but for the includes that open another file
ViewRoutes(f, path, pattern) ==
    LET view == pattern.view
        own  == OwnParams(pattern.route)
    IN  CASE view.k = "asview" ->
               LET class == ClassFor(f, view.class)
               IN  IF class = <<>> THEN <<>> ELSE ClassRoutes(class[1], path, own, view.actions)
          [] view.k = "ref" ->
               LET function == FunctionFor(f, view)
                   class    == AssignedClass(f, view)
               IN  IF function # <<>> THEN FunctionRoutes(function[1], path, own)
                   ELSE IF class # <<>> THEN ClassRoutes(class[1], path, own, <<>>) ELSE <<>>
          [] view.k = "router" ->
               LET found == Registrations(Files[f])
               IN  IF view.var \notin found.vars THEN <<>>
                   ELSE FlattenSeq([i \in DOMAIN found.regs |-> RegistrationRoutes(f, path, found.regs[i])])
          [] OTHER -> <<>>

-----------------------------------------------------------------------------
(* The walk.                                                               *)

Patterns(f) == FlattenSeq([i \in DOMAIN Of(Files[f], "urls") |-> Of(Files[f], "urls")[i].patterns])
\* An include() call in a pattern, or anywhere else in the file.
HasInclude(f) ==
    /\ ~Files[f].broken
    /\ \/ \E p \in ToSet(Patterns(f)) : p.view.k \in {"include", "router"}
       \/ Of(Files[f], "includecall") # <<>>

\* The urls.py files in scan order, those with an include() call first.
Starts ==
    LET urls == Filter([f \in DOMAIN Files |-> f], LAMBDA f : Stem(Files[f]) = "urls")
    IN  Filter(urls, HasInclude) \o Filter(urls, LAMBDA f : ~HasInclude(f))

Top  == Last(stack)
Here == Patterns(Top.file)[Top.next]
Past == [Top EXCEPT !.next = @ + 1]
Handle == handled' = Append(handled, <<Top.file, Top.next>>)

\* Mutation of Open: the file is remembered and opened again all the same.
OpenAlways(f, prefix, below) ==
    /\ stack' = IF Files[f].broken THEN below
                ELSE Append(below, [file |-> f, prefix |-> prefix, next |-> 1])
    /\ visited' = visited \cup {f}

\* collect(): a file is entered once, whatever the prefix; a syntax error ends it.
Open(f, prefix, below) ==
    IF f \in visited
      THEN stack' = below /\ UNCHANGED visited
      ELSE /\ visited' = visited \cup {f}
           /\ stack' = IF Files[f].broken THEN below
                       ELSE Append(below, [file |-> f, prefix |-> prefix, next |-> 1])

StartFile ==
    /\ walk = "on" /\ stack = <<>> /\ starts # <<>>
    /\ starts' = Tail(starts)
    /\ Open(Head(starts), <<>>, <<>>)
    /\ UNCHANGED <<django, handled, walk>>

\* The file an include("module.urls") pattern leads to.
Target(f, pattern) == IF pattern.view.k = "include" THEN ModuleFile(f, pattern.view.module) ELSE 0

InFile == walk = "on" /\ stack # <<>> /\ Top.next <= Len(Patterns(Top.file))

FollowInclude ==
    /\ InFile /\ Target(Top.file, Here) # 0
    /\ Open(Target(Top.file, Here), PathUnder(Top.prefix, Here), Append(Front(stack), Past))
    /\ Handle
    /\ UNCHANGED <<starts, django, walk>>

ListRoutes ==
    /\ InFile /\ Target(Top.file, Here) = 0
    /\ django' = django \o ViewRoutes(Top.file, PathUnder(Top.prefix, Here), Here)
    /\ stack' = Append(Front(stack), Past)
    /\ Handle
    /\ UNCHANGED <<starts, visited, walk>>

CloseFile ==
    /\ walk = "on" /\ stack # <<>> /\ Top.next > Len(Patterns(Top.file))
    /\ stack' = Front(stack)
    /\ UNCHANGED <<starts, visited, django, handled, walk>>

DjangoEnds ==
    /\ walk = "on" /\ stack = <<>> /\ starts = <<>>
    /\ walk' = "over"
    /\ UNCHANGED <<starts, stack, visited, django, handled>>

DjangoStep == StartFile \/ FollowInclude \/ ListRoutes \/ CloseFile \/ DjangoEnds

-----------------------------------------------------------------------------
(* What must hold of the walk.                                             *)

UrlFiles == {f \in DOMAIN Files : Stem(Files[f]) = "urls" /\ ~Files[f].broken}

\* However urls.py files include each other, themselves and broken files
\* included, no pattern is handled twice, no two collectors of one file are
\* active together, and in the end no pattern of any urls.py was left out
\* (the visited set of _UrlPatternCollector, "prevents double-processing").
PatternsOnce ==
    /\ IsInjective(handled)
    /\ IsInjective([i \in DOMAIN stack |-> stack[i].file])
    /\ walk = "over" => \A f \in UrlFiles : \A i \in DOMAIN Patterns(f) : <<f, i>> \in ToSet(handled)

\* What Django serves is said without the parser's own lookups. An import finds a
\* module by its name: next to the file that imports it if the name is relative,
\* else under the root of the project, one of the directories above that file.
Bases(f, relative) ==
    LET dir == Dir(Files[f])
    IN  IF relative THEN {dir} ELSE {SubSeq(dir, 1, n) : n \in 0..Len(dir)}
Finds(f, module, relative) ==
    {g \in DOMAIN Files : \E base \in Bases(f, relative) :
       Files[g].loc \in {base \o module, base \o module \o <<"__init__">>}}

\* A module of that name is in one place only, and can be imported.
Clear(f, module, relative) ==
    \E g \in DOMAIN Files : Finds(f, module, relative) = {g} /\ ~Files[g].broken

\* The includes of the repository: <<file, pattern, included file>>.
IncludesAt(f, i) ==
    IF Patterns(f)[i].view.k # "include" THEN {}
    ELSE {<<f, i, g>> : g \in Finds(f, Patterns(f)[i].view.module, FALSE)}
Includes == UNION {UNION {IncludesAt(f, i) : i \in DOMAIN Patterns(f)} : f \in UrlFiles}

\* The files in which Python finds what a view is called, this one or those of the
\* modules imported under the name before the dot, and the functions it finds.
ImportedAs(f, mod) == {m \in ToSet(Of(Files[f], "import")) : m.local = mod}
ViewFiles(f, view) ==
    IF view.mod = "" THEN {f} ELSE UNION {Finds(f, m.path, m.relative) : m \in ImportedAs(f, view.mod)}
ViewFunctions(f, view) ==
    {h \in UNION {ToSet(Of(Files[g], "func")) : g \in ViewFiles(f, view)} : h.name = view.name}

\* Django joins the texts: what ends in a slash, then what follows it.
Joint(prefix, route) == Front(prefix) \o route

\* The texts a file's patterns are appended to, found along as many includes as
\* there are files: one more for each of them.
MountsVia(mounts, file) ==
    [f \in DOMAIN Files |->
       (IF \A c \in Includes : c[3] # f THEN {Root} ELSE {})
       \cup UNION {{Joint(p, Patterns(c[1])[c[2]].route) : p \in mounts[c[1]]} :
                   c \in {d \in Includes : d[3] = f}}]
Mounts == FoldLeft(MountsVia, [f \in DOMAIN Files |-> {}], Files)

\* Nothing else has the name of a view: one module is imported under the name
\* before the dot, one function and no method is called so in its file, and none
\* in a file that takes its view from elsewhere.
CalledOnce(g, name) == \E h \in ToSet(Of(Files[g], "func")) : Named(Callables(Files[g]), name) = <<h>>
ClearView(f, view) ==
    /\ view.k = "ref"
    /\ \E g \in DOMAIN Files :
         ViewFiles(f, view) = {g} /\ ~Files[g].broken /\ CalledOnce(g, view.name)
    /\ view.mod # "" =>
         /\ \E m \in ToSet(Files[f].body) : ImportedAs(f, view.mod) = {m} /\ Clear(f, m.path, m.relative)
         /\ Named(Callables(Files[f]), view.name) = <<>>

\* A project the walk is made for: one root that is not included, every file
\* included at most once and reachable, the routes of includes ending in a slash,
\* none with a slash too many, and views that are functions of this file or of an
\* imported module, not functions imported by name.
Project ==
    /\ Cardinality({f \in UrlFiles : \A c \in Includes : c[3] # f}) = 1
    /\ \A c, d \in Includes : c[3] = d[3] => c = d
    /\ \A f \in UrlFiles : Mounts[f] # {}
    /\ \A c \in Includes : c[3] \in UrlFiles /\ Last(Patterns(c[1])[c[2]].route) = Empty
    /\ \A f \in UrlFiles : \A p \in ToSet(Patterns(f)) :
         /\ Group \notin ToSet(p.route) /\ \A i \in 1..(Len(p.route) - 1) : p.route[i] # Empty
         /\ \/ p.view.k = "include" /\ Clear(f, p.view.module, FALSE)
            \/ ClearView(f, p.view)

\* The methods and URLs Django serves at a pattern, and all of them.
VerbsAt(f, i) ==
    LET view == Patterns(f)[i].view
    IN  IF view.k # "ref" THEN {}
        ELSE HttpMethods \cap UNION {ToSet(h.api) : h \in ViewFunctions(f, view)}
UrlsAt(f, i) ==
    {<<v, RStrip(Joint(p, Patterns(f)[i].route)), Patterns(f)[i].view.name>> :
       p \in Mounts[f], v \in VerbsAt(f, i)}
ServedUrls == UNION {UNION {UrlsAt(f, i) : i \in DOMAIN Patterns(f)} : f \in UrlFiles}

\* The parser has found every URL Django serves, under the prefixes of all the
\* includes on the way to it, up to a slash at the end, and no other URL, for the
\* methods a client can use.
DjangoServed == {<<r.method, RStrip(r.path), r.fn>> : r \in ToSet(django)} = ServedUrls

\* The first urls.py with an include() call in scan order is the root.
RootScannedFirst == Starts # <<>> /\ \A c \in Includes : c[3] # Starts[1]

\* Of a project whose root is scanned before the other files with includes the
\* parser finds what Django serves (_UrlPatternCollector.collect).
MountedRight == walk = "over" /\ Project /\ RootScannedFirst => DjangoServed

\* The same in whatever order the files are scanned: "Process root URLconfs first"
\* (DjangoParser.parse).
RootsFirst == walk = "over" /\ Project => DjangoServed
=============================================================================
