------------------------------ MODULE MCParsing ------------------------------
(* Families of small repositories for model checking Pipeline.             *)
EXTENDS Pipeline

W(w) == <<w>>
UserId == <<"user", "_", "id">>
Txt(p) == [k |-> "text", p |-> p]
NoUser == [url |-> "", auth |-> "", var |-> ""]

File(loc, body) == [loc |-> loc, broken |-> FALSE, hints |-> {}, body |-> body]
Broken(file, b) == [file EXCEPT !.broken = b]
Repo(files, framework) ==
    [files |-> files, framework |-> framework, specs |-> <<>>, env |-> <<>>,
     user |-> NoUser, lifecycle |-> FALSE]

Arg(name) == [name |-> name, dep |-> "no", form |-> FALSE]
Import(local, path) == [k |-> "import", local |-> local, path |-> path, from |-> TRUE, relative |-> FALSE]
Sibling(name) == [Import(name, <<name>>) EXCEPT !.relative = TRUE]

-----------------------------------------------------------------------------
(* OpenAPI documents.                                                      *)

SpecParam(name, in) == [name |-> name, in |-> in, ref |-> FALSE]
Op(method, id, params, body) == [method |-> method, id |-> id, params |-> params, body |-> body]
Doc(resolves, paths) == [resolves |-> resolves, paths |-> paths]

\* The same API as the Python files, under other parameter names.
UsersDoc(resolves) == Doc(resolves,
    <<[path |-> <<Lit(W("api")), Lit(W("users")), Par(W("uid"))>>,
       shared |-> <<[SpecParam(W("uid"), "path") EXCEPT !.ref = TRUE]>>,
       ops |-> <<Op("GET", <<>>, <<SpecParam(W("limit"), "query")>>, <<>>),
                 Op("HEAD", <<>>, <<>>, <<>>)>>],
      [path |-> <<Lit(W("api")), Empty>>, shared |-> <<>>, ops |-> <<Op("GET", W("index"), <<>>, <<>>)>>]>>)
NoDoc == Doc("none", <<>>)
Specs == {<<>>, <<UsersDoc("full")>>, <<UsersDoc("raw"), NoDoc>>}

-----------------------------------------------------------------------------
(* FastAPI: a main file that includes the router of another one.           *)

Rt(on, method, path, fn, args) ==
    [k |-> "route", on |-> on, method |-> method, path |-> path, fn |-> fn, args |-> args]

MainFile(import, prefix) == File(W("main"),
    <<[k |-> "const", name |-> "API", value |-> W(Lit(W("api")))],
      IF import = "alias" THEN Import("users_router", <<"app", "users", "router">>)
      ELSE [Import("users", <<"app", "users">>) EXCEPT !.from = import = "from"],
      Rt(W("app"), "GET", Txt(Root), W("root"), <<>>),
      [k |-> "include", prefix |-> prefix,
       router |-> IF import = "alias" THEN [k |-> "name", name |-> "users_router"] ELSE [k |-> "attr", name |-> "users"]]>>)

UsersFile(prefix, list, id, broken) == Broken(File(<<"app", "users">>,
    <<[k |-> "router", var |-> W("router"), prefix |-> Txt(prefix)],
      Rt(W("router"), "GET", Txt(list), <<"list", "_", "users">>,
         <<[Arg(W("svc")) EXCEPT !.dep = "annotation"], Arg(W("limit"))>>),
      Rt(W("router"), "GET", Txt(<<id>>), <<"get", "_", "user">>, <<Arg(W("db")), Arg(id.n)>>),
      [k |-> "const", name |-> "EXIT", value |-> <<Lit(W("logout"))>>],
      Rt(W("router"), "POST", [k |-> "name", name |-> "EXIT"], W("logout"), <<>>),
      Rt(W("router"), "POST", Txt(<<Lit(W("login"))>>), W("login"),
         <<[name |-> <<"form", "_", "data">>, dep |-> "annotation", form |-> TRUE]>>)>>), broken)

\* FastAPI refuses a router that is included without a prefix and has none, if
\* one of its paths is empty.
Allowed(main, users) ==
    \/ Last(main.body).prefix # Txt(<<>>) \/ users.body[1].prefix # Txt(<<>>)
    \/ users.body[2].path # Txt(<<>>)

Mains == {MainFile(import, prefix) : import \in {"alias", "from", "as"},
            prefix \in {Txt(<<>>), Txt(W(Lit(W("api")))), [k |-> "name", name |-> "API"]}}
RouterFiles == {UsersFile(prefix, list, id, FALSE) : prefix \in {<<>>, W(Lit(W("users")))},
              list \in {<<>>, Root}, id \in {Par(UserId), Par(W("token")), Conv(UserId)}}
           \cup {UsersFile(<<>>, Root, Par(UserId), TRUE)}

FastApiRepos ==
    {[Repo(IF first THEN pair ELSE Reverse(pair), framework) EXCEPT !.specs = specs] :
       first \in BOOLEAN, pair \in {p \in Mains \X RouterFiles : Allowed(p[1], p[2])},
       framework \in {"fastapi", "none"}, specs \in Specs}

-----------------------------------------------------------------------------
(* Django: three urls.py files that include each other in every way, two   *)
(* with views of the same name in a module beside them.                    *)

Fn(name, api, action, args) ==
    [name |-> name, api |-> api, action |-> action, url |-> <<>>, args |-> args]
View(name, api, args) == [k |-> "func"] @@ Fn(name, api, "none", args)
Path(route, view) == [route |-> route, view |-> view]
IncludeOf(module) == [k |-> "include", module |-> module]
Ref(mod, name) == [k |-> "ref", mod |-> mod, name |-> name]
Urls(patterns) == [k |-> "urls", patterns |-> patterns]

Apps == <<"config", "shop", "blog">>
Edges == {<<1, 2>>, <<1, 3>>, <<2, 3>>, <<3, 2>>, <<2, 1>>, <<3, 3>>}
Includes_(edges, a) ==
    LET to == SelectSeq(<<1, 2, 3>>, LAMBDA b : <<a, b>> \in edges)
    IN  [i \in DOMAIN to |-> Path(<<Lit(W(Apps[to[i]])), Empty>>, IncludeOf(<<Apps[to[i]], "urls">>))]
UrlsFile(edges, a) == File(<<"proj", Apps[a], "urls">>,
    <<IF a = 1 THEN View(W("show"), W("GET"), <<Arg(W("request")), Arg(W("pk"))>>) ELSE Sibling("views"),
      Urls(Includes_(edges, a)
           \o <<Path(<<Lit(W("show")), Par(W("pk")), Empty>>, Ref(IF a = 1 THEN "" ELSE "views", W("show")))>>)>>)
ViewsFile(a, api) == File(<<"proj", Apps[a], "views">>, <<View(W("show"), api, <<Arg(W("pk"))>>)>>)

\* The third file may be broken, or call include() outside its patterns.
Variant(file, form) ==
    CASE form = "broken" -> Broken(file, TRUE)
      [] form = "call"   -> [file EXCEPT !.body = Append(@, [k |-> "includecall"])]
      [] OTHER           -> file

DjangoRepos ==
    {Repo([i \in 1..3 |-> IF order[i] = 3 THEN Variant(UrlsFile(edges, 3), form) ELSE UrlsFile(edges, order[i])]
          \o <<ViewsFile(3, W("POST")), ViewsFile(2, <<"GET", "PUT", "HEAD">>)>>, "django") :
       edges \in SUBSET Edges, order \in {<<1, 2, 3>>, <<1, 3, 2>>, <<2, 1, 3>>, <<3, 1, 2>>},
       form \in {"plain", "broken", "call"}}

-----------------------------------------------------------------------------
(* Django: every kind of view, two in one file.                            *)

Cls(name, bases, methods) == [k |-> "class", name |-> name, bases |-> bases, methods |-> methods]
AsView(class, actions) == [k |-> "asview", class |-> class, actions |-> actions]
Pk1 == <<Arg(W("self")), Arg(W("pk"))>>

Views ==
    {Ref("", W("show")), Ref("views", W("show")), Ref("views", W("board")), Ref("views", W("bye")),
     AsView("Board", <<>>), AsView("Things", <<>>),
     AsView("Things", <<[method |-> "GET", name |-> W("retrieve")], [method |-> "QUERYSET", name |-> W("things")]>>),
     AsView("LoginView", <<>>), AsView("Search", <<>>), AsView("Cards", W([method |-> "GET", name |-> W("recent")])), AsView("Report", <<>>), IncludeOf(<<"gone", "urls">>),
     [k |-> "router", var |-> "router"], [k |-> "router", var |-> "other"]}

MenuUrls(first, second) == File(<<"site", "urls">>,
    <<Sibling("views"), Import("Board", <<"views", "Board">>),
      [k |-> "newrouter", var |-> "router"],
      [k |-> "register", var |-> "router", prefix |-> <<Lit(W("things")), Empty>>, viewset |-> "Things"],
      [k |-> "register", var |-> "unknown", prefix |-> Root, viewset |-> "Board"],
      [k |-> "register", var |-> "router", prefix |-> Root, viewset |-> "Gone"],
      Urls(<<Path(<<Lit(W("a")), Par(W("pk")), Empty>>, first), Path(<<Lit(W("b")), Group>>, second)>>)>>)
MenuViews == File(<<"site", "views">>,
    <<View(W("show"), W("GET"), <<Arg(W("request")), Arg(W("pk")), Arg(W("q"))>>),
      Cls("Board", W("APIView"), <<Fn(W("get"), W("GET"), "none", Pk1), Fn(W("head"), W("GET"), "none", Pk1)>>),
      Cls("Things", <<"CreateModelMixin", "ReadOnlyModelViewSet">>,
          <<Fn(W("retrieve"), W("GET"), "none", Pk1), Fn(<<"mark", "_", "read">>, <<"POST", "HEAD", "PUT">>, "detail", Pk1),
            Fn(W("recent"), W("GET"), "list", W(Arg(W("self"))))>>),
      Cls("Search", <<"FormView">>, <<>>), Cls("Report", <<"ReportBase">>, <<>>),
      Cls("Cards", W("BaseViewSet"), W(Fn(W("recent"), W("GET"), "none", W(Arg(W("self")))))),
      [k |-> "assign", name |-> W("board"), class |-> "Board"],
      [k |-> "assign", name |-> W("bye"), class |-> "LogoutView"]>>)

MenuRepos == {[Repo(<<MenuUrls(p, q), MenuViews>>, framework) EXCEPT !.lifecycle = TRUE] :
                p \in Views, q \in Views, framework \in {"django", "none"}}

-----------------------------------------------------------------------------
(* Names of parameters and commands in a document, settings in .env files. *)

Names == {UserId, <<"user", "-", "id">>, <<"user", "Id">>, W("data")}
NameRepos ==
    {[Repo(<<>>, "none") EXCEPT !.lifecycle = lifecycle, !.specs =
        <<Doc("full", <<[path |-> <<Lit(W("users")), Par(path)>>, shared |-> <<SpecParam(declared, "path")>>,
            ops |-> <<Op(method, id, IF in = "body" THEN <<>> ELSE <<SpecParam(name, in)>>,
                         IF in = "body" THEN <<[ref |-> FALSE, props |-> <<name>>]>> ELSE <<>>)>>],
            [path |-> <<Lit(W("users"))>>, shared |-> <<>>, ops |-> <<Op("GET", W("login"), <<>>, <<>>)>>]>>)>>] :
       path \in Names, declared \in Names, method \in {"GET", "POST"}, id \in {<<>>, W("login"), W("class"), W("app")},
       in \in {"query", "header", "body"},
       name \in {W("limit"), W("data"), UserId, W("from"), W("body"), ApiCall}, lifecycle \in BOOLEAN}

EnvLines == {[k |-> "url", http |-> TRUE, v |-> "http://a"], [k |-> "url", http |-> FALSE, v |-> "a"],
             [k |-> "port", v |-> "80"], [k |-> "port", v |-> "81"], [k |-> "other"],
             [k |-> "auth", type |-> "bearer", var |-> "JWT_KEY"],
             [k |-> "auth", type |-> "api_key", var |-> "API_KEY"]}
ConfigRepos ==
    {[Repo(<<[File(W("a"), <<>>) EXCEPT !.hints = hints]>>, "other") EXCEPT !.env = <<<<x, y>>, <<z>>>>, !.user = user] :
       x \in EnvLines, y \in EnvLines, z \in EnvLines, hints \in {{}, {"api_key"}, {"bearer", "api_key"}},
       user \in {NoUser, [url |-> "https://u", auth |-> "api_key", var |-> ""],
                 [url |-> "", auth |-> "bogus", var |-> "TOKEN"]}}

AllRepos == FastApiRepos \cup DjangoRepos \cup MenuRepos \cup NameRepos \cup ConfigRepos
=============================================================================
