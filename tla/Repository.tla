----------------------------- MODULE Repository -----------------------------
(***************************************************************************)
(* A repository as the parsers read it: its Python files in the order in   *)
(* which index_files scanned them, each with the statements the parsers    *)
(* look at, and its OpenAPI documents and .env files.                      *)
(*                                                                         *)
(* A file is [loc, broken, body]: the words of its path without .py,       *)
(* whether it has a syntax error, and its statements in source order:      *)
(*   [k |-> "import", local, path, from, relative]                         *)
(*      from P import X as local; relative of from . or .P, which the        *)
(*      parsers do not look at                                               *)
(*   [k |-> "const", name, value]          NAME = "text"                   *)
(*   [k |-> "router", var, prefix]         var = APIRouter(prefix=...)     *)
(*   [k |-> "include", router, prefix]     app.include_router(...)         *)
(*   [k |-> "route", on, method, path, fn, args]                           *)
(*   [k |-> "class", name, bases, methods], [k |-> "func", name, ...]      *)
(*   [k |-> "assign", name, class]         name = deco(Class.as_view())    *)
(*   [k |-> "newrouter", var], [k |-> "register", var, prefix, viewset]    *)
(*   [k |-> "urls", patterns]              urlpatterns = [...] or += [...] *)
(*   [k |-> "includecall"]                 include(...) anywhere else      *)
(***************************************************************************)
EXTENDS Routes

CONSTANTS Repos   \* the repositories and settings that may be submitted

\* What the parsers are given: lists are finite, a file parses or it does not, the
\* paths of an OpenAPI document start with a slash, the text of a Django pattern
\* follows one, files and modules have names, and what a pattern finds in a line of an .env file is not empty.
IsMethod(m) == IsSeq(m.api) /\ IsSeq(m.url) /\ IsSeq(m.args)
IsPattern(p) ==
    /\ IsSeq(p.route) /\ p.route # <<>>
    /\ p.view.k = "asview" => IsSeq(p.view.actions)
    /\ p.view.k = "include" => p.view.module # <<>>
IsText(text) == text.k = "text" => IsSeq(text.p)
IsStatement(s) ==
    /\ s.k = "import"   => IsSeq(s.path) /\ s.path # <<>> /\ s.relative \in BOOLEAN
    /\ s.k = "const"    => IsSeq(s.value)
    /\ s.k \in {"router", "include"} => IsText(s.prefix)
    /\ s.k = "route"    => IsText(s.path) /\ IsSeq(s.args)
    /\ s.k = "func"     => IsMethod(s)
    /\ s.k = "class"    => /\ IsSeq(s.bases) /\ IsSeq(s.methods)
                           /\ \A m \in ToSet(s.methods) : IsMethod(m)
    /\ s.k = "register" => IsSeq(s.prefix)
    /\ s.k = "urls"     => IsSeq(s.patterns) /\ \A p \in ToSet(s.patterns) : IsPattern(p)
IsFile(file) ==
    /\ IsSeq(file.loc) /\ file.loc # <<>>
    /\ file.broken \in BOOLEAN /\ IsSeq(file.body) /\ \A s \in ToSet(file.body) : IsStatement(s)
IsItem(item) ==
    /\ IsSeq(item.path) /\ item.path # <<>> /\ IsSeq(item.shared) /\ IsSeq(item.ops)
    /\ \A op \in ToSet(item.ops) :
         IsSeq(op.params) /\ IsSeq(op.body) /\ \A media \in ToSet(op.body) : IsSeq(media.props)
IsDocument(doc) == IsSeq(doc.paths) /\ \A item \in ToSet(doc.paths) : IsItem(item)
IsLine(line) ==
    /\ line.k = "url" /\ line.http => line.v # ""
    /\ line.k = "port" => line.v # ""
    /\ line.k = "auth" => line.type \in {"bearer", "api_key"}

ASSUME ReposAssumption ==
    \A r \in Repos :
        /\ r.lifecycle \in BOOLEAN
        /\ IsSeq(r.files) /\ \A file \in ToSet(r.files) : IsFile(file)
        /\ IsSeq(r.specs) /\ \A doc \in ToSet(r.specs) : IsDocument(doc)
        /\ IsSeq(r.env) /\ \A lines \in ToSet(r.env) : IsSeq(lines) /\ \A l \in ToSet(lines) : IsLine(l)

VARIABLES repo    \* the one that was

Files == repo.files
Stem(file) == Last(file.loc)
Dir(file)  == Front(file.loc)
Of(file, kind) == Filter(file.body, LAMBDA s : s.k = kind)

\* The modules a file imports, oldest first.
Imports(file) == Of(file, "import")

\* imports[local]: <<>> if the name is not imported
ImportOf(imports, local) ==
    LET i == SelectLastInSeq(imports, LAMBDA m : m.local = local)
    IN  IF i = 0 THEN <<>> ELSE imports[i].path

\* The first file with this stem, 0 if there is none.
FileByStem(stem) == SelectInSeq(Files, LAMBDA f : Stem(f) = stem)
=============================================================================
