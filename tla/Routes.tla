------------------------------- MODULE Routes -------------------------------
(***************************************************************************)
(* What the parsing layers exchange: paths, routes and the command graph   *)
(* (pipeline.py, models.py).                                               *)
(*                                                                         *)
(* A name is the sequence of its tokens: user_id is <<"user", "_", "id">>,  *)
(* userId is <<"user", "Id">>, the empty name is <<>>.  A path is the       *)
(* sequence of its segments, one after every slash: /users/ is the segment *)
(* users and an empty one, / is one empty segment and the empty text is    *)
(* <<>>, so that texts that start with a slash are joined by \o.           *)
(***************************************************************************)
EXTENDS SequencesExt

\* A finite sequence of whatever it holds.
IsSeq(s) == s \in Seq(ToSet(s))

\* The elements of s at the places I, in order.
Picked(s, I) ==
    LET upTo[i \in 0..Len(s)] ==
          IF i = 0 THEN <<>> ELSE IF i \in I THEN Append(upTo[i - 1], s[i]) ELSE upTo[i - 1]
    IN  upTo[Len(s)]

\* The elements that pass a test: SelectSeq, by a definition that lemmas can be
\* proved about.
Filter(s, Test(_)) == Picked(s, {i \in DOMAIN s : Test(s[i])})

\* dict.update and dict[key] = value: later ones win.
Updated(f, g) == [x \in DOMAIN f \cup DOMAIN g |-> IF x \in DOMAIN g THEN g[x] ELSE f[x]]
Put(f, key, value) == Updated(f, [x \in {key} |-> value])

Lit(n) == [k |-> "lit", n |-> n]   \* text
Par(n) == [k |-> "par", n |-> n]   \* {name}
Conv(n) == [k |-> "conv", n |-> n] \* {name:path}: a parameter with a converter
Group == [k |-> "group", n |-> <<>>] \* an unnamed group of a regular expression

Empty == Lit(<<>>)
Root  == <<Empty>>

\* str.rstrip("/") and str.strip("/")
RStrip(p) == SubSeq(p, 1, SelectLastInSeq(p, LAMBDA s : s # Empty))
Strip(p) ==
    LET first == SelectInSeq(p, LAMBDA s : s # Empty)
    IN  IF first = 0 THEN <<>> ELSE SubSeq(RStrip(p), first, Len(RStrip(p)))

\* re.sub("//+", "/", path): only the last segment may be empty.
Collapse(p) == Filter(Front(p), LAMBDA s : s # Empty) \o <<Last(p)>>

Params(p) == {p[i].n : i \in {j \in DOMAIN p : p[j].k = "par"}}

HttpMethods == {"GET", "POST", "PUT", "DELETE", "PATCH"}

\* ParsedRoute and RouteParam: what the later stages read of them.
Route(method, path, fn, params, layer) ==
    [method |-> method, path |-> path, fn |-> fn, params |-> params, layer |-> layer]
Param(name, loc) == [name |-> name, loc |-> loc]

-----------------------------------------------------------------------------
(* Merging the layers.                                                     *)

\* re.sub(r"\{[^}]+\}", "{}", path), without the slashes at the end
Normalize(p) ==
    LET q == RStrip([i \in DOMAIN p |-> IF p[i].k = "lit" THEN p[i] ELSE Par(<<>>)])
    IN  IF q = <<>> THEN Root ELSE q

Key(r) == <<r.method, Normalize(r.path)>>

\* Mutation of Merged: an identity is recognised by the raw path.
MergedByText(merged, r) ==
    IF \E i \in DOMAIN merged : merged[i].method = r.method /\ merged[i].path = r.path
      THEN [merged EXCEPT ![CHOOSE i \in DOMAIN merged :
                              merged[i].method = r.method /\ merged[i].path = r.path] = r]
      ELSE Append(merged, r)

\* merged[key] = route: a dict has a key once and keeps its place.
Merged(merged, r) ==
    IF \E i \in DOMAIN merged : Key(merged[i]) = Key(r)
      THEN [merged EXCEPT ![CHOOSE i \in DOMAIN merged : Key(merged[i]) = Key(r)] = r]
      ELSE Append(merged, r)

-----------------------------------------------------------------------------
(* The command graph.                                                      *)

Retoken(n, from, to) == [i \in DOMAIN n |-> IF n[i] \in from THEN to ELSE n[i]]
Dashed(n) == Retoken(n, {"_"}, "-")

\* sep.join(names)
Joined(names, sep) ==
    FoldLeft(LAMBDA text, n : IF text = <<>> THEN n ELSE text \o <<sep>> \o n, <<>>, names)

\* The literal segments of a path, "root" if there are none.
PathWords(p, sep) ==
    LET lits == Filter(p, LAMBDA s : s.k = "lit" /\ s # Empty)
    IN  IF lits = <<>> THEN <<"root">> ELSE Joined([i \in DOMAIN lits |-> lits[i].n], sep)

Verb == [GET |-> "get", POST |-> "create", PUT |-> "update", PATCH |-> "patch", DELETE |-> "delete"]
Meaningless == {<<>>, <<"root">>, <<"index">>, <<"handler">>}

CommandName(r) ==
    IF r.fn \in Meaningless
      THEN <<Verb[r.method], "-">> \o PathWords(r.path, "-")
      ELSE Dashed(r.fn)

\* A parameter keeps its name and gets a flag; where it belongs is not kept.
Subcommand(r) ==
    [name     |-> CommandName(r),
     method   |-> r.method,
     endpoint |-> r.path,
     params   |-> [i \in DOMAIN r.params |-> [name |-> r.params[i].name,
                                              flag |-> Dashed(r.params[i].name)]]]

CommandGraph(routes) == [i \in DOMAIN routes |-> Subcommand(routes[i])]
=============================================================================
