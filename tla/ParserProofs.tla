---------------------------- MODULE ParserProofs ----------------------------
(***************************************************************************)
(* Proofs about the parsers: the walk of the Django parser through urls.py *)
(* files, what each parser takes from a file, and that FastAPI's reads the *)
(* prefixes and routes of a file as FastAPI does.                          *)
(***************************************************************************)
EXTENDS Pipeline, SequenceFacts

-----------------------------------------------------------------------------
(* The walk.                                                                *)

Collector(c) == c = [file |-> c.file, prefix |-> c.prefix, next |-> c.next] /\ IsSeq(c.prefix)

\* What the walk's variables hold: the collectors st, the files vis that were
\* entered, and the patterns hd that were handled.
WalkShape(st, vis, hd) ==
    /\ vis \subseteq DOMAIN Files /\ IsSeq(st) /\ IsSeq(hd)
    /\ \A s \in DOMAIN st :
         /\ Collector(st[s])
         /\ st[s].file \in vis /\ ~Files[st[s].file].broken
         /\ st[s].next \in 1..(Len(Patterns(st[s].file)) + 1)

\* No two active collectors have one file.
OneCollector(st) == \A s, t \in DOMAIN st : st[s].file = st[t].file => s = t

\* A pattern is handled once, and only in a parsable file that was entered.
HandledOnce(vis, hd) ==
    /\ \A k, l \in DOMAIN hd : hd[k] = hd[l] => k = l
    /\ \A k \in DOMAIN hd : \E f \in vis :
         ~Files[f].broken /\ \E i \in DOMAIN Patterns(f) : hd[k] = <<f, i>>

\* An active collector has handled the patterns before its place and no others.
ActiveHandled(st, hd) ==
    \A s \in DOMAIN st : \A i \in DOMAIN Patterns(st[s].file) :
        <<st[s].file, i>> \in ToSet(hd) <=> i < st[s].next

\* A file that was entered, parses and has no collector any more is finished.
LeftHandled(st, vis, hd) ==
    \A f \in vis :
        \/ Files[f].broken
        \/ \E s \in DOMAIN st : st[s].file = f
        \/ \A i \in DOMAIN Patterns(f) : <<f, i>> \in ToSet(hd)

Walk(st, vis, hd) ==
    /\ WalkShape(st, vis, hd) /\ OneCollector(st) /\ HandledOnce(vis, hd)
    /\ ActiveHandled(st, hd) /\ LeftHandled(st, vis, hd)

\* Every urls.py is still to be started from, or was entered.
NoneForgotten ==
    /\ IsSeq(starts) /\ ToSet(starts) \subseteq DOMAIN Files
    /\ walk \in {"off", "on", "over"}
    /\ walk # "off" => \A f \in DOMAIN Files : Stem(Files[f]) = "urls" => f \in visited \cup ToSet(starts)
    /\ walk = "over" => starts = <<>> /\ stack = <<>>
    /\ stage \in {"openapi", "fastapi"} => walk = "off"

WalkInv == repo \in Repos /\ Walk(stack, visited, handled) /\ NoneForgotten

-----------------------------------------------------------------------------

\* The files of a repository that may be submitted.
LEMMA FilesFacts ==
  ASSUME repo \in Repos
  PROVE  /\ IsSeq(Files) /\ Len(Files) \in Nat /\ DOMAIN Files = 1..Len(Files)
         /\ \A f \in DOMAIN Files : IsFile(Files[f])
BY ReposAssumption, SeqFacts DEF Files

\* The statements of one kind of a file.
LEMMA OfFacts ==
  ASSUME NEW file, IsFile(file), NEW kind
  PROVE  /\ IsSeq(Of(file, kind))
         /\ \A s \in ToSet(Of(file, kind)) : s.k = kind /\ IsStatement(s)
<1> DEFINE I == {i \in DOMAIN file.body : file.body[i].k = kind}
<1>1. IsSeq(file.body) /\ I \in SUBSET DOMAIN file.body
  BY DEF IsFile
<1>2. Of(file, kind) = Picked(file.body, I)
  BY DEF Of, Filter
<1>3. ToSet(Of(file, kind)) = {file.body[i] : i \in I}
  BY <1>1, <1>2, PickedIsSeq
<1>4. \A i \in I : file.body[i].k = kind /\ IsStatement(file.body[i])
  BY <1>1, SeqFacts DEF IsFile
<1> QED
  BY <1>1, <1>2, <1>3, <1>4, PickedIsSeq

\* The URL patterns of a file.
LEMMA PatternsFacts ==
  ASSUME repo \in Repos, NEW f \in DOMAIN Files
  PROVE  /\ IsSeq(Patterns(f)) /\ Len(Patterns(f)) \in Nat
         /\ DOMAIN Patterns(f) = 1..Len(Patterns(f))
         /\ \A i \in DOMAIN Patterns(f) : IsPattern(Patterns(f)[i])
<1> DEFINE urls == Of(Files[f], "urls")
           lists == [i \in DOMAIN urls |-> urls[i].patterns]
<1>1. IsSeq(urls) /\ \A s \in ToSet(urls) : s.k = "urls" /\ IsStatement(s)
  BY FilesFacts, OfFacts
<1>2. /\ Len(urls) \in Nat /\ DOMAIN urls = 1..Len(urls)
      /\ \A i \in DOMAIN urls : IsSeq(urls[i].patterns)
      /\ \A i \in DOMAIN urls : \A p \in ToSet(urls[i].patterns) : IsPattern(p)
  BY <1>1, SeqFacts DEF IsStatement
<1>3. IsSeq(lists)
  <2> HIDE DEF urls
  <2> QED
    BY <1>2, MapIsSeq
<1>4. Patterns(f) = FlattenSeq(lists)
  BY DEF Patterns
<1>5. IsSeq(FlattenSeq(lists)) /\ ToSet(FlattenSeq(lists)) = UNION {ToSet(lists[i]) : i \in DOMAIN lists}
  <2>1. \A i \in DOMAIN lists : IsSeq(lists[i])
    BY <1>2
  <2> HIDE DEF lists
  <2> QED
    BY <1>3, <2>1, FlattenIsSeqOf
<1>6. \A p \in ToSet(FlattenSeq(lists)) : IsPattern(p)
  BY <1>2, <1>5
<1> HIDE DEF lists
<1> QED
  BY <1>4, <1>5, <1>6, SeqFacts

\* A file found by its stem is a file of the repository or 0,
LEMMA FirstFileOfStem ==
  ASSUME repo \in Repos, NEW stem
  PROVE  FileByStem(stem) \in 0..Len(Files)
<1> DEFINE I == {i \in 1..Len(Files) : Stem(Files[i]) = stem}
<1>1. FileByStem(stem) = IF I # {} THEN Min(I) ELSE 0
  BY DEF FileByStem, SelectInSeq
<1> HIDE DEF I
<1>2. I \in SUBSET (1..Len(Files))
  BY DEF I
<1> QED
  BY <1>1, <1>2, FoundPlace, FilesFacts

\* and so is one found by a module's dotted name.
LEMMA ModuleIsFile ==
  ASSUME repo \in Repos, NEW f, NEW module
  PROVE  ModuleFile(f, module) \in 0..Len(Files)
<1> DEFINE At(loc) == {i \in 1..Len(Files) : Files[i].loc = loc}
           at(loc) == SelectInSeq(Files, LAMBDA g : g.loc = loc)
           dir  == Dir(Files[f])
           bases == <<dir, <<>>>> \o [i \in 1..Len(dir) |-> SubSeq(dir, 1, Len(dir) - i)]
           tried == FlattenSeq([i \in DOMAIN bases |->
                      <<bases[i] \o module, bases[i] \o module \o <<"__init__">>>>])
           hit   == SelectInSeq(tried, LAMBDA loc : at(loc) # 0)
           Near == {i \in 1..Len(Files) : Stem(Files[i]) = Last(module) /\ Dir(Files[i]) = dir}
           near  == SelectLastInSeq(Files, LAMBDA g : Stem(g) = Last(module) /\ Dir(g) = dir)
<1>1. \A loc : at(loc) \in 0..Len(Files)
  <2>1. ASSUME NEW loc PROVE at(loc) \in 0..Len(Files)
    <3>1. at(loc) = IF At(loc) # {} THEN Min(At(loc)) ELSE 0
      BY DEF SelectInSeq
    <3>2. At(loc) \in SUBSET (1..Len(Files))
      OBVIOUS
    <3> QED
      BY <3>1, <3>2, FoundPlace, FilesFacts
  <2> QED
    BY <2>1
<1>2. near \in 0..Len(Files)
  <2>1. near = IF Near # {} THEN Max(Near) ELSE 0
    BY DEF SelectLastInSeq
  <2>2. Near \in SUBSET (1..Len(Files))
    OBVIOUS
  <2> QED
    BY <2>1, <2>2, FoundPlace, FilesFacts
<1>3. ModuleFile(f, module) =
        IF module = <<>> THEN 0
        ELSE IF hit # 0 THEN at(tried[hit])
        ELSE IF near # 0 THEN near ELSE FileByStem(Last(module))
  BY DEF ModuleFile
<1> HIDE DEF at, hit, tried, near
<1> QED
  BY <1>1, <1>2, <1>3, FirstFileOfStem, FilesFacts

\* The path of a pattern under a prefix is one: it starts with a slash.
LEMMA PathUnderFacts ==
  ASSUME NEW prefix, IsSeq(prefix), NEW pattern, IsPattern(pattern)
  PROVE  IsSeq(PathUnder(prefix, pattern)) /\ PathUnder(prefix, pattern) # <<>>
<1> DEFINE texts == [i \in DOMAIN pattern.route |->
                       IF pattern.route[i] = Group THEN Lit(<<"0-9">>) ELSE pattern.route[i]]
           segs == Strip(texts)
           own == Converted(pattern)
<1>1. IsSeq(texts)
  <2>1. IsSeq(pattern.route)
    BY DEF IsPattern
  <2>2. Len(pattern.route) \in Nat /\ DOMAIN pattern.route = 1..Len(pattern.route)
    BY <2>1, SeqFacts
  <2> QED
    BY <2>2, MapIsSeq
<1>2. own = IF segs = <<>> THEN Root ELSE segs
  BY DEF Converted
<1>3. IsSeq(segs)
  <2> HIDE DEF texts
  <2> QED
    BY <1>1, StripIsSeq
<1>4. IsSeq(Root) /\ Root # <<>>
  BY SingletonIsSeq DEF Root
<1> HIDE DEF segs
<1>5. IsSeq(own) /\ own # <<>>
  BY <1>2, <1>3, <1>4
<1> HIDE DEF own
<1>6. IsSeq(RStrip(prefix))
  BY RStripIsSeq
<1>7. IsSeq(RStrip(prefix) \o own) /\ RStrip(prefix) \o own # <<>>
  BY <1>5, <1>6, ConcatIsSeq, ConcatNotEmpty
<1>8. PathUnder(prefix, pattern) = Collapse(RStrip(prefix) \o own)
  BY DEF PathUnder, own
<1> QED
  BY <1>7, <1>8, CollapseIsSeq

\* An include leads to a file of the repository, if anywhere.
LEMMA TargetFacts ==
  ASSUME repo \in Repos, NEW f, NEW p, Target(f, p) # 0
  PROVE  Target(f, p) \in DOMAIN Files
BY ModuleIsFile, FilesFacts DEF Target

\* The walk is started from every urls.py, whether it has includes or not.
LEMMA StartsFacts ==
  ASSUME repo \in Repos
  PROVE  IsSeq(Starts) /\ ToSet(Starts) = {f \in DOMAIN Files : Stem(Files[f]) = "urls"}
<1> DEFINE all == [f \in DOMAIN Files |-> f]
           IsUrls == {i \in DOMAIN all : Stem(Files[all[i]]) = "urls"}
           urls == Picked(all, IsUrls)
           With == {i \in DOMAIN urls : HasInclude(urls[i])}
           Without == {i \in DOMAIN urls : ~HasInclude(urls[i])}
<1>1. IsSeq(all)
  BY FilesFacts, MapIsSeq
<1>2. IsSeq(urls) /\ ToSet(urls) = {f \in DOMAIN Files : Stem(Files[f]) = "urls"}
  <2>1. ToSet(urls) = {all[i] : i \in IsUrls} /\ IsSeq(urls)
    <3> HIDE DEF all
    <3> QED
      BY <1>1, PickedIsSeq
  <2> QED
    BY <2>1
<1>3. Starts = Picked(urls, With) \o Picked(urls, Without)
  BY DEF Starts, Filter
<1> HIDE DEF urls
<1>4. /\ IsSeq(Picked(urls, With)) /\ ToSet(Picked(urls, With)) = {urls[i] : i \in With}
      /\ IsSeq(Picked(urls, Without)) /\ ToSet(Picked(urls, Without)) = {urls[i] : i \in Without}
  BY <1>2, PickedIsSeq
<1>5. {urls[i] : i \in With} \cup {urls[i] : i \in Without} = ToSet(urls)
  <2>1. With \cup Without = DOMAIN urls
    OBVIOUS
  <2> HIDE DEF With, Without
  <2>2. {urls[i] : i \in With} \cup {urls[i] : i \in Without} = {urls[i] : i \in With \cup Without}
    BY Zenon
  <2> QED
    BY <2>1, <2>2 DEF ToSet
<1>6. /\ IsSeq(Picked(urls, With) \o Picked(urls, Without))
      /\ ToSet(Picked(urls, With) \o Picked(urls, Without)) =
           ToSet(Picked(urls, With)) \cup ToSet(Picked(urls, Without))
  <2> HIDE DEF With, Without
  <2> QED
    BY <1>4, ConcatIsSeq
<1> HIDE DEF With, Without
<1> QED
  BY <1>2, <1>3, <1>4, <1>5, <1>6

-----------------------------------------------------------------------------

\* No step changes the repository, hence none its files and patterns.
LEMMA SameRepository ==
  ASSUME repo' = repo
  PROVE  Files' = Files /\ \A f : Patterns(f)' = Patterns(f)
BY DEF Files, Patterns, Of, Filter

\* Lemmas about one step of the walk, whatever its state.

\* The collector on top of the stack is a place in a parsable file that was entered.
LEMMA TopFacts ==
  ASSUME repo \in Repos, NEW st, NEW vis, NEW hd, WalkShape(st, vis, hd), st # <<>>
  PROVE  /\ Len(st) \in Nat \ {0} /\ DOMAIN st = 1..Len(st) /\ Last(st) = st[Len(st)]
         /\ Collector(Last(st))
         /\ Last(st).file \in vis /\ Last(st).file \in DOMAIN Files
         /\ ~Files[Last(st).file].broken
         /\ Last(st).next \in 1..(Len(Patterns(Last(st).file)) + 1)
<1>1. IsSeq(st) /\ vis \subseteq DOMAIN Files
  BY DEF WalkShape
<1>2. Len(st) \in Nat \ {0} /\ Last(st) = st[Len(st)] /\ DOMAIN st = 1..Len(st)
  BY <1>1, FrontIsSeq, SeqFacts
<1>3. Len(st) \in DOMAIN st
  BY <1>2
<1> QED
  BY <1>1, <1>2, <1>3 DEF WalkShape

\* The pattern it has come to is a URL pattern.
LEMMA HereFacts ==
  ASSUME repo \in Repos, Walk(stack, visited, handled), stack # <<>>, Top.next <= Len(Patterns(Top.file))
  PROVE  /\ IsPattern(Here) /\ Top.file \in DOMAIN Files /\ ~Files[Top.file].broken
         /\ IsSeq(PathUnder(Top.prefix, Here)) /\ PathUnder(Top.prefix, Here) # <<>>
<1>1. /\ Collector(Top) /\ Top.file \in DOMAIN Files /\ ~Files[Top.file].broken
      /\ Top.next \in 1..(Len(Patterns(Top.file)) + 1)
  BY TopFacts DEF Walk, Top
<1>2. /\ DOMAIN Patterns(Top.file) = 1..Len(Patterns(Top.file)) /\ Len(Patterns(Top.file)) \in Nat
      /\ \A i \in DOMAIN Patterns(Top.file) : IsPattern(Patterns(Top.file)[i])
  BY <1>1, PatternsFacts
<1>3. Top.next \in DOMAIN Patterns(Top.file)
  BY <1>1, <1>2
<1>4. IsPattern(Here)
  BY <1>2, <1>3 DEF Here
<1> QED
  BY <1>1, <1>4, PathUnderFacts DEF Collector

\* Handling the pattern at the top's place and moving past it,
LEMMA HandleKeepsWalk ==
  ASSUME repo \in Repos, NEW st, NEW vis, NEW hd, Walk(st, vis, hd), st # <<>>,
         NEW c, c = Last(st), c.next <= Len(Patterns(c.file)),
         NEW past, past = [c EXCEPT !.next = @ + 1],
         NEW st2, st2 = Append(Front(st), past),
         NEW hd2, hd2 = Append(hd, <<c.file, c.next>>)
  PROVE  Walk(st2, vis, hd2)
<1> DEFINE n == Len(st)
           pair == <<c.file, c.next>>
<1>1. /\ n \in Nat \ {0} /\ DOMAIN st = 1..n /\ c = st[n] /\ Collector(c)
      /\ c.file \in vis /\ c.file \in DOMAIN Files /\ ~Files[c.file].broken
      /\ c.next \in 1..(Len(Patterns(c.file)) + 1)
  BY TopFacts DEF Walk
<1>2. /\ IsSeq(Patterns(c.file)) /\ Len(Patterns(c.file)) \in Nat
      /\ DOMAIN Patterns(c.file) = 1..Len(Patterns(c.file))
  BY <1>1, PatternsFacts
<1>3. c.next \in DOMAIN Patterns(c.file) /\ c.next \in Nat
  BY <1>1, <1>2
<1> HIDE DEF n
<1>4. past = [file |-> c.file, prefix |-> c.prefix, next |-> c.next + 1]
  BY <1>1 DEF Collector
<1>5. IsSeq(st) /\ IsSeq(hd) /\ vis \subseteq DOMAIN Files
  BY DEF Walk, WalkShape
<1>6. /\ IsSeq(st2) /\ DOMAIN st2 = 1..n /\ st2[n] = past
      /\ \A s \in 1..(n - 1) : st2[s] = st[s]
  <2>1. IsSeq(Front(st)) /\ Len(Front(st)) = n - 1 /\ \A s \in 1..(n - 1) : Front(st)[s] = st[s]
    BY <1>5, FrontIsSeq DEF n
  <2> DEFINE fr == Front(st)
  <2> HIDE DEF fr
  <2>2. /\ IsSeq(Append(fr, past)) /\ Len(Append(fr, past)) = n - 1 + 1
        /\ \A s \in 1..(n - 1) : Append(fr, past)[s] = fr[s]
        /\ Append(fr, past)[n - 1 + 1] = past
    BY <2>1, AppendIsSeq DEF fr
  <2>3. n - 1 + 1 = n
    BY <1>1
  <2>4. DOMAIN st2 = 1..Len(st2)
    BY <2>2, SeqFacts DEF fr
  <2> QED
    BY <2>1, <2>2, <2>3, <2>4 DEF fr
<1>7. /\ IsSeq(hd2) /\ DOMAIN hd2 = 1..(Len(hd) + 1) /\ DOMAIN hd = 1..Len(hd) /\ Len(hd) \in Nat
      /\ \A k \in DOMAIN hd : hd2[k] = hd[k]
      /\ hd2[Len(hd) + 1] = pair
      /\ ToSet(hd2) = ToSet(hd) \cup {pair}
  <2> HIDE DEF pair
  <2>1. Len(hd) \in Nat /\ DOMAIN hd = 1..Len(hd)
    BY <1>5, SeqFacts
  <2>2. /\ IsSeq(Append(hd, pair)) /\ Len(Append(hd, pair)) = Len(hd) + 1
        /\ \A i \in 1..Len(hd) : Append(hd, pair)[i] = hd[i]
        /\ Append(hd, pair)[Len(hd) + 1] = pair
        /\ ToSet(Append(hd, pair)) = ToSet(hd) \cup {pair}
    BY <1>5, AppendIsSeq
  <2>3. hd2 = Append(hd, pair)
    BY DEF pair
  <2>4. DOMAIN hd2 = 1..Len(hd2)
    BY <2>2, <2>3, SeqFacts
  <2> QED
    BY <2>1, <2>2, <2>3, <2>4
<1>8. pair \notin ToSet(hd)
  BY <1>1, <1>3 DEF Walk, ActiveHandled
<1>9. \A s \in 1..(n - 1) : s \in DOMAIN st /\ st[s].file # c.file
  BY <1>1 DEF Walk, OneCollector
<1>10. \A s \in 1..n : st2[s].file = st[s].file
  BY <1>1, <1>4, <1>6
<1>11. WalkShape(st2, vis, hd2)
  <2>1. ASSUME NEW s \in 1..n
        PROVE  /\ Collector(st2[s]) /\ st2[s].file \in vis /\ ~Files[st2[s].file].broken
               /\ st2[s].next \in 1..(Len(Patterns(st2[s].file)) + 1)
    <3>1. CASE s = n
      <4>1. c.next + 1 \in 1..(Len(Patterns(c.file)) + 1)
        BY <1>2, <1>3
      <4>2. /\ st2[s] = past /\ past.file = c.file /\ past.prefix = c.prefix
            /\ past.next = c.next + 1
        BY <3>1, <1>4, <1>6
      <4>3. past = [file |-> past.file, prefix |-> past.prefix, next |-> past.next]
        BY <1>4
      <4>4. IsSeq(c.prefix)
        BY <1>1 DEF Collector
      <4> QED
        BY <1>1, <4>1, <4>2, <4>3, <4>4 DEF Collector
    <3>2. CASE s # n
      <4>1. s \in DOMAIN st /\ st2[s] = st[s]
        BY <3>2, <1>1, <1>6
      <4>2. /\ Collector(st[s]) /\ st[s].file \in vis /\ ~Files[st[s].file].broken
            /\ st[s].next \in 1..(Len(Patterns(st[s].file)) + 1)
        BY <4>1 DEF Walk, WalkShape
      <4> QED
        BY <4>1, <4>2
    <3> QED
      BY <3>1, <3>2
  <2> QED
    BY <2>1, <1>5, <1>6, <1>7 DEF WalkShape
<1>12. OneCollector(st2)
  BY <1>1, <1>6, <1>10 DEF Walk, OneCollector
<1>13. HandledOnce(vis, hd2)
  <2>1. ASSUME NEW k \in DOMAIN hd2, NEW l \in DOMAIN hd2, hd2[k] = hd2[l] PROVE k = l
    <3>1. \A m \in DOMAIN hd : hd2[m] # pair
      BY <1>7, <1>8 DEF ToSet
    <3> QED
      BY <2>1, <3>1, <1>7 DEF Walk, HandledOnce
  <2>2. ASSUME NEW k \in DOMAIN hd2
        PROVE  \E f \in vis :
                 ~Files[f].broken /\ \E i \in DOMAIN Patterns(f) : hd2[k] = <<f, i>>
    <3>1. CASE k = Len(hd) + 1
      BY <3>1, <1>1, <1>3, <1>7
    <3>2. CASE k \in DOMAIN hd
      BY <3>2, <1>7 DEF Walk, HandledOnce
    <3> QED
      BY <3>1, <3>2, <1>7
  <2> QED
    BY <2>1, <2>2 DEF HandledOnce
<1>14. ActiveHandled(st2, hd2)
  <2> SUFFICES ASSUME NEW s \in 1..n, NEW i \in DOMAIN Patterns(st2[s].file)
               PROVE  <<st2[s].file, i>> \in ToSet(hd2) <=> i < st2[s].next
    BY <1>6 DEF ActiveHandled
  <2>1. i \in DOMAIN Patterns(st[s].file) /\ s \in DOMAIN st
    BY <1>1, <1>10
  <2>2. <<st[s].file, i>> \in ToSet(hd) <=> i < st[s].next
    BY <2>1 DEF Walk, ActiveHandled
  <2>3. CASE s = n
    <3>1. st2[s].file = c.file /\ st2[s].next = c.next + 1 /\ i \in Nat
      BY <2>3, <2>1, <1>1, <1>2, <1>4, <1>6
    <3>2. <<c.file, i>> \in ToSet(hd2) <=> (<<c.file, i>> \in ToSet(hd) \/ i = c.next)
      BY <1>7
    <3>3. <<c.file, i>> \in ToSet(hd) <=> i < c.next
      BY <2>2, <2>3, <1>1
    <3>4. i < c.next + 1 <=> (i < c.next \/ i = c.next)
      BY <3>1, <1>3
    <3>5. <<c.file, i>> \in ToSet(hd2) <=> i < c.next + 1
      BY <3>2, <3>3, <3>4
    <3> QED
      BY <3>1, <3>5
  <2>4. CASE s # n
    <3>1. s \in 1..(n - 1)
      BY <2>4, <1>1
    <3>2. st2[s] = st[s] /\ <<st[s].file, i>> # pair
      BY <3>1, <1>6, <1>9
    <3> QED
      BY <2>2, <3>2, <1>7
  <2> QED
    BY <2>3, <2>4
<1>15. LeftHandled(st2, vis, hd2)
  <2> SUFFICES ASSUME NEW f \in vis
               PROVE  \/ Files[f].broken
                      \/ \E s \in DOMAIN st2 : st2[s].file = f
                      \/ \A i \in DOMAIN Patterns(f) : <<f, i>> \in ToSet(hd2)
    BY DEF LeftHandled
  <2>1. \/ Files[f].broken
        \/ \E s \in DOMAIN st : st[s].file = f
        \/ \A i \in DOMAIN Patterns(f) : <<f, i>> \in ToSet(hd)
    BY DEF Walk, LeftHandled
  <2>2. DOMAIN st2 = DOMAIN st /\ \A s \in DOMAIN st : st2[s].file = st[s].file
    BY <1>1, <1>6, <1>10
  <2>3. ToSet(hd) \subseteq ToSet(hd2)
    BY <1>7
  <2> QED
    BY <2>1, <2>2, <2>3
<1> QED
  BY <1>11, <1>12, <1>13, <1>14, <1>15 DEF Walk

\* leaving a file all of whose patterns were handled,
LEMMA CloseKeepsWalk ==
  ASSUME repo \in Repos, NEW st, NEW vis, NEW hd, Walk(st, vis, hd), st # <<>>,
         NEW c, c = Last(st), c.next > Len(Patterns(c.file)),
         NEW st2, st2 = Front(st)
  PROVE  Walk(st2, vis, hd)
<1> DEFINE n == Len(st)
<1>1. /\ n \in Nat \ {0} /\ DOMAIN st = 1..n /\ c = st[n]
      /\ c.file \in vis /\ c.file \in DOMAIN Files
      /\ c.next \in 1..(Len(Patterns(c.file)) + 1)
  BY TopFacts DEF Walk
<1>2. IsSeq(st)
  BY DEF Walk, WalkShape
<1>3. IsSeq(st2) /\ Len(st2) = n - 1 /\ \A s \in 1..(n - 1) : st2[s] = st[s]
  BY <1>2, FrontIsSeq
<1>4. DOMAIN st2 = 1..(n - 1)
  BY <1>3, SeqFacts
<1> HIDE DEF n
<1>5. \A s \in DOMAIN st2 : s \in DOMAIN st /\ st2[s] = st[s]
  BY <1>1, <1>3, <1>4
<1>6. WalkShape(st2, vis, hd)
  BY <1>3, <1>5 DEF Walk, WalkShape
<1>7. OneCollector(st2)
  BY <1>5 DEF Walk, OneCollector
<1>8. HandledOnce(vis, hd)
  BY DEF Walk
<1>9. ActiveHandled(st2, hd)
  BY <1>5 DEF Walk, ActiveHandled
<1>10. LeftHandled(st2, vis, hd)
  <2> SUFFICES ASSUME NEW f \in vis, ~Files[f].broken, ~\E s \in DOMAIN st2 : st2[s].file = f,
                      NEW i \in DOMAIN Patterns(f)
               PROVE  <<f, i>> \in ToSet(hd)
    BY DEF LeftHandled
  <2>1. CASE \E s \in DOMAIN st : st[s].file = f
    <3>1. PICK s \in DOMAIN st : st[s].file = f
      BY <2>1
    <3>2. s \notin DOMAIN st2
      BY <3>1, <1>5
    <3>3. s = n /\ f = c.file
      BY <3>1, <3>2, <1>1, <1>4
    <3>4. i \in 1..Len(Patterns(c.file))
      BY <3>3, <1>1, PatternsFacts
    <3>5. i < c.next
      BY <3>4, <1>1
    <3> QED
      BY <3>1, <3>3, <3>5, <1>1 DEF Walk, ActiveHandled
  <2>2. CASE ~\E s \in DOMAIN st : st[s].file = f
    BY <2>2 DEF Walk, LeftHandled
  <2> QED
    BY <2>1, <2>2
<1> QED
  BY <1>6, <1>7, <1>8, <1>9, <1>10 DEF Walk

\* entering a file that does not parse,
LEMMA EnterBrokenKeepsWalk ==
  ASSUME repo \in Repos, NEW st, NEW vis, NEW hd, Walk(st, vis, hd),
         NEW f \in DOMAIN Files, Files[f].broken
  PROVE  Walk(st, vis \cup {f}, hd)
<1>1. WalkShape(st, vis \cup {f}, hd)
  BY DEF Walk, WalkShape
<1>2. HandledOnce(vis \cup {f}, hd)
  BY DEF Walk, HandledOnce
<1>3. LeftHandled(st, vis \cup {f}, hd)
  BY DEF Walk, LeftHandled
<1> QED
  BY <1>1, <1>2, <1>3 DEF Walk

\* and entering one that does keep the walk's invariant.
LEMMA EnterKeepsWalk ==
  ASSUME repo \in Repos, NEW st, NEW vis, NEW hd, Walk(st, vis, hd),
         NEW f \in DOMAIN Files, ~Files[f].broken, f \notin vis, NEW prefix, IsSeq(prefix),
         NEW st2, st2 = Append(st, [file |-> f, prefix |-> prefix, next |-> 1])
  PROVE  Walk(st2, vis \cup {f}, hd)
<1> DEFINE new == [file |-> f, prefix |-> prefix, next |-> 1]
           n == Len(st)
<1>1. IsSeq(st) /\ IsSeq(hd) /\ vis \subseteq DOMAIN Files
  BY DEF Walk, WalkShape
<1>2. n \in Nat /\ DOMAIN st = 1..n
  BY <1>1, SeqFacts
<1>3. IsSeq(st2) /\ Len(st2) = n + 1 /\ st2[n + 1] = new /\ \A s \in 1..n : st2[s] = st[s]
  <2> HIDE DEF new
  <2>1. st2 = Append(st, new)
    BY DEF new
  <2>2. /\ IsSeq(Append(st, new)) /\ Len(Append(st, new)) = n + 1
        /\ Append(st, new)[n + 1] = new /\ \A s \in 1..n : Append(st, new)[s] = st[s]
    BY <1>1, AppendIsSeq
  <2> QED
    BY <2>1, <2>2
<1>4. DOMAIN st2 = 1..(n + 1)
  BY <1>3, SeqFacts
<1>5. Collector(new) /\ new.file = f /\ new.next = 1
  BY DEF Collector
<1>6. IsSeq(Patterns(f)) /\ Len(Patterns(f)) \in Nat /\ DOMAIN Patterns(f) = 1..Len(Patterns(f))
  BY PatternsFacts
<1> HIDE DEF new, n
<1>7. \A s \in DOMAIN st2 : (s \in DOMAIN st /\ st2[s] = st[s]) \/ (s = n + 1 /\ st2[s] = new)
  BY <1>2, <1>3, <1>4
<1>8. \A s \in DOMAIN st : s \in DOMAIN st2 /\ st2[s] = st[s] /\ st[s].file # f
  <2>1. \A s \in DOMAIN st : st[s].file \in vis
    BY DEF Walk, WalkShape
  <2> QED
    BY <2>1, <1>2, <1>3, <1>4
<1>9. \A i : <<f, i>> \notin ToSet(hd)
  <2> SUFFICES ASSUME NEW i, NEW k \in DOMAIN hd, hd[k] = <<f, i>> PROVE FALSE
    BY <1>1, SeqFacts
  <2>1. PICK g \in vis : \E j \in DOMAIN Patterns(g) : hd[k] = <<g, j>>
    BY DEF Walk, HandledOnce
  <2> QED
    BY <2>1
<1>10. WalkShape(st2, vis \cup {f}, hd)
  <2>1. 1 \in 1..(Len(Patterns(f)) + 1)
    BY <1>6
  <2>2. ASSUME NEW s \in DOMAIN st2
        PROVE  /\ Collector(st2[s]) /\ st2[s].file \in vis \cup {f} /\ ~Files[st2[s].file].broken
               /\ st2[s].next \in 1..(Len(Patterns(st2[s].file)) + 1)
    <3>1. CASE s \in DOMAIN st /\ st2[s] = st[s]
      BY <3>1 DEF Walk, WalkShape
    <3>2. CASE s = n + 1 /\ st2[s] = new
      BY <3>2, <2>1, <1>5
    <3> QED
      BY <3>1, <3>2, <1>7
  <2> QED
    BY <2>2, <1>1, <1>3 DEF WalkShape
<1>11. OneCollector(st2)
  BY <1>2, <1>5, <1>7, <1>8 DEF Walk, OneCollector
<1>12. HandledOnce(vis \cup {f}, hd)
  BY DEF Walk, HandledOnce
<1>13. ActiveHandled(st2, hd)
  <2> SUFFICES ASSUME NEW s \in DOMAIN st2, NEW i \in DOMAIN Patterns(st2[s].file)
               PROVE  <<st2[s].file, i>> \in ToSet(hd) <=> i < st2[s].next
    BY DEF ActiveHandled
  <2>1. CASE s \in DOMAIN st /\ st2[s] = st[s]
    BY <2>1 DEF Walk, ActiveHandled
  <2>2. CASE s = n + 1 /\ st2[s] = new
    <3>1. i \in 1..Len(Patterns(f)) /\ st2[s].file = f /\ st2[s].next = 1
      BY <2>2, <1>5, <1>6
    <3>2. ~(i < 1)
      BY <3>1, <1>6
    <3> QED
      BY <3>1, <3>2, <1>9
  <2> QED
    BY <2>1, <2>2, <1>7
<1>14. LeftHandled(st2, vis \cup {f}, hd)
  <2> SUFFICES ASSUME NEW g \in vis \cup {f}
               PROVE  \/ Files[g].broken
                      \/ \E s \in DOMAIN st2 : st2[s].file = g
                      \/ \A i \in DOMAIN Patterns(g) : <<g, i>> \in ToSet(hd)
    BY DEF LeftHandled
  <2>1. CASE g = f
    BY <2>1, <1>2, <1>3, <1>4, <1>5
  <2>2. CASE g \in vis
    BY <2>2, <1>8 DEF Walk, LeftHandled
  <2> QED
    BY <2>1, <2>2
<1> QED
  BY <1>10, <1>11, <1>12, <1>13, <1>14 DEF Walk

\* Open, with its three outcomes: entered before, not parsable, entered now.
LEMMA OpenKeepsWalk ==
  ASSUME repo \in Repos, NEW below, NEW hd, Walk(below, visited, hd),
         NEW f \in DOMAIN Files, NEW prefix, IsSeq(prefix), Open(f, prefix, below)
  PROVE  Walk(stack', visited', hd) /\ visited \cup {f} = visited'
<1>1. CASE f \in visited
  BY <1>1 DEF Open
<1>2. CASE f \notin visited /\ Files[f].broken
  <2>1. stack' = below /\ visited' = visited \cup {f}
    BY <1>2 DEF Open
  <2> QED
    BY <1>2, <2>1, EnterBrokenKeepsWalk
<1>3. CASE f \notin visited /\ ~Files[f].broken
  <2>1. visited' = visited \cup {f}
        /\ stack' = Append(below, [file |-> f, prefix |-> prefix, next |-> 1])
    BY <1>3 DEF Open
  <2> QED
    BY <1>3, <2>1, EnterKeepsWalk
<1> QED
  BY <1>1, <1>2, <1>3

-----------------------------------------------------------------------------

\* The invariant holds at the start,
LEMMA WalkStarts == Init => WalkInv
<1> SUFFICES ASSUME Init PROVE WalkInv
  OBVIOUS
<1>1. /\ repo \in Repos /\ stack = <<>> /\ visited = {} /\ handled = <<>>
      /\ starts = <<>> /\ walk = "off"
  BY DEF Init, DjangoInit
<1>2. IsSeq(<<>>) /\ ToSet(<<>>) = {} /\ DOMAIN <<>> = {}
  BY EmptyIsSeq
<1>3. Walk(<<>>, {}, <<>>)
  BY <1>2 DEF Walk, WalkShape, OneCollector, HandledOnce, ActiveHandled, LeftHandled
<1>4. NoneForgotten
  BY <1>1, <1>2 DEF NoneForgotten
<1> QED
  BY <1>1, <1>3, <1>4 DEF WalkInv

\* Nothing but the parser itself touches the walk.
LEMMA ElsewhereKeepsWalk ==
  ASSUME WalkInv, repo' = repo, UNCHANGED djangoVars,
         walk = "off" \/ stage' \notin {"openapi", "fastapi"}
  PROVE  WalkInv'
<1>1. Files' = Files /\ \A f : Patterns(f)' = Patterns(f)
  BY SameRepository
<1>2. UNCHANGED <<starts, stack, visited, handled, walk>>
  BY DEF djangoVars
<1>3. Walk(stack, visited, handled)'
  BY <1>1, <1>2 DEF WalkInv, Walk, WalkShape, OneCollector, HandledOnce, ActiveHandled, LeftHandled, Collector
<1>4. NoneForgotten'
  BY <1>1, <1>2 DEF WalkInv, NoneForgotten
<1> QED
  BY <1>3, <1>4 DEF WalkInv

\* What is left of the list of starting points, when a step of the walk keeps
\* the list or takes its head.
LEMMA StartsShrink ==
  ASSUME WalkInv, walk = "on", walk' = "on", stage' \notin {"openapi", "fastapi"}, repo' = repo,
         IsSeq(starts'), ToSet(starts') \subseteq ToSet(starts),
         visited \cup ToSet(starts) \subseteq visited' \cup ToSet(starts')
  PROVE  NoneForgotten'
BY SameRepository DEF WalkInv, NoneForgotten

\* The primed walk is the walk of the primed variables: the repository stays.
LEMMA WalkAfter ==
  ASSUME repo' = repo, Walk(stack', visited', handled')
  PROVE  Walk(stack, visited, handled)'
BY SameRepository
   DEF Walk, WalkShape, OneCollector, HandledOnce, ActiveHandled, LeftHandled, Collector

\* and every step of the walk keeps it.
LEMMA StartFileKeepsWalk ==
  ASSUME WalkInv, repo' = repo, stage' = "django", StartFile
  PROVE  WalkInv'
<1>1. /\ repo \in Repos /\ Walk(<<>>, visited, handled) /\ IsSeq(starts) /\ starts # <<>>
      /\ ToSet(starts) \subseteq DOMAIN Files
  BY DEF WalkInv, NoneForgotten, StartFile
<1>2. IsSeq(Tail(starts)) /\ ToSet(starts) = {Head(starts)} \cup ToSet(Tail(starts))
  BY <1>1, TailIsSeq
<1>3. Head(starts) \in DOMAIN Files
  BY <1>1, <1>2
<1>4. Open(Head(starts), <<>>, <<>>) /\ handled' = handled /\ starts' = Tail(starts) /\ walk = "on" /\ walk' = "on"
  BY DEF StartFile
<1>5. Walk(stack', visited', handled) /\ visited \cup {Head(starts)} = visited'
  BY <1>1, <1>3, <1>4, EmptyIsSeq, OpenKeepsWalk
<1>6. NoneForgotten'
  BY <1>2, <1>4, <1>5, StartsShrink
<1> QED
  BY <1>1, <1>4, <1>5, <1>6, WalkAfter DEF WalkInv

LEMMA FollowIncludeKeepsWalk ==
  ASSUME WalkInv, repo' = repo, stage' = "django", FollowInclude
  PROVE  WalkInv'
<1> DEFINE f == Target(Top.file, Here)
           below == Append(Front(stack), Past)
           hd == Append(handled, <<Top.file, Top.next>>)
<1>1. /\ repo \in Repos /\ Walk(stack, visited, handled) /\ stack # <<>>
      /\ Top = Last(stack) /\ Top.next <= Len(Patterns(Top.file))
      /\ Past = [Top EXCEPT !.next = @ + 1] /\ IsSeq(starts)
  BY DEF WalkInv, NoneForgotten, FollowInclude, InFile, Top, Past
<1>2. /\ f # 0 /\ Open(f, PathUnder(Top.prefix, Here), below)
      /\ handled' = hd /\ starts' = starts /\ walk = "on" /\ walk' = "on"
  BY DEF FollowInclude, Handle, InFile
<1>3. f \in DOMAIN Files
  BY <1>1, <1>2, TargetFacts
<1>4. IsSeq(PathUnder(Top.prefix, Here))
  BY <1>1, HereFacts
<1>5. Walk(below, visited, hd)
  <2> HIDE DEF below, hd
  <2>1. below = Append(Front(stack), Past) /\ hd = Append(handled, <<Top.file, Top.next>>)
    BY DEF below, hd
  <2> QED
    BY <1>1, <2>1, HandleKeepsWalk
<1> HIDE DEF f, below, hd
<1>6. Walk(stack', visited', hd) /\ visited \cup {f} = visited'
  BY <1>1, <1>2, <1>3, <1>4, <1>5, OpenKeepsWalk
<1>7. NoneForgotten'
  BY <1>1, <1>2, <1>6, StartsShrink
<1> QED
  BY <1>1, <1>2, <1>6, <1>7, WalkAfter DEF WalkInv

LEMMA ListRoutesKeepsWalk ==
  ASSUME WalkInv, repo' = repo, stage' = "django", ListRoutes
  PROVE  WalkInv'
<1>1. /\ repo \in Repos /\ Walk(stack, visited, handled) /\ stack # <<>>
      /\ Top = Last(stack) /\ Top.next <= Len(Patterns(Top.file))
      /\ Past = [Top EXCEPT !.next = @ + 1] /\ IsSeq(starts)
  BY DEF WalkInv, NoneForgotten, ListRoutes, InFile, Top, Past
<1>2. /\ stack' = Append(Front(stack), Past) /\ handled' = Append(handled, <<Top.file, Top.next>>)
      /\ visited' = visited /\ starts' = starts /\ walk = "on" /\ walk' = "on"
  BY DEF ListRoutes, Handle, InFile
<1>3. Walk(stack', visited', handled')
  BY <1>1, <1>2, HandleKeepsWalk
<1>4. NoneForgotten'
  BY <1>1, <1>2, StartsShrink
<1> QED
  BY <1>1, <1>3, <1>4, WalkAfter DEF WalkInv

LEMMA CloseFileKeepsWalk ==
  ASSUME WalkInv, repo' = repo, stage' = "django", CloseFile
  PROVE  WalkInv'
<1>1. /\ repo \in Repos /\ Walk(stack, visited, handled) /\ stack # <<>> /\ IsSeq(starts)
      /\ Top = Last(stack) /\ Top.next > Len(Patterns(Top.file)) /\ stack' = Front(stack)
      /\ UNCHANGED <<starts, visited, handled, walk>> /\ walk = "on"
  BY DEF WalkInv, NoneForgotten, CloseFile, Top
<1>2. Walk(stack', visited', handled')
  BY <1>1, CloseKeepsWalk
<1>3. NoneForgotten'
  BY <1>1, StartsShrink
<1> QED
  BY <1>1, <1>2, <1>3, WalkAfter DEF WalkInv

LEMMA DjangoEndsKeepsWalk ==
  ASSUME WalkInv, repo' = repo, stage' = "django", DjangoEnds
  PROVE  WalkInv'
<1>1. /\ repo \in Repos /\ Walk(stack, visited, handled) /\ stack = <<>> /\ starts = <<>>
      /\ UNCHANGED <<starts, stack, visited, handled>> /\ walk = "on" /\ walk' = "over"
  BY DEF WalkInv, DjangoEnds
<1>2. NoneForgotten'
  BY <1>1, SameRepository DEF WalkInv, NoneForgotten
<1> QED
  BY <1>1, <1>2, WalkAfter DEF WalkInv

LEMMA StartDjangoKeepsWalk ==
  ASSUME WalkInv, StartDjango
  PROVE  WalkInv'
<1>1. /\ repo \in Repos /\ repo' = repo /\ Walk(stack, visited, handled) /\ stage' = "django"
      /\ UNCHANGED <<stack, visited, handled>> /\ walk = "off"
  BY DEF WalkInv, NoneForgotten, StartDjango
<1>2. CASE Wants("django")
  <2>1. walk' = "on" /\ starts' = Starts
    BY <1>2 DEF StartDjango
  <2>2. IsSeq(starts') /\ ToSet(starts') = {f \in DOMAIN Files : Stem(Files[f]) = "urls"}
    BY <1>1, <2>1, StartsFacts
  <2> QED
    BY <1>1, <2>1, <2>2, SameRepository, WalkAfter DEF WalkInv, NoneForgotten
<1>3. CASE ~Wants("django")
  <2>1. UNCHANGED <<walk, starts>>
    BY <1>3 DEF StartDjango
  <2> QED
    BY <1>1, <2>1, SameRepository, WalkAfter DEF WalkInv, NoneForgotten
<1> QED
  BY <1>2, <1>3

\* So does every step of the pipeline.
LEMMA WalkKept == WalkInv /\ [Next]_vars => WalkInv'
<1> SUFFICES ASSUME WalkInv, [Next]_vars PROVE WalkInv'
  OBVIOUS
<1>1. CASE RunDjango
  BY <1>1, StartFileKeepsWalk, FollowIncludeKeepsWalk, ListRoutesKeepsWalk, CloseFileKeepsWalk,
     DjangoEndsKeepsWalk DEF RunDjango, DjangoStep
<1>2. CASE StartDjango
  BY <1>2, StartDjangoKeepsWalk
<1>3. CASE ReadDocument
  BY <1>3, ElsewhereKeepsWalk DEF ReadDocument, WalkInv, NoneForgotten
<1>4. CASE StartFastApi
  BY <1>4, ElsewhereKeepsWalk DEF StartFastApi, WalkInv, NoneForgotten
<1>5. CASE RunFastApi
  BY <1>5, ElsewhereKeepsWalk DEF RunFastApi, WalkInv, NoneForgotten
<1>6. CASE StartMerge
  BY <1>6, ElsewhereKeepsWalk DEF StartMerge
<1>7. CASE MergeRoute
  BY <1>7, ElsewhereKeepsWalk DEF MergeRoute
<1>8. CASE DetectConfig
  BY <1>8, ElsewhereKeepsWalk DEF DetectConfig
<1>9. CASE BuildGraph
  BY <1>9, ElsewhereKeepsWalk DEF BuildGraph
<1>10. CASE Generate
  BY <1>10, ElsewhereKeepsWalk DEF Generate
<1>11. CASE UNCHANGED vars
  <2>1. repo' = repo /\ UNCHANGED djangoVars /\ stage' = stage
    BY <1>11 DEF vars
  <2>2. walk = "off" \/ stage' \notin {"openapi", "fastapi"}
    BY <2>1 DEF WalkInv, NoneForgotten
  <2> QED
    BY <2>1, <2>2, ElsewhereKeepsWalk
<1> QED
  BY <1>1, <1>2, <1>3, <1>4, <1>5, <1>6, <1>7, <1>8, <1>9, <1>10, <1>11 DEF Next, Finished

\* The invariant says that every pattern is handled once.
LEMMA WalkSuffices == WalkInv => PatternsOnce
<1> SUFFICES ASSUME WalkInv PROVE PatternsOnce
  OBVIOUS
<1>1. IsInjective(handled)
  BY DEF WalkInv, Walk, HandledOnce, IsInjective
<1>2. IsInjective([i \in DOMAIN stack |-> stack[i].file])
  BY DEF WalkInv, Walk, OneCollector, IsInjective
<1>3. ASSUME walk = "over", NEW f \in UrlFiles, NEW i \in DOMAIN Patterns(f)
      PROVE  <<f, i>> \in ToSet(handled)
  <2>1. f \in visited /\ ~Files[f].broken /\ stack = <<>>
    BY <1>3, EmptyIsSeq DEF WalkInv, NoneForgotten, UrlFiles
  <2> QED
    BY <2>1, EmptyIsSeq DEF WalkInv, Walk, LeftHandled
<1> QED
  BY <1>1, <1>2, <1>3 DEF PatternsOnce

\* However the urls.py files of any repository include each other, the Django
\* parser handles every pattern of every urls.py exactly once
\* (_UrlPatternCollector, DjangoParser.parse).
THEOREM PatternsOnceAlways == Spec => []PatternsOnce
<1>1. Spec => []WalkInv
  BY WalkStarts, WalkKept, PTL DEF Spec
<1> QED
  BY <1>1, WalkSuffices, PTL

-----------------------------------------------------------------------------
(* What the parsers find.                                                   *)

\* A route is of a known method and has a path and a list of parameters.
IsRoute(r) == r.method \in HttpMethods /\ r.path # <<>> /\ IsSeq(r.params)
IsRoutes(s) == IsSeq(s) /\ \A r \in ToSet(s) : IsRoute(r)

\* Routes stay routes when lists of them are made, joined and flattened.
LEMMA NoRoutes == IsRoutes(<<>>)
BY EmptyIsSeq DEF IsRoutes

LEMMA ConcatRoutes ==
  ASSUME NEW s, IsRoutes(s), NEW t, IsRoutes(t)
  PROVE  IsRoutes(s \o t)
BY ConcatIsSeq DEF IsRoutes

LEMMA MapRoutes ==
  ASSUME NEW n \in Nat, NEW u, DOMAIN u = 1..n, u = [i \in 1..n |-> u[i]], \A i \in 1..n : IsRoute(u[i])
  PROVE  IsRoutes(u)
<1>1. IsSeq(u)
  BY MapIsSeq
<1>2. ASSUME NEW r \in ToSet(u) PROVE IsRoute(r)
  <2>1. PICK i \in DOMAIN u : r = u[i]
    BY <1>1, SeqFacts
  <2> QED
    BY <2>1
<1> QED
  BY <1>1, <1>2 DEF IsRoutes

LEMMA FlattenRoutes ==
  ASSUME NEW ss, IsSeq(ss), \A i \in DOMAIN ss : IsRoutes(ss[i])
  PROVE  IsRoutes(FlattenSeq(ss))
<1>1. \A i \in DOMAIN ss : IsSeq(ss[i])
  BY DEF IsRoutes
<1>2. IsSeq(FlattenSeq(ss)) /\ ToSet(FlattenSeq(ss)) = UNION {ToSet(ss[i]) : i \in DOMAIN ss}
  BY <1>1, FlattenIsSeqOf
<1> QED
  BY <1>2 DEF IsRoutes

\* One value for each element of a list makes a list.
LEMMA EachIsSeq ==
  ASSUME NEW s, IsSeq(s), NEW u, DOMAIN u = DOMAIN s, u = [i \in DOMAIN s |-> u[i]]
  PROVE  IsSeq(u) /\ Len(u) = Len(s)
<1>1. Len(s) \in Nat /\ DOMAIN s = 1..Len(s)
  BY SeqFacts
<1> QED
  BY <1>1, MapIsSeq

\* A list that is not empty has a first element.
LEMMA HasFirst ==
  ASSUME NEW s, IsSeq(s), s # <<>>
  PROVE  1 \in DOMAIN s /\ s[1] \in ToSet(s)
<1>1. s[1] = Head(s) /\ Head(s) \in ToSet(s)
  BY TailIsSeq
<1>2. Len(s) \in Nat \ {0}
  BY TailIsSeq
<1> QED
  BY <1>1, <1>2, SeqFacts

\* The parameters of an operation of a document are a list,
LEMMA SpecParamsFacts ==
  ASSUME NEW doc, NEW item, IsItem(item), NEW op, IsSeq(op.params), IsSeq(op.body),
         \A media \in ToSet(op.body) : IsSeq(media.props)
  PROVE  IsSeq(SpecParams(doc, item, op))
<1> DEFINE both == item.shared \o op.params
           I == {i \in DOMAIN both : Written(doc, both[i])}
           listed == Picked(both, I)
           props == IF op.body = <<>> \/ ~Written(doc, op.body[1]) THEN <<>> ELSE op.body[1].props
           one == [i \in DOMAIN listed |-> Param(listed[i].name, Location[listed[i].in])]
           two == [i \in DOMAIN props |-> Param(props[i], "body")]
<1>1. SpecParams(doc, item, op) = one \o two
  BY DEF SpecParams, Filter
<1>2. IsSeq(both) /\ I \in SUBSET DOMAIN both
  BY ConcatIsSeq DEF IsItem
<1>3. IsSeq(listed)
  <2> HIDE DEF both, I
  <2> QED
    BY <1>2, PickedIsSeq
<1>4. IsSeq(props)
  <2>1. CASE op.body = <<>> \/ ~Written(doc, op.body[1])
    BY <2>1, EmptyIsSeq
  <2>2. CASE op.body # <<>> /\ Written(doc, op.body[1])
    <3>1. op.body[1] \in ToSet(op.body)
      BY <2>2, HasFirst
    <3> QED
      BY <2>2, <3>1
  <2> QED
    BY <2>1, <2>2
<1> HIDE DEF listed, props
<1>5. IsSeq(one) /\ IsSeq(two)
  <2>1. /\ DOMAIN one = DOMAIN listed /\ one = [i \in DOMAIN listed |-> one[i]]
        /\ DOMAIN two = DOMAIN props /\ two = [i \in DOMAIN props |-> two[i]]
    OBVIOUS
  <2> HIDE DEF one, two
  <2> QED
    BY <1>3, <1>4, <2>1, EachIsSeq
<1> HIDE DEF one, two
<1> QED
  BY <1>1, <1>5, ConcatIsSeq

\* and what parse_spec_file finds in it is routes.
LEMMA SpecRoutesFacts ==
  ASSUME NEW doc, IsDocument(doc)
  PROVE  IsRoutes(SpecRoutes(doc))
<1> DEFINE Ops(i) == Filter(doc.paths[i].ops, LAMBDA op : op.method \in SpecMethods)
           lists == [i \in DOMAIN doc.paths |->
                       [j \in DOMAIN Ops(i) |->
                          Route(Ops(i)[j].method, doc.paths[i].path, SpecName(doc.paths[i], Ops(i)[j]),
                                SpecParams(doc, doc.paths[i], Ops(i)[j]), "openapi")]]
<1>1. /\ Len(doc.paths) \in Nat /\ DOMAIN doc.paths = 1..Len(doc.paths)
      /\ \A i \in DOMAIN doc.paths : IsItem(doc.paths[i])
  BY SeqFacts DEF IsDocument
<1>2. ASSUME NEW i \in DOMAIN doc.paths PROVE IsRoutes(lists[i])
  <2> DEFINE all == doc.paths[i].ops
             I == {j \in DOMAIN all : all[j].method \in SpecMethods}
             ops == Picked(all, I)
  <2>1. IsSeq(ops) /\ ToSet(ops) = {all[j] : j \in I}
    <3>1. IsSeq(all) /\ I \in SUBSET DOMAIN all
      BY <1>1 DEF IsItem
    <3> HIDE DEF all, I
    <3> QED
      BY <3>1, PickedIsSeq
  <2>2. Ops(i) = ops
    BY DEF Filter
  <2> HIDE DEF ops
  <2>3. Len(ops) \in Nat /\ DOMAIN ops = 1..Len(ops) /\ \A j \in DOMAIN ops : ops[j].method \in HttpMethods
    BY <2>1, SeqFacts DEF SpecMethods
  <2> DEFINE u == [j \in 1..Len(ops) |->
                     Route(ops[j].method, doc.paths[i].path, SpecName(doc.paths[i], ops[j]),
                           SpecParams(doc, doc.paths[i], ops[j]), "openapi")]
  <2>4. lists[i] = u
    <3> HIDE DEF Ops
    <3> QED
      BY <2>2, <2>3
  <2>5. ASSUME NEW j \in 1..Len(ops) PROVE IsRoute(u[j])
    <3>1. ops[j] \in ToSet(all)
      BY <2>1, <2>3, SeqFacts DEF ToSet, I
    <3>2. IsItem(doc.paths[i]) /\ doc.paths[i].path # <<>>
      BY <1>1 DEF IsItem
    <3>3. IsSeq(SpecParams(doc, doc.paths[i], ops[j]))
      BY <3>1, <3>2, SpecParamsFacts DEF IsItem
    <3> QED
      BY <2>3, <3>2, <3>3 DEF Route, IsRoute
  <2>6. DOMAIN u = 1..Len(ops) /\ u = [j \in 1..Len(ops) |-> u[j]]
    OBVIOUS
  <2> HIDE DEF u, lists
  <2> QED
    BY <2>3, <2>4, <2>5, <2>6, MapRoutes
<1>3. SpecRoutes(doc) = IF doc.resolves = "none" THEN <<>> ELSE FlattenSeq(lists)
  BY DEF SpecRoutes
<1>4. DOMAIN lists = 1..Len(doc.paths) /\ lists = [i \in 1..Len(doc.paths) |-> lists[i]]
  BY <1>1
<1> HIDE DEF lists
<1>5. IsSeq(lists)
  BY <1>1, <1>4, MapIsSeq
<1>6. \A i \in DOMAIN lists : IsRoutes(lists[i])
  BY <1>1, <1>2, <1>4
<1> QED
  BY <1>3, <1>5, <1>6, FlattenRoutes, NoRoutes

-----------------------------------------------------------------------------

\* Methods and functions, and classes of them.
AreMethods(s) == IsSeq(s) /\ \A m \in ToSet(s) : IsMethod(m)
IsClass(class) == IsSeq(class.bases) /\ AreMethods(class.methods)

\* Those of one name are among those there are.
LEMMA NamedFacts ==
  ASSUME NEW s, IsSeq(s), NEW name
  PROVE  IsSeq(Named(s, name)) /\ ToSet(Named(s, name)) \subseteq ToSet(s)
<1> DEFINE I == {i \in DOMAIN s : s[i].name = name}
<1>1. Named(s, name) = Picked(s, I)
  BY DEF Named, Filter
<1>2. I \in SUBSET DOMAIN s
  OBVIOUS
<1> HIDE DEF I
<1>3. IsSeq(Picked(s, I)) /\ ToSet(Picked(s, I)) = {s[i] : i \in I}
  BY <1>2, PickedIsSeq
<1> QED
  BY <1>1, <1>2, <1>3, SeqFacts

\* The first and the last of a list are of the list.
LEMMA EndsFacts ==
  ASSUME NEW s, IsSeq(s), s # <<>>
  PROVE  s[1] \in ToSet(s) /\ Last(s) \in ToSet(s)
<1>1. Len(s) \in Nat \ {0} /\ Last(s) = s[Len(s)] /\ DOMAIN s = 1..Len(s)
  BY FrontIsSeq, SeqFacts
<1>2. 1 \in DOMAIN s /\ Len(s) \in DOMAIN s
  BY <1>1
<1> QED
  BY <1>1, <1>2 DEF ToSet

\* The functions and methods of a file.
LEMMA CallablesFacts ==
  ASSUME NEW file, IsFile(file)
  PROVE  AreMethods(Callables(file))
<1> DEFINE fns == Of(file, "func")
           classes == Of(file, "class")
           lists == [i \in DOMAIN classes |-> classes[i].methods]
<1>1. Callables(file) = IF file.broken THEN <<>> ELSE fns \o FlattenSeq(lists)
  BY DEF Callables
<1>2. /\ IsSeq(fns) /\ \A s \in ToSet(fns) : IsMethod(s)
      /\ IsSeq(classes) /\ \A s \in ToSet(classes) : AreMethods(s.methods)
  BY OfFacts DEF IsStatement, AreMethods
<1> HIDE DEF fns, classes
<1>3. /\ Len(classes) \in Nat /\ DOMAIN classes = 1..Len(classes)
      /\ \A i \in DOMAIN classes : AreMethods(classes[i].methods)
  BY <1>2, SeqFacts
<1>4. IsSeq(lists) /\ \A i \in DOMAIN lists : AreMethods(lists[i])
  <2>1. \A i \in DOMAIN lists : AreMethods(lists[i])
    BY <1>3
  <2>2. DOMAIN lists = 1..Len(classes) /\ lists = [i \in 1..Len(classes) |-> lists[i]]
    BY <1>3
  <2> HIDE DEF lists
  <2> QED
    BY <1>3, <2>1, <2>2, MapIsSeq
<1> HIDE DEF lists
<1>5. /\ IsSeq(FlattenSeq(lists))
      /\ ToSet(FlattenSeq(lists)) = UNION {ToSet(lists[i]) : i \in DOMAIN lists}
  BY <1>4, FlattenIsSeqOf DEF AreMethods
<1>6. \A m \in ToSet(FlattenSeq(lists)) : IsMethod(m)
  BY <1>4, <1>5 DEF AreMethods
<1> QED
  BY <1>1, <1>2, <1>5, <1>6, ConcatIsSeq, EmptyIsSeq DEF AreMethods

\* The classes of one name in a file, if there is a file.
LEMMA ClassesFacts ==
  ASSUME repo \in Repos, NEW f \in 0..Len(Files), NEW name
  PROVE  IsSeq(ClassesIn(f, name)) /\ \A class \in ToSet(ClassesIn(f, name)) : IsClass(class)
<1>1. CASE f = 0 \/ Files[f].broken
  BY <1>1, EmptyIsSeq DEF ClassesIn
<1>2. CASE ~(f = 0 \/ Files[f].broken)
  <2>1. ClassesIn(f, name) = Named(Of(Files[f], "class"), name)
    BY <1>2 DEF ClassesIn
  <2>2. f \in DOMAIN Files /\ IsFile(Files[f])
    BY <1>2, FilesFacts
  <2>3. /\ IsSeq(Of(Files[f], "class"))
        /\ \A s \in ToSet(Of(Files[f], "class")) : s.k = "class" /\ IsStatement(s)
    BY <2>2, OfFacts
  <2>4. \A s \in ToSet(Of(Files[f], "class")) : IsClass(s)
    BY <2>3 DEF IsStatement, IsClass, AreMethods
  <2> QED
    BY <2>1, <2>3, <2>4, NamedFacts
<1> QED
  BY <1>1, <1>2

\* The class found in the first file that has one is a class.
LEMMA FirstClassFacts ==
  ASSUME repo \in Repos, NEW files, IsSeq(files), ToSet(files) \subseteq 0..Len(Files), NEW name,
         FirstClass(files, name) # <<>>
  PROVE  IsClass(FirstClass(files, name)[1])
<1> DEFINE I == {i \in 1..Len(files) : ClassesIn(files[i], name) # <<>>}
           found == SelectInSeq(files, LAMBDA g : ClassesIn(g, name) # <<>>)
<1>1. found = IF I # {} THEN Min(I) ELSE 0
  BY DEF SelectInSeq
<1>2. FirstClass(files, name) = IF found = 0 THEN <<>> ELSE <<ClassesIn(files[found], name)[1]>>
  BY DEF FirstClass
<1> HIDE DEF found
<1>3. found # 0 /\ FirstClass(files, name)[1] = ClassesIn(files[found], name)[1]
  BY <1>2
<1>4. Len(files) \in Nat /\ I \in SUBSET (1..Len(files)) /\ I # {}
  BY <1>1, <1>3, SeqFacts
<1>5. found \in I
  <2> HIDE DEF I
  <2> QED
    BY <1>1, <1>4, MinMax
<1>6. ClassesIn(files[found], name) # <<>> /\ files[found] \in 0..Len(Files)
  BY <1>5, SeqFacts
<1> QED
  BY <1>3, <1>6, ClassesFacts, EndsFacts

\* So is the class that a name stands for.
LEMMA ClassForFacts ==
  ASSUME repo \in Repos, NEW f \in DOMAIN Files, NEW name, ClassFor(f, name) # <<>>
  PROVE  IsClass(ClassFor(f, name)[1])
<1> DEFINE imports == Imports(Files[f])
           I == {i \in DOMAIN imports : imports[i].local = name
                   \/ (Len(imports[i].path) > 1 /\ Last(imports[i].path) = name)}
           direct == Picked(imports, I)
           first == [i \in DOMAIN direct |-> FirstFile(f, Front(direct[i].path), direct[i].path)]
           second == [i \in DOMAIN imports |-> FirstFile(f, imports[i].path, <<imports[i].local>>)]
           here == ClassesIn(f, name)
<1>1. ClassFor(f, name) = IF here # <<>> THEN <<Last(here)>> ELSE FirstClass(first \o second, name)
  BY DEF ClassFor, Filter
<1>2. IsSeq(imports)
  BY FilesFacts, OfFacts DEF Imports
<1>3. IsSeq(direct)
  <2>1. I \in SUBSET DOMAIN imports
    OBVIOUS
  <2> HIDE DEF imports, I
  <2> QED
    BY <1>2, <2>1, PickedIsSeq
<1>4. \A a, b : FirstFile(f, a, b) \in 0..Len(Files)
  BY ModuleIsFile DEF FirstFile
<1> HIDE DEF imports, direct
<1>5. IsSeq(first) /\ ToSet(first) \subseteq 0..Len(Files)
  <2>1. Len(direct) \in Nat /\ DOMAIN direct = 1..Len(direct)
    BY <1>3, SeqFacts
  <2>2. DOMAIN first = 1..Len(direct) /\ first = [i \in 1..Len(direct) |-> first[i]]
    BY <2>1
  <2>3. \A i \in DOMAIN first : first[i] \in 0..Len(Files)
    BY <1>4
  <2> HIDE DEF first
  <2> QED
    BY <2>1, <2>2, <2>3, MapIsSeq DEF ToSet
<1>6. IsSeq(second) /\ ToSet(second) \subseteq 0..Len(Files)
  <2>1. Len(imports) \in Nat /\ DOMAIN imports = 1..Len(imports)
    BY <1>2, SeqFacts
  <2>2. DOMAIN second = 1..Len(imports) /\ second = [i \in 1..Len(imports) |-> second[i]]
    BY <2>1
  <2>3. \A i \in DOMAIN second : second[i] \in 0..Len(Files)
    BY <1>4
  <2> HIDE DEF second
  <2> QED
    BY <2>1, <2>2, <2>3, MapIsSeq DEF ToSet
<1> HIDE DEF first, second, here
<1>7. CASE here # <<>>
  <2>1. f \in 0..Len(Files)
    BY FilesFacts
  <2>2. ClassFor(f, name)[1] = Last(here)
    BY <1>1, <1>7
  <2> QED
    BY <1>7, <2>1, <2>2, ClassesFacts, EndsFacts DEF here
<1>8. CASE here = <<>>
  <2>1. IsSeq(first \o second) /\ ToSet(first \o second) \subseteq 0..Len(Files)
    BY <1>5, <1>6, ConcatIsSeq
  <2> QED
    BY <1>1, <1>8, <2>1, FirstClassFacts
<1> QED
  BY <1>7, <1>8

\* A view's module is a file of the repository or unknown.
LEMMA SourceFileFacts ==
  ASSUME repo \in Repos, NEW f, NEW mod
  PROVE  SourceFile(f, mod) \in 0..Len(Files)
<1> DEFINE path == ImportOf(Imports(Files[f]), mod)
           module == IF path = <<>> THEN <<mod>> ELSE path
<1>1. SourceFile(f, mod) = ModuleFile(f, module)
  BY DEF SourceFile
<1> HIDE DEF module
<1> QED
  BY <1>1, ModuleIsFile

\* The function that a view refers to is a function.
LEMMA FunctionForFacts ==
  ASSUME repo \in Repos, NEW f \in DOMAIN Files, NEW view, FunctionFor(f, view) # <<>>
  PROVE  IsMethod(FunctionFor(f, view)[1])
<1> DEFINE here == Named(Callables(Files[f]), view.name)
           there == IF view.mod = "" THEN 0 ELSE SourceFile(f, view.mod)
           away == Named(Callables(Files[there]), view.name)
<1>1. FunctionFor(f, view) = IF here # <<>> THEN <<Last(here)>>
                             ELSE IF there = 0 \/ away = <<>> THEN <<>> ELSE <<away[1]>>
  BY DEF FunctionFor
<1>2. AreMethods(here)
  BY FilesFacts, CallablesFacts, NamedFacts DEF AreMethods
<1>3. there \in 0..Len(Files)
  <2>1. Len(Files) \in Nat /\ f \in 1..Len(Files)
    BY FilesFacts
  <2>2. SourceFile(f, view.mod) \in 0..Len(Files)
    BY SourceFileFacts
  <2>3. there = 0 \/ there = SourceFile(f, view.mod)
    BY Zenon
  <2> HIDE DEF there
  <2> QED
    BY <2>1, <2>2, <2>3
<1>4. there # 0 => AreMethods(away)
  <2> HIDE DEF there
  <2> SUFFICES ASSUME there # 0 PROVE AreMethods(away)
    OBVIOUS
  <2>1. there \in DOMAIN Files
    BY <1>3, FilesFacts
  <2> QED
    BY <2>1, FilesFacts, CallablesFacts, NamedFacts DEF AreMethods
<1> HIDE DEF here, there, away
<1>5. CASE here # <<>>
  BY <1>1, <1>2, <1>5, EndsFacts DEF AreMethods
<1>6. CASE here = <<>>
  BY <1>1, <1>4, <1>6, EndsFacts DEF AreMethods
<1> QED
  BY <1>5, <1>6

\* The class behind name = Class.as_view() is a class.
LEMMA AssignedClassFacts ==
  ASSUME repo \in Repos, NEW f \in DOMAIN Files, NEW view, AssignedClass(f, view) # <<>>
  PROVE  IsClass(AssignedClass(f, view)[1])
<1> DEFINE g == IF view.mod = "" THEN f ELSE SourceFile(f, view.mod)
           named == IF g = 0 \/ Files[g].broken THEN <<>> ELSE Named(Of(Files[g], "assign"), view.name)
           found == SelectInSeq(named, LAMBDA a : ClassesIn(g, a.class) # <<>> \/ a.class \in CbvBases)
           class == named[found].class
           own == [name |-> class, bases |-> <<class>>, methods |-> <<>>]
<1>1. AssignedClass(f, view) = IF found = 0 THEN <<>>
                               ELSE IF ClassesIn(g, class) # <<>> THEN <<ClassesIn(g, class)[1]>>
                               ELSE <<own>>
  BY DEF AssignedClass
<1>2. g \in 0..Len(Files)
  <2>1. Len(Files) \in Nat /\ f \in 1..Len(Files)
    BY FilesFacts
  <2>2. SourceFile(f, view.mod) \in 0..Len(Files)
    BY SourceFileFacts
  <2>3. g = f \/ g = SourceFile(f, view.mod)
    BY Zenon
  <2> HIDE DEF g
  <2> QED
    BY <2>1, <2>2, <2>3
<1>3. IsClass(own)
  BY SingletonIsSeq, EmptyIsSeq DEF IsClass, AreMethods
<1> HIDE DEF g, found, class, own
<1>4. ClassesIn(g, class) # <<>> => IsClass(ClassesIn(g, class)[1])
  BY <1>2, ClassesFacts, EndsFacts
<1> QED
  BY <1>1, <1>3, <1>4

-----------------------------------------------------------------------------

\* Actions of viewsets and lists of HTTP methods.
AreActions(s) == IsSeq(s) /\ \A a \in ToSet(s) : a.method \in HttpMethods
AreVerbs(s) == IsSeq(s) /\ ToSet(s) \subseteq HttpMethods

\* The known ones among HTTP methods.
LEMMA HttpFilter ==
  ASSUME NEW s, IsSeq(s)
  PROVE  AreVerbs(Filter(s, LAMBDA v : v \in HttpMethods))
<1> DEFINE I == {i \in DOMAIN s : s[i] \in HttpMethods}
<1>1. Filter(s, LAMBDA v : v \in HttpMethods) = Picked(s, I)
  BY DEF Filter
<1>2. I \in SUBSET DOMAIN s /\ \A i \in I : s[i] \in HttpMethods
  OBVIOUS
<1> DEFINE kept == Picked(s, I)
<1> HIDE DEF I
<1>3. IsSeq(kept) /\ ToSet(kept) = {s[i] : i \in I}
  BY <1>2, PickedIsSeq
<1> HIDE DEF kept
<1>4. AreVerbs(kept)
  BY <1>2, <1>3 DEF AreVerbs
<1> QED
  BY <1>1, <1>4 DEF kept

\* Actions joined are actions; so is one, and so are those of the tables,
LEMMA ConcatActions ==
  ASSUME NEW s, AreActions(s), NEW t, AreActions(t)
  PROVE  AreActions(s \o t)
BY ConcatIsSeq DEF AreActions

LEMMA OneAction ==
  ASSUME NEW name, NEW method \in HttpMethods, NEW detail
  PROVE  AreActions(<<Action(name, method, detail)>>)
<1> DEFINE a == Action(name, method, detail)
<1>1. a.method \in HttpMethods
  BY DEF Action
<1> HIDE DEF a
<1>2. AreActions(<<a>>)
  BY <1>1, SingletonIsSeq DEF AreActions
<1> QED
  BY <1>2 DEF a

LEMMA TableFacts == \A b \in DOMAIN ActionsOf : AreActions(ActionsOf[b])
<1>1. AreActions(ListAct) /\ AreActions(CreateAct) /\ AreActions(FetchAct) /\ AreActions(DeleteAct)
  BY OneAction DEF ListAct, CreateAct, FetchAct, DeleteAct, HttpMethods
<1>2. AreActions(UpdateAct)
  <2> DEFINE put == Action(<<"update">>, "PUT", TRUE)
             patch == Action(<<"partial", "_", "update">>, "PATCH", TRUE)
  <2>1. put.method \in HttpMethods /\ patch.method \in HttpMethods
    BY DEF Action, HttpMethods
  <2>2. UpdateAct = <<put, patch>>
    BY DEF UpdateAct
  <2> HIDE DEF put, patch
  <2> QED
    BY <2>1, <2>2, PairIsSeq DEF AreActions
<1>3. AreActions(ListAct \o CreateAct) /\ AreActions(ListAct \o FetchAct)
  BY <1>1, ConcatActions
<1>4. AreActions(FetchAct \o UpdateAct) /\ AreActions(FetchAct \o DeleteAct)
  BY <1>1, <1>2, ConcatActions
<1>5. AreActions(FetchAct \o UpdateAct \o DeleteAct)
  BY <1>1, <1>4, ConcatActions
<1>6. AreActions(ListAct \o CreateAct \o FetchAct \o UpdateAct \o DeleteAct)
  <2>1. AreActions(ListAct \o CreateAct \o FetchAct)
    BY <1>1, <1>3, ConcatActions
  <2>2. AreActions(ListAct \o CreateAct \o FetchAct \o UpdateAct)
    BY <1>2, <2>1, ConcatActions
  <2> QED
    BY <1>1, <2>2, ConcatActions
<1> DEFINE all == ListAct \o CreateAct \o FetchAct \o UpdateAct \o DeleteAct
           lc == ListAct \o CreateAct
           lf == ListAct \o FetchAct
           fu == FetchAct \o UpdateAct
           fd == FetchAct \o DeleteAct
           fud == FetchAct \o UpdateAct \o DeleteAct
           T == {ListAct, CreateAct, FetchAct, UpdateAct, DeleteAct, all, lc, lf, fu, fd, fud}
<1>7. \A s \in T : AreActions(s)
  <2> HIDE DEF all, lc, lf, fu, fd, fud
  <2>1. AreActions(all) /\ AreActions(lc) /\ AreActions(lf)
    BY <1>3, <1>6 DEF all, lc, lf
  <2>2. AreActions(fu) /\ AreActions(fd) /\ AreActions(fud)
    BY <1>4, <1>5 DEF fu, fd, fud
  <2> QED
    BY <1>1, <1>2, <2>1, <2>2
<1>8. ActionsOf \in [DOMAIN ActionsOf -> T]
  <2> HIDE DEF all, lc, lf, fu, fd, fud
  <2>1. ActionsOf =
          [ModelViewSet |-> all, ReadOnlyModelViewSet |-> lf, ListModelMixin |-> ListAct,
           CreateModelMixin |-> CreateAct, RetrieveModelMixin |-> FetchAct, UpdateModelMixin |-> UpdateAct,
           DestroyModelMixin |-> DeleteAct, ListAPIView |-> ListAct, CreateAPIView |-> CreateAct,
           RetrieveAPIView |-> FetchAct, UpdateAPIView |-> UpdateAct, DestroyAPIView |-> DeleteAct,
           ListCreateAPIView |-> lc, RetrieveUpdateAPIView |-> fu, RetrieveDestroyAPIView |-> fd,
           RetrieveUpdateDestroyAPIView |-> fud]
    BY DEF ActionsOf, all, lc, lf, fu, fd, fud
  <2> QED
    BY <2>1
<1> QED
  BY <1>7, <1>8

\* hence those of a class by its bases.
LEMMA StandardFacts ==
  ASSUME NEW class, IsClass(class)
  PROVE  AreActions(StandardActions(class))
<1> DEFINE lists == [i \in DOMAIN class.bases |->
                       IF class.bases[i] \in DOMAIN ActionsOf THEN ActionsOf[class.bases[i]] ELSE <<>>]
<1>1. Len(class.bases) \in Nat /\ DOMAIN class.bases = 1..Len(class.bases)
  BY SeqFacts DEF IsClass
<1>2. AreActions(<<>>)
  BY EmptyIsSeq DEF AreActions
<1>3. \A i \in DOMAIN lists : AreActions(lists[i])
  BY <1>2, TableFacts
<1>4. DOMAIN lists = 1..Len(class.bases) /\ lists = [i \in 1..Len(class.bases) |-> lists[i]]
  BY <1>1
<1>5. StandardActions(class) = FlattenSeq(lists)
  BY DEF StandardActions
<1> HIDE DEF lists
<1>6. IsSeq(lists)
  BY <1>1, <1>4, MapIsSeq
<1>7. /\ IsSeq(FlattenSeq(lists))
      /\ ToSet(FlattenSeq(lists)) = UNION {ToSet(lists[i]) : i \in DOMAIN lists}
  BY <1>3, <1>6, FlattenIsSeqOf DEF AreActions
<1> QED
  BY <1>3, <1>5, <1>7 DEF AreActions

\* The methods that a class-based view answers to are known ones.
LEMMA ViewMethodsFacts ==
  ASSUME NEW class, IsClass(class)
  PROVE  AreVerbs(ViewMethods(class))
<1> DEFINE I == {i \in DOMAIN class.methods : class.methods[i].name \in {<<v>> : v \in DOMAIN VerbOf}}
           written == Picked(class.methods, I)
           verbs == [i \in DOMAIN written |-> VerbOf[written[i].name[1]]]
           bases == Filter(class.bases, LAMBDA b : b \in ShowViews \cup FormViews)
           kept == Filter(verbs, LAMBDA v : v \in HttpMethods)
<1>1. ViewMethods(class) = IF written # <<>> THEN kept
                           ELSE IF bases = <<>> \/ bases[1] \in ShowViews THEN <<"GET">> ELSE <<"GET", "POST">>
  BY DEF ViewMethods, Filter
<1>2. IsSeq(written)
  <2>1. IsSeq(class.methods) /\ I \in SUBSET DOMAIN class.methods
    BY DEF IsClass, AreMethods
  <2> HIDE DEF I
  <2> QED
    BY <2>1, PickedIsSeq
<1> HIDE DEF written
<1>3. IsSeq(verbs)
  <2>1. Len(written) \in Nat /\ DOMAIN written = 1..Len(written)
    BY <1>2, SeqFacts
  <2>2. DOMAIN verbs = 1..Len(written) /\ verbs = [i \in 1..Len(written) |-> verbs[i]]
    BY <2>1
  <2> HIDE DEF verbs
  <2> QED
    BY <2>1, <2>2, MapIsSeq
<1>4. AreVerbs(kept)
  <2> HIDE DEF verbs
  <2> QED
    BY <1>3, HttpFilter
<1>5. AreVerbs(<<"GET">>)
  BY SingletonIsSeq DEF AreVerbs, HttpMethods
<1>6. AreVerbs(<<"GET", "POST">>)
  BY PairIsSeq DEF AreVerbs, HttpMethods
<1> HIDE DEF kept, bases
<1> QED
  BY <1>1, <1>4, <1>5, <1>6

\* The parameters of a URL, and of a function, are a list.
LEMMA OwnParamsFacts ==
  ASSUME NEW route, IsSeq(route)
  PROVE  IsSeq(OwnParams(route))
<1> DEFINE I == {i \in DOMAIN route : route[i].k = "par"}
           pars == Picked(route, I)
           u == [i \in DOMAIN pars |-> Param(pars[i].n, "path")]
<1>1. OwnParams(route) = u
  BY DEF OwnParams, Filter
<1>2. I \in SUBSET DOMAIN route
  OBVIOUS
<1> HIDE DEF I
<1>3. IsSeq(pars)
  BY <1>2, PickedIsSeq
<1> HIDE DEF pars
<1>4. DOMAIN u = DOMAIN pars /\ u = [i \in DOMAIN pars |-> u[i]]
  OBVIOUS
<1> HIDE DEF u
<1> QED
  BY <1>1, <1>3, <1>4, EachIsSeq

LEMMA ParamsForFacts ==
  ASSUME NEW functions, AreMethods(functions), NEW own, NEW otherwise, IsSeq(otherwise)
  PROVE  IsSeq(ParamsFor(functions, own, otherwise))
<1> DEFINE args == functions[1].args
           named == {own[i].name : i \in DOMAIN own}
           I == {i \in DOMAIN args : args[i].name \notin SkipParams}
           used == Picked(args, I)
           u == [i \in DOMAIN used |-> Param(used[i].name, IF used[i].name \in named THEN "path" ELSE "query")]
<1>1. ParamsFor(functions, own, otherwise) = IF functions = <<>> THEN otherwise ELSE u
  BY DEF ParamsFor, ArgumentParams, Filter
<1> HIDE DEF named
<1>2. CASE functions # <<>>
  <2>1. IsSeq(args)
    BY <1>2, HasFirst DEF AreMethods, IsMethod
  <2>2. I \in SUBSET DOMAIN args
    OBVIOUS
  <2> HIDE DEF I, args
  <2>3. IsSeq(used)
    BY <2>1, <2>2, PickedIsSeq
  <2> HIDE DEF used
  <2>4. DOMAIN u = DOMAIN used /\ u = [i \in DOMAIN used |-> u[i]]
    OBVIOUS
  <2> HIDE DEF u
  <2> QED
    BY <1>1, <1>2, <2>3, <2>4, EachIsSeq
<1> HIDE DEF u
<1> QED
  BY <1>1, <1>2

\* One method alone is a list of methods.
LEMMA OneMethod ==
  ASSUME NEW m, IsMethod(m)
  PROVE  AreMethods(<<m>>)
BY SingletonIsSeq DEF AreMethods

\* Functions, classes and routers as views give routes:
LEMMA FunctionRoutesFacts ==
  ASSUME NEW function, IsMethod(function), NEW path, path # <<>>, NEW own, IsSeq(own)
  PROVE  IsRoutes(FunctionRoutes(function, path, own))
<1> DEFINE verbs == Filter(function.api, LAMBDA v : v \in HttpMethods)
           u == [i \in DOMAIN verbs |-> Route(verbs[i], path, function.name, ParamsFor(<<function>>, own, own), "ast")]
<1>1. FunctionRoutes(function, path, own) = u
  BY DEF FunctionRoutes
<1>2. AreVerbs(verbs)
  BY HttpFilter DEF IsMethod
<1> HIDE DEF verbs
<1>3. Len(verbs) \in Nat /\ DOMAIN verbs = 1..Len(verbs) /\ \A i \in DOMAIN verbs : verbs[i] \in HttpMethods
  BY <1>2, SeqFacts DEF AreVerbs
<1>4. \A i \in 1..Len(verbs) : IsRoute(u[i])
  <2>1. IsSeq(ParamsFor(<<function>>, own, own))
    BY OneMethod, ParamsForFacts
  <2> QED
    BY <1>3, <2>1 DEF IsRoute, Route
<1>5. DOMAIN u = 1..Len(verbs) /\ u = [i \in 1..Len(verbs) |-> u[i]]
  BY <1>3
<1> HIDE DEF u
<1> QED
  BY <1>1, <1>3, <1>4, <1>5, MapRoutes

\* every kind of class,
LEMMA ClassRoutesFacts ==
  ASSUME NEW class, IsClass(class), NEW path, path # <<>>, NEW own, IsSeq(own), NEW actions, IsSeq(actions)
  PROVE  IsRoutes(ClassRoutes(class, path, own, actions))
<1> DEFINE verbs == ViewMethods(class)
           verb(i) == CHOOSE v \in DOMAIN VerbOf : VerbOf[v] = verbs[i]
           plain == [i \in DOMAIN verbs |->
                       Route(verbs[i], path, <<class.name>>, ParamsFor(MethodNamed(class, <<verb(i)>>), own, own), "ast")]
           acts == StandardActions(class)
           standard == [i \in DOMAIN acts |-> Route(acts[i].method, path, acts[i].name, own, "ast")]
           I == {i \in DOMAIN actions : actions[i].method \in HttpMethods}
           known == Picked(actions, I)
           named == [i \in DOMAIN known |->
                       Route(known[i].method, path, known[i].name,
                             ParamsFor(MethodNamed(class, known[i].name), own, own), "ast")]
<1>1. ClassRoutes(class, path, own, actions) =
        IF ~IsViewSet(class) THEN plain ELSE IF actions = <<>> THEN standard ELSE named
  BY DEF ClassRoutes, Filter
<1>p. ASSUME NEW name PROVE IsSeq(ParamsFor(MethodNamed(class, name), own, own))
  <2>1. AreMethods(MethodNamed(class, name))
    BY NamedFacts DEF MethodNamed, IsClass, AreMethods
  <2> QED
    BY <2>1, ParamsForFacts
<1>2. IsRoutes(plain)
  <2>1. AreVerbs(verbs)
    BY ViewMethodsFacts
  <2> HIDE DEF verbs
  <2>2. Len(verbs) \in Nat /\ DOMAIN verbs = 1..Len(verbs) /\ \A i \in DOMAIN verbs : verbs[i] \in HttpMethods
    BY <2>1, SeqFacts DEF AreVerbs
  <2>3. DOMAIN plain = 1..Len(verbs) /\ plain = [i \in 1..Len(verbs) |-> plain[i]]
    BY <2>2
  <2>4. \A i \in 1..Len(verbs) : IsRoute(plain[i])
    BY <1>p, <2>2 DEF IsRoute, Route
  <2> HIDE DEF plain
  <2> QED
    BY <2>2, <2>3, <2>4, MapRoutes
<1>3. IsRoutes(standard)
  <2>1. AreActions(acts)
    BY StandardFacts
  <2> HIDE DEF acts
  <2>2. Len(acts) \in Nat /\ DOMAIN acts = 1..Len(acts) /\ \A i \in DOMAIN acts : acts[i].method \in HttpMethods
    BY <2>1, SeqFacts DEF AreActions
  <2>3. DOMAIN standard = 1..Len(acts) /\ standard = [i \in 1..Len(acts) |-> standard[i]]
    BY <2>2
  <2>4. \A i \in 1..Len(acts) : IsRoute(standard[i])
    BY <2>2 DEF IsRoute, Route
  <2> HIDE DEF standard
  <2> QED
    BY <2>2, <2>3, <2>4, MapRoutes
<1>4. IsRoutes(named)
  <2>1. I \in SUBSET DOMAIN actions /\ \A i \in I : actions[i].method \in HttpMethods
    OBVIOUS
  <2>2. IsSeq(known) /\ ToSet(known) = {actions[i] : i \in I}
    <3> HIDE DEF I
    <3> QED
      BY <2>1, PickedIsSeq
  <2> HIDE DEF known, I
  <2>3. /\ Len(known) \in Nat /\ DOMAIN known = 1..Len(known)
        /\ \A i \in DOMAIN known : known[i].method \in HttpMethods
    BY <2>1, <2>2, SeqFacts
  <2>4. DOMAIN named = 1..Len(known) /\ named = [i \in 1..Len(known) |-> named[i]]
    BY <2>3
  <2>5. \A i \in 1..Len(known) : IsRoute(named[i])
    BY <1>p, <2>3 DEF IsRoute, Route
  <2> HIDE DEF named
  <2> QED
    BY <2>3, <2>4, <2>5, MapRoutes
<1> HIDE DEF plain, standard, named
<1> QED
  BY <1>1, <1>2, <1>3, <1>4

\* what a router puts after a prefix is a path,
LEMMA UnderRouterFacts ==
  ASSUME NEW prefix, IsSeq(prefix), NEW reg, IsSeq(reg.prefix), NEW detail, NEW suffix, IsSeq(suffix)
  PROVE  UnderRouter(prefix, reg, detail, suffix) # <<>>
<1> DEFINE own == IF Strip(reg.prefix) = <<>> THEN Root ELSE Strip(reg.prefix)
           pk == IF detail THEN <<Par(<<"pk">>)>> ELSE <<>>
           first == RStrip(prefix) \o own
           second == first \o pk
           whole == second \o suffix
<1>1. UnderRouter(prefix, reg, detail, suffix) = Collapse(whole)
  BY DEF UnderRouter
<1>2. IsSeq(own) /\ own # <<>>
  BY StripIsSeq, SingletonIsSeq DEF Root
<1>3. IsSeq(pk)
  <2>1. IsSeq(<<Par(<<"pk">>)>>) /\ IsSeq(<<>>)
    BY SingletonIsSeq, EmptyIsSeq
  <2> QED
    BY <2>1
<1> HIDE DEF own, pk
<1>4. IsSeq(first) /\ first # <<>>
  BY <1>2, RStripIsSeq, ConcatIsSeq, ConcatNotEmpty
<1> HIDE DEF first
<1>5. IsSeq(second) /\ second # <<>>
  BY <1>3, <1>4, ConcatIsSeq, ConcatNotEmpty
<1> HIDE DEF second
<1>6. IsSeq(whole) /\ whole # <<>>
  BY <1>5, ConcatIsSeq, ConcatNotEmpty
<1> HIDE DEF whole
<1> QED
  BY <1>1, <1>6, CollapseIsSeq

\* every action of a registered viewset,
LEMMA RegistrationRoutesFacts ==
  ASSUME repo \in Repos, NEW f \in DOMAIN Files, NEW prefix, IsSeq(prefix), NEW reg, IsSeq(reg.prefix)
  PROVE  IsRoutes(RegistrationRoutes(f, prefix, reg))
<1> DEFINE found == ClassFor(f, reg.viewset)
           class == found[1]
           acts  == StandardActions(class)
           I == {i \in DOMAIN class.methods : class.methods[i].action # "none"}
           extra == Picked(class.methods, I)
           own(detail) == IF detail THEN Pk ELSE <<>>
           standard(a) == Route(a.method, UnderRouter(prefix, reg, a.detail, <<>>), a.name,
                                ParamsFor(MethodNamed(class, a.name), own(a.detail), <<>>), "ast")
           suffix(m) == IF m.url = <<>> THEN <<Lit(Dashed(m.name))>> ELSE m.url
           verbs(m) == Filter(m.api, LAMBDA v : v \in HttpMethods)
           added(m) == [i \in DOMAIN verbs(m) |->
                          Route(verbs(m)[i], UnderRouter(prefix, reg, m.action = "detail", suffix(m)),
                                m.name, ParamsFor(<<m>>, own(m.action = "detail"), <<>>), "ast")]
           one == [i \in DOMAIN acts |-> standard(acts[i])]
           lists == [i \in DOMAIN extra |-> added(extra[i])]
<1>1. RegistrationRoutes(f, prefix, reg) = IF found = <<>> THEN <<>> ELSE one \o FlattenSeq(lists)
  BY DEF RegistrationRoutes, Filter
<1>2. CASE found = <<>>
  <2> HIDE DEF found, one, lists
  <2> QED
    BY <1>1, <1>2, NoRoutes
<1>3. CASE found # <<>>
  <2>1. IsClass(class)
    BY <1>3, ClassForFacts
  <2>2. RegistrationRoutes(f, prefix, reg) = one \o FlattenSeq(lists)
    <3> HIDE DEF found, one, lists
    <3> QED
      BY <1>1, <1>3
  <2> HIDE DEF class, found
  <2>3. IsRoutes(one)
    <3>1. AreActions(acts)
      BY <2>1, StandardFacts
    <3> HIDE DEF acts
    <3>2. Len(acts) \in Nat /\ DOMAIN acts = 1..Len(acts) /\ \A i \in DOMAIN acts : acts[i].method \in HttpMethods
      BY <3>1, SeqFacts DEF AreActions
    <3>3. DOMAIN one = 1..Len(acts) /\ one = [i \in 1..Len(acts) |-> one[i]]
      BY <3>2
    <3>4. ASSUME NEW i \in 1..Len(acts) PROVE IsRoute(one[i])
      <4> DEFINE a == acts[i]
      <4>1. UnderRouter(prefix, reg, a.detail, <<>>) # <<>>
        BY UnderRouterFacts, EmptyIsSeq
      <4>2. IsSeq(ParamsFor(MethodNamed(class, a.name), own(a.detail), <<>>))
        <5>1. AreMethods(MethodNamed(class, a.name))
          BY <2>1, NamedFacts DEF MethodNamed, IsClass, AreMethods
        <5> HIDE DEF own
        <5> QED
          BY <5>1, ParamsForFacts, EmptyIsSeq
      <4> QED
        BY <3>2, <4>1, <4>2 DEF IsRoute, Route
    <3> HIDE DEF one
    <3> QED
      BY <3>2, <3>3, <3>4, MapRoutes
  <2>4. IsSeq(extra) /\ \A m \in ToSet(extra) : IsMethod(m)
    <3>1. /\ IsSeq(class.methods) /\ I \in SUBSET DOMAIN class.methods
          /\ \A m \in ToSet(class.methods) : IsMethod(m)
      BY <2>1 DEF IsClass, AreMethods
    <3> HIDE DEF I
    <3>2. IsSeq(extra) /\ ToSet(extra) = {class.methods[i] : i \in I}
      BY <3>1, PickedIsSeq
    <3> HIDE DEF extra
    <3> QED
      BY <3>1, <3>2, SeqFacts
  <2> HIDE DEF extra, one
  <2>5. ASSUME NEW m, IsMethod(m) PROVE IsRoutes(added(m))
    <3>1. AreVerbs(verbs(m))
      BY <2>5, HttpFilter DEF IsMethod
    <3>2. IsSeq(suffix(m))
      BY <2>5, SingletonIsSeq DEF IsMethod
    <3> DEFINE vs == verbs(m)
               to == suffix(m)
               path == UnderRouter(prefix, reg, m.action = "detail", to)
               u == [i \in DOMAIN vs |-> Route(vs[i], path, m.name, ParamsFor(<<m>>, own(m.action = "detail"), <<>>), "ast")]
    <3>3. added(m) = u
      OBVIOUS
    <3> HIDE DEF verbs, suffix, added
    <3>4. path # <<>>
      BY <3>2, UnderRouterFacts
    <3> HIDE DEF vs, to, path
    <3>5. Len(vs) \in Nat /\ DOMAIN vs = 1..Len(vs) /\ \A i \in DOMAIN vs : vs[i] \in HttpMethods
      BY <3>1, SeqFacts DEF AreVerbs, vs
    <3>6. DOMAIN u = 1..Len(vs) /\ u = [i \in 1..Len(vs) |-> u[i]]
      BY <3>5
    <3>7. \A i \in 1..Len(vs) : IsRoute(u[i])
      <4>1. IsSeq(ParamsFor(<<m>>, own(m.action = "detail"), <<>>))
        <5> HIDE DEF own
        <5> QED
          BY <2>5, OneMethod, ParamsForFacts, EmptyIsSeq
      <4> QED
        BY <3>4, <3>5, <4>1 DEF IsRoute, Route
    <3> HIDE DEF u
    <3> QED
      BY <3>3, <3>5, <3>6, <3>7, MapRoutes
  <2> HIDE DEF added
  <2>6. IsSeq(lists) /\ \A i \in DOMAIN lists : IsRoutes(lists[i])
    <3>1. Len(extra) \in Nat /\ DOMAIN extra = 1..Len(extra) /\ \A i \in DOMAIN extra : IsMethod(extra[i])
      BY <2>4, SeqFacts
    <3>2. DOMAIN lists = 1..Len(extra) /\ lists = [i \in 1..Len(extra) |-> lists[i]]
      BY <3>1
    <3>3. \A i \in DOMAIN lists : IsRoutes(lists[i])
      BY <2>5, <3>1
    <3> HIDE DEF lists
    <3> QED
      BY <3>1, <3>2, <3>3, MapIsSeq
  <2> HIDE DEF lists
  <2> QED
    BY <2>2, <2>3, <2>6, FlattenRoutes, ConcatRoutes
<1> QED
  BY <1>2, <1>3

\* every registration of a file,
LEMMA RegistrationsFacts ==
  ASSUME NEW file, IsFile(file)
  PROVE  IsSeq(Registrations(file).regs) /\ \A reg \in ToSet(Registrations(file).regs) : IsSeq(reg.prefix)
<1> DEFINE I == {i \in DOMAIN file.body : file.body[i].k = "register"
                   /\ \E j \in 1..(i - 1) : file.body[j].k = "newrouter" /\ file.body[j].var = file.body[i].var}
           regs == Picked(file.body, I)
<1>1. Registrations(file).regs = regs
  BY DEF Registrations
<1>2. IsSeq(file.body) /\ I \in SUBSET DOMAIN file.body
  BY DEF IsFile
<1>3. \A i \in I : IsSeq(file.body[i].prefix)
  BY <1>2, SeqFacts DEF IsFile, IsStatement
<1> HIDE DEF I
<1>4. IsSeq(regs) /\ ToSet(regs) = {file.body[i] : i \in I}
  BY <1>2, PickedIsSeq
<1> HIDE DEF regs
<1> QED
  BY <1>1, <1>3, <1>4

\* and with them whatever view a URL pattern has.
LEMMA ViewRoutesFacts ==
  ASSUME repo \in Repos, NEW f \in DOMAIN Files, NEW path, IsSeq(path), path # <<>>,
         NEW pattern, IsPattern(pattern)
  PROVE  IsRoutes(ViewRoutes(f, path, pattern))
<1> DEFINE view == pattern.view
           own == OwnParams(pattern.route)
           class == ClassFor(f, view.class)
           function == FunctionFor(f, view)
           assigned == AssignedClass(f, view)
           found == Registrations(Files[f])
           lists == [i \in DOMAIN found.regs |-> RegistrationRoutes(f, path, found.regs[i])]
<1>own. IsSeq(own)
  BY OwnParamsFacts DEF IsPattern
<1>1. CASE view.k = "asview"
  <2>1. ViewRoutes(f, path, pattern) =
          IF class = <<>> THEN <<>> ELSE ClassRoutes(class[1], path, own, view.actions)
    BY <1>1 DEF ViewRoutes
  <2>2. IsSeq(view.actions)
    BY <1>1 DEF IsPattern
  <2>3. class # <<>> => IsClass(class[1])
    BY ClassForFacts
  <2> HIDE DEF class, own
  <2> QED
    BY <1>own, <2>1, <2>2, <2>3, ClassRoutesFacts, NoRoutes
<1>2. CASE view.k = "ref"
  <2>1. ViewRoutes(f, path, pattern) =
          IF function # <<>> THEN FunctionRoutes(function[1], path, own)
          ELSE IF assigned # <<>> THEN ClassRoutes(assigned[1], path, own, <<>>) ELSE <<>>
    BY <1>2 DEF ViewRoutes
  <2>2. function # <<>> => IsMethod(function[1])
    BY FunctionForFacts
  <2>3. assigned # <<>> => IsClass(assigned[1])
    BY AssignedClassFacts
  <2> HIDE DEF function, assigned, own
  <2> QED
    BY <1>own, <2>1, <2>2, <2>3, FunctionRoutesFacts, ClassRoutesFacts, NoRoutes, EmptyIsSeq
<1>3. CASE view.k = "router"
  <2>1. ViewRoutes(f, path, pattern) = IF view.var \notin found.vars THEN <<>> ELSE FlattenSeq(lists)
    BY <1>3 DEF ViewRoutes
  <2>2. IsSeq(found.regs) /\ \A reg \in ToSet(found.regs) : IsSeq(reg.prefix)
    BY FilesFacts, RegistrationsFacts
  <2> HIDE DEF found
  <2>3. /\ Len(found.regs) \in Nat /\ DOMAIN found.regs = 1..Len(found.regs)
        /\ \A i \in DOMAIN found.regs : IsSeq(found.regs[i].prefix)
    BY <2>2, SeqFacts
  <2>4. \A i \in DOMAIN lists : IsRoutes(lists[i])
    BY <2>3, RegistrationRoutesFacts
  <2>5. DOMAIN lists = 1..Len(found.regs) /\ lists = [i \in 1..Len(found.regs) |-> lists[i]]
    BY <2>3
  <2> HIDE DEF lists
  <2>6. IsSeq(lists)
    BY <2>3, <2>5, MapIsSeq
  <2> QED
    BY <2>1, <2>4, <2>6, FlattenRoutes, NoRoutes
<1>4. CASE view.k \notin {"asview", "ref", "router"}
  <2>1. ViewRoutes(f, path, pattern) = <<>>
    BY <1>4 DEF ViewRoutes
  <2> QED
    BY <2>1, NoRoutes
<1> QED
  BY <1>1, <1>2, <1>3, <1>4

-----------------------------------------------------------------------------
(* The folds: of PrefixesIn, RoutesIn, Detected, Template and Mounts.      *)

\* One step of each fold.
Step(kind, acc, x) ==
    CASE kind = "prefixes" -> Collect(acc, x)
      [] kind = "routes"   -> Extract(acc, x)
      [] kind = "settings" -> ReadLine(acc, x)
      [] kind = "names"    -> Renamed(acc, x)
      [] kind = "mounts"   -> MountsVia(acc, x)

\* The function FoldLeft chooses: what the elements at any places amount to.
Folded(F, kind, base, s) ==
    F = [t \in SUBSET DOMAIN s |->
           IF t = {} THEN base ELSE Step(kind, F[t \ {Max(t)}], s[Max(t)])]

\* What the first i elements amount to, for every i.
Runs(f, kind, base, s) ==
    f[0] = base /\ \A i \in 1..Len(s) : f[i] = Step(kind, f[i - 1], s[i])

\* The function that FoldLeft chooses exists, by induction over the list:
LEMMA FoldExists ==
  ASSUME NEW kind, NEW base, NEW s, IsSeq(s)
  PROVE  \E F : Folded(F, kind, base, s)
<1> DEFINE G(h, D) == [t \in SUBSET D |->
                         IF t = {} THEN base ELSE Step(kind, h[t \ {Max(t)}], s[Max(t)])]
           Have == {m \in Nat : \E h : h = G(h, 1..m)}
<1>1. 0 \in Have
  <2> DEFINE h == [t \in SUBSET (1..0) |-> base]
  <2>1. h = G(h, 1..0)
    OBVIOUS
  <2> QED
    BY <2>1
<1>2. ASSUME NEW m \in Nat, m \in Have PROVE m + 1 \in Have
  <2>1. PICK g : g = G(g, 1..m)
    BY <1>2
  <2> DEFINE h == [t \in SUBSET (1..(m + 1)) |->
                     IF m + 1 \in t THEN Step(kind, g[t \ {m + 1}], s[m + 1]) ELSE g[t]]
  <2>2. ASSUME NEW t \in SUBSET (1..(m + 1)) PROVE h[t] = G(h, 1..(m + 1))[t]
    <3>1. G(h, 1..(m + 1))[t] = IF t = {} THEN base ELSE Step(kind, h[t \ {Max(t)}], s[Max(t)])
      OBVIOUS
    <3>2. CASE t = {}
      BY <2>1, <3>1, <3>2
    <3>3. CASE t # {}
      <4> DEFINE x == Max(t)
                 u == t \ {x}
      <4>1. /\ u \in SUBSET (1..m) /\ m + 1 \notin u /\ u \in SUBSET (1..(m + 1))
            /\ m + 1 \in t => x = m + 1
            /\ m + 1 \notin t => t \in SUBSET (1..m)
        BY <3>3, LastPlace
      <4>2. h[u] = g[u]
        <5> HIDE DEF u
        <5> QED
          BY <4>1
      <4>3. CASE m + 1 \in t
        BY <3>1, <3>3, <4>1, <4>2, <4>3
      <4>4. CASE m + 1 \notin t
        <5>1. h[t] = g[t] /\ t \in SUBSET (1..m)
          BY <4>1, <4>4
        <5>2. g[t] = Step(kind, g[u], s[x])
          BY <2>1, <3>3, <5>1
        <5> QED
          BY <3>1, <3>3, <4>2, <5>1, <5>2
      <4> QED
        BY <4>3, <4>4
    <3> QED
      BY <3>2, <3>3
  <2>3. h = G(h, 1..(m + 1))
    <3>1. h = [t \in SUBSET (1..(m + 1)) |-> h[t]]
      OBVIOUS
    <3>2. G(h, 1..(m + 1)) = [t \in SUBSET (1..(m + 1)) |-> G(h, 1..(m + 1))[t]]
      OBVIOUS
    <3> HIDE DEF h, G
    <3> QED
      BY <2>2, <3>1, <3>2
  <2> HIDE DEF h, G
  <2> QED
    BY <2>3
<1>3. Len(s) \in Nat /\ DOMAIN s = 1..Len(s)
  BY SeqFacts
<1>4. Len(s) \in Have
  <2> HIDE DEF Have
  <2> QED
    BY <1>1, <1>2, <1>3, NatInduct
<1>5. PICK F : F = G(F, DOMAIN s)
  <2> HIDE DEF G
  <2> QED
    BY <1>3, <1>4
<1> QED
  BY <1>5 DEF Folded

\* it takes one step after the other, so that every fold does:
LEMMA FoldRuns ==
  ASSUME NEW kind, NEW base, NEW s, IsSeq(s), NEW F, Folded(F, kind, base, s)
  PROVE  \E f : Runs(f, kind, base, s) /\ F[DOMAIN s] = f[Len(s)]
<1> DEFINE f == [i \in 0..Len(s) |-> F[1..i]]
<1>1. Len(s) \in Nat /\ DOMAIN s = 1..Len(s)
  BY SeqFacts
<1>2. \A t \in SUBSET (1..Len(s)) :
        F[t] = IF t = {} THEN base ELSE Step(kind, F[t \ {Max(t)}], s[Max(t)])
  BY <1>1 DEF Folded
<1>3. f[0] = base
  <2>1. 1..0 = {} /\ {} \in SUBSET (1..Len(s))
    OBVIOUS
  <2>2. F[{}] = base
    BY <1>2, <2>1
  <2> QED
    BY <1>1, <2>1, <2>2
<1>4. ASSUME NEW i \in 1..Len(s) PROVE f[i] = Step(kind, f[i - 1], s[i])
  <2>1. /\ i \in Nat \ {0} /\ 1..i \in SUBSET (1..Len(s)) /\ i \in 0..Len(s) /\ i - 1 \in 0..Len(s)
        /\ Max(1..i) = i /\ (1..i) \ {i} = 1..(i - 1) /\ 1..i # {}
    BY <1>1, Interval
  <2>2. F[1..i] = Step(kind, F[1..(i - 1)], s[i])
    BY <1>2, <2>1
  <2>3. f[i] = F[1..i] /\ f[i - 1] = F[1..(i - 1)]
    BY <2>1
  <2> QED
    BY <2>2, <2>3
<1>5. F[DOMAIN s] = f[Len(s)]
  BY <1>1
<1> HIDE DEF f
<1> QED
  BY <1>3, <1>4, <1>5 DEF Runs

\* that of RoutesIn,
LEMMA ExtractRuns ==
  ASSUME NEW base, NEW s, IsSeq(s)
  PROVE  \E f : Runs(f, "routes", base, s) /\ FoldLeft(Extract, base, s) = f[Len(s)]
<1> DEFINE G(h) == [t \in SUBSET DOMAIN s |->
                      IF t = {} THEN base ELSE Extract(h[t \ {Max(t)}], s[Max(t)])]
           F == CHOOSE h : h = G(h)
<1>1. FoldLeft(Extract, base, s) = F[DOMAIN s]
  BY DEF FoldLeft, MapThenFoldSet
<1>2. \A h : Folded(h, "routes", base, s) <=> h = G(h)
  BY DEF Folded, Step
<1>3. F = G(F)
  <2> HIDE DEF G
  <2> QED
    BY <1>2, FoldExists
<1> HIDE DEF F, G
<1>4. Folded(F, "routes", base, s)
  BY <1>2, <1>3
<1> QED
  BY <1>1, <1>4, FoldRuns

\* that of PrefixesIn,
LEMMA CollectRuns ==
  ASSUME NEW base, NEW s, IsSeq(s)
  PROVE  \E f : Runs(f, "prefixes", base, s) /\ FoldLeft(Collect, base, s) = f[Len(s)]
<1> DEFINE G(h) == [t \in SUBSET DOMAIN s |->
                      IF t = {} THEN base ELSE Collect(h[t \ {Max(t)}], s[Max(t)])]
           F == CHOOSE h : h = G(h)
<1>1. FoldLeft(Collect, base, s) = F[DOMAIN s]
  BY DEF FoldLeft, MapThenFoldSet
<1>2. \A h : Folded(h, "prefixes", base, s) <=> h = G(h)
  BY DEF Folded, Step
<1>3. F = G(F)
  <2> HIDE DEF G
  <2> QED
    BY <1>2, FoldExists
<1> HIDE DEF F, G
<1>4. Folded(F, "prefixes", base, s)
  BY <1>2, <1>3
<1> QED
  BY <1>1, <1>4, FoldRuns

\* that of Template,
LEMMA NamesRun ==
  ASSUME NEW base, NEW s, IsSeq(s)
  PROVE  \E f : Runs(f, "names", base, s) /\ FoldLeft(Renamed, base, s) = f[Len(s)]
<1> DEFINE G(h) == [t \in SUBSET DOMAIN s |->
                      IF t = {} THEN base ELSE Renamed(h[t \ {Max(t)}], s[Max(t)])]
           F == CHOOSE h : h = G(h)
<1>1. FoldLeft(Renamed, base, s) = F[DOMAIN s]
  BY DEF FoldLeft, MapThenFoldSet
<1>2. \A h : Folded(h, "names", base, s) <=> h = G(h)
  BY DEF Folded, Step
<1>3. F = G(F)
  <2> HIDE DEF G
  <2> QED
    BY <1>2, FoldExists
<1> HIDE DEF F, G
<1>4. Folded(F, "names", base, s)
  BY <1>2, <1>3
<1> QED
  BY <1>1, <1>4, FoldRuns

\* that of Mounts,
LEMMA MountsRun ==
  ASSUME NEW base, NEW s, IsSeq(s)
  PROVE  \E f : /\ Runs(f, "mounts", base, s)
               /\ FoldLeft(MountsVia, base, s) = f[Len(s)]
<1> DEFINE G(h) == [t \in SUBSET DOMAIN s |-> IF t = {} THEN base ELSE MountsVia(h[t \ {Max(t)}], s[Max(t)])]
           F == CHOOSE h : h = G(h)
<1>1. FoldLeft(MountsVia, base, s) = F[DOMAIN s]
  BY DEF FoldLeft, MapThenFoldSet
<1>2. \A h : Folded(h, "mounts", base, s) <=> h = G(h)
  BY DEF Folded, Step
<1>3. F = G(F)
  <2> HIDE DEF G
  <2> QED
    BY <1>2, FoldExists
<1> HIDE DEF F, G
<1>4. Folded(F, "mounts", base, s)
  BY <1>2, <1>3
<1> QED
  BY <1>1, <1>4, FoldRuns

\* and that of Detected.
LEMMA SettingsRun ==
  ASSUME NEW base, NEW s, IsSeq(s)
  PROVE  \E f : Runs(f, "settings", base, s) /\ FoldLeft(ReadLine, base, s) = f[Len(s)]
<1> DEFINE G(h) == [t \in SUBSET DOMAIN s |->
                      IF t = {} THEN base ELSE ReadLine(h[t \ {Max(t)}], s[Max(t)])]
           F == CHOOSE h : h = G(h)
<1>1. FoldLeft(ReadLine, base, s) = F[DOMAIN s]
  BY DEF FoldLeft, MapThenFoldSet
<1>2. \A h : Folded(h, "settings", base, s) <=> h = G(h)
  BY DEF Folded, Step
<1>3. F = G(F)
  <2> HIDE DEF G
  <2> QED
    BY <1>2, FoldExists
<1> HIDE DEF F, G
<1>4. Folded(F, "settings", base, s)
  BY <1>2, <1>3
<1> QED
  BY <1>1, <1>4, FoldRuns

\* The files a repository's calls include are files of it.
LEMMA PrefixesInFacts ==
  ASSUME repo \in Repos, NEW file, IsFile(file)
  PROVE  DOMAIN PrefixesIn(file) \subseteq DOMAIN Files
<1> DEFINE base == [imports |-> <<>>, constants |-> <<>>, prefixes |-> <<>>]
           body == file.body
<1>1. PrefixesIn(file) = IF file.broken THEN <<>> ELSE FoldLeft(Collect, base, body).prefixes
  BY DEF PrefixesIn
<1>2. IsSeq(body) /\ Len(body) \in Nat
  BY SeqFacts DEF IsFile
<1>3. PICK f : Runs(f, "prefixes", base, body) /\ FoldLeft(Collect, base, body) = f[Len(body)]
  BY <1>2, CollectRuns
<1> DEFINE Good(acc) ==
             /\ acc = [imports |-> acc.imports, constants |-> acc.constants, prefixes |-> acc.prefixes]
             /\ DOMAIN acc.prefixes \subseteq DOMAIN Files
           Have == {m \in Nat : m <= Len(body) => Good(f[m])}
<1>4. 0 \in Have
  <2>1. f[0] = base
    BY <1>3 DEF Runs
  <2>2. Good(base)
    OBVIOUS
  <2> HIDE DEF Good, base
  <2> QED
    BY <2>1, <2>2
<1>5. ASSUME NEW m \in Nat, m \in Have PROVE m + 1 \in Have
  <2> SUFFICES ASSUME m + 1 <= Len(body) PROVE Good(f[m + 1])
    OBVIOUS
  <2> DEFINE acc == f[m]
             s == body[m + 1]
  <2>1. Good(acc)
    BY <1>2, <1>5
  <2>2. f[m + 1] = Collect(acc, s)
    <3>1. (m + 1) - 1 = m /\ m + 1 \in 1..Len(body)
      BY <1>2
    <3> QED
      BY <1>3, <3>1 DEF Runs, Step
  <2> HIDE DEF acc, s
  <2>3. CASE s.k = "import"
    <3>1. Collect(acc, s) = [acc EXCEPT !.imports = IF s.from THEN Append(@, s) ELSE @]
      BY <2>3 DEF Collect
    <3> QED
      BY <2>1, <2>2, <3>1
  <2>4. CASE s.k = "const"
    <3>1. Collect(acc, s) = [acc EXCEPT !.constants = Put(@, s.name, s.value)]
      BY <2>4 DEF Collect
    <3> QED
      BY <2>1, <2>2, <3>1
  <2>5. CASE s.k = "include"
    <3> DEFINE to == RouterFile(s.router, acc.imports)
               prefix == Value(s.prefix, acc.constants)
    <3>1. Collect(acc, s) = IF to # 0 /\ prefix \notin {<<>>, Unknown}
                            THEN [acc EXCEPT !.prefixes = Put(@, to, prefix)] ELSE acc
      BY <2>5 DEF Collect
    <3>2. to \in 0..Len(Files)
      BY FirstFileOfStem, FilesFacts DEF RouterFile
    <3>3. to # 0 => to \in DOMAIN Files
      <4> HIDE DEF to
      <4> QED
        BY <3>2, FilesFacts
    <3> HIDE DEF to, prefix
    <3>4. CASE to # 0 /\ prefix \notin {<<>>, Unknown}
      <4>1. f[m + 1] = [acc EXCEPT !.prefixes = Put(@, to, prefix)]
        BY <2>2, <3>1, <3>4
      <4>2. DOMAIN Put(acc.prefixes, to, prefix) = {to} \cup DOMAIN acc.prefixes
        BY DEF Put, Updated
      <4> QED
        BY <2>1, <3>3, <3>4, <4>1, <4>2
    <3>5. CASE ~(to # 0 /\ prefix \notin {<<>>, Unknown})
      BY <2>1, <2>2, <3>1, <3>5
    <3> QED
      BY <3>4, <3>5
  <2>6. CASE s.k \notin {"import", "const", "include"}
    <3>1. Collect(acc, s) = acc
      BY <2>6 DEF Collect
    <3> QED
      BY <2>1, <2>2, <3>1
  <2> QED
    BY <2>3, <2>4, <2>5, <2>6
<1>6. Len(body) \in Have
  <2> HIDE DEF Have
  <2> QED
    BY <1>2, <1>4, <1>5, NatInduct
<1>7. DOMAIN FoldLeft(Collect, base, body).prefixes \subseteq DOMAIN Files
  BY <1>2, <1>3, <1>6
<1> HIDE DEF base, body
<1> QED
  BY <1>1, <1>7, EmptyIsSeq

\* The parameters of a FastAPI function are a list.
LEMMA FunctionParamsFacts ==
  ASSUME NEW args, IsSeq(args), NEW path
  PROVE  IsSeq(FunctionParams(args, path))
<1> DEFINE I == {i \in DOMAIN args : args[i].name \notin {<<"self">>, <<"cls">>}}
           used == Picked(args, I)
           one(a) == IF IsDependencyParam(a)
                       THEN IF a.form THEN FormFields ELSE <<>>
                       ELSE <<Param(a.name, IF a.name \in Params(path) THEN "path" ELSE "query")>>
           lists == [i \in DOMAIN used |-> one(used[i])]
<1>1. FunctionParams(args, path) = FlattenSeq(lists)
  BY DEF FunctionParams, Filter
<1>2. I \in SUBSET DOMAIN args
  OBVIOUS
<1> HIDE DEF I
<1>3. IsSeq(used)
  BY <1>2, PickedIsSeq
<1> HIDE DEF used
<1>4. ASSUME NEW a PROVE IsSeq(one(a))
  <2>1. IsSeq(FormFields) /\ IsSeq(<<>>)
    BY PairIsSeq, EmptyIsSeq DEF FormFields
  <2>2. IsSeq(<<Param(a.name, IF a.name \in Params(path) THEN "path" ELSE "query")>>)
    BY SingletonIsSeq
  <2> QED
    BY <2>1, <2>2
<1> HIDE DEF one
<1>5. DOMAIN lists = DOMAIN used /\ lists = [i \in DOMAIN used |-> lists[i]] /\ \A i \in DOMAIN lists : IsSeq(lists[i])
  BY <1>4
<1> HIDE DEF lists
<1> QED
  BY <1>1, <1>3, <1>5, EachIsSeq, FlattenIsSeqOf

\* What is extracted from a file is routes.
LEMMA RoutesInFacts ==
  ASSUME NEW file, IsFile(file), NEW filePrefix
  PROVE  IsRoutes(RoutesIn(file, filePrefix))
<1> DEFINE base == [constants |-> <<>>, prefix |-> <<>>, routes |-> <<>>, filePrefix |-> filePrefix]
           body == file.body
<1>1. RoutesIn(file, filePrefix) = IF file.broken THEN <<>> ELSE FoldLeft(Extract, base, body).routes
  BY DEF RoutesIn
<1>2. IsSeq(body) /\ Len(body) \in Nat
  BY SeqFacts DEF IsFile
<1>3. PICK f : Runs(f, "routes", base, body) /\ FoldLeft(Extract, base, body) = f[Len(body)]
  BY <1>2, ExtractRuns
<1> DEFINE Good(acc) ==
             /\ acc = [constants |-> acc.constants, prefix |-> acc.prefix, routes |-> acc.routes,
                       filePrefix |-> acc.filePrefix]
             /\ IsRoutes(acc.routes)
           Have == {m \in Nat : m <= Len(body) => Good(f[m])}
<1>4. 0 \in Have
  BY <1>3, NoRoutes DEF Runs
<1>5. ASSUME NEW m \in Nat, m \in Have PROVE m + 1 \in Have
  <2> SUFFICES ASSUME m + 1 <= Len(body) PROVE Good(f[m + 1])
    OBVIOUS
  <2> DEFINE acc == f[m]
             s == body[m + 1]
  <2>1. Good(acc)
    BY <1>2, <1>5
  <2>2. f[m + 1] = Extract(acc, s)
    <3>1. (m + 1) - 1 = m /\ m + 1 \in 1..Len(body)
      BY <1>2
    <3> QED
      BY <1>3, <3>1 DEF Runs, Step
  <2>s. IsStatement(s)
    <3>1. m + 1 \in DOMAIN body
      BY <1>2, SeqFacts
    <3> QED
      BY <1>2, <3>1, SeqFacts DEF IsFile
  <2> HIDE DEF acc, s
  <2>3. CASE s.k = "const"
    <3>1. Extract(acc, s) = [acc EXCEPT !.constants = Put(@, s.name, s.value)]
      BY <2>3 DEF Extract
    <3> QED
      BY <2>1, <2>2, <3>1
  <2>4. CASE s.k = "router"
    <3>1. Extract(acc, s) = IF s.prefix.k = "text" THEN [acc EXCEPT !.prefix = s.prefix.p] ELSE acc
      BY <2>4 DEF Extract
    <3> QED
      BY <2>1, <2>2, <3>1
  <2>5. CASE s.k = "route"
    <3> DEFINE path == Value(s.path, acc.constants)
               full == FullPath(acc.filePrefix, acc.prefix, path)
               route == Route(s.method, full, s.fn, FunctionParams(s.args, full), "ast")
    <3>1. Extract(acc, s) = IF path = Unknown \/ s.method \notin HttpMethods THEN acc
                            ELSE [acc EXCEPT !.routes = Append(@, route)]
      BY <2>5 DEF Extract
    <3>2. s.method \in HttpMethods => IsRoute(route)
      <4>1. full # <<>>
        BY DEF FullPath, Root
      <4>2. IsSeq(s.args)
        BY <2>5, <2>s DEF IsStatement
      <4> HIDE DEF full
      <4>3. IsSeq(FunctionParams(s.args, full))
        BY <4>2, FunctionParamsFacts
      <4> QED
        BY <4>1, <4>3 DEF IsRoute, Route
    <3> HIDE DEF path, route
    <3>3. IsRoute(route) => IsRoutes(Append(acc.routes, route))
      BY <2>1, AppendIsSeq DEF IsRoutes
    <3>4. CASE path = Unknown \/ s.method \notin HttpMethods
      BY <2>1, <2>2, <3>1, <3>4
    <3>5. CASE ~(path = Unknown \/ s.method \notin HttpMethods)
      <4>1. f[m + 1] = [acc EXCEPT !.routes = Append(@, route)]
        BY <2>2, <3>1, <3>5
      <4> QED
        BY <2>1, <3>2, <3>3, <3>5, <4>1
    <3> QED
      BY <3>4, <3>5
  <2>6. CASE s.k \notin {"const", "router", "route"}
    <3>1. Extract(acc, s) = acc
      BY <2>6 DEF Extract
    <3> QED
      BY <2>1, <2>2, <3>1
  <2> QED
    BY <2>3, <2>4, <2>5, <2>6
<1>6. Len(body) \in Have
  <2> HIDE DEF Have
  <2> QED
    BY <1>2, <1>4, <1>5, NatInduct
<1>7. IsRoutes(FoldLeft(Extract, base, body).routes)
  BY <1>2, <1>3, <1>6
<1> HIDE DEF base, body
<1> QED
  BY <1>1, <1>7, NoRoutes

-----------------------------------------------------------------------------
(* The FastAPI parser.                                                     *)

\* The statements of one kind are those of the file.
LEMMA OfIsPart ==
  ASSUME NEW file, IsFile(file), NEW kind
  PROVE  ToSet(Of(file, kind)) = {file.body[i] : i \in {j \in DOMAIN file.body : file.body[j].k = kind}}
<1> DEFINE I == {i \in DOMAIN file.body : file.body[i].k = kind}
<1>1. IsSeq(file.body) /\ I \in SUBSET DOMAIN file.body
  BY DEF IsFile
<1>2. Of(file, kind) = Picked(file.body, I)
  BY DEF Of, Filter
<1> QED
  BY <1>1, <1>2, PickedIsSeq

\* A name that is imported once stands for what it was imported from,
LEMMA ImportFound ==
  ASSUME NEW imports, IsSeq(imports), NEW m \in ToSet(imports),
         NEW local, m.local = local, \A x \in ToSet(imports) : x.local = local => x = m
  PROVE  ImportOf(imports, local) = m.path
<1> DEFINE I == {i \in 1..Len(imports) : imports[i].local = local}
           found == IF I # {} THEN Max(I) ELSE 0
<1>1. ImportOf(imports, local) = IF found = 0 THEN <<>> ELSE imports[found].path
  BY DEF ImportOf, SelectLastInSeq
<1>2. Len(imports) \in Nat /\ DOMAIN imports = 1..Len(imports)
  BY SeqFacts
<1>3. PICK i \in DOMAIN imports : m = imports[i]
  BY SeqFacts
<1>4. i \in I /\ I \in SUBSET (1..Len(imports))
  BY <1>2, <1>3
<1> HIDE DEF I
<1>5. Max(I) \in I
  BY <1>2, <1>4, MinMax
<1>6. imports[Max(I)] = m /\ Max(I) # 0
  BY <1>2, <1>5, SeqFacts DEF I
<1> QED
  BY <1>1, <1>4, <1>6

\* and one that is not imported for nothing.
LEMMA ImportMissing ==
  ASSUME NEW imports, IsSeq(imports), NEW local, \A x \in ToSet(imports) : x.local # local
  PROVE  ImportOf(imports, local) = <<>>
<1> DEFINE I == {i \in 1..Len(imports) : imports[i].local = local}
<1>1. I = {}
  BY SeqFacts
<1>2. SelectLastInSeq(imports, LAMBDA m : m.local = local) = 0
  BY <1>1 DEF SelectLastInSeq
<1> QED
  BY <1>2 DEF ImportOf

\* Where no two files share a name, a file is found by its name.
LEMMA StemFound ==
  ASSUME repo \in Repos, ByModule, NEW stem
  PROVE  /\ FileByStem(stem) # 0 =>
              FileByStem(stem) \in DOMAIN Files /\ Stem(Files[FileByStem(stem)]) = stem
         /\ \A f \in DOMAIN Files : Stem(Files[f]) = stem => FileByStem(stem) = f
<1> DEFINE I == {i \in 1..Len(Files) : Stem(Files[i]) = stem}
<1>1. FileByStem(stem) = IF I # {} THEN Min(I) ELSE 0
  BY DEF FileByStem, SelectInSeq
<1>2. I \in SUBSET (1..Len(Files)) /\ Len(Files) \in Nat /\ DOMAIN Files = 1..Len(Files)
  BY FilesFacts
<1>3. I # {} => Min(I) \in DOMAIN Files /\ Stem(Files[Min(I)]) = stem
  <2>1. I # {} => Min(I) \in I
    <3> HIDE DEF I
    <3> QED
      BY <1>2, MinMax
  <2> QED
    BY <1>2, <2>1
<1>4. \A f \in DOMAIN Files : Stem(Files[f]) = stem => f \in I
  BY <1>2
<1> HIDE DEF I
<1>5. ASSUME NEW f \in DOMAIN Files, Stem(Files[f]) = stem PROVE Min(I) = f
  BY <1>3, <1>4, <1>5 DEF ByModule, Readable
<1> QED
  BY <1>1, <1>3, <1>4, <1>5

-----------------------------------------------------------------------------
(* The constants of a file.                                                *)

\* Two dictionaries with the same keys and values.
Agree(c, d) == DOMAIN c = DOMAIN d /\ \A n \in DOMAIN c : c[n] = d[n]

\* give an expression the same value.
LEMMA SameValue ==
  ASSUME NEW c, NEW d, Agree(c, d), NEW text
  PROVE  Value(text, c) = Value(text, d)
BY DEF Agree, Value

\* The constants defined before the i-th statement, by the places of a name.
Defined(body, i) == {j \in 1..(i - 1) : body[j].k = "const"}
PlacesOf(body, i, n) == {j \in Defined(body, i) : body[j].name = n}

\* The names that are defined and what each stands for.
LEMMA ConstantNames ==
  ASSUME NEW body, NEW i, NEW D, D = Defined(body, i)
  PROVE  DOMAIN ConstantsBefore(body, i) = {body[j].name : j \in D}
BY DEF ConstantsBefore, Defined

LEMMA ConstantValues ==
  ASSUME NEW body, NEW i, NEW n \in DOMAIN ConstantsBefore(body, i)
  PROVE  ConstantsBefore(body, i)[n] = body[Max(PlacesOf(body, i, n))].value
BY DEF ConstantsBefore, Defined, PlacesOf

\* At first there are none;
LEMMA NoConstants ==
  ASSUME NEW body
  PROVE  Agree(<<>>, ConstantsBefore(body, 1))
<1>1. Defined(body, 1) = {}
  BY DEF Defined
<1>2. DOMAIN ConstantsBefore(body, 1) = {}
  <2>1. DOMAIN ConstantsBefore(body, 1) = {body[j].name : j \in Defined(body, 1)}
    BY ConstantNames
  <2> QED
    BY <1>1, <2>1
<1>3. DOMAIN <<>> = {}
  OBVIOUS
<1> QED
  BY <1>2, <1>3 DEF Agree

\* other statements leave them as they are,
LEMMA ConstantsStay ==
  ASSUME NEW body, NEW i \in Nat \ {0}, body[i].k # "const", NEW c, Agree(c, ConstantsBefore(body, i))
  PROVE  Agree(c, ConstantsBefore(body, i + 1))
<1>1. Defined(body, i + 1) = Defined(body, i)
  <2>1. 1..((i + 1) - 1) = 1..(i - 1) \cup {i}
    OBVIOUS
  <2> QED
    BY <2>1 DEF Defined
<1>2. \A n : PlacesOf(body, i + 1, n) = PlacesOf(body, i, n)
  BY <1>1 DEF PlacesOf
<1> DEFINE d == ConstantsBefore(body, i)
           e == ConstantsBefore(body, i + 1)
<1>3. DOMAIN e = DOMAIN d
  <2>1. DOMAIN d = {body[j].name : j \in Defined(body, i)}
    BY ConstantNames
  <2>2. DOMAIN e = {body[j].name : j \in Defined(body, i)}
    BY <1>1, ConstantNames
  <2> QED
    BY <2>1, <2>2
<1>4. ASSUME NEW n \in DOMAIN d PROVE e[n] = d[n]
  <2>1. d[n] = body[Max(PlacesOf(body, i, n))].value
    BY ConstantValues
  <2>2. e[n] = body[Max(PlacesOf(body, i + 1, n))].value
    BY <1>3, ConstantValues
  <2> QED
    BY <1>2, <2>1, <2>2
<1> HIDE DEF d, e
<1>5. Agree(c, d)
  BY DEF d
<1>6. Agree(c, e)
  BY <1>3, <1>4, <1>5 DEF Agree
<1> QED
  BY <1>6 DEF e

\* and an assignment sets one.
LEMMA ConstantSet ==
  ASSUME NEW body, NEW i \in Nat \ {0}, body[i].k = "const", NEW c, Agree(c, ConstantsBefore(body, i))
  PROVE  Agree(Put(c, body[i].name, body[i].value), ConstantsBefore(body, i + 1))
<1> DEFINE name == body[i].name
           p == Put(c, name, body[i].value)
           d == ConstantsBefore(body, i + 1)
<1>1. Defined(body, i + 1) = Defined(body, i) \cup {i}
  <2>1. 1..((i + 1) - 1) = 1..(i - 1) \cup {i}
    OBVIOUS
  <2> QED
    BY <2>1 DEF Defined
<1>2. DOMAIN d = DOMAIN c \cup {name}
  <2>1. DOMAIN d = {body[j].name : j \in Defined(body, i) \cup {i}}
    BY <1>1, ConstantNames
  <2>2. DOMAIN c = {body[j].name : j \in Defined(body, i)}
    BY ConstantNames DEF Agree
  <2> HIDE DEF d
  <2> QED
    BY <2>1, <2>2
<1>3. /\ DOMAIN p = DOMAIN c \cup {name} /\ p[name] = body[i].value
      /\ \A n \in DOMAIN c : n # name => p[n] = c[n]
  BY DEF Put, Updated
<1>4. d[name] = body[i].value
  <2> DEFINE t == PlacesOf(body, i + 1, name)
  <2>1. i \in t /\ t \in SUBSET (1..((i - 1) + 1)) /\ i - 1 \in Nat /\ (i - 1) + 1 = i
    BY <1>1 DEF PlacesOf, Defined
  <2> HIDE DEF t
  <2>2. Max(t) = i
    <3>1. (i - 1) + 1 \in t => Max(t) = (i - 1) + 1
      BY <2>1, LastPlace
    <3> QED
      BY <2>1, <3>1
  <2>3. d[name] = body[Max(t)].value
    <3>1. name \in DOMAIN d
      BY <1>2
    <3> QED
      BY <3>1, ConstantValues DEF t
  <2> QED
    BY <2>2, <2>3
<1>5. ASSUME NEW n \in DOMAIN c, n # name PROVE d[n] = c[n]
  <2>1. PlacesOf(body, i + 1, n) = PlacesOf(body, i, n)
    BY <1>1, <1>5 DEF PlacesOf
  <2>2. d[n] = body[Max(PlacesOf(body, i + 1, n))].value
    BY <1>2, ConstantValues
  <2>3. c[n] = body[Max(PlacesOf(body, i, n))].value
    BY ConstantValues DEF Agree
  <2> QED
    BY <2>1, <2>2, <2>3
<1> HIDE DEF p, d
<1>6. Agree(p, d)
  BY <1>2, <1>3, <1>4, <1>5 DEF Agree
<1> QED
  BY <1>6 DEF p, d

\* A value that is known is a list of segments.
LEMMA ValueIsSeq ==
  ASSUME NEW file, IsFile(file), NEW i \in DOMAIN file.body, NEW text, IsText(text),
         Value(text, ConstantsBefore(file.body, i)) # Unknown
  PROVE  IsSeq(Value(text, ConstantsBefore(file.body, i)))
<1> DEFINE body == file.body
           c == ConstantsBefore(body, i)
<1>1. IsSeq(body) /\ DOMAIN body = 1..Len(body) /\ Len(body) \in Nat /\ \A j \in DOMAIN body : IsStatement(body[j])
  BY SeqFacts DEF IsFile
<1>2. CASE text.k = "text"
  BY <1>2 DEF Value, IsText
<1>3. CASE text.k # "text"
  <2>1. text.name \in DOMAIN c /\ Value(text, c) = c[text.name]
    BY <1>3 DEF Value
  <2> DEFINE t == PlacesOf(body, i, text.name)
  <2>2. t # {} /\ t \in SUBSET (1..Len(body)) /\ \A j \in t : body[j].k = "const"
    <3>1. Defined(body, i) \in SUBSET (1..Len(body)) /\ \A j \in Defined(body, i) : body[j].k = "const"
      BY <1>1 DEF Defined
    <3>2. DOMAIN c = {body[j].name : j \in Defined(body, i)}
      BY ConstantNames
    <3>3. PICK j \in Defined(body, i) : body[j].name = text.name
      <4> HIDE DEF c
      <4> QED
        BY <2>1, <3>2
    <3> QED
      BY <3>1, <3>3 DEF PlacesOf
  <2>3. c[text.name] = body[Max(t)].value
    BY <2>1, ConstantValues
  <2> HIDE DEF t
  <2>4. Max(t) \in t
    BY <1>1, <2>2, MinMax
  <2>5. IsSeq(body[Max(t)].value)
    BY <1>1, <2>2, <2>4 DEF IsStatement
  <2> QED
    BY <2>1, <2>3, <2>5
<1> QED
  BY <1>2, <1>3

-----------------------------------------------------------------------------
(* The prefix pass.                                                        *)

\* The from imports of a body's first m statements.
FromImports(body, m) == {body[k] : k \in {j \in 1..m : body[j].k = "import" /\ body[j].from}}

\* The call at the i-th statement of a file goes to the file that its router was
\* imported from.
LEMMA CallResolves ==
  ASSUME repo \in Repos, ByModule, NEW g \in DOMAIN Files, NEW body, body = Files[g].body,
         NEW i \in DOMAIN body, body[i].k = "include",
         NEW imports, IsSeq(imports), ToSet(imports) = FromImports(body, i - 1),
         NEW to, to = RouterFile(body[i].router, imports)
  PROVE  /\ to # 0 => to \in DOMAIN Files /\ <<g, i>> \in Inclusions(to)
         /\ \A f \in DOMAIN Files : <<g, i>> \in Inclusions(f) => to = f
<1> DEFINE name == body[i].router.name
<1>1. /\ IsSeq(body) /\ DOMAIN body = 1..Len(body) /\ Len(body) \in Nat /\ i \in Nat
      /\ IsFile(Files[g]) /\ \A j \in DOMAIN body : IsStatement(body[j])
  <2>1. IsFile(Files[g])
    BY FilesFacts
  <2>2. IsSeq(body)
    BY <2>1 DEF IsFile
  <2> QED
    BY <2>1, <2>2, SeqFacts DEF IsFile
<1>2. body[i].router.k = "attr" /\ Imported(body, i)
  <2>1. body[i] \in ToSet(body)
    BY <1>1, SeqFacts
  <2> QED
    BY <2>1 DEF ByModule, Readable, ReadableFile, ReadableStatement
<1> DEFINE NamedAlike == {j \in DOMAIN body : body[j].k = "import" /\ body[j].local = name}
<1>3. PICK j \in 1..(i - 1) : NamedAlike = {j} /\ (body[j].from \/ body[j].local = Last(body[j].path))
  BY <1>2 DEF Imported
<1>4. j \in DOMAIN body /\ body[j].k = "import" /\ body[j].local = name
  BY <1>3
<1>5. \A k \in DOMAIN body : body[k].k = "import" /\ body[k].local = name => k = j
  BY <1>3
<1> DEFINE path == body[j].path
<1>6. IsSeq(path) /\ path # <<>>
  BY <1>1, <1>4 DEF IsStatement
<1> HIDE DEF NamedAlike
<1>7. ImportOf(Imports(Files[g]), name) = path
  <2> DEFINE all == Of(Files[g], "import")
  <2>1. IsSeq(all) /\ ToSet(all) = {body[k] : k \in {l \in DOMAIN body : body[l].k = "import"}}
    BY <1>1, OfFacts, OfIsPart
  <2>2. body[j] \in ToSet(all)
    BY <1>4, <2>1
  <2>3. \A x \in ToSet(all) : x.local = name => x = body[j]
    BY <1>5, <2>1
  <2> HIDE DEF all, name
  <2>4. ImportOf(all, name) = path
    BY <1>4, <2>1, <2>2, <2>3, ImportFound
  <2> QED
    BY <2>4 DEF all, Imports
<1>8. to = FileByStem(Last(path))
  <2> HIDE DEF name
  <2>1. CASE body[j].from
    <3>1. body[j] \in ToSet(imports)
      BY <1>3, <1>4, <2>1 DEF FromImports
    <3>2. \A x \in ToSet(imports) : x.local = name => x = body[j]
      <4>1. \A k \in 1..(i - 1) : k \in DOMAIN body
        BY <1>1
      <4> QED
        BY <1>5, <4>1 DEF FromImports
    <3>3. ImportOf(imports, name) = path
      BY <1>4, <3>1, <3>2, ImportFound
    <3> QED
      BY <1>6, <3>3 DEF RouterFile, name
  <2>2. CASE ~body[j].from
    <3>1. \A x \in ToSet(imports) : x.local # name
      <4>1. \A k \in 1..(i - 1) : k \in DOMAIN body
        BY <1>1
      <4> QED
        BY <1>5, <2>2, <4>1 DEF FromImports
    <3>2. ImportOf(imports, name) = <<>>
      BY <3>1, ImportMissing
    <3>3. name = Last(path)
      BY <1>3, <1>4, <2>2
    <3> QED
      BY <1>2, <3>2, <3>3 DEF RouterFile, name
  <2> QED
    BY <2>1, <2>2
<1>9. \A f : <<g, i>> \in Inclusions(f) <=> Last(path) = Stem(Files[f])
  <2>1. <<g, i>> \in UNION {{h} \X DOMAIN Files[h].body : h \in DOMAIN Files}
    OBVIOUS
  <2> DEFINE c == <<g, i>>
  <2>2. c[1] = g /\ c[2] = i
    OBVIOUS
  <2> HIDE DEF c, path
  <2>4. ModuleOf(Imports(Files[g]), body[i].router) = path
    BY <1>2, <1>7 DEF ModuleOf
  <2>3. \A f : c \in Inclusions(f) <=> Last(path) = Stem(Files[f])
    BY <1>6, <2>1, <2>2, <2>4 DEF Inclusions, c, path
  <2> QED
    BY <2>3 DEF c, path
<1> HIDE DEF path, name
<1>10. /\ to # 0 => to \in DOMAIN Files /\ Stem(Files[to]) = Last(path)
       /\ \A f \in DOMAIN Files : Stem(Files[f]) = Last(path) => to = f
  BY <1>8, StemFound
<1> QED
  BY <1>9, <1>10

\* What a prefix map says of the calls c with IsRead(c) that have a prefix: those of
\* file g up to its m-th statement,
MappedIn(p, g, m) ==
    /\ DOMAIN p \subseteq DOMAIN Files
    /\ \A f \in DOMAIN p : \E i \in 1..m : <<g, i>> \in Inclusions(f) /\ CalledWith(<<g, i>>) # <<>>
                                          /\ p[f] = CalledWith(<<g, i>>)
    /\ \A f \in DOMAIN Files : \A i \in 1..m :
         <<g, i>> \in Inclusions(f) /\ CalledWith(<<g, i>>) # <<>> => f \in DOMAIN p

\* The prefixes a file maps are those its calls give.
LEMMA PrefixesInRight ==
  ASSUME repo \in Repos, ByModule, NEW g \in DOMAIN Files
  PROVE  MappedIn(PrefixesIn(Files[g]), g, Len(Files[g].body))
<1> DEFINE base == [imports |-> <<>>, constants |-> <<>>, prefixes |-> <<>>]
           body == Files[g].body
<1>1. PrefixesIn(Files[g]) = FoldLeft(Collect, base, body).prefixes
  <2>1. ~Files[g].broken
    BY DEF ByModule, Readable, ReadableFile
  <2> QED
    BY <2>1 DEF PrefixesIn
<1>2. /\ IsSeq(body) /\ Len(body) \in Nat /\ DOMAIN body = 1..Len(body)
      /\ \A i \in DOMAIN body : IsStatement(body[i])
  <2>1. IsSeq(body) /\ \A s \in ToSet(body) : IsStatement(s)
    BY FilesFacts DEF IsFile
  <2> QED
    BY <2>1, SeqFacts
<1>3. PICK f : Runs(f, "prefixes", base, body) /\ FoldLeft(Collect, base, body) = f[Len(body)]
  BY <1>2, CollectRuns
<1> DEFINE Good(acc, m) ==
             /\ acc = [imports |-> acc.imports, constants |-> acc.constants, prefixes |-> acc.prefixes]
             /\ IsSeq(acc.imports) /\ ToSet(acc.imports) = FromImports(body, m)
             /\ Agree(acc.constants, ConstantsBefore(body, m + 1))
             /\ MappedIn(acc.prefixes, g, m)
           Have == {m \in Nat : m <= Len(body) => Good(f[m], m)}
<1>4. 0 \in Have
  <2>1. f[0] = base
    BY <1>3 DEF Runs
  <2>2. FromImports(body, 0) = {}
    BY DEF FromImports
  <2>3. MappedIn(<<>>, g, 0)
    <3>1. DOMAIN <<>> = {} /\ 1..0 = {}
      OBVIOUS
    <3> QED
      BY <3>1 DEF MappedIn
  <2>4. Agree(<<>>, ConstantsBefore(body, 0 + 1))
    <3>1. 0 + 1 = 1
      OBVIOUS
    <3> QED
      BY <3>1, NoConstants
  <2>5. base = [imports |-> base.imports, constants |-> base.constants, prefixes |-> base.prefixes]
        /\ base.imports = <<>> /\ base.constants = <<>> /\ base.prefixes = <<>>
    OBVIOUS
  <2> HIDE DEF base, body
  <2>6. Good(base, 0)
    BY <2>2, <2>3, <2>4, <2>5, EmptyIsSeq
  <2> QED
    BY <2>1, <2>6
<1>5. ASSUME NEW m \in Nat, m \in Have PROVE m + 1 \in Have
  <2> SUFFICES ASSUME m + 1 <= Len(body) PROVE Good(f[m + 1], m + 1)
    OBVIOUS
  <2> DEFINE acc == f[m]
             s == body[m + 1]
             i == m + 1
  <2>1. Good(acc, m) /\ i \in DOMAIN body /\ i \in Nat \ {0} /\ i - 1 = m
    BY <1>2, <1>5
  <2>2. f[m + 1] = Collect(acc, s)
    <3>1. (m + 1) - 1 = m /\ m + 1 \in 1..Len(body)
      BY <1>2
    <3> QED
      BY <1>3, <3>1 DEF Runs, Step
  <2>a. /\ acc = [imports |-> acc.imports, constants |-> acc.constants, prefixes |-> acc.prefixes]
        /\ IsSeq(acc.imports) /\ ToSet(acc.imports) = FromImports(body, m)
        /\ Agree(acc.constants, ConstantsBefore(body, i))
        /\ MappedIn(acc.prefixes, g, m)
    BY <2>1
  <2>b. 1..i = 1..m \cup {i}
    OBVIOUS
  <2>c. s.k # "import" \/ ~s.from => FromImports(body, i) = FromImports(body, m)
    BY <2>b DEF FromImports
  <2>d. s.k # "const" => Agree(acc.constants, ConstantsBefore(body, i + 1))
    BY <2>1, <2>a, ConstantsStay
  <2>e. s.k # "include" => MappedIn(acc.prefixes, g, i)
    <3> SUFFICES ASSUME s.k # "include" PROVE MappedIn(acc.prefixes, g, i)
      OBVIOUS
    <3>1. \A h : <<g, i>> \notin Inclusions(h)
      BY DEF Inclusions
    <3> HIDE DEF acc, s, i
    <3> QED
      BY <2>a, <2>b, <3>1 DEF MappedIn
  <2> HIDE DEF acc
  <2> SUFFICES /\ IsSeq(Collect(acc, s).imports) /\ ToSet(Collect(acc, s).imports) = FromImports(body, i)
               /\ Agree(Collect(acc, s).constants, ConstantsBefore(body, i + 1))
               /\ MappedIn(Collect(acc, s).prefixes, g, i)
               /\ Collect(acc, s) = [imports |-> Collect(acc, s).imports,
                      constants |-> Collect(acc, s).constants, prefixes |-> Collect(acc, s).prefixes]
    BY <2>2
  <2> HIDE DEF s, i
  <2>3. CASE s.k = "import"
    <3>1. Collect(acc, s) = [acc EXCEPT !.imports = IF s.from THEN Append(@, s) ELSE @]
      BY <2>3 DEF Collect
    <3>2. CASE s.from
      <4>1. Collect(acc, s) = [imports |-> Append(acc.imports, s), constants |-> acc.constants,
                               prefixes |-> acc.prefixes]
        BY <2>a, <3>1, <3>2
      <4>2. FromImports(body, i) = FromImports(body, m) \cup {s}
        BY <2>3, <2>b, <3>2 DEF FromImports, s, i
      <4>3. IsSeq(Append(acc.imports, s)) /\ ToSet(Append(acc.imports, s)) = FromImports(body, i)
        BY <2>a, <4>2, AppendIsSeq
      <4> QED
        BY <2>3, <2>d, <2>e, <4>1, <4>3
    <3>3. CASE ~s.from
      <4>1. Collect(acc, s) = acc
        BY <2>a, <3>1, <3>3
      <4> QED
        BY <2>3, <2>a, <2>c, <2>d, <2>e, <3>3, <4>1
    <3> QED
      BY <3>2, <3>3
  <2>4. CASE s.k = "const"
    <3>1. Collect(acc, s) = [imports |-> acc.imports, prefixes |-> acc.prefixes,
                             constants |-> Put(acc.constants, s.name, s.value)]
      BY <2>4, <2>a DEF Collect
    <3>2. Agree(Put(acc.constants, s.name, s.value), ConstantsBefore(body, i + 1))
      BY <2>4, <2>1, <2>a, ConstantSet DEF s, i
    <3> QED
      BY <2>4, <2>a, <2>c, <2>e, <3>1, <3>2
  <2>5. CASE s.k = "include"
    <3> DEFINE to == RouterFile(s.router, acc.imports)
               prefix == Value(s.prefix, acc.constants)
    <3>1. Collect(acc, s) = IF to # 0 /\ prefix \notin {<<>>, Unknown}
                            THEN [acc EXCEPT !.prefixes = Put(@, to, prefix)] ELSE acc
      BY <2>5 DEF Collect
    <3>2. /\ to # 0 => to \in DOMAIN Files /\ <<g, i>> \in Inclusions(to)
          /\ \A h \in DOMAIN Files : <<g, i>> \in Inclusions(h) => to = h
      <4>1. ToSet(acc.imports) = FromImports(body, i - 1)
        BY <2>1, <2>a
      <4> QED
        BY <2>1, <2>5, <2>a, <4>1, CallResolves DEF s
    <3>3. prefix = CalledWith(<<g, i>>) /\ prefix # Unknown
      <4>1. prefix = Value(s.prefix, ConstantsBefore(body, i))
        BY <2>a, SameValue
      <4>2. CalledWith(<<g, i>>) = Value(s.prefix, ConstantsBefore(body, i))
        BY DEF CalledWith, s, i, body
      <4>3. PlainPrefix(CalledWith(<<g, i>>))
        <5>1. ReadableFile(g)
          BY DEF ByModule, Readable
        <5>2. ReadableStatement(g, i)
          BY <2>1, <5>1 DEF ReadableFile, body
        <5> QED
          BY <2>5, <5>2 DEF ReadableStatement, s, i, body
      <4> HIDE DEF prefix
      <4> QED
        BY <4>1, <4>2, <4>3 DEF PlainPrefix
    <3>4. \A h \in DOMAIN Files : \A c, d \in Inclusions(h) : c = d
      BY DEF ByModule, Readable, ReadableFile
    <3> HIDE DEF to, prefix
    <3>5. CASE to # 0 /\ prefix # <<>>
      <4> DEFINE q == Put(acc.prefixes, to, prefix)
      <4>1. Collect(acc, s) = [imports |-> acc.imports, constants |-> acc.constants, prefixes |-> q]
        BY <2>a, <3>1, <3>3, <3>5
      <4>2. /\ DOMAIN q = DOMAIN acc.prefixes \cup {to} /\ q[to] = prefix
            /\ \A h \in DOMAIN acc.prefixes : h # to => q[h] = acc.prefixes[h]
        BY DEF Put, Updated
      <4> HIDE DEF q
      <4>3. MappedIn(q, g, i)
        <5>1. DOMAIN q \subseteq DOMAIN Files
          BY <2>a, <3>2, <3>5, <4>2 DEF MappedIn
        <5>2. ASSUME NEW h \in DOMAIN q
              PROVE  \E j \in 1..i : <<g, j>> \in Inclusions(h) /\ CalledWith(<<g, j>>) # <<>>
                                      /\ q[h] = CalledWith(<<g, j>>)
          <6>1. CASE h = to
            BY <2>b, <3>2, <3>3, <3>5, <4>2, <6>1
          <6>2. CASE h # to
            <7>1. h \in DOMAIN acc.prefixes /\ q[h] = acc.prefixes[h]
              BY <4>2, <6>2
            <7> QED
              BY <2>a, <2>b, <7>1 DEF MappedIn
          <6> QED
            BY <6>1, <6>2
        <5>3. ASSUME NEW h \in DOMAIN Files, NEW j \in 1..i,
                     <<g, j>> \in Inclusions(h), CalledWith(<<g, j>>) # <<>>
              PROVE  h \in DOMAIN q
          <6>1. CASE j = i
            BY <3>2, <4>2, <5>3, <6>1
          <6>2. CASE j \in 1..m
            BY <2>a, <4>2, <5>3, <6>2 DEF MappedIn
          <6> QED
            BY <2>b, <6>1, <6>2
        <5> QED
          BY <5>1, <5>2, <5>3 DEF MappedIn
      <4> QED
        BY <2>5, <2>a, <2>c, <2>d, <4>1, <4>3
    <3>6. CASE to = 0 \/ prefix = <<>>
      <4>1. Collect(acc, s) = acc
        BY <3>1, <3>6
      <4>2. MappedIn(acc.prefixes, g, i)
        <5>1. \A h \in DOMAIN Files : <<g, i>> \in Inclusions(h) => CalledWith(<<g, i>>) = <<>>
          <6>1. \A h \in DOMAIN Files : h # 0
            BY FilesFacts
          <6> QED
            BY <3>2, <3>3, <3>6, <6>1
        <5> QED
          BY <2>a, <2>b, <5>1 DEF MappedIn
      <4> QED
        BY <2>5, <2>a, <2>c, <2>d, <4>1, <4>2
    <3> QED
      BY <3>5, <3>6
  <2>6. CASE s.k \notin {"import", "const", "include"}
    <3>1. Collect(acc, s) = acc
      BY <2>6 DEF Collect
    <3> QED
      BY <2>6, <2>a, <2>c, <2>d, <2>e, <3>1
  <2> QED
    BY <2>3, <2>4, <2>5, <2>6
<1>6. Len(body) \in Have
  <2> HIDE DEF Have
  <2> QED
    BY <1>2, <1>4, <1>5, NatInduct
<1>7. MappedIn(f[Len(body)].prefixes, g, Len(body))
  BY <1>2, <1>6
<1> HIDE DEF base, body
<1> QED
  BY <1>1, <1>3, <1>7 DEF body

-----------------------------------------------------------------------------
(* The route pass.                                                         *)

\* The prefix a file is included under and that of its router are prefixes as
\* FastAPI asks for.
LEMMA IncludedFacts ==
  ASSUME repo \in Repos, ByModule, NEW g \in DOMAIN Files
  PROVE  RStrip(IncludedUnder(g)) = IncludedUnder(g)
<1>1. CASE Inclusions(g) = {}
  <2>1. IncludedUnder(g) = <<>>
    BY <1>1 DEF IncludedUnder
  <2> QED
    BY <2>1, EmptyIsSeq, RStripPlain
<1>2. CASE Inclusions(g) # {}
  <2> DEFINE c == CHOOSE c \in Inclusions(g) : TRUE
  <2>1. c \in Inclusions(g) /\ IncludedUnder(g) = CalledWith(c)
    BY <1>2 DEF IncludedUnder
  <2> HIDE DEF c
  <2>2. /\ Files[c[1]].body[c[2]].k = "include"
        /\ \E h \in DOMAIN Files : c = <<h, c[2]>> /\ c[1] = h /\ c[2] \in DOMAIN Files[h].body
    <3>1. c \in UNION {{e} \X DOMAIN Files[e].body : e \in DOMAIN Files}
          /\ Files[c[1]].body[c[2]].k = "include"
      BY <2>1 DEF Inclusions
    <3>2. PICK h \in DOMAIN Files : c \in {h} \X DOMAIN Files[h].body
      BY <3>1
    <3>3. c = <<h, c[2]>> /\ c[1] = h /\ c[2] \in DOMAIN Files[h].body
      BY <3>2
    <3> QED
      BY <3>1, <3>3
  <2>0. PICK h \in DOMAIN Files : c = <<h, c[2]>> /\ c[1] = h /\ c[2] \in DOMAIN Files[h].body
    BY <2>2
  <2> DEFINE i == c[2]
             body == Files[h].body
  <2>i. i \in DOMAIN body /\ body[i].k = "include" /\ c = <<h, i>>
    BY <2>0, <2>2
  <2> HIDE DEF i
  <2>3. PlainPrefix(CalledWith(<<h, i>>))
    <3>1. ReadableFile(h)
      BY DEF ByModule, Readable
    <3>2. ReadableStatement(h, i)
      BY <2>i, <3>1 DEF ReadableFile
    <3> QED
      BY <2>i, <3>2 DEF ReadableStatement
  <2>4. CalledWith(<<h, i>>) = Value(body[i].prefix, ConstantsBefore(body, i))
    BY DEF CalledWith
  <2>5. IsFile(Files[h]) /\ IsText(body[i].prefix)
    <3>1. IsFile(Files[h])
      BY FilesFacts
    <3>2. IsStatement(body[i])
      BY <2>i, <3>1, SeqFacts DEF IsFile
    <3> QED
      BY <2>i, <3>1, <3>2 DEF IsStatement
  <2>6. IsSeq(CalledWith(<<h, i>>))
    BY <2>i, <2>3, <2>4, <2>5, ValueIsSeq DEF PlainPrefix
  <2> QED
    BY <2>1, <2>i, <2>3, <2>6, RStripPlain DEF PlainPrefix
<1> QED
  BY <1>1, <1>2

\* The router of a file, wherever it is.
LEMMA RouterFacts ==
  ASSUME repo \in Repos, ByModule, NEW g \in DOMAIN Files, NEW r \in Routers(g),
         NEW p, p = Files[g].body[r].prefix.p
  PROVE  /\ Files[g].body[r].prefix.k = "text" /\ RStrip(p) = p
         /\ \A on : RouterPrefix(g, on) = IF on = <<"app">> THEN <<>> ELSE p
<1> DEFINE body == Files[g].body
<1>1. r \in DOMAIN body /\ body[r].k = "router"
  BY DEF Routers
<1>2. ReadableFile(g)
  BY DEF ByModule, Readable
<1>3. body[r].prefix.k = "text" /\ PlainPrefix(p)
  <2>1. ReadableStatement(g, r)
    BY <1>1, <1>2 DEF ReadableFile
  <2> QED
    BY <1>1, <2>1 DEF ReadableStatement
<1>4. IsSeq(p)
  <2>1. IsFile(Files[g])
    BY FilesFacts
  <2>2. IsStatement(body[r])
    BY <1>1, <2>1, SeqFacts DEF IsFile
  <2> QED
    BY <1>1, <1>3, <2>2 DEF IsStatement, IsText
<1>5. (CHOOSE i \in Routers(g) : TRUE) = r
  BY <1>2 DEF ReadableFile
<1>6. \A on : RouterPrefix(g, on) = IF on = <<"app">> THEN <<>> ELSE p
  <2> DEFINE i == CHOOSE i \in Routers(g) : TRUE
  <2>1. \A on : RouterPrefix(g, on) = IF on = <<"app">> THEN <<>> ELSE Files[g].body[i].prefix.p
    BY DEF RouterPrefix
  <2> HIDE DEF i
  <2>2. i = r
    BY <1>5 DEF i
  <2> QED
    BY <2>1, <2>2
<1> QED
  BY <1>3, <1>4, <1>6, RStripPlain DEF PlainPrefix

\* A route as it is served and as it is found.
Shown(r) == [method |-> r.method, path |-> r.path, fn |-> r.fn]
Found(s) == {Shown(r) : r \in ToSet(s)}
ServedAt(g, i) == [method |-> Files[g].body[i].method, path |-> ServedPath(g, i), fn |-> Files[g].body[i].fn]
ServedUpTo(g, m) ==
    {ServedAt(g, i) : i \in {j \in 1..m : Files[g].body[j].k = "route" /\ Files[g].body[j].method \in HttpMethods}}

\* A route more is one more found.
LEMMA FoundOneMore ==
  ASSUME NEW s, IsSeq(s), NEW r
  PROVE  Found(Append(s, r)) = Found(s) \cup {Shown(r)}
<1>1. ToSet(Append(s, r)) = ToSet(s) \cup {r}
  BY AppendIsSeq
<1> QED
  BY <1>1 DEF Found

\* The prefix of the router of a file that precedes a statement.
PrefixSeen(g, i, own) ==
    /\ \A r \in Routers(g) : r < i => own = Files[g].body[r].prefix.p
    /\ (\A r \in Routers(g) : r >= i) => own = <<>>

\* A route gets the path it is served under.
LEMMA FullPathRight ==
  ASSUME repo \in Repos, ByModule, NEW g \in DOMAIN Files, NEW i \in DOMAIN Files[g].body,
         NEW constants, NEW own, NEW path,
         Files[g].body[i].k = "route", Agree(constants, ConstantsBefore(Files[g].body, i)),
         PrefixSeen(g, i, own), path = Value(Files[g].body[i].path, constants)
  PROVE  path # Unknown /\ FullPath(IncludedUnder(g), own, path) = ServedPath(g, i)
<1> DEFINE body == Files[g].body
           s == body[i]
<1>1. ReadableStatement(g, i)
  <2>1. ReadableFile(g)
    BY DEF ByModule, Readable
  <2> QED
    BY <2>1 DEF ReadableFile
<1>2. path = OwnPath(g, i)
  <2>1. OwnPath(g, i) = Value(s.path, ConstantsBefore(body, i))
    BY DEF OwnPath
  <2> QED
    BY <2>1, SameValue
<1>3. /\ IF s.on = <<"app">> THEN Routers(g) = {} ELSE \E j \in Routers(g) : j < i /\ body[j].var = s.on
      /\ OwnPath(g, i) # Unknown /\ ServedPath(g, i) # <<>>
  BY <1>1 DEF ReadableStatement
<1>4. RStrip(own) = own /\ own = RouterPrefix(g, s.on)
  <2>1. CASE s.on = <<"app">>
    <3>1. own = <<>>
      BY <1>3, <2>1 DEF PrefixSeen
    <3> QED
      BY <2>1, <3>1, EmptyIsSeq, RStripPlain DEF RouterPrefix
  <2>2. CASE s.on # <<"app">>
    <3>1. PICK j \in Routers(g) : j < i
      BY <1>3, <2>2
    <3>2. own = body[j].prefix.p
      BY <3>1 DEF PrefixSeen
    <3> QED
      BY <2>2, <3>2, RouterFacts
  <2> QED
    BY <2>1, <2>2
<1>5. RStrip(IncludedUnder(g)) = IncludedUnder(g)
  BY IncludedFacts
<1>6. ServedPath(g, i) = IncludedUnder(g) \o RouterPrefix(g, s.on) \o OwnPath(g, i)
  BY DEF ServedPath
<1> QED
  BY <1>2, <1>3, <1>4, <1>5, <1>6 DEF FullPath

\* The record of an extraction with a list of routes in place of another.
LEMMA WithRoutes ==
  ASSUME NEW a, NEW b, NEW c, NEW under, NEW more,
         NEW acc, acc = [constants |-> a, prefix |-> b, routes |-> c, filePrefix |-> under]
  PROVE  [acc EXCEPT !.routes = more] = [constants |-> a, prefix |-> b, routes |-> more, filePrefix |-> under]
OBVIOUS

\* The routes a file yields are those it serves.
LEMMA RoutesInRight ==
  ASSUME repo \in Repos, ByModule, NEW g \in DOMAIN Files
  PROVE  Found(RoutesIn(Files[g], IncludedUnder(g))) = ServedIn(g)
<1> DEFINE under == IncludedUnder(g)
           base == [constants |-> <<>>, prefix |-> <<>>, routes |-> <<>>, filePrefix |-> under]
           body == Files[g].body
<1>1. RoutesIn(Files[g], under) = FoldLeft(Extract, base, body).routes
  <2>1. ~Files[g].broken
    BY DEF ByModule, Readable, ReadableFile
  <2> QED
    BY <2>1 DEF RoutesIn
<1>2. IsSeq(body) /\ Len(body) \in Nat /\ DOMAIN body = 1..Len(body)
  <2>1. IsSeq(body)
    BY FilesFacts DEF IsFile
  <2> QED
    BY <2>1, SeqFacts
<1>3. PICK f : Runs(f, "routes", base, body) /\ FoldLeft(Extract, base, body) = f[Len(body)]
  BY <1>2, ExtractRuns
<1> DEFINE Good(acc, m) ==
             /\ acc = [constants |-> acc.constants, prefix |-> acc.prefix, routes |-> acc.routes,
                       filePrefix |-> under]
             /\ Agree(acc.constants, ConstantsBefore(body, m + 1))
             /\ \A r \in Routers(g) : r <= m => acc.prefix = body[r].prefix.p
             /\ (\A r \in Routers(g) : r > m) => acc.prefix = <<>>
             /\ IsSeq(acc.routes) /\ Found(acc.routes) = ServedUpTo(g, m)
           Have == {m \in Nat : m <= Len(body) => Good(f[m], m)}
<1> HIDE DEF under
<1>4. 0 \in Have
  <2>1. f[0] = base
    BY <1>3 DEF Runs
  <2>2. ServedUpTo(g, 0) = {} /\ Found(<<>>) = {}
    BY EmptyIsSeq DEF ServedUpTo, Found
  <2>3. Agree(<<>>, ConstantsBefore(body, 0 + 1))
    <3>1. 0 + 1 = 1
      OBVIOUS
    <3> QED
      BY <3>1, NoConstants
  <2>4. \A r \in Routers(g) : ~(r <= 0)
    BY <1>2 DEF Routers
  <2>5. base = [constants |-> base.constants, prefix |-> base.prefix, routes |-> base.routes,
                filePrefix |-> under]
        /\ base.constants = <<>> /\ base.prefix = <<>> /\ base.routes = <<>>
    OBVIOUS
  <2> HIDE DEF base, body
  <2>6. Good(base, 0)
    BY <2>2, <2>3, <2>4, <2>5, EmptyIsSeq
  <2> QED
    BY <2>1, <2>6
<1>5. ASSUME NEW m \in Nat, m \in Have PROVE m + 1 \in Have
  <2> SUFFICES ASSUME m + 1 <= Len(body) PROVE Good(f[m + 1], m + 1)
    OBVIOUS
  <2> DEFINE acc == f[m]
             s == body[m + 1]
             i == m + 1
             new == Extract(acc, s)
  <2>1. Good(acc, m) /\ i \in DOMAIN body /\ i \in Nat \ {0} /\ i - 1 = m
    BY <1>2, <1>5
  <2>2. f[m + 1] = new
    <3>1. (m + 1) - 1 = m /\ m + 1 \in 1..Len(body)
      BY <1>2
    <3> QED
      BY <1>3, <3>1 DEF Runs, Step
  <2>a. /\ acc = [constants |-> acc.constants, prefix |-> acc.prefix, routes |-> acc.routes,
                  filePrefix |-> under]
        /\ Agree(acc.constants, ConstantsBefore(body, i))
        /\ \A r \in Routers(g) : r <= m => acc.prefix = body[r].prefix.p
        /\ (\A r \in Routers(g) : r > m) => acc.prefix = <<>>
        /\ IsSeq(acc.routes) /\ Found(acc.routes) = ServedUpTo(g, m)
    BY <2>1
  <2>b. 1..i = 1..m \cup {i}
    OBVIOUS
  <2>c. s.k # "const" => Agree(acc.constants, ConstantsBefore(body, i + 1))
    BY <2>1, <2>a, ConstantsStay
  <2>d. \A r \in Routers(g) : r \in Nat
    BY <1>2 DEF Routers
  <2>e. s.k # "router" => /\ \A r \in Routers(g) : r <= i => acc.prefix = body[r].prefix.p
                          /\ (\A r \in Routers(g) : r > i) => acc.prefix = <<>>
    <3> SUFFICES ASSUME s.k # "router" PROVE \A r \in Routers(g) : r <= i <=> r <= m
      BY <2>a, <2>d, <2>1
    <3>1. i \notin Routers(g)
      BY DEF Routers
    <3> QED
      BY <2>d, <3>1
  <2>f. ServedUpTo(g, i) = ServedUpTo(g, m) \cup
          (IF s.k = "route" /\ s.method \in HttpMethods THEN {ServedAt(g, i)} ELSE {})
    <3> HIDE DEF i
    <3>1. s = Files[g].body[i]
      BY DEF i
    <3> HIDE DEF s, body
    <3> QED
      BY <2>b, <3>1 DEF ServedUpTo
  <2> HIDE DEF acc, new
  <2> SUFFICES /\ new = [constants |-> new.constants, prefix |-> new.prefix, routes |-> new.routes,
                         filePrefix |-> under]
               /\ Agree(new.constants, ConstantsBefore(body, i + 1))
               /\ \A r \in Routers(g) : r <= i => new.prefix = body[r].prefix.p
               /\ (\A r \in Routers(g) : r > i) => new.prefix = <<>>
               /\ IsSeq(new.routes) /\ Found(new.routes) = ServedUpTo(g, i)
    BY <2>2
  <2> HIDE DEF s, i
  <2>3. CASE s.k = "const"
    <3>1. new = [constants |-> Put(acc.constants, s.name, s.value), prefix |-> acc.prefix,
                 routes |-> acc.routes, filePrefix |-> under]
      BY <2>3, <2>a DEF Extract, new
    <3>2. Agree(Put(acc.constants, s.name, s.value), ConstantsBefore(body, i + 1))
      BY <2>3, <2>1, <2>a, ConstantSet DEF s, i
    <3> QED
      BY <2>3, <2>a, <2>e, <2>f, <3>1, <3>2
  <2>4. CASE s.k = "router"
    <3>1. i \in Routers(g)
      BY <2>4, <2>1 DEF Routers, s, i
    <3>2. s.prefix.k = "text"
      BY <3>1, RouterFacts DEF s, i
    <3>3. new = [constants |-> acc.constants, prefix |-> s.prefix.p, routes |-> acc.routes,
                 filePrefix |-> under]
      BY <2>4, <2>a, <3>2 DEF Extract, new
    <3>4. \A r \in Routers(g) : r = i
      BY <3>1 DEF ByModule, Readable, ReadableFile
    <3>5. s.prefix.p = body[i].prefix.p /\ ~(i > i)
      BY <2>1 DEF s, i
    <3> QED
      BY <2>4, <2>a, <2>c, <2>f, <3>1, <3>3, <3>4, <3>5
  <2>5. CASE s.k = "route"
    <3> DEFINE path == Value(s.path, acc.constants)
               full == FullPath(acc.filePrefix, acc.prefix, path)
               route == Route(s.method, full, s.fn, FunctionParams(s.args, full), "ast")
    <3>1. new = IF path = Unknown \/ s.method \notin HttpMethods THEN acc
                ELSE [acc EXCEPT !.routes = Append(@, route)]
      BY <2>5 DEF Extract, new
    <3>2. path # Unknown /\ full = ServedPath(g, i)
      <4>1. acc.filePrefix = IncludedUnder(g)
        BY <2>a DEF under
      <4>2. \A r \in Routers(g) : r < i <=> r <= m
        BY <2>d DEF i
      <4>3. \A r \in Routers(g) : r < i => acc.prefix = body[r].prefix.p
        BY <2>a, <4>2
      <4>4. (\A r \in Routers(g) : r >= i) => acc.prefix = <<>>
        BY <2>a, <2>d DEF i
      <4>5. path # Unknown /\ FullPath(IncludedUnder(g), acc.prefix, path) = ServedPath(g, i)
        <5>1. Files[g].body[i].k = "route" /\ i \in DOMAIN Files[g].body
          BY <2>5, <2>1 DEF s, i
        <5>2. Agree(acc.constants, ConstantsBefore(Files[g].body, i))
          BY <2>a
        <5>3. path = Value(Files[g].body[i].path, acc.constants)
          BY DEF s, i
        <5>4. PrefixSeen(g, i, acc.prefix)
          BY <4>3, <4>4 DEF PrefixSeen
        <5> DEFINE own == acc.prefix
                   constants == acc.constants
        <5>5. /\ Agree(constants, ConstantsBefore(Files[g].body, i))
              /\ path = Value(Files[g].body[i].path, constants)
              /\ PrefixSeen(g, i, own)
          BY <5>2, <5>3, <5>4
        <5> HIDE DEF path, own, constants, body
        <5>6. path # Unknown /\ FullPath(IncludedUnder(g), own, path) = ServedPath(g, i)
          BY <5>1, <5>5, FullPathRight
        <5> QED
          BY <5>6 DEF own
      <4> QED
        BY <4>1, <4>5
    <3>3. Shown(route) = ServedAt(g, i)
      <4> HIDE DEF full
      <4> QED
        BY <3>2 DEF Shown, ServedAt, Route, s, i
    <3> HIDE DEF path, full, route
    <3>4. CASE s.method \in HttpMethods
      <4>1. new = [constants |-> acc.constants, prefix |-> acc.prefix,
                   routes |-> Append(acc.routes, route), filePrefix |-> under]
        <5>1. acc = [constants |-> acc.constants, prefix |-> acc.prefix, routes |-> acc.routes,
                     filePrefix |-> under]
          BY <2>a
        <5>2. new = [acc EXCEPT !.routes = Append(acc.routes, route)]
          <6>1. new = [acc EXCEPT !.routes = Append(@, route)]
            BY <3>1, <3>2, <3>4
          <6> QED
            BY <6>1, Zenon
        <5> DEFINE a == acc.constants
                   b == acc.prefix
                   c == acc.routes
                   more == Append(acc.routes, route)
        <5>3. acc = [constants |-> a, prefix |-> b, routes |-> c, filePrefix |-> under]
              /\ new = [acc EXCEPT !.routes = more]
          BY <5>1, <5>2
        <5> HIDE DEF a, b, c, more
        <5>4. new = [constants |-> a, prefix |-> b, routes |-> more, filePrefix |-> under]
          BY <5>3, WithRoutes
        <5> QED
          BY <5>4 DEF a, b, more
      <4>2. IsSeq(Append(acc.routes, route)) /\ Found(Append(acc.routes, route)) = ServedUpTo(g, i)
        <5>1. IsSeq(acc.routes) /\ Found(acc.routes) = ServedUpTo(g, m)
          BY <2>a
        <5>2. ServedUpTo(g, i) = ServedUpTo(g, m) \cup {ServedAt(g, i)}
          BY <2>5, <2>f, <3>4
        <5>3. IsSeq(Append(acc.routes, route))
          BY <5>1, AppendIsSeq
        <5>4. Found(Append(acc.routes, route)) = Found(acc.routes) \cup {Shown(route)}
          BY <5>1, FoundOneMore
        <5> QED
          BY <3>3, <5>1, <5>2, <5>3, <5>4
      <4> QED
        BY <2>5, <2>c, <2>e, <4>1, <4>2
    <3>5. CASE s.method \notin HttpMethods
      <4>1. new = acc
        BY <3>1, <3>5
      <4> QED
        BY <2>5, <2>a, <2>c, <2>e, <2>f, <3>5, <4>1
    <3> QED
      BY <3>4, <3>5
  <2>6. CASE s.k \notin {"const", "router", "route"}
    <3>1. new = acc
      BY <2>6 DEF Extract, new
    <3> QED
      BY <2>6, <2>a, <2>c, <2>e, <2>f, <3>1
  <2> QED
    BY <2>3, <2>4, <2>5, <2>6
<1>6. Len(body) \in Have
  <2> HIDE DEF Have
  <2> QED
    BY <1>2, <1>4, <1>5, NatInduct
<1>7. Found(f[Len(body)].routes) = ServedUpTo(g, Len(body))
  BY <1>2, <1>6
<1>8. ServedUpTo(g, Len(body)) = ServedIn(g)
  BY <1>2 DEF ServedUpTo, ServedIn, ServedAt
<1> HIDE DEF base, body
<1> QED
  BY <1>1, <1>3, <1>7, <1>8 DEF under

-----------------------------------------------------------------------------
(* The two passes.                                                         *)

\* A call is a place in a file.
LEMMA InclusionFacts ==
  ASSUME NEW f, NEW c \in Inclusions(f)
  PROVE  c[1] \in DOMAIN Files /\ c[2] \in DOMAIN Files[c[1]].body /\ c = <<c[1], c[2]>>
<1>1. PICK h \in DOMAIN Files : c \in {h} \X DOMAIN Files[h].body
  BY DEF Inclusions
<1> QED
  BY <1>1

\* A prefix map p says of every file which call of the first n files includes it
\* under a prefix.
CallMap(p, n) ==
    /\ DOMAIN p \subseteq DOMAIN Files
    /\ \A f \in DOMAIN p : \E c \in Inclusions(f) :
         c[1] <= n /\ CalledWith(c) # <<>> /\ p[f] = CalledWith(c)
    /\ \A f \in DOMAIN Files : \A c \in Inclusions(f) :
         c[1] <= n /\ CalledWith(c) # <<>> => f \in DOMAIN p

\* At first no call was read;
LEMMA CallMapStarts ==
  ASSUME repo \in Repos
  PROVE  CallMap(<<>>, 0)
<1>1. DOMAIN <<>> = {}
  OBVIOUS
<1>2. ASSUME NEW f \in DOMAIN Files, NEW c \in Inclusions(f) PROVE ~(c[1] <= 0)
  BY InclusionFacts, FilesFacts
<1> QED
  BY <1>1, <1>2 DEF CallMap

\* then those of one file after the other.
LEMMA OneFileMore ==
  ASSUME repo \in Repos, ByModule, NEW p, NEW n \in Nat, n < Len(Files), CallMap(p, n),
         NEW q, q = Updated(p, PrefixesIn(Files[n + 1]))
  PROVE  CallMap(q, n + 1)
<1> DEFINE g == n + 1
           m == PrefixesIn(Files[g])
           last == Len(Files[g].body)
<1>1. g \in DOMAIN Files /\ DOMAIN Files = 1..Len(Files) /\ Len(Files) \in Nat
  BY FilesFacts
<1>2. MappedIn(m, g, last) /\ DOMAIN Files[g].body = 1..last
  <2>1. DOMAIN Files[g].body = 1..last
    <3>1. IsSeq(Files[g].body)
      BY <1>1, FilesFacts DEF IsFile
    <3> QED
      BY <3>1, SeqFacts
  <2> QED
    BY <1>1, <2>1, PrefixesInRight
<1> HIDE DEF m, last
<1>3. /\ DOMAIN q = DOMAIN p \cup DOMAIN m
      /\ \A f \in DOMAIN q : q[f] = IF f \in DOMAIN m THEN m[f] ELSE p[f]
  BY DEF Updated, m
<1>4. DOMAIN q \subseteq DOMAIN Files
  BY <1>2, <1>3 DEF CallMap, MappedIn
<1>5. ASSUME NEW f \in DOMAIN q
      PROVE  \E c \in Inclusions(f) : c[1] <= g /\ CalledWith(c) # <<>> /\ q[f] = CalledWith(c)
  <2>1. CASE f \in DOMAIN m
    <3>1. PICK i \in 1..last : <<g, i>> \in Inclusions(f) /\ CalledWith(<<g, i>>) # <<>>
                               /\ m[f] = CalledWith(<<g, i>>)
      BY <1>2, <2>1 DEF MappedIn
    <3>2. <<g, i>>[1] <= g
      OBVIOUS
    <3> HIDE DEF g
    <3> QED
      BY <1>3, <2>1, <3>1, <3>2
  <2>2. CASE f \notin DOMAIN m
    <3>1. PICK c \in Inclusions(f) : c[1] <= n /\ CalledWith(c) # <<>> /\ p[f] = CalledWith(c)
      BY <1>3, <2>2 DEF CallMap
    <3>2. c[1] <= g
      BY <1>1, <3>1, InclusionFacts
    <3> QED
      BY <1>3, <2>2, <3>1, <3>2
  <2> QED
    BY <2>1, <2>2
<1>6. ASSUME NEW f \in DOMAIN Files, NEW c \in Inclusions(f), c[1] <= g, CalledWith(c) # <<>>
      PROVE  f \in DOMAIN q
  <2>1. CASE c[1] <= n
    BY <1>3, <1>6, <2>1 DEF CallMap
  <2>2. CASE ~(c[1] <= n)
    <3>1. c[1] = g
      BY <1>1, <1>6, <2>2, InclusionFacts
    <3>2. c = <<g, c[2]>> /\ c[2] \in 1..last
      BY <1>2, <3>1, InclusionFacts
    <3> HIDE DEF g
    <3> QED
      BY <1>2, <1>3, <1>6, <3>2 DEF MappedIn
  <2> QED
    BY <2>1, <2>2
<1> QED
  BY <1>4, <1>5, <1>6 DEF CallMap

\* After the first pass the map gives every file the prefix it is included under.
LEMMA MapRight ==
  ASSUME repo \in Repos, ByModule, NEW p, CallMap(p, Len(Files)), NEW f \in DOMAIN Files
  PROVE  (IF f \in DOMAIN p THEN p[f] ELSE <<>>) = IncludedUnder(f)
<1>1. \A c, d \in Inclusions(f) : c = d
  BY DEF ByModule, Readable, ReadableFile
<1>2. ASSUME NEW c \in Inclusions(f) PROVE c[1] <= Len(Files) /\ IncludedUnder(f) = CalledWith(c)
  <2>1. c[1] <= Len(Files)
    BY InclusionFacts, FilesFacts
  <2> DEFINE d == CHOOSE d \in Inclusions(f) : TRUE
  <2>2. d \in Inclusions(f) /\ IncludedUnder(f) = CalledWith(d)
    BY DEF IncludedUnder
  <2> HIDE DEF d
  <2> QED
    BY <1>1, <2>1, <2>2
<1>3. CASE f \in DOMAIN p
  <2>1. PICK c \in Inclusions(f) : p[f] = CalledWith(c)
    BY <1>3 DEF CallMap
  <2> QED
    BY <1>2, <1>3, <2>1
<1>4. CASE f \notin DOMAIN p /\ Inclusions(f) = {}
  BY <1>4 DEF IncludedUnder
<1>5. CASE f \notin DOMAIN p /\ Inclusions(f) # {}
  <2>1. PICK c : c \in Inclusions(f)
    BY <1>5
  <2>2. CalledWith(c) = <<>>
    BY <1>2, <1>5, <2>1 DEF CallMap
  <2> QED
    BY <1>2, <1>5, <2>1, <2>2
<1> QED
  BY <1>3, <1>4, <1>5

=============================================================================
