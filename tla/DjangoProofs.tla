---------------------------- MODULE DjangoProofs ----------------------------
(***************************************************************************)
(* Proof that the Django parser finds, in a project whose root is scanned  *)
(* first and whose modules and views are found without doubt, the URLs     *)
(* that Django serves, each by the view that serves it.                    *)
(***************************************************************************)
EXTENDS ParserProofs

-----------------------------------------------------------------------------
(* The parser finds the modules that Django finds.                         *)

\* Where _resolve_module_to_file looks first: a module, or a package, in one of
\* the directories, that of the importing file before the others.
TriedIn(dir) == <<dir, <<>>>> \o [i \in 1..Len(dir) |-> SubSeq(dir, 1, Len(dir) - i)]
Pairs(bases, module) ==
    [i \in DOMAIN bases |-> <<bases[i] \o module, bases[i] \o module \o <<"__init__">>>>]

\* These are the directories above the importing file, that file's own first.
LEMMA TriedFacts ==
  ASSUME NEW dir, IsSeq(dir)
  PROVE  /\ IsSeq(TriedIn(dir)) /\ TriedIn(dir) # <<>> /\ 1 \in DOMAIN TriedIn(dir) /\ TriedIn(dir)[1] = dir
         /\ ToSet(TriedIn(dir)) = {SubSeq(dir, 1, n) : n \in 0..Len(dir)}
<1> DEFINE up    == [i \in 1..Len(dir) |-> SubSeq(dir, 1, Len(dir) - i)]
           pair  == <<dir, <<>>>>
           bases == pair \o up
           all   == {SubSeq(dir, 1, n) : n \in 0..Len(dir)}
<1>1. Len(dir) \in Nat /\ dir \in Seq(ToSet(dir))
  BY DEF IsSeq
<1>2. SubSeq(dir, 1, Len(dir)) = dir /\ SubSeq(dir, 1, 0) = <<>>
  BY <1>1
<1>3. IsSeq(up) /\ Len(up) = Len(dir) /\ \A i \in 1..Len(dir) : up[i] = SubSeq(dir, 1, Len(dir) - i)
  BY <1>1, MapIsSeq
<1>4. IsSeq(pair) /\ ToSet(pair) = {dir, <<>>}
  BY PairIsSeq
<1>5. Len(pair) = 2 /\ pair[1] = dir
  OBVIOUS
<1>6. ToSet(up) = {SubSeq(dir, 1, Len(dir) - i) : i \in 1..Len(dir)}
  <2>1. DOMAIN up = 1..Len(dir)
    OBVIOUS
  <2> HIDE DEF up
  <2> QED
    BY <1>3, <2>1 DEF ToSet
<1> HIDE DEF up, pair, bases
<1>7. IsSeq(bases) /\ ToSet(bases) = ToSet(pair) \cup ToSet(up)
  BY <1>3, <1>4, ConcatIsSeq DEF bases
<1>8. 1 \in DOMAIN bases /\ bases[1] = dir
  <2> HIDE DEF all
  <2>1. IsSeq(pair) /\ IsSeq(up)
    BY <1>3, <1>4
  <2>2. DOMAIN (pair \o up) = 1..(Len(pair) + Len(up)) /\ Len(up) \in Nat
    BY <2>1, ConcatPlaces
  <2>3. \A i \in 1..Len(pair) : (pair \o up)[i] = pair[i]
    BY <2>1, ConcatPlaces
  <2>4. DOMAIN bases = 1..(2 + Len(up)) /\ bases[1] = pair[1]
    BY <1>5, <2>2, <2>3 DEF bases
  <2> QED
    BY <1>5, <2>2, <2>4
<1>9. ToSet(bases) = all
  <2> DEFINE part(n) == SubSeq(dir, 1, n)
  <2>1. part(Len(dir)) = dir /\ part(0) = <<>>
    BY <1>2
  <2>2. ToSet(up) = {part(Len(dir) - i) : i \in 1..Len(dir)} /\ all = {part(n) : n \in 0..Len(dir)}
    BY <1>6
  <2> HIDE DEF part, all
  <2>3. ASSUME NEW x \in ToSet(bases) PROVE x \in all
    <3>1. x = dir \/ x = <<>> \/ x \in ToSet(up)
      BY <1>4, <1>7
    <3>2. \A i \in 1..Len(dir) : Len(dir) - i \in 0..Len(dir)
      BY <1>1
    <3>3. 0 \in 0..Len(dir) /\ Len(dir) \in 0..Len(dir)
      BY <1>1
    <3> QED
      BY <2>1, <2>2, <3>1, <3>2, <3>3
  <2>4. ASSUME NEW n \in 0..Len(dir) PROVE part(n) \in ToSet(bases)
    <3>1. CASE n = Len(dir)
      BY <1>4, <1>7, <2>1, <3>1
    <3>2. CASE n # Len(dir)
      <4>1. Len(dir) - n \in 1..Len(dir) /\ Len(dir) - (Len(dir) - n) = n
        BY <1>1, <3>2
      <4>2. part(Len(dir) - (Len(dir) - n)) \in ToSet(up)
        BY <2>2, <4>1
      <4> QED
        BY <1>7, <4>1, <4>2
    <3> QED
      BY <3>1, <3>2
  <2> QED
    BY <2>2, <2>3, <2>4
<1>10. bases # <<>>
  <2>1. DOMAIN <<>> = {}
    OBVIOUS
  <2> QED
    BY <1>8, <2>1
<1> QED
  BY <1>7, <1>8, <1>9, <1>10 DEF TriedIn, bases, pair, up

\* The names tried are a module's and a package's in each of them,
LEMMA PairsFacts ==
  ASSUME NEW bases, IsSeq(bases), bases # <<>>, 1 \in DOMAIN bases, NEW module
  PROVE  LET tried == FlattenSeq(Pairs(bases, module))
         IN  /\ IsSeq(tried) /\ 1 \in DOMAIN tried /\ 2 \in DOMAIN tried
             /\ \A x : x \in ToSet(tried) <=>
                  \E base \in ToSet(bases) : x \in {base \o module, base \o module \o <<"__init__">>}
             /\ tried[1] = bases[1] \o module /\ tried[2] = bases[1] \o module \o <<"__init__">>
<1> DEFINE one(base) == base \o module
           two(base) == base \o module \o <<"__init__">>
           ss == Pairs(bases, module)
           tried == FlattenSeq(ss)
<1>1. Len(bases) \in Nat /\ DOMAIN bases = 1..Len(bases)
  BY SeqFacts
<1>2. DOMAIN ss = 1..Len(bases) /\ \A i \in DOMAIN ss : ss[i] = <<one(bases[i]), two(bases[i])>>
  BY <1>1 DEF Pairs
<1>3. ss = [i \in 1..Len(bases) |-> ss[i]]
  BY <1>1 DEF Pairs
<1> HIDE DEF ss, one, two
<1>4. IsSeq(ss)
  BY <1>1, <1>2, <1>3, MapIsSeq
<1>5. \A i \in DOMAIN ss : IsSeq(ss[i]) /\ ToSet(ss[i]) = {one(bases[i]), two(bases[i])}
  <2> TAKE i \in DOMAIN ss
  <2> DEFINE x == one(bases[i])
             y == two(bases[i])
  <2>1. ss[i] = <<x, y>>
    BY <1>2
  <2> HIDE DEF x, y
  <2>2. IsSeq(ss[i]) /\ ToSet(ss[i]) = {x, y}
    BY <2>1, PairIsSeq
  <2> QED
    BY <2>2 DEF x, y
<1>6. IsSeq(tried) /\ ToSet(tried) = UNION {ToSet(ss[i]) : i \in DOMAIN ss}
  BY <1>4, <1>5, FlattenIsSeqOf
<1>7. 1 \in DOMAIN ss /\ ss # <<>>
  <2>1. DOMAIN <<>> = {}
    OBVIOUS
  <2> QED
    BY <1>1, <1>2, <2>1
<1>8. Len(ss[1]) = 2 /\ ss[1][1] = one(bases[1]) /\ ss[1][2] = two(bases[1])
  <2> DEFINE x == one(bases[1])
             y == two(bases[1])
  <2>1. ss[1] = <<x, y>>
    BY <1>2, <1>7
  <2> HIDE DEF x, y
  <2>2. Len(<<x, y>>) = 2 /\ <<x, y>>[1] = x /\ <<x, y>>[2] = y
    OBVIOUS
  <2>3. Len(ss[1]) = 2 /\ ss[1][1] = x /\ ss[1][2] = y
    BY <2>1, <2>2
  <2> QED
    BY <2>3 DEF x, y
<1>9. Len(ss[1]) <= Len(tried) /\ \A k \in 1..Len(ss[1]) : tried[k] = ss[1][k]
  <2>1. \A i \in DOMAIN ss : IsSeq(ss[i])
    BY <1>5
  <2> QED
    BY <1>4, <1>7, <2>1, FlattenFirst, Zenon
<1> HIDE DEF tried
<1>10. 1 \in DOMAIN tried /\ 2 \in DOMAIN tried /\ tried[1] = one(bases[1]) /\ tried[2] = two(bases[1])
  BY <1>6, <1>8, <1>9, SeqFacts
<1>11. \A x : x \in ToSet(tried) <=> \E base \in ToSet(bases) : x \in {one(base), two(base)}
  <2>1. \A x : x \in ToSet(tried) <=> \E i \in DOMAIN bases : x \in {one(bases[i]), two(bases[i])}
    BY <1>1, <1>2, <1>5, <1>6
  <2> QED
    BY <2>1 DEF ToSet
<1> QED
  BY <1>6, <1>10, <1>11 DEF one, two, tried, ss

\* and if Django finds one file for a module's name, the parser finds that one.
LEMMA ModuleFound ==
  ASSUME repo \in Repos, NEW f \in DOMAIN Files, NEW module, module # <<>>,
         NEW relative \in BOOLEAN, NEW g \in DOMAIN Files, Finds(f, module, relative) = {g}
  PROVE  ModuleFile(f, module) = g
<1> DEFINE At(loc) == {i \in 1..Len(Files) : Files[i].loc = loc}
           at(loc) == SelectInSeq(Files, LAMBDA h : h.loc = loc)
           dir     == Dir(Files[f])
           bases   == TriedIn(dir)
           tried   == FlattenSeq(Pairs(bases, module))
           Hits    == {k \in 1..Len(tried) : at(tried[k]) # 0}
           hit     == SelectInSeq(tried, LAMBDA loc : at(loc) # 0)
           near    == SelectLastInSeq(Files, LAMBDA h : Stem(h) = Last(module) /\ Dir(h) = dir)
           names(base) == {base \o module, base \o module \o <<"__init__">>}
<1>1. IsSeq(Files) /\ Len(Files) \in Nat /\ DOMAIN Files = 1..Len(Files)
  BY FilesFacts
<1>2. \A loc : /\ at(loc) # 0 => at(loc) \in DOMAIN Files /\ Files[at(loc)].loc = loc
               /\ \A h \in DOMAIN Files : Files[h].loc = loc => at(loc) # 0
  <2> SUFFICES ASSUME NEW loc
               PROVE  /\ at(loc) # 0 => at(loc) \in DOMAIN Files /\ Files[at(loc)].loc = loc
                      /\ \A h \in DOMAIN Files : Files[h].loc = loc => at(loc) # 0
    OBVIOUS
  <2>1. at(loc) = IF At(loc) # {} THEN Min(At(loc)) ELSE 0
    BY DEF SelectInSeq
  <2>2. At(loc) # {} => Min(At(loc)) \in At(loc)
    <3>1. At(loc) \in SUBSET (1..Len(Files))
      OBVIOUS
    <3> HIDE DEF At
    <3> QED
      BY <1>1, <3>1, MinMax
  <2>3. \A h : h \in At(loc) <=> h \in DOMAIN Files /\ Files[h].loc = loc
    BY <1>1
  <2>4. 0 \notin DOMAIN Files
    BY <1>1
  <2> HIDE DEF At, at
  <2> QED
    BY <2>1, <2>2, <2>3, <2>4
<1>3. hit = IF Hits # {} THEN Min(Hits) ELSE 0
  BY DEF SelectInSeq
<1>4. ModuleFile(f, module) =
        IF module = <<>> THEN 0
        ELSE IF hit # 0 THEN at(tried[hit])
        ELSE IF near # 0 THEN near ELSE FileByStem(Last(module))
  BY DEF ModuleFile, TriedIn, Pairs
<1>5. IsSeq(dir)
  BY FilesFacts, FrontIsSeq DEF IsFile, Dir
<1>6. /\ IsSeq(bases) /\ bases # <<>> /\ 1 \in DOMAIN bases /\ bases[1] = dir
      /\ ToSet(bases) = {SubSeq(dir, 1, n) : n \in 0..Len(dir)}
  BY <1>5, TriedFacts
<1>7. Bases(f, relative) = IF relative THEN {dir} ELSE ToSet(bases)
  BY <1>6 DEF Bases
<1>8. \A h : h \in {g} <=>
        h \in DOMAIN Files /\ \E base \in Bases(f, relative) : Files[h].loc \in names(base)
  BY DEF Finds
<1> HIDE DEF at, dir, bases, near
<1>9. /\ IsSeq(tried) /\ 1 \in DOMAIN tried /\ 2 \in DOMAIN tried
      /\ \A x : x \in ToSet(tried) <=> \E base \in ToSet(bases) : x \in names(base)
      /\ {tried[1], tried[2]} = names(dir)
  BY <1>6, PairsFacts
<1> HIDE DEF hit, tried, names
<1>10. Len(tried) \in Nat /\ DOMAIN tried = 1..Len(tried)
  BY <1>9, SeqFacts
\* some name tried is that of the file found, one of the first two if it is relative,
<1>11. \E k \in 1..Len(tried) : tried[k] = Files[g].loc /\ (relative => k <= 2)
  <2>1. PICK base \in Bases(f, relative) : Files[g].loc \in names(base)
    BY <1>8
  <2>2. CASE relative
    <3>1. Files[g].loc \in {tried[1], tried[2]}
      BY <1>7, <1>9, <2>1, <2>2
    <3> QED
      BY <1>9, <1>10, <3>1
  <2>3. CASE ~relative
    <3>1. Files[g].loc \in ToSet(tried)
      BY <1>7, <1>9, <2>1, <2>3
    <3> QED
      BY <1>10, <2>3, <3>1 DEF ToSet
  <2> QED
    BY <2>2, <2>3
\* so the first that is a file's is the name of the file found too.
<1>12. hit \in 1..Len(tried) /\ at(tried[hit]) # 0 /\ (relative => hit <= 2)
  <2>1. PICK k \in 1..Len(tried) : tried[k] = Files[g].loc /\ (relative => k <= 2)
    BY <1>11
  <2>2. k \in Hits
    BY <1>2, <2>1
  <2>3. Hits \in SUBSET (1..Len(tried))
    OBVIOUS
  <2>4. \A i \in Hits : at(tried[i]) # 0
    OBVIOUS
  <2> HIDE DEF Hits
  <2>5. Min(Hits) \in Hits /\ Min(Hits) <= k
    BY <1>10, <2>2, <2>3, MinMax
  <2> DEFINE least == Min(Hits)
  <2>6. least \in 1..Len(tried) /\ least <= k /\ at(tried[least]) # 0 /\ Hits # {}
    BY <2>2, <2>3, <2>4, <2>5
  <2>7. hit = least
    BY <1>3, <2>6
  <2> HIDE DEF least
  <2>8. relative => least <= 2
    BY <1>10, <2>1, <2>6
  <2> QED
    BY <2>6, <2>7, <2>8
<1>13. \E base \in Bases(f, relative) : tried[hit] \in names(base)
  <2>1. CASE relative
    <3>1. hit = 1 \/ hit = 2
      BY <1>10, <1>12, <2>1
    <3> QED
      BY <1>7, <1>9, <2>1, <3>1
  <2>2. CASE ~relative
    <3>1. tried[hit] \in ToSet(tried)
      BY <1>9, <1>10, <1>12, SeqFacts
    <3> QED
      BY <1>7, <1>9, <2>2, <3>1
  <2> QED
    BY <2>1, <2>2
<1>14. at(tried[hit]) = g
  BY <1>2, <1>8, <1>12, <1>13
<1>15. hit # 0
  BY <1>12
<1> QED
  BY <1>4, <1>14, <1>15

-----------------------------------------------------------------------------
(* Where the files of a Django project are mounted.                        *)

\* The includes of a file that parses,
LEMMA IncludesFacts ==
  ASSUME repo \in Repos
  PROVE  /\ UrlFiles \subseteq DOMAIN Files
         /\ \A c : c \in Includes <=> \E f \in UrlFiles : \E i \in DOMAIN Patterns(f) : c \in IncludesAt(f, i)
         /\ \A c \in Includes : c[1] \in UrlFiles /\ c[2] \in DOMAIN Patterns(c[1]) /\ c[3] \in DOMAIN Files
         /\ \A c \in Includes : Patterns(c[1])[c[2]].view.k = "include"
<1>1. UrlFiles \subseteq DOMAIN Files
  BY DEF UrlFiles
<1>2. \A c : c \in Includes <=> \E f \in UrlFiles : \E i \in DOMAIN Patterns(f) : c \in IncludesAt(f, i)
  BY DEF Includes
<1>3. ASSUME NEW c \in Includes
      PROVE  /\ c[1] \in UrlFiles /\ c[2] \in DOMAIN Patterns(c[1]) /\ c[3] \in DOMAIN Files
             /\ Patterns(c[1])[c[2]].view.k = "include"
  <2>1. PICK f \in UrlFiles : \E i \in DOMAIN Patterns(f) : c \in IncludesAt(f, i)
    BY <1>2
  <2>2. PICK i \in DOMAIN Patterns(f) : c \in IncludesAt(f, i)
    BY <2>1
  <2>3. Patterns(f)[i].view.k = "include"
    BY <2>2 DEF IncludesAt
  <2>4. PICK g \in Finds(f, Patterns(f)[i].view.module, FALSE) : c = <<f, i, g>>
    BY <2>2, <2>3 DEF IncludesAt
  <2>5. g \in DOMAIN Files
    BY <2>4 DEF Finds
  <2> QED
    BY <2>3, <2>4, <2>5
<1> QED
  BY <1>1, <1>2, <1>3

\* the texts before its patterns, one include further,
RouteOf(c) == Patterns(c[1])[c[2]].route
NotIncluded(g) == \A c \in Includes : c[3] # g
Via(ms, g) == (IF NotIncluded(g) THEN {Root} ELSE {})
              \cup UNION {{Joint(p, RouteOf(c)) : p \in ms[c[1]]} : c \in {d \in Includes : d[3] = g}}

\* as MountsVia has them:
LEMMA ViaFacts ==
  ASSUME NEW ms, NEW x
  PROVE  MountsVia(ms, x) = [g \in DOMAIN Files |-> Via(ms, g)]
BY DEF MountsVia, Via, RouteOf, NotIncluded

\* the text before an include, and then its route.
LEMMA InVia ==
  ASSUME NEW ms, NEW g, NEW p
  PROVE  p \in Via(ms, g) <=>
           \/ NotIncluded(g) /\ p = Root
           \/ \E c \in Includes : c[3] = g /\ \E q \in ms[c[1]] : p = Joint(q, RouteOf(c))
BY DEF Via

\* and as many includes further as there are files: Mounts.
MountRun(m) ==
    /\ m[0] = [g \in DOMAIN Files |-> {}]
    /\ \A i \in 1..Len(Files) : m[i] = MountsVia(m[i - 1], Files[i])
    /\ Mounts = m[Len(Files)]

\* (they are computed include by include),
LEMMA MountsAreRun == IsSeq(Files) => \E m : MountRun(m)
<1> SUFFICES ASSUME IsSeq(Files) PROVE \E m : MountRun(m)
  OBVIOUS
<1>1. PICK m : /\ Runs(m, "mounts", [g \in DOMAIN Files |-> {}], Files)
               /\ FoldLeft(MountsVia, [g \in DOMAIN Files |-> {}], Files) = m[Len(Files)]
  BY MountsRun
<1>2. Mounts = m[Len(Files)]
  BY <1>1, Zenon DEF Mounts
<1> QED
  BY <1>1, <1>2 DEF Runs, Step, MountRun

\* Each include more adds texts.
LEMMA MountsGrow ==
  ASSUME repo \in Repos, NEW m, MountRun(m), NEW i \in Nat, i + 1 <= Len(Files)
  PROVE  \A g \in DOMAIN Files : m[i][g] \subseteq m[i + 1][g]
<1>1. Len(Files) \in Nat
  BY FilesFacts
<1>2. \A k \in Nat : k + 1 <= Len(Files) => m[k + 1] = [g \in DOMAIN Files |-> Via(m[k], g)]
  <2> SUFFICES ASSUME NEW k \in Nat, k + 1 <= Len(Files)
               PROVE  m[k + 1] = [g \in DOMAIN Files |-> Via(m[k], g)]
    OBVIOUS
  <2>1. k + 1 \in 1..Len(Files) /\ (k + 1) - 1 = k
    BY <1>1
  <2>2. m[k + 1] = MountsVia(m[k], Files[k + 1])
    BY <2>1 DEF MountRun
  <2> QED
    BY <2>2, ViaFacts
<1> DEFINE Grows(k) == \A g \in DOMAIN Files : m[k][g] \subseteq m[k + 1][g]
           Have == {k \in Nat : k + 1 <= Len(Files) => Grows(k)}
<1>3. 0 \in Have
  <2>1. \A g \in DOMAIN Files : m[0][g] = {}
    BY DEF MountRun
  <2> QED
    BY <2>1
<1>4. ASSUME NEW k \in Nat, k \in Have PROVE k + 1 \in Have
  <2> SUFFICES ASSUME k + 1 + 1 <= Len(Files), NEW g \in DOMAIN Files, NEW p \in m[k + 1][g]
               PROVE  p \in m[k + 1 + 1][g]
    OBVIOUS
  <2>1. k + 1 <= Len(Files)
    BY <1>1
  <2>2. Grows(k)
    BY <1>4, <2>1
  <2>3. m[k + 1] = [h \in DOMAIN Files |-> Via(m[k], h)]
    BY <1>2, <2>1
  <2>4. m[k + 1 + 1] = [h \in DOMAIN Files |-> Via(m[k + 1], h)]
    BY <1>2
  <2>5. p \in Via(m[k], g)
    BY <2>3
  <2>6. \A c \in Includes : m[k][c[1]] \subseteq m[k + 1][c[1]]
    BY <2>2, IncludesFacts
  <2>7. p \in Via(m[k + 1], g)
    <3> HIDE DEF Have, Grows
    <3> QED
      BY <2>5, <2>6, InVia
  <2> QED
    BY <2>4, <2>7
<1>5. Nat \subseteq Have
  <2> HIDE DEF Have
  <2> QED
    BY <1>3, <1>4, NatInduct
<1> QED
  BY <1>5

\* What is mounted where one more include leads is what Mounts says.
LEMMA MountsFacts ==
  ASSUME repo \in Repos, DOMAIN Files # {}
  PROVE  \E ms : /\ Mounts = [g \in DOMAIN Files |-> Via(ms, g)]
                 /\ \A g \in DOMAIN Files : ms[g] \subseteq Mounts[g]
<1> DEFINE n == Len(Files)
<1>1. IsSeq(Files) /\ n \in Nat /\ DOMAIN Files = 1..n
  BY FilesFacts
<1>2. PICK m : MountRun(m)
  BY <1>1, MountsAreRun
<1>3. n - 1 \in Nat /\ (n - 1) + 1 = n /\ n \in 1..n
  BY <1>1
<1>4. \A g \in DOMAIN Files : m[n - 1][g] \subseteq m[(n - 1) + 1][g]
  <2>1. (n - 1) + 1 <= n
    BY <1>3
  <2> QED
    BY <1>2, <1>3, <2>1, MountsGrow
<1>5. Mounts = MountsVia(m[n - 1], Files[n]) /\ Mounts = m[n]
  BY <1>2, <1>3 DEF MountRun
<1>6. Mounts = [g \in DOMAIN Files |-> Via(m[n - 1], g)]
  BY <1>5, ViaFacts
<1>7. \A g \in DOMAIN Files : m[n - 1][g] \subseteq Mounts[g]
  BY <1>3, <1>4, <1>5
<1> QED
  BY <1>6, <1>7

\* A file no include leads to is mounted at the root,
LEMMA MountOfRoot ==
  ASSUME repo \in Repos, NEW g \in DOMAIN Files, NotIncluded(g)
  PROVE  Mounts[g] = {Root}
<1>1. PICK ms : Mounts = [h \in DOMAIN Files |-> Via(ms, h)]
  BY MountsFacts
<1>2. \A p : p \in Via(ms, g) <=> p = Root
  BY InVia DEF NotIncluded
<1> QED
  BY <1>1, <1>2

\* one that one include leads to under that include,
LEMMA MountOfIncluded ==
  ASSUME repo \in Repos, NEW c \in Includes, \A d \in Includes : d[3] = c[3] => d = c,
         NEW p, Mounts[c[1]] = {p}, Mounts[c[3]] # {}
  PROVE  Mounts[c[3]] = {Joint(p, RouteOf(c))}
<1>1. c[1] \in DOMAIN Files /\ c[3] \in DOMAIN Files
  BY IncludesFacts
<1>2. PICK ms : /\ Mounts = [h \in DOMAIN Files |-> Via(ms, h)]
                /\ \A h \in DOMAIN Files : ms[h] \subseteq Mounts[h]
  BY <1>1, MountsFacts
<1>3. Mounts[c[3]] = Via(ms, c[3]) /\ ms[c[1]] \subseteq {p}
  BY <1>1, <1>2
<1>4. \A x : x \in Via(ms, c[3]) <=> \E q \in ms[c[1]] : x = Joint(q, RouteOf(c))
  BY InVia DEF NotIncluded
<1>5. ms[c[1]] # {}
  BY <1>3, <1>4
<1>6. ms[c[1]] = {p}
  BY <1>3, <1>5
<1> QED
  BY <1>3, <1>4, <1>6

\* and files that only include each other nowhere.
LEMMA MountOfUnreached ==
  ASSUME repo \in Repos, NEW U \in SUBSET DOMAIN Files,
         \A g \in U : ~NotIncluded(g), \A c \in Includes : c[3] \in U => c[1] \in U
  PROVE  \A g \in U : Mounts[g] = {}
<1>1. IsSeq(Files) /\ Len(Files) \in Nat
  BY FilesFacts
<1>2. PICK m : MountRun(m)
  BY <1>1, MountsAreRun
<1> DEFINE Have == {k \in Nat : k <= Len(Files) => \A g \in U : m[k][g] = {}}
<1>3. 0 \in Have
  BY <1>2 DEF MountRun
<1>4. ASSUME NEW k \in Nat, k \in Have PROVE k + 1 \in Have
  <2> SUFFICES ASSUME k + 1 <= Len(Files), NEW g \in U PROVE m[k + 1][g] = {}
    OBVIOUS
  <2>1. k + 1 \in 1..Len(Files) /\ (k + 1) - 1 = k /\ k <= Len(Files)
    BY <1>1
  <2>2. m[k + 1] = MountsVia(m[k], Files[k + 1])
    BY <1>2, <2>1 DEF MountRun
  <2>3. m[k + 1][g] = Via(m[k], g)
    BY <2>2, ViaFacts
  <2>4. \A h \in U : m[k][h] = {}
    BY <1>4, <2>1
  <2>5. \A c \in Includes : c[3] = g => m[k][c[1]] = {}
    BY <2>4
  <2> HIDE DEF Have
  <2>6. \A p : p \notin Via(m[k], g)
    BY <2>5, InVia
  <2> QED
    BY <2>3, <2>6
<1>5. Nat \subseteq Have
  <2> HIDE DEF Have
  <2> QED
    BY <1>3, <1>4, NatInduct
<1> QED
  BY <1>1, <1>2, <1>5 DEF MountRun

\* All of it depends on the repository, which stays: the file of a module,
LEMMA SameFinds ==
  ASSUME repo' = repo
  PROVE  /\ Files' = Files
         /\ \A f, module, relative : Finds(f, module, relative)' = Finds(f, module, relative)
<1>1. Files' = Files
  BY DEF Files
<1> QED
  BY <1>1 DEF Finds, Bases, Dir

\* the functions a view stands for,
LEMMA SameViews ==
  ASSUME repo' = repo
  PROVE  /\ \A f, module, relative : Clear(f, module, relative)' <=> Clear(f, module, relative)
         /\ \A f, view : ViewFunctions(f, view)' = ViewFunctions(f, view)
         /\ \A f, view : ClearView(f, view)' <=> ClearView(f, view)
<1>1. /\ Files' = Files
      /\ \A f, module, relative : Finds(f, module, relative)' = Finds(f, module, relative)
  BY SameFinds
<1>2. \A f, module, relative : Clear(f, module, relative)' <=> Clear(f, module, relative)
  BY <1>1 DEF Clear
<1>3. \A f, mod : ImportedAs(f, mod)' = ImportedAs(f, mod)
  BY <1>1 DEF ImportedAs
<1>4. \A f, view : ViewFiles(f, view)' = ViewFiles(f, view)
  BY <1>1, <1>3 DEF ViewFiles
<1>5. \A f, view : ViewFunctions(f, view)' = ViewFunctions(f, view)
  BY <1>1, <1>4 DEF ViewFunctions
<1>6. \A g, name : CalledOnce(g, name)' <=> CalledOnce(g, name)
  BY <1>1 DEF CalledOnce
<1>7. \A f, view : ClearView(f, view)' <=> ClearView(f, view)
  BY <1>1, <1>2, <1>3, <1>4, <1>6 DEF ClearView
<1> QED
  BY <1>2, <1>5, <1>7

\* the includes
LEMMA SameIncludes ==
  ASSUME repo' = repo
  PROVE  UrlFiles' = UrlFiles /\ Includes' = Includes
<1>1. Files' = Files /\ \A f : Patterns(f)' = Patterns(f)
  BY SameRepository
<1>2. UrlFiles' = UrlFiles
  BY <1>1 DEF UrlFiles, Stem
<1>3. \A f, i : IncludesAt(f, i)' = IncludesAt(f, i)
  BY <1>1, SameFinds DEF IncludesAt
<1> QED
  BY <1>1, <1>2, <1>3 DEF Includes

\* (after a step, too, the texts are computed include by include)
LEMMA MountsWillRun == (IsSeq(Files) => \E m : MountRun(m))'
BY MountsAreRun, PTL

\* and what is mounted where.
LEMMA SameMounts ==
  ASSUME repo \in Repos, repo' = repo
  PROVE  Mounts' = Mounts
<1>1. IsSeq(Files) /\ Len(Files) \in Nat
  BY FilesFacts
<1>2. Files' = Files /\ \A f : Patterns(f)' = Patterns(f)
  BY SameRepository
<1>3. PICK m : MountRun(m)
  BY <1>1, MountsAreRun
<1>4. (IsSeq(Files) => \E k : MountRun(k))'
  BY MountsWillRun
<1>5. PICK k : MountRun(k)'
  BY <1>1, <1>2, <1>4 DEF IsSeq, ToSet
<1>6. \A ms, x : MountsVia(ms, x)' = MountsVia(ms, x)
  BY <1>2, SameIncludes DEF MountsVia
<1>7. /\ k[0] = [g \in DOMAIN Files |-> {}]
      /\ \A i \in 1..Len(Files) : k[i] = MountsVia(k[i - 1], Files[i])
      /\ Mounts' = k[Len(Files)]
  BY <1>2, <1>5, <1>6 DEF MountRun
<1> DEFINE Same == {i \in Nat : i <= Len(Files) => k[i] = m[i]}
<1>8. 0 \in Same
  BY <1>3, <1>7 DEF MountRun
<1>9. ASSUME NEW i \in Nat, i \in Same PROVE i + 1 \in Same
  <2> SUFFICES ASSUME i + 1 <= Len(Files) PROVE k[i + 1] = m[i + 1]
    OBVIOUS
  <2>1. i + 1 \in 1..Len(Files) /\ (i + 1) - 1 = i /\ i <= Len(Files)
    BY <1>1
  <2>2. m[i + 1] = MountsVia(m[i], Files[i + 1])
    BY <1>3, <2>1 DEF MountRun
  <2>3. k[i + 1] = MountsVia(k[i], Files[i + 1])
    BY <1>7, <2>1
  <2> QED
    BY <1>9, <2>1, <2>2, <2>3
<1>10. Nat \subseteq Same
  <2> HIDE DEF Same
  <2> QED
    BY <1>8, <1>9, NatInduct
<1> QED
  BY <1>1, <1>3, <1>7, <1>10 DEF MountRun

\* The files the parser starts from,
LEMMA SameStarts ==
  ASSUME repo' = repo
  PROVE  Starts' = Starts
BY DEF Starts, HasInclude, Patterns, Files, Stem, Of, Filter

\* and whether it is a project the walk is made for, the root first.
Ready == Project /\ RootScannedFirst

LEMMA SameProject ==
  ASSUME repo \in Repos, repo' = repo
  PROVE  Ready' <=> Ready
<1>1. Files' = Files /\ \A f : Patterns(f)' = Patterns(f)
  BY SameRepository
<1>2. UrlFiles' = UrlFiles /\ Includes' = Includes /\ Mounts' = Mounts /\ Starts' = Starts
  BY SameIncludes, SameMounts, SameStarts
<1>3. Project' <=> Project
  BY <1>1, <1>2, SameViews DEF Project
<1>4. RootScannedFirst' <=> RootScannedFirst
  BY <1>2 DEF RootScannedFirst
<1> QED
  BY <1>3, <1>4 DEF Ready

-----------------------------------------------------------------------------
(* The parser's paths and Django's texts.                                  *)

\* The path of a pattern of such a route, under a prefix,
LEMMA PathOfPattern ==
  ASSUME NEW prefix, Plain(RStrip(prefix)),
         NEW pattern, PlainToEnd(pattern.route), Group \notin ToSet(pattern.route)
  PROVE  RStrip(PathUnder(prefix, pattern)) = RStrip(prefix) \o Bare(pattern.route)
<1> DEFINE a     == RStrip(prefix)
           route == pattern.route
           b     == Bare(route)
           texts == [i \in DOMAIN route |-> IF route[i] = Group THEN Lit(<<"0-9">>) ELSE route[i]]
           own   == IF b = <<>> THEN Root ELSE b
<1>1. texts = route
  <2>1. \A i \in DOMAIN route : route[i] # Group
    BY DEF ToSet
  <2>2. route = [i \in 1..Len(route) |-> route[i]] /\ DOMAIN route = 1..Len(route)
    BY SeqFacts DEF PlainToEnd
  <2> HIDE DEF route
  <2>3. texts = [i \in 1..Len(route) |-> route[i]]
    BY <2>1, <2>2
  <2> QED
    BY <2>2, <2>3
<1>2. Converted(pattern) = IF Strip(texts) = <<>> THEN Root ELSE Strip(texts)
  BY DEF Converted
<1>3. Strip(route) = b /\ Plain(b)
  BY StripToEnd, BareFacts
<1>4. Converted(pattern) = own
  <2> HIDE DEF texts, b, route
  <2> QED
    BY <1>1, <1>2, <1>3
<1>5. PathUnder(prefix, pattern) = Collapse(a \o own)
  BY <1>4 DEF PathUnder
<1>6. PlainToEnd(own) /\ Bare(own) = b
  <2>1. CASE b = <<>>
    <3>1. Root # <<>> /\ IsSeq(Root) /\ Len(Root) = 1 /\ Root[1] = Empty
      BY SingletonIsSeq, EmptyIsSeq DEF Root
    <3>2. Last(Root) = Empty /\ Len(Front(Root)) = 0 /\ IsSeq(Front(Root))
      BY <3>1, FrontIsSeq
    <3>3. Front(Root) = <<>>
      BY <3>2, EmptyIsSeq, SameSeq
    <3>4. PlainToEnd(Root)
      BY <3>1 DEF PlainToEnd
    <3>5. Bare(Root) = <<>>
      BY <3>2, <3>3 DEF Bare
    <3>6. own = Root
      BY <2>1
    <3> HIDE DEF b, own
    <3> QED
      BY <2>1, <3>4, <3>5, <3>6
  <2>2. CASE b # <<>>
    <3> HIDE DEF b
    <3>1. IsSeq(b)
      BY <1>3 DEF Plain
    <3>2. Len(b) \in Nat \ {0} /\ Last(b) = b[Len(b)]
      BY <2>2, <3>1, FrontIsSeq
    <3>3. PlainToEnd(b) /\ Last(b) # Empty
      BY <1>3, <2>2, <3>2 DEF PlainToEnd, Plain
    <3> QED
      BY <2>2, <3>3 DEF Bare
  <2> QED
    BY <2>1, <2>2
<1> HIDE DEF own, a, b
<1>7. PlainToEnd(a \o own) /\ Bare(a \o own) = a \o b
  BY <1>6, ConcatToEnd DEF a
<1> DEFINE q == a \o own
<1> HIDE DEF q
<1>8. Collapse(q) = q /\ RStrip(q) = Bare(q)
  BY <1>7, CollapseStays, BareFacts DEF q
<1> QED
  BY <1>5, <1>7, <1>8 DEF q, a, b

\* and the text Django joins to one that ends in a slash.
LEMMA JointText ==
  ASSUME NEW a, Plain(a), NEW route, PlainToEnd(route)
  PROVE  /\ RStrip(Joint(a \o Root, route)) = a \o Bare(route)
         /\ Plain(a \o Bare(route))
         /\ Last(route) = Empty => Joint(a \o Root, route) = (a \o Bare(route)) \o Root
<1>1. Front(a \o Root) = a
  BY FrontOfConcat DEF Plain, Root
<1>2. Joint(a \o Root, route) = a \o route
  BY <1>1 DEF Joint
<1> DEFINE q == a \o route
<1>3. PlainToEnd(q) /\ Bare(q) = a \o Bare(route) /\ Plain(a \o Bare(route))
  BY ConcatToEnd
<1>4. Last(route) = Empty => q = (a \o Bare(route)) \o Root
  BY ConcatToEnd
<1> HIDE DEF q
<1>5. RStrip(q) = Bare(q)
  BY <1>3, BareFacts
<1> QED
  BY <1>2, <1>3, <1>4, <1>5 DEF q

-----------------------------------------------------------------------------
(* The URLs of a pattern.                                                  *)

\* The URLs of routes.
Urls(routes) == {<<r.method, RStrip(r.path), r.fn>> : r \in ToSet(routes)}

\* Those of one name have it,
LEMMA NamedHasName ==
  ASSUME NEW s, IsSeq(s), NEW name, NEW x \in ToSet(Named(s, name))
  PROVE  x.name = name
<1> DEFINE I == {i \in DOMAIN s : s[i].name = name}
<1>1. Named(s, name) = Picked(s, I)
  BY DEF Named, Filter
<1>2. I \in SUBSET DOMAIN s /\ \A i \in I : s[i].name = name
  OBVIOUS
<1> HIDE DEF I
<1>3. ToSet(Picked(s, I)) = {s[i] : i \in I}
  BY <1>2, PickedIsSeq
<1> QED
  BY <1>1, <1>2, <1>3

\* and they are all that have it.
LEMMA NamedIsAll ==
  ASSUME NEW s, IsSeq(s), NEW name, NEW x \in ToSet(s), x.name = name
  PROVE  x \in ToSet(Named(s, name))
<1> DEFINE I == {i \in DOMAIN s : s[i].name = name}
<1>1. Named(s, name) = Picked(s, I)
  BY DEF Named, Filter
<1>2. PICK i \in DOMAIN s : x = s[i]
  BY DEF ToSet
<1>3. i \in I /\ I \in SUBSET DOMAIN s
  BY <1>2
<1> HIDE DEF I
<1>4. ToSet(Picked(s, I)) = {s[j] : j \in I}
  BY <1>3, PickedIsSeq
<1> QED
  BY <1>1, <1>2, <1>3, <1>4

\* A module imported under one name only is the one the parser remembers,
LEMMA ImportRemembered ==
  ASSUME repo \in Repos, NEW f \in DOMAIN Files, NEW mod, NEW m, ImportedAs(f, mod) = {m}
  PROVE  ImportOf(Imports(Files[f]), mod) = m.path /\ m.path # <<>>
<1> DEFINE imports == Of(Files[f], "import")
           I == {j \in 1..Len(imports) : imports[j].local = mod}
           i == SelectLastInSeq(imports, LAMBDA x : x.local = mod)
<1>1. IsSeq(imports) /\ \A x \in ToSet(imports) : x.k = "import" /\ IsStatement(x)
  BY FilesFacts, OfFacts
<1>2. i = IF I # {} THEN Max(I) ELSE 0
  BY DEF SelectLastInSeq
<1>3. ImportOf(Imports(Files[f]), mod) = IF i = 0 THEN <<>> ELSE imports[i].path
  BY DEF ImportOf, Imports
<1>4. m \in ToSet(imports) /\ m.local = mod /\ \A x \in ToSet(imports) : x.local = mod => x = m
  BY DEF ImportedAs
<1> HIDE DEF imports, i
<1>5. Len(imports) \in Nat /\ DOMAIN imports = 1..Len(imports)
  BY <1>1, SeqFacts
<1>6. I # {}
  BY <1>4, <1>5 DEF ToSet
<1>7. Max(I) \in I
  <2>1. I \in SUBSET (1..Len(imports))
    OBVIOUS
  <2> HIDE DEF I
  <2> QED
    BY <1>5, <1>6, <2>1, MinMax
<1> DEFINE last == Max(I)
<1>8. last \in 1..Len(imports) /\ imports[last].local = mod
  BY <1>7
<1>9. i = last
  BY <1>2, <1>6
<1> HIDE DEF last, I
<1>10. imports[i] = m /\ i # 0
  BY <1>1, <1>4, <1>5, <1>8, <1>9, SeqFacts
<1>11. m.path # <<>>
  BY <1>1, <1>4 DEF IsStatement
<1> QED
  BY <1>3, <1>10, <1>11

\* so the parser finds the function Python finds, where there is no doubt about it.
LEMMA ViewFound ==
  ASSUME repo \in Repos, NEW f \in DOMAIN Files, NEW view, ClearView(f, view)
  PROVE  \E h : FunctionFor(f, view) = <<h>> /\ ViewFunctions(f, view) = {h} /\ h.name = view.name /\ IsMethod(h)
<1> DEFINE name  == view.name
           here  == Named(Callables(Files[f]), name)
           there == IF view.mod = "" THEN 0 ELSE SourceFile(f, view.mod)
           away  == Named(Callables(Files[there]), name)
<1>1. PICK g \in DOMAIN Files : ViewFiles(f, view) = {g} /\ ~Files[g].broken /\ CalledOnce(g, name)
  BY DEF ClearView
<1> DEFINE fns == Of(Files[g], "func")
           all == Callables(Files[g])
<1>2. PICK h \in ToSet(fns) : Named(all, name) = <<h>>
  BY <1>1 DEF CalledOnce
<1>3. FunctionFor(f, view) = IF here # <<>> THEN <<Last(here)>>
                             ELSE IF there = 0 \/ away = <<>> THEN <<>> ELSE <<away[1]>>
  BY Zenon DEF FunctionFor
<1>4. IsSeq(all) /\ IsSeq(fns) /\ ToSet(fns) \subseteq ToSet(all) /\ IsMethod(h)
  <2> DEFINE classes == Of(Files[g], "class")
             methods == FlattenSeq([i \in DOMAIN classes |-> classes[i].methods])
  <2>1. IsFile(Files[g])
    BY FilesFacts
  <2>2. IsSeq(fns) /\ \A x \in ToSet(fns) : x.k = "func" /\ IsStatement(x)
    BY <2>1, OfFacts
  <2>3. IsMethod(h)
    BY <2>2 DEF IsStatement
  <2>4. IsSeq(all)
    BY <2>1, CallablesFacts DEF AreMethods
  <2>5. all = fns \o methods
    BY <1>1 DEF Callables
  <2>6. IsSeq(methods)
    <3> DEFINE lists == [i \in DOMAIN classes |-> classes[i].methods]
    <3>1. IsSeq(classes) /\ \A x \in ToSet(classes) : x.k = "class" /\ IsStatement(x)
      BY <2>1, OfFacts
    <3> HIDE DEF classes
    <3>2. Len(classes) \in Nat /\ DOMAIN classes = 1..Len(classes) /\ \A i \in DOMAIN classes : IsSeq(classes[i].methods)
      BY <3>1, SeqFacts DEF IsStatement
    <3>3. DOMAIN lists = 1..Len(classes) /\ lists = [i \in 1..Len(classes) |-> lists[i]]
          /\ \A i \in DOMAIN lists : IsSeq(lists[i])
      BY <3>2
    <3>4. methods = FlattenSeq(lists)
      OBVIOUS
    <3> HIDE DEF lists, methods
    <3>5. IsSeq(lists)
      BY <3>2, <3>3, MapIsSeq
    <3> QED
      BY <3>3, <3>4, <3>5, FlattenIsSeqOf
  <2> HIDE DEF fns, methods, all
  <2>7. ToSet(all) = ToSet(fns) \cup ToSet(methods)
    BY <2>2, <2>5, <2>6, ConcatIsSeq
  <2> QED
    BY <2>2, <2>3, <2>4, <2>7
<1> HIDE DEF all
<1>5. h.name = name
  <2>1. h \in ToSet(Named(all, name))
    BY <1>2, SingletonIsSeq
  <2> QED
    BY <1>4, <2>1, NamedHasName
<1>6. ViewFunctions(f, view) = {h}
  <2>1. ViewFunctions(f, view) = {x \in ToSet(fns) : x.name = name}
    BY <1>1 DEF ViewFunctions
  <2>2. ASSUME NEW x \in ToSet(fns), x.name = name PROVE x = h
    <3>1. x \in ToSet(Named(all, name))
      BY <1>4, <2>2, NamedIsAll
    <3> QED
      BY <1>2, <3>1, SingletonIsSeq
  <2> HIDE DEF fns, name
  <2> QED
    BY <1>2, <1>5, <2>1, <2>2
<1>7. FunctionFor(f, view) = <<h>>
  <2>1. CASE view.mod = ""
    <3>1. g = f
      BY <1>1, <2>1 DEF ViewFiles
    <3>2. here = <<h>>
      BY <1>2, <3>1 DEF all
    <3> HIDE DEF here
    <3>3. Last(<<h>>) = h /\ <<h>> # <<>>
      BY DEF Last
    <3> QED
      BY <1>3, <3>2, <3>3
  <2>2. CASE view.mod # ""
    <3>1. PICK m \in ToSet(Files[f].body) : ImportedAs(f, view.mod) = {m} /\ Clear(f, m.path, m.relative)
      BY <2>2 DEF ClearView
    <3>2. PICK k \in DOMAIN Files : Finds(f, m.path, m.relative) = {k}
      BY <3>1 DEF Clear
    <3>3. k = g
      <4>1. ViewFiles(f, view) = UNION {Finds(f, x.path, x.relative) : x \in ImportedAs(f, view.mod)}
        BY <2>2 DEF ViewFiles
      <4>2. {Finds(f, x.path, x.relative) : x \in ImportedAs(f, view.mod)} = {{k}}
        BY <3>1, <3>2
      <4>3. k \in ViewFiles(f, view)
        BY <4>1, <4>2
      <4> QED
        BY <1>1, <4>3
    <3>4. ImportOf(Imports(Files[f]), view.mod) = m.path /\ m.path # <<>>
      BY <3>1, ImportRemembered
    <3>5. m.relative \in BOOLEAN
      <4>1. m \in ToSet(Of(Files[f], "import"))
        BY <3>1 DEF ImportedAs
      <4>2. m.k = "import" /\ IsStatement(m)
        BY <4>1, FilesFacts, OfFacts
      <4> QED
        BY <4>2 DEF IsStatement
    <3>6. SourceFile(f, view.mod) = g
      <4>1. SourceFile(f, view.mod) = ModuleFile(f, m.path)
        BY <3>4 DEF SourceFile
      <4>2. ModuleFile(f, m.path) = g
        BY <3>2, <3>3, <3>4, <3>5, ModuleFound
      <4> QED
        BY <4>1, <4>2
    <3>7. here = <<>>
      BY <2>2 DEF ClearView
    <3>8. there = g
      BY <2>2, <3>6
    <3>9. g # 0
      BY FilesFacts
    <3> HIDE DEF here, there
    <3>10. away = <<h>>
      BY <1>2, <3>8 DEF all
    <3> HIDE DEF away
    <3>11. <<h>>[1] = h /\ <<h>> # <<>>
      OBVIOUS
    <3> QED
      BY <1>3, <3>7, <3>8, <3>9, <3>10, <3>11
  <2> QED
    BY <2>1, <2>2
<1> QED
  BY <1>4, <1>5, <1>6, <1>7

\* A function gives a URL for each of its methods that a client can use.
LEMMA FunctionUrls ==
  ASSUME NEW function, IsMethod(function), NEW path, NEW own
  PROVE  /\ IsSeq(FunctionRoutes(function, path, own))
         /\ Urls(FunctionRoutes(function, path, own)) =
              {<<v, RStrip(path), function.name>> : v \in ToSet(function.api) \cap HttpMethods}
<1> DEFINE api   == function.api
           I     == {i \in DOMAIN api : api[i] \in HttpMethods}
           verbs == Picked(api, I)
           pars  == ParamsFor(<<function>>, own, own)
           u     == [i \in DOMAIN verbs |-> Route(verbs[i], path, function.name, pars, "ast")]
           strip == RStrip(path)
           name  == function.name
<1>1. FunctionRoutes(function, path, own) = u
  BY DEF FunctionRoutes, Filter
<1>2. IsSeq(api)
  BY DEF IsMethod
<1> HIDE DEF api
<1>3. I \in SUBSET DOMAIN api /\ {api[i] : i \in I} = ToSet(api) \cap HttpMethods
  BY DEF ToSet
<1> HIDE DEF I
<1>4. IsSeq(verbs) /\ ToSet(verbs) = ToSet(api) \cap HttpMethods
  BY <1>2, <1>3, PickedIsSeq
<1> HIDE DEF verbs, pars
<1>5. DOMAIN u = DOMAIN verbs /\ u = [i \in DOMAIN verbs |-> u[i]]
  OBVIOUS
<1>6. \A i \in DOMAIN verbs : u[i].method = verbs[i] /\ u[i].path = path /\ u[i].fn = name
  BY DEF Route
<1> HIDE DEF u
<1>7. IsSeq(u)
  BY <1>4, <1>5, EachIsSeq
<1>8. \A i \in DOMAIN verbs : <<u[i].method, RStrip(u[i].path), u[i].fn>> = <<verbs[i], strip, name>>
  BY <1>6, Zenon
<1> HIDE DEF strip, name
<1>9. \A x : x \in Urls(u) <=> \E i \in DOMAIN verbs : x = <<u[i].method, RStrip(u[i].path), u[i].fn>>
  BY <1>5 DEF Urls, ToSet
<1>10. \A x : x \in Urls(u) <=> \E v \in ToSet(api) \cap HttpMethods : x = <<v, strip, name>>
  <2>1. \A x : x \in Urls(u) <=> \E i \in DOMAIN verbs : x = <<verbs[i], strip, name>>
    BY <1>8, <1>9
  <2> QED
    BY <1>4, <2>1 DEF ToSet
<1>11. Urls(u) = {<<v, strip, name>> : v \in ToSet(api) \cap HttpMethods}
  BY <1>10
<1> QED
  BY <1>1, <1>7, <1>11 DEF strip, name, api

\* What Django serves it serves at one of the patterns; at an include it serves none.
LEMMA ServedAtPatterns ==
  /\ \A x : x \in ServedUrls <=> \E f \in UrlFiles : \E i \in DOMAIN Patterns(f) : x \in UrlsAt(f, i)
  /\ \A f, i : Target(f, Patterns(f)[i]) # 0 => UrlsAt(f, i) = {}
<1>1. \A x : x \in ServedUrls <=> \E f \in UrlFiles : \E i \in DOMAIN Patterns(f) : x \in UrlsAt(f, i)
  BY DEF ServedUrls
<1>2. \A f, i : Target(f, Patterns(f)[i]) # 0 => UrlsAt(f, i) = {}
  BY DEF UrlsAt, VerbsAt, Target
<1> QED
  BY <1>1, <1>2

\* What Project asks of a pattern: it is an include that leads to the file Django finds,
\* or a view that is the function Django finds.
LEMMA PatternOfProject ==
  ASSUME repo \in Repos, Project, NEW f \in UrlFiles, NEW i \in DOMAIN Patterns(f)
  PROVE  LET p == Patterns(f)[i]
         IN  /\ PlainToEnd(p.route) /\ Group \notin ToSet(p.route)
             /\ Target(f, p) # 0 => IncludesAt(f, i) = {<<f, i, Target(f, p)>>}
             /\ Target(f, p) = 0 =>
                  /\ IncludesAt(f, i) = {} /\ p.view.k = "ref"
                  /\ \E h : /\ FunctionFor(f, p.view) = <<h>> /\ VerbsAt(f, i) = ToSet(h.api) \cap HttpMethods
                            /\ h.name = p.view.name /\ IsMethod(h)
<1> DEFINE p == Patterns(f)[i]
<1>1. f \in DOMAIN Files /\ ~Files[f].broken
  BY DEF UrlFiles
<1>2. IsSeq(Patterns(f)) /\ IsPattern(p)
  BY <1>1, PatternsFacts
<1>3. p \in ToSet(Patterns(f))
  BY <1>2, SeqFacts
<1>4. /\ IncludesAt(f, i) = IF p.view.k # "include" THEN {}
                           ELSE {<<f, i, g>> : g \in Finds(f, p.view.module, FALSE)}
      /\ VerbsAt(f, i) = IF p.view.k # "ref" THEN {}
                        ELSE HttpMethods \cap UNION {ToSet(h.api) : h \in ViewFunctions(f, p.view)}
  BY DEF IncludesAt, VerbsAt
<1> HIDE DEF p
<1>5. IsSeq(p.route) /\ p.route # <<>> /\ (p.view.k = "include" => p.view.module # <<>>)
  BY <1>2 DEF IsPattern
<1>6. /\ Group \notin ToSet(p.route) /\ \A j \in 1..(Len(p.route) - 1) : p.route[j] # Empty
      /\ \/ p.view.k = "include" /\ Clear(f, p.view.module, FALSE)
         \/ ClearView(f, p.view)
  BY <1>3 DEF Project
<1>7. PlainToEnd(p.route) /\ Group \notin ToSet(p.route)
  BY <1>5, <1>6 DEF PlainToEnd
<1>8. CASE p.view.k = "include"
  <2>1. Clear(f, p.view.module, FALSE)
    BY <1>6, <1>8 DEF ClearView
  <2>2. PICK g \in DOMAIN Files : Finds(f, p.view.module, FALSE) = {g}
    BY <2>1 DEF Clear
  <2>3. ModuleFile(f, p.view.module) = g
    BY <1>1, <1>5, <1>8, <2>2, ModuleFound
  <2>4. Target(f, p) = g /\ g # 0
    BY <1>8, <2>3, FilesFacts DEF Target
  <2>5. IncludesAt(f, i) = {<<f, i, g>>}
    BY <1>4, <1>8, <2>2
  <2> QED
    BY <1>7, <2>4, <2>5 DEF p
<1>9. CASE p.view.k # "include"
  <2>1. ClearView(f, p.view) /\ p.view.k = "ref"
    BY <1>6, <1>9 DEF ClearView
  <2>2. PICK h : /\ FunctionFor(f, p.view) = <<h>> /\ ViewFunctions(f, p.view) = {h}
                 /\ h.name = p.view.name /\ IsMethod(h)
    BY <1>1, <2>1, ViewFound
  <2>3. VerbsAt(f, i) = ToSet(h.api) \cap HttpMethods
    <3>1. {ToSet(x.api) : x \in ViewFunctions(f, p.view)} = {ToSet(h.api)}
      BY <2>2
    <3>2. UNION {ToSet(x.api) : x \in ViewFunctions(f, p.view)} = ToSet(h.api)
      BY <3>1
    <3> QED
      BY <1>4, <2>1, <3>2
  <2>4. Target(f, p) = 0 /\ IncludesAt(f, i) = {}
    BY <1>4, <1>9 DEF Target
  <2>5. \E x : /\ FunctionFor(f, p.view) = <<x>> /\ VerbsAt(f, i) = ToSet(x.api) \cap HttpMethods
              /\ x.name = p.view.name /\ IsMethod(x)
    BY <2>2, <2>3
  <2> QED
    BY <1>7, <2>1, <2>4, <2>5 DEF p
<1> QED
  BY <1>8, <1>9

\* Under the prefix its file is mounted under a pattern gives the URLs Django serves.
LEMMA ListedUrls ==
  ASSUME repo \in Repos, Project, NEW f \in UrlFiles, NEW i \in DOMAIN Patterns(f),
         Target(f, Patterns(f)[i]) = 0,
         NEW prefix, Plain(RStrip(prefix)), Mounts[f] = {RStrip(prefix) \o Root}
  PROVE  LET routes == ViewRoutes(f, PathUnder(prefix, Patterns(f)[i]), Patterns(f)[i])
         IN  IsSeq(routes) /\ Urls(routes) = UrlsAt(f, i)
<1> DEFINE p == Patterns(f)[i]
           a == RStrip(prefix)
           path == PathUnder(prefix, p)
           view == p.view
           own == OwnParams(p.route)
           routes == ViewRoutes(f, path, p)
<1>1. PlainToEnd(p.route) /\ Group \notin ToSet(p.route) /\ view.k = "ref"
  BY PatternOfProject
<1>2. PICK h : /\ FunctionFor(f, view) = <<h>> /\ VerbsAt(f, i) = ToSet(h.api) \cap HttpMethods
               /\ h.name = view.name /\ IsMethod(h)
  BY PatternOfProject
<1> DEFINE listed == FunctionRoutes(h, path, own)
<1>3. routes = listed
  <2>1. <<h>>[1] = h /\ <<h>> # <<>>
    OBVIOUS
  <2> QED
    BY <1>1, <1>2, <2>1 DEF ViewRoutes
<1>4. IsMethod(h) /\ h.name = view.name
  BY <1>2
<1>5. /\ IsSeq(listed)
      /\ Urls(listed) = {<<v, RStrip(path), h.name>> : v \in ToSet(h.api) \cap HttpMethods}
  <2> HIDE DEF path, own
  <2> QED
    BY <1>4, FunctionUrls
<1>6. RStrip(path) = a \o Bare(p.route)
  <2> HIDE DEF p
  <2> QED
    BY <1>1, PathOfPattern
<1>7. RStrip(Joint(a \o Root, p.route)) = a \o Bare(p.route)
  <2> HIDE DEF p, a
  <2> QED
    BY <1>1, JointText DEF a
<1>8. VerbsAt(f, i) = ToSet(h.api) \cap HttpMethods
  BY <1>2
<1> DEFINE mount == a \o Root
           verbs == ToSet(h.api) \cap HttpMethods
           url   == RStrip(path)
<1>9. UrlsAt(f, i) = {<<v, RStrip(Joint(q, p.route)), view.name>> : q \in {mount}, v \in verbs}
  <2>1. VerbsAt(f, i) = verbs /\ Mounts[f] = {mount}
    BY <1>8
  <2> DEFINE All(ms, vs) == {<<v, RStrip(Joint(q, p.route)), view.name>> : q \in ms, v \in vs}
  <2>2. UrlsAt(f, i) = All(Mounts[f], VerbsAt(f, i))
    BY DEF UrlsAt
  <2> HIDE DEF mount, verbs, All
  <2>3. UrlsAt(f, i) = All({mount}, verbs)
    BY <2>1, <2>2
  <2> QED
    BY <2>3 DEF All
<1>10. RStrip(Joint(mount, p.route)) = url
  BY <1>6, <1>7
<1>11. Urls(listed) = {<<v, url, view.name>> : v \in verbs}
  BY <1>4, <1>5
<1> HIDE DEF mount, verbs, url, view, listed, routes
<1>12. UrlsAt(f, i) = {<<v, url, view.name>> : v \in verbs}
  BY <1>9, <1>10
<1>13. IsSeq(routes) /\ Urls(routes) = UrlsAt(f, i)
  BY <1>3, <1>5, <1>11, <1>12
<1> QED
  BY <1>13 DEF routes

-----------------------------------------------------------------------------
(* The walk through a project.                                             *)

\* The collectors' prefixes are those their files are mounted under, less a slash,
MountedAt(f, prefix) == f \in UrlFiles /\ Plain(RStrip(prefix)) /\ Mounts[f] = {RStrip(prefix) \o Root}
Mounted(st) == \A s \in DOMAIN st : MountedAt(st[s].file, st[s].prefix)

\* the URLs found are those of the patterns handled,
Listed(dj, hd) ==
    /\ IsSeq(dj)
    /\ \A h \in ToSet(hd) : h[1] \in UrlFiles /\ h[2] \in DOMAIN Patterns(h[1])
    /\ \A x : x \in Urls(dj) <=> \E h \in ToSet(hd) : x \in UrlsAt(h[1], h[2])

\* the files of the includes handled were entered,
Followed(vis, hd) == \A c \in Includes : <<c[1], c[2]>> \in ToSet(hd) => c[3] \in vis

\* and the first file to start from comes first.
RootFirst(st, vis) == ToSet(st) \subseteq ToSet(Starts) /\ (st = Starts \/ Starts[1] \in vis)

MountsRight ==
    /\ Mounted(stack) /\ Listed(django, handled) /\ Followed(visited, handled)
    /\ walk = "on" => RootFirst(starts, visited)
MountInv == WalkInv /\ (Ready => MountsRight)

\* What a step has to keep of a repository that stays.
LEMMA MountsSuffice ==
  ASSUME repo \in Repos, repo' = repo,
         Ready => /\ Mounted(stack') /\ Listed(django', handled') /\ Followed(visited', handled')
                  /\ walk' = "on" => RootFirst(starts', visited')
  PROVE  (Ready => MountsRight)'
<1> SUFFICES ASSUME Ready PROVE MountsRight'
  BY SameProject
<1>1. /\ Files' = Files /\ \A f : Patterns(f)' = Patterns(f)
      /\ UrlFiles' = UrlFiles /\ Includes' = Includes /\ Mounts' = Mounts /\ Starts' = Starts
  BY SameRepository, SameIncludes, SameMounts, SameStarts
<1>2. \A f, i : UrlsAt(f, i)' = UrlsAt(f, i)
  <2>1. \A f, i : VerbsAt(f, i)' = VerbsAt(f, i)
    BY <1>1, SameViews DEF VerbsAt
  <2> QED
    BY <1>1, <2>1 DEF UrlsAt
<1>3. Mounted(stack)' <=> Mounted(stack')
  BY <1>1 DEF Mounted, MountedAt, Plain
<1>4. Listed(django, handled)' <=> Listed(django', handled')
  BY <1>1, <1>2 DEF Listed, Urls
<1>5. Followed(visited, handled)' <=> Followed(visited', handled')
  BY <1>1 DEF Followed
<1>6. RootFirst(starts, visited)' <=> RootFirst(starts', visited')
  BY <1>1 DEF RootFirst
<1> QED
  BY <1>3, <1>4, <1>5, <1>6 DEF MountsRight

\* The invariant holds at the start.
LEMMA MountsStart == Init => MountInv
<1> SUFFICES ASSUME Init PROVE MountInv
  OBVIOUS
<1>1. stack = <<>> /\ visited = {} /\ handled = <<>> /\ walk = "off" /\ django = <<>>
  BY Zenon DEF Init, DjangoInit
<1>2. IsSeq(<<>>) /\ ToSet(<<>>) = {} /\ DOMAIN <<>> = {}
  BY EmptyIsSeq
<1>3. Urls(<<>>) = {}
  BY <1>2 DEF Urls
<1>4. Mounted(<<>>) /\ Followed({}, <<>>)
  BY <1>2 DEF Mounted, Followed
<1>5. Listed(<<>>, <<>>)
  <2>1. ~\E h : h \in ToSet(<<>>)
    BY <1>2
  <2> QED
    BY <1>2, <1>3, <2>1, Zenon DEF Listed
<1> QED
  BY <1>1, <1>4, <1>5, WalkStarts DEF MountInv, MountsRight

\* If the first file to start from has no includes, none has.
LEMMA FirstStart ==
  ASSUME repo \in Repos, Starts # <<>>, ~HasInclude(Starts[1]),
         NEW g \in DOMAIN Files, Stem(Files[g]) = "urls"
  PROVE  ~HasInclude(g)
<1> DEFINE all == [f \in DOMAIN Files |-> f]
           IsUrls == {i \in DOMAIN all : Stem(Files[all[i]]) = "urls"}
           urls == Picked(all, IsUrls)
           With == {i \in DOMAIN urls : HasInclude(urls[i])}
           Without == {i \in DOMAIN urls : ~HasInclude(urls[i])}
           a == Picked(urls, With)
           b == Picked(urls, Without)
<1>1. IsSeq(all)
  BY FilesFacts, MapIsSeq
<1>2. IsSeq(urls) /\ g \in ToSet(urls)
  <2>1. ToSet(urls) = {all[i] : i \in IsUrls} /\ IsSeq(urls)
    <3> HIDE DEF all
    <3> QED
      BY <1>1, PickedIsSeq
  <2>2. g \in IsUrls /\ all[g] = g
    OBVIOUS
  <2> QED
    BY <2>1, <2>2
<1>3. Starts = a \o b
  BY DEF Starts, Filter
<1> HIDE DEF urls
<1>4. IsSeq(a) /\ ToSet(a) = {urls[i] : i \in With} /\ IsSeq(b)
  BY <1>2, PickedIsSeq
<1> SUFFICES ASSUME HasInclude(g) PROVE FALSE
  OBVIOUS
<1>5. PICK i \in DOMAIN urls : g = urls[i]
  BY <1>2, SeqFacts DEF ToSet
<1>6. g \in ToSet(a)
  BY <1>4, <1>5
<1>7. a # <<>>
  <2> HIDE DEF a
  <2> QED
    BY <1>6, EmptyIsSeq
<1>8. \A x \in ToSet(a) : HasInclude(x)
  BY <1>4
<1> HIDE DEF a, b
<1>9. Len(a) \in Nat \ {0} /\ a[1] \in ToSet(a)
  BY <1>4, <1>7, FrontIsSeq, EndsFacts
<1>10. (a \o b)[1] = a[1]
  <2>1. \A k \in 1..Len(a) : (a \o b)[k] = a[k]
    BY <1>4, ConcatPlaces
  <2> QED
    BY <1>9, <2>1
<1> QED
  BY <1>3, <1>8, <1>9, <1>10

\* A file with an include among the includes of the repository has one.
LEMMA IncludeIsThere ==
  ASSUME repo \in Repos, NEW c \in Includes
  PROVE  HasInclude(c[1])
<1>1. c[1] \in UrlFiles /\ c[2] \in DOMAIN Patterns(c[1])
  BY IncludesFacts
<1>2. c[1] \in DOMAIN Files /\ ~Files[c[1]].broken
  BY <1>1 DEF UrlFiles
<1>3. Patterns(c[1])[c[2]].view.k = "include"
  BY IncludesFacts
<1>4. Patterns(c[1])[c[2]] \in ToSet(Patterns(c[1]))
  BY <1>1, <1>2, PatternsFacts, SeqFacts
<1> QED
  BY <1>2, <1>3, <1>4 DEF HasInclude

\* A file to be started from that was not entered is included by no other: the one
\* root comes first, and what is included was entered before.
LEMMA StartIsRoot ==
  ASSUME repo \in Repos, Ready, NEW vis, NEW hd, Walk(<<>>, vis, hd), Followed(vis, hd),
         NEW f \in UrlFiles, f \notin vis, f = Starts[1] \/ Starts[1] \in vis
  PROVE  NotIncluded(f)
<1> DEFINE U == UrlFiles \ vis
<1>1. UrlFiles \subseteq DOMAIN Files
  BY IncludesFacts
<1>2. CASE f = Starts[1]
  BY <1>2 DEF Ready, RootScannedFirst, NotIncluded
<1>3. CASE f # Starts[1]
  <2> SUFFICES ASSUME ~NotIncluded(f) PROVE FALSE
    OBVIOUS
  <2>1. PICK c \in Includes : c[3] = f
    BY DEF NotIncluded
  <2>2. Starts # <<>> /\ NotIncluded(Starts[1])
    BY DEF Ready, RootScannedFirst, NotIncluded
  <2>3. Starts[1] \in DOMAIN Files /\ Stem(Files[Starts[1]]) = "urls"
    <3>1. Starts[1] \in ToSet(Starts)
      BY <2>2, StartsFacts, EndsFacts
    <3> QED
      BY <3>1, StartsFacts
  <2>4. HasInclude(Starts[1])
    <3>1. c[1] \in DOMAIN Files /\ Stem(Files[c[1]]) = "urls" /\ HasInclude(c[1])
      BY IncludesFacts, IncludeIsThere DEF UrlFiles
    <3> QED
      BY <2>2, <3>1, FirstStart
  <2>5. Starts[1] \in UrlFiles
    BY <2>3, <2>4 DEF HasInclude, UrlFiles
  <2>6. \A g \in U : ~NotIncluded(g)
    <3> SUFFICES ASSUME NEW g \in U, NotIncluded(g) PROVE FALSE
      OBVIOUS
    <3> DEFINE R == {h \in UrlFiles : NotIncluded(h)}
    <3>1. R = {h \in UrlFiles : \A d \in Includes : d[3] # h}
      BY DEF NotIncluded
    <3>2. Cardinality(R) = 1
      BY <3>1 DEF Ready, Project
    <3>3. IsFiniteSet(R)
      <4>1. Len(Files) \in Nat /\ DOMAIN Files = 1..Len(Files)
        BY FilesFacts
      <4>2. IsFiniteSet(1..Len(Files))
        BY <4>1, FS_Interval
      <4>3. R \subseteq 1..Len(Files)
        BY <1>1, <4>1
      <4> QED
        BY <4>2, <4>3, FS_Subset
    <3>4. Starts[1] \in R /\ g \in R
      BY <2>2, <2>5
    <3> HIDE DEF R
    <3>5. PICK r : R = {r}
      BY <3>2, <3>3, FS_Singleton
    <3> QED
      BY <1>3, <3>4, <3>5
  <2>7. ASSUME NEW d \in Includes, d[3] \in U PROVE d[1] \in U
    <3>1. d[1] \in UrlFiles /\ d[2] \in DOMAIN Patterns(d[1])
      BY IncludesFacts
    <3> SUFFICES ASSUME d[1] \in vis PROVE FALSE
      BY <3>1
    <3>2. ~Files[d[1]].broken
      BY <3>1 DEF UrlFiles
    <3>3. <<d[1], d[2]>> \in ToSet(hd)
      BY <3>1, <3>2, EmptyIsSeq DEF Walk, LeftHandled
    <3> QED
      BY <2>7, <3>3 DEF Followed
  <2>8. \A g \in U : Mounts[g] = {}
    <3>1. U \in SUBSET DOMAIN Files
      BY <1>1
    <3> HIDE DEF U
    <3> QED
      BY <2>6, <2>7, <3>1, MountOfUnreached
  <2> QED
    BY <2>8 DEF Ready, Project
<1> QED
  BY <1>2, <1>3

\* Entering a file under the prefix it is mounted under keeps the collectors right,
LEMMA OpenMounts ==
  ASSUME NEW below, IsSeq(below), Mounted(below), NEW f, NEW prefix, Open(f, prefix, below),
         f \notin visited /\ ~Files[f].broken => MountedAt(f, prefix)
  PROVE  Mounted(stack') /\ visited' = visited \cup {f}
<1>1. CASE f \in visited
  BY <1>1 DEF Open
<1>2. CASE f \notin visited /\ Files[f].broken
  BY <1>2 DEF Open
<1>3. CASE f \notin visited /\ ~Files[f].broken
  <2> DEFINE new == [file |-> f, prefix |-> prefix, next |-> 1]
  <2>1. visited' = visited \cup {f} /\ stack' = Append(below, new)
    BY <1>3 DEF Open
  <2>2. new.file = f /\ new.prefix = prefix
    OBVIOUS
  <2> HIDE DEF new
  <2> DEFINE st == Append(below, new)
  <2>3. /\ IsSeq(st) /\ Len(st) = Len(below) + 1 /\ st[Len(below) + 1] = new
        /\ \A s \in 1..Len(below) : st[s] = below[s]
    BY AppendIsSeq
  <2>4. Len(below) \in Nat /\ DOMAIN below = 1..Len(below) /\ DOMAIN st = 1..Len(st)
    <3> HIDE DEF st
    <3> QED
      BY <2>3, SeqFacts
  <2> HIDE DEF st
  <2>5. \A s \in DOMAIN st : (s \in DOMAIN below /\ st[s] = below[s]) \/ st[s] = new
    BY <2>3, <2>4
  <2>6. Mounted(st)
    BY <1>3, <2>2, <2>5 DEF Mounted
  <2> QED
    BY <2>1, <2>6 DEF st
<1> QED
  BY <1>1, <1>2, <1>3

\* and so does moving past a pattern, or leaving a file.
LEMMA PastMounts ==
  ASSUME NEW st, IsSeq(st), st # <<>>, Mounted(st), NEW past,
         past.file = Last(st).file, past.prefix = Last(st).prefix
  PROVE  /\ IsSeq(Front(st)) /\ Mounted(Front(st))
         /\ IsSeq(Append(Front(st), past)) /\ Mounted(Append(Front(st), past))
<1> DEFINE fr == Front(st)
           q  == Append(fr, past)
<1>1. /\ Len(st) \in Nat \ {0} /\ Last(st) = st[Len(st)] /\ DOMAIN st = 1..Len(st)
      /\ IsSeq(fr) /\ Len(fr) = Len(st) - 1 /\ \A s \in 1..(Len(st) - 1) : fr[s] = st[s]
  BY FrontIsSeq, SeqFacts
<1> HIDE DEF fr
<1>2. DOMAIN fr = 1..Len(fr)
  BY <1>1, SeqFacts
<1>3. IsSeq(fr) /\ \A s \in DOMAIN fr : s \in DOMAIN st /\ fr[s] = st[s]
  BY <1>1, <1>2
<1>4. /\ IsSeq(q) /\ Len(q) = Len(fr) + 1 /\ q[Len(fr) + 1] = past
      /\ \A s \in 1..Len(fr) : q[s] = fr[s]
  BY <1>3, AppendIsSeq
<1> HIDE DEF q
<1>5. DOMAIN q = 1..Len(q)
  BY <1>4, SeqFacts
<1>6. \A s \in DOMAIN q : (s \in DOMAIN fr /\ q[s] = fr[s]) \/ q[s] = past
  BY <1>1, <1>2, <1>4, <1>5
<1>7. Mounted(fr)
  BY <1>3 DEF Mounted
<1>8. MountedAt(past.file, past.prefix)
  <2>1. Len(st) \in DOMAIN st
    BY <1>1
  <2> QED
    BY <1>1, <2>1 DEF Mounted
<1>9. Mounted(q)
  BY <1>6, <1>7, <1>8 DEF Mounted
<1> QED
  BY <1>3, <1>4, <1>7, <1>9 DEF q, fr

\* A pattern more was handled: it is of a file of the project, its URLs were found,
LEMMA ListedMore ==
  ASSUME NEW dj, NEW hd, Listed(dj, hd), IsSeq(hd), NEW f \in UrlFiles, NEW i \in DOMAIN Patterns(f),
         NEW found, IsSeq(found), Urls(found) = UrlsAt(f, i)
  PROVE  Listed(dj \o found, Append(hd, <<f, i>>))
<1> DEFINE pair == <<f, i>>
           more == Append(hd, pair)
           all  == dj \o found
<1>1. pair[1] = f /\ pair[2] = i
  OBVIOUS
<1> HIDE DEF pair
<1>2. ToSet(more) = ToSet(hd) \cup {pair}
  BY AppendIsSeq
<1>3. IsSeq(dj)
  BY Zenon DEF Listed
<1>4. IsSeq(all) /\ ToSet(all) = ToSet(dj) \cup ToSet(found)
  BY <1>3, ConcatIsSeq
<1> HIDE DEF more, all
<1>5. \A x : x \in Urls(all) <=> x \in Urls(dj) \/ x \in Urls(found)
  BY <1>4 DEF Urls
<1>6. \A h \in ToSet(more) : h[1] \in UrlFiles /\ h[2] \in DOMAIN Patterns(h[1])
  BY <1>1, <1>2, Zenon DEF Listed
<1>7. \A x : x \in Urls(dj) <=> \E h \in ToSet(hd) : x \in UrlsAt(h[1], h[2])
  BY Zenon DEF Listed
<1>8. \A x : x \in Urls(all) <=> \E h \in ToSet(more) : x \in UrlsAt(h[1], h[2])
  BY <1>1, <1>2, <1>5, <1>7
<1>9. Listed(all, more)
  BY <1>4, <1>6, <1>8, Zenon DEF Listed
<1> QED
  BY <1>9 DEF all, more, pair

\* and if it was an include, the file it leads to was entered.
LEMMA FollowedMore ==
  ASSUME repo \in Repos, NEW vis, NEW hd, Followed(vis, hd), IsSeq(hd), NEW f, NEW i, NEW vis2, vis \subseteq vis2,
         \A c \in IncludesAt(f, i) : c[3] \in vis2
  PROVE  Followed(vis2, Append(hd, <<f, i>>))
<1> SUFFICES ASSUME NEW c \in Includes, <<c[1], c[2]>> \in ToSet(Append(hd, <<f, i>>))
             PROVE  c[3] \in vis2
  BY DEF Followed
<1>1. <<c[1], c[2]>> \in ToSet(hd) \/ <<c[1], c[2]>> = <<f, i>>
  <2> DEFINE pair == <<f, i>>
  <2> HIDE DEF pair
  <2>1. ToSet(Append(hd, pair)) = ToSet(hd) \cup {pair}
    BY AppendIsSeq
  <2> QED
    BY <2>1 DEF pair
<1>2. CASE <<c[1], c[2]>> \in ToSet(hd)
  BY <1>2 DEF Followed
<1>3. CASE <<c[1], c[2]>> = <<f, i>>
  <2>1. PICK g \in UrlFiles : \E j \in DOMAIN Patterns(g) : c \in IncludesAt(g, j)
    BY IncludesFacts
  <2>2. PICK j \in DOMAIN Patterns(g) : c \in IncludesAt(g, j)
    BY <2>1
  <2>3. c \in {<<g, j, x>> : x \in Finds(g, Patterns(g)[j].view.module, FALSE)}
    BY <2>2 DEF IncludesAt
  <2>4. PICK x : c = <<g, j, x>>
    BY <2>3
  <2>5. c[1] = g /\ c[2] = j
    BY <2>4
  <2> QED
    BY <1>3, <2>2, <2>5
<1> QED
  BY <1>1, <1>2, <1>3

\* Every step of the walk keeps the invariant: starting from a file,
LEMMA StartFileMounts ==
  ASSUME MountInv, repo' = repo, StartFile
  PROVE  (Ready => MountsRight)'
<1> DEFINE f == Head(starts)
<1>1. /\ repo \in Repos /\ Walk(<<>>, visited, handled) /\ IsSeq(starts) /\ starts # <<>>
      /\ ToSet(starts) \subseteq DOMAIN Files
  BY DEF MountInv, WalkInv, NoneForgotten, StartFile
<1>2. /\ IsSeq(Tail(starts)) /\ ToSet(starts) = {f} \cup ToSet(Tail(starts)) /\ f = starts[1]
  BY <1>1, TailIsSeq
<1>3. /\ Open(f, <<>>, <<>>) /\ starts' = Tail(starts) /\ walk = "on" /\ stack = <<>>
      /\ handled' = handled /\ django' = django
  BY DEF StartFile
<1> HIDE DEF f
<1> SUFFICES ASSUME Ready
             PROVE  /\ Mounted(stack') /\ Listed(django', handled') /\ Followed(visited', handled')
                    /\ RootFirst(starts', visited')
  BY <1>1, MountsSuffice
<1>4. /\ Mounted(<<>>) /\ Listed(django, handled) /\ Followed(visited, handled)
      /\ RootFirst(starts, visited)
  BY <1>3 DEF MountInv, MountsRight
<1>5. ASSUME f \notin visited, ~Files[f].broken PROVE MountedAt(f, <<>>)
  <2>1. f \in ToSet(Starts)
    BY <1>2, <1>4 DEF RootFirst
  <2>2. f \in UrlFiles
    BY <1>1, <1>5, <2>1, StartsFacts DEF UrlFiles
  <2>3. f = Starts[1] \/ Starts[1] \in visited
    BY <1>2, <1>4 DEF RootFirst
  <2>4. NotIncluded(f)
    BY <1>1, <1>4, <1>5, <2>2, <2>3, StartIsRoot
  <2>5. f \in DOMAIN Files
    BY <2>2 DEF UrlFiles
  <2>6. Mounts[f] = {Root}
    BY <1>1, <2>4, <2>5, MountOfRoot
  <2>7. RStrip(<<>>) = <<>>
    BY EmptyIsSeq, RStripPlain
  <2>8. Plain(<<>>)
    BY EmptyIsSeq DEF Plain
  <2>9. <<>> \o Root = Root
    BY DEF Root
  <2> QED
    BY <2>2, <2>6, <2>7, <2>8, <2>9 DEF MountedAt
<1>6. Mounted(stack') /\ visited' = visited \cup {f}
  BY <1>3, <1>4, <1>5, EmptyIsSeq, OpenMounts
<1>7. Followed(visited', handled)
  BY <1>4, <1>6 DEF Followed
<1>8. RootFirst(starts', visited')
  BY <1>2, <1>3, <1>4, <1>6 DEF RootFirst
<1> QED
  BY <1>3, <1>4, <1>6, <1>7, <1>8

\* following an include,
LEMMA FollowIncludeMounts ==
  ASSUME MountInv, repo' = repo, FollowInclude
  PROVE  (Ready => MountsRight)'
<1> DEFINE file   == Top.file
           at     == Top.next
           here   == Here
           f      == Target(Top.file, Here)
           prefix == PathUnder(Top.prefix, Here)
           below  == Append(Front(stack), Past)
           a      == RStrip(Top.prefix)
           c      == <<file, at, f>>
<1>1. /\ repo \in Repos /\ Walk(stack, visited, handled) /\ stack # <<>> /\ IsSeq(stack) /\ IsSeq(handled)
      /\ Top = Last(stack) /\ Top.next <= Len(Patterns(Top.file)) /\ here = Patterns(file)[at]
  BY DEF MountInv, WalkInv, Walk, WalkShape, FollowInclude, InFile, Top, Here
<1>2. /\ f # 0 /\ Open(f, prefix, below) /\ handled' = Append(handled, <<file, at>>)
      /\ django' = django /\ starts' = starts /\ walk = "on"
  BY DEF FollowInclude, Handle, InFile
<1>3. /\ Top = [file |-> Top.file, prefix |-> Top.prefix, next |-> Top.next]
      /\ file \in DOMAIN Files /\ ~Files[file].broken
      /\ at \in 1..(Len(Patterns(file)) + 1)
  BY <1>1, TopFacts DEF Walk, Collector
<1>4. at \in DOMAIN Patterns(file)
  BY <1>1, <1>3, PatternsFacts
<1>5. Past.file = Last(stack).file /\ Past.prefix = Last(stack).prefix
  BY <1>1, <1>3 DEF Past
<1> SUFFICES ASSUME Ready
             PROVE  /\ Mounted(stack') /\ Listed(django', handled') /\ Followed(visited', handled')
                    /\ RootFirst(starts', visited')
  BY <1>1, MountsSuffice
<1>6. /\ Mounted(stack) /\ Listed(django, handled) /\ Followed(visited, handled)
      /\ RootFirst(starts, visited)
  BY <1>2 DEF MountInv, MountsRight
<1>7. MountedAt(file, Top.prefix)
  <2>1. Len(stack) \in DOMAIN stack /\ Last(stack) = stack[Len(stack)]
    BY <1>1, FrontIsSeq, SeqFacts
  <2> QED
    BY <1>1, <1>6, <2>1 DEF Mounted
<1>8. IsSeq(below) /\ Mounted(below)
  BY <1>1, <1>5, <1>6, PastMounts
<1>9. PlainToEnd(here.route)
  BY <1>1, <1>4, <1>7, PatternOfProject DEF MountedAt, Ready
<1>10. IncludesAt(file, at) = {c} /\ c \in Includes
  <2>1. f = Target(file, Patterns(file)[at]) /\ file \in UrlFiles
    BY <1>1, <1>7 DEF MountedAt
  <2> HIDE DEF file, at
  <2>2. IncludesAt(file, at) = {c}
    BY <1>1, <1>2, <1>4, <2>1, PatternOfProject DEF Ready
  <2> QED
    BY <1>1, <1>4, <2>1, <2>2, IncludesFacts
<1>11. MountedAt(f, prefix)
  <2>1. c[1] = file /\ c[2] = at /\ c[3] = f
    OBVIOUS
  <2>2. RouteOf(c) = here.route
    BY <1>1, <2>1 DEF RouteOf
  <2> HIDE DEF c
  <2>3. f \in UrlFiles /\ Last(here.route) = Empty /\ Mounts[f] # {}
    BY <1>10, <2>1, <2>2 DEF Ready, Project, RouteOf
  <2>4. \A d \in Includes : d[3] = f => d = c
    BY <1>10, <2>1 DEF Ready, Project
  <2>5. Mounts[file] = {a \o Root} /\ Plain(a)
    BY <1>7 DEF MountedAt
  <2>6. Mounts[f] = {Joint(a \o Root, here.route)}
    <3> DEFINE p == a \o Root
    <3>1. Mounts[c[1]] = {p} /\ Mounts[c[3]] # {}
      BY <2>1, <2>3, <2>5
    <3> HIDE DEF p
    <3>2. Mounts[c[3]] = {Joint(p, RouteOf(c))}
      BY <1>1, <1>10, <2>1, <2>4, <3>1, MountOfIncluded
    <3> QED
      BY <2>1, <2>2, <3>2 DEF p
  <2>7. /\ Plain(a \o Bare(here.route))
        /\ Joint(a \o Root, here.route) = (a \o Bare(here.route)) \o Root
    <3> HIDE DEF a, here
    <3> QED
      BY <1>9, <2>3, <2>5, JointText
  <2>8. RStrip(prefix) = a \o Bare(here.route)
    <3>1. Group \notin ToSet(here.route)
      BY <1>1, <1>4, <1>7, PatternOfProject DEF MountedAt, Ready
    <3> QED
      BY <1>9, <2>5, <3>1, PathOfPattern
  <2> HIDE DEF a, here, prefix, f
  <2> QED
    BY <2>3, <2>6, <2>7, <2>8 DEF MountedAt
<1> HIDE DEF f, prefix, below, here, c, a
<1>12. Mounted(stack') /\ visited' = visited \cup {f}
  BY <1>2, <1>8, <1>11, OpenMounts
<1>13. Listed(django', handled')
  <2>1. IsSeq(<<>>) /\ Urls(<<>>) = UrlsAt(file, at)
    <3>1. UrlsAt(file, at) = {}
      BY <1>1, <1>2, ServedAtPatterns DEF f, here
    <3>2. Urls(<<>>) = {}
      BY EmptyIsSeq DEF Urls
    <3> QED
      BY <3>1, <3>2, EmptyIsSeq
  <2>2. file \in UrlFiles
    BY <1>7 DEF MountedAt
  <2> HIDE DEF file, at
  <2>3. Listed(django \o <<>>, Append(handled, <<file, at>>))
    BY <1>1, <1>4, <1>6, <2>1, <2>2, ListedMore
  <2>4. django \o <<>> = django
    <3>1. IsSeq(django)
      BY <1>6, Zenon DEF Listed
    <3> QED
      BY <3>1 DEF IsSeq
  <2> QED
    BY <1>2, <2>3, <2>4
<1>14. Followed(visited', handled')
  <2>1. \A d \in IncludesAt(file, at) : d[3] \in visited'
    BY <1>10, <1>12 DEF c
  <2> HIDE DEF file, at
  <2> QED
    BY <1>1, <1>2, <1>6, <1>12, <2>1, FollowedMore
<1>15. RootFirst(starts', visited')
  BY <1>2, <1>6, <1>12 DEF RootFirst
<1> QED
  BY <1>12, <1>13, <1>14, <1>15

\* finding the routes of a pattern,
LEMMA ListRoutesMounts ==
  ASSUME MountInv, repo' = repo, ListRoutes
  PROVE  (Ready => MountsRight)'
<1> DEFINE file == Top.file
           at   == Top.next
           here == Here
           path == PathUnder(Top.prefix, Here)
           found == ViewRoutes(file, path, here)
<1>1. /\ repo \in Repos /\ Walk(stack, visited, handled) /\ stack # <<>> /\ IsSeq(stack) /\ IsSeq(handled)
      /\ Top = Last(stack) /\ Top.next <= Len(Patterns(Top.file)) /\ here = Patterns(file)[at]
  BY DEF MountInv, WalkInv, Walk, WalkShape, ListRoutes, InFile, Top, Here
<1>2. /\ Target(file, here) = 0 /\ stack' = Append(Front(stack), Past)
      /\ handled' = Append(handled, <<file, at>>) /\ django' = django \o found
      /\ visited' = visited /\ starts' = starts /\ walk = "on"
  BY DEF ListRoutes, Handle, InFile
<1>3. /\ Top = [file |-> Top.file, prefix |-> Top.prefix, next |-> Top.next]
      /\ file \in DOMAIN Files /\ ~Files[file].broken
      /\ at \in 1..(Len(Patterns(file)) + 1)
  BY <1>1, TopFacts DEF Walk, Collector
<1>4. at \in DOMAIN Patterns(file)
  BY <1>1, <1>3, PatternsFacts
<1>5. Past.file = Last(stack).file /\ Past.prefix = Last(stack).prefix
  BY <1>1, <1>3 DEF Past
<1> SUFFICES ASSUME Ready
             PROVE  /\ Mounted(stack') /\ Listed(django', handled') /\ Followed(visited', handled')
                    /\ RootFirst(starts', visited')
  BY <1>1, MountsSuffice
<1>6. /\ Mounted(stack) /\ Listed(django, handled) /\ Followed(visited, handled)
      /\ RootFirst(starts, visited)
  BY <1>2 DEF MountInv, MountsRight
<1>7. MountedAt(file, Top.prefix)
  <2>1. Len(stack) \in DOMAIN stack /\ Last(stack) = stack[Len(stack)]
    BY <1>1, FrontIsSeq, SeqFacts
  <2> QED
    BY <1>1, <1>6, <2>1 DEF Mounted
<1>8. Mounted(stack')
  BY <1>1, <1>2, <1>5, <1>6, PastMounts
<1>9. IsSeq(found) /\ Urls(found) = UrlsAt(file, at)
  <2>1. found = ViewRoutes(file, PathUnder(Top.prefix, Patterns(file)[at]), Patterns(file)[at])
    BY <1>1
  <2>2. Target(file, Patterns(file)[at]) = 0
    BY <1>1, <1>2
  <2> DEFINE prefix == Top.prefix
  <2>3. MountedAt(file, prefix) /\ found = ViewRoutes(file, PathUnder(prefix, Patterns(file)[at]), Patterns(file)[at])
    BY <1>7, <2>1
  <2> HIDE DEF file, at, found, prefix
  <2> QED
    BY <1>1, <1>4, <2>2, <2>3, ListedUrls DEF MountedAt, Ready
<1> HIDE DEF found
<1>10. Listed(django', handled')
  <2>1. file \in UrlFiles
    BY <1>7 DEF MountedAt
  <2> HIDE DEF file, at
  <2>2. Listed(django \o found, Append(handled, <<file, at>>))
    BY <1>1, <1>4, <1>6, <1>9, <2>1, ListedMore
  <2> QED
    BY <1>2, <2>2
<1>11. Followed(visited', handled')
  <2>1. Target(file, Patterns(file)[at]) = 0 /\ file \in UrlFiles
    BY <1>1, <1>2, <1>7 DEF MountedAt
  <2> HIDE DEF file, at
  <2>2. IncludesAt(file, at) = {}
    BY <1>1, <1>4, <2>1, PatternOfProject DEF Ready
  <2> QED
    BY <1>1, <1>2, <1>6, <2>2, FollowedMore
<1> QED
  BY <1>2, <1>6, <1>8, <1>10, <1>11

\* leaving a file,
LEMMA CloseFileMounts ==
  ASSUME MountInv, repo' = repo, CloseFile
  PROVE  (Ready => MountsRight)'
<1>1. /\ repo \in Repos /\ stack # <<>> /\ IsSeq(stack) /\ stack' = Front(stack)
      /\ UNCHANGED <<starts, visited, django, handled, walk>>
  BY DEF MountInv, WalkInv, Walk, WalkShape, CloseFile
<1> SUFFICES ASSUME Ready
             PROVE  /\ Mounted(stack') /\ Listed(django', handled') /\ Followed(visited', handled')
                    /\ walk' = "on" => RootFirst(starts', visited')
  BY <1>1, MountsSuffice
<1>2. /\ Mounted(stack) /\ Listed(django, handled) /\ Followed(visited, handled)
      /\ walk = "on" => RootFirst(starts, visited)
  BY DEF MountInv, MountsRight
<1>3. Mounted(stack')
  BY <1>1, <1>2, PastMounts
<1> QED
  BY <1>1, <1>2, <1>3

\* and the start of the walk.
LEMMA StartDjangoMounts ==
  ASSUME MountInv, StartDjango
  PROVE  (Ready => MountsRight)'
<1>1. /\ repo \in Repos /\ repo' = repo
      /\ UNCHANGED <<stack, visited, django, handled>>
      /\ (walk' = "on" /\ starts' = Starts) \/ UNCHANGED <<walk, starts>>
  BY DEF MountInv, WalkInv, StartDjango
<1>2. Ready => /\ Mounted(stack) /\ Listed(django, handled) /\ Followed(visited, handled)
               /\ walk = "on" => RootFirst(starts, visited)
  BY DEF MountInv, MountsRight
<1>3. RootFirst(Starts, visited)
  BY DEF RootFirst
<1> QED
  BY <1>1, <1>2, <1>3, MountsSuffice

\* Nothing else touches the walk.
LEMMA ElsewhereMounts ==
  ASSUME MountInv, repo' = repo, UNCHANGED <<starts, stack, visited, django, handled>>,
         walk' = "on" => walk = "on"
  PROVE  (Ready => MountsRight)'
<1>1. repo \in Repos
  BY DEF MountInv, WalkInv
<1>2. Ready => /\ Mounted(stack) /\ Listed(django, handled) /\ Followed(visited, handled)
               /\ walk = "on" => RootFirst(starts, visited)
  BY DEF MountInv, MountsRight
<1> QED
  BY <1>1, <1>2, MountsSuffice

\* Every step keeps the invariant.
LEMMA MountsKept == MountInv /\ [Next]_vars => MountInv'
<1> SUFFICES ASSUME MountInv, [Next]_vars PROVE MountInv'
  OBVIOUS
<1>1. WalkInv'
  BY WalkKept DEF MountInv
<1> SUFFICES (Ready => MountsRight)'
  BY <1>1 DEF MountInv
<1>2. CASE RunDjango
  <2>1. repo' = repo /\ DjangoStep
    BY <1>2 DEF RunDjango
  <2>2. CASE DjangoEnds
    BY <2>1, <2>2, ElsewhereMounts DEF DjangoEnds
  <2> QED
    BY <2>1, <2>2, StartFileMounts, FollowIncludeMounts, ListRoutesMounts, CloseFileMounts DEF DjangoStep
<1>3. CASE StartDjango
  BY <1>3, StartDjangoMounts
<1>4. CASE ReadDocument \/ StartFastApi \/ RunFastApi
  BY <1>4, ElsewhereMounts DEF ReadDocument, StartFastApi, RunFastApi, djangoVars
<1>5. CASE StartMerge \/ MergeRoute \/ DetectConfig \/ BuildGraph \/ Generate
  BY <1>5, ElsewhereMounts DEF StartMerge, MergeRoute, DetectConfig, BuildGraph, Generate, djangoVars
<1>6. CASE UNCHANGED vars
  BY <1>6, ElsewhereMounts DEF vars, djangoVars
<1> QED
  BY <1>2, <1>3, <1>4, <1>5, <1>6 DEF Next, Finished

\* When the walk is over all patterns were handled, hence the URLs are those served.
LEMMA MountsSufficient == MountInv => MountedRight
<1> SUFFICES ASSUME MountInv, walk = "over", Ready PROVE DjangoServed
  BY DEF MountedRight, Ready
<1>1. Listed(django, handled) /\ WalkInv
  BY DEF MountInv, MountsRight
<1>2. \A f \in UrlFiles : \A i \in DOMAIN Patterns(f) : <<f, i>> \in ToSet(handled)
  <2>1. PatternsOnce
    BY <1>1, WalkSuffices
  <2> QED
    BY <2>1, Zenon DEF PatternsOnce
<1>3. \A x : x \in Urls(django) <=> \E h \in ToSet(handled) : x \in UrlsAt(h[1], h[2])
  BY <1>1, Zenon DEF Listed
<1>4. \A h \in ToSet(handled) : h[1] \in UrlFiles /\ h[2] \in DOMAIN Patterns(h[1])
  BY <1>1, Zenon DEF Listed
<1>5. \A x : x \in ServedUrls <=> \E f \in UrlFiles : \E i \in DOMAIN Patterns(f) : x \in UrlsAt(f, i)
  BY ServedAtPatterns
<1>6. ASSUME NEW x \in Urls(django) PROVE x \in ServedUrls
  BY <1>3, <1>4, <1>5
<1>7. ASSUME NEW x \in ServedUrls PROVE x \in Urls(django)
  <2>1. PICK f \in UrlFiles : \E i \in DOMAIN Patterns(f) : x \in UrlsAt(f, i)
    BY <1>5
  <2>2. PICK i \in DOMAIN Patterns(f) : x \in UrlsAt(f, i)
    BY <2>1
  <2> DEFINE h == <<f, i>>
  <2>3. h \in ToSet(handled) /\ h[1] = f /\ h[2] = i
    BY <1>2
  <2> HIDE DEF h
  <2> QED
    BY <1>3, <2>2, <2>3
<1>8. Urls(django) = ServedUrls
  BY <1>6, <1>7
<1> QED
  BY <1>8 DEF Urls, DjangoServed

\* Of a Django project whose root is scanned before the other files with includes,
\* whose modules and views Python finds in one place each, and whose views are not
\* imported by name, the parser finds every URL that Django serves, under the
\* prefixes of all the includes on the way to it, and no other, however deep the
\* includes are (_UrlPatternCollector.collect; the run parsing checks it).
THEOREM MountedRightAlways == Spec => []MountedRight
BY MountsStart, MountsKept, MountsSufficient, PTL DEF Spec

=============================================================================
