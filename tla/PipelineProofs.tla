--------------------------- MODULE PipelineProofs ---------------------------
(***************************************************************************)
(* Proofs about the pipeline: what the parsers hand over, how it is        *)
(* merged, which settings are detected, that every parse ends, and that    *)
(* the routes FastAPI serves are those that are found.                     *)
(***************************************************************************)
EXTENDS ParserProofs

-----------------------------------------------------------------------------
(* Merging.                                                                *)

\* What MergedRight says of the first n routes that were offered.
Merges(mg, o, n) ==
    /\ \A i, j \in DOMAIN mg : Key(mg[i]) = Key(mg[j]) => i = j
    /\ \A i \in 1..n : \E j \in DOMAIN mg : Key(mg[j]) = Key(o[i])
    /\ \A j \in DOMAIN mg : \E i \in 1..n :
         mg[j] = o[i] /\ \A k \in (i + 1)..n : Key(o[k]) # Key(o[i])

\* Of no routes, nothing is merged right.
LEMMA MergesNothing == ASSUME NEW o PROVE Merges(<<>>, o, 0)
BY EmptyIsSeq DEF Merges

\* One route more is merged right: it replaces the only one of its identity, or it
\* is the first of it.
LEMMA MergeOneMore ==
  ASSUME NEW mg, IsSeq(mg), NEW o, NEW n \in Nat, Merges(mg, o, n),
         NEW r, r = o[n + 1], NEW mg2, mg2 = Merged(mg, r)
  PROVE  IsSeq(mg2) /\ Merges(mg2, o, n + 1)
<1>1. Len(mg) \in Nat /\ DOMAIN mg = 1..Len(mg) /\ mg = [i \in 1..Len(mg) |-> mg[i]]
  BY SeqFacts
<1>2. CASE \E i \in DOMAIN mg : Key(mg[i]) = Key(r)
  <2> DEFINE c == CHOOSE i \in DOMAIN mg : Key(mg[i]) = Key(r)
  <2>1. c \in DOMAIN mg /\ Key(mg[c]) = Key(r)
    BY <1>2
  <2>2. mg2 = [mg EXCEPT ![c] = r]
    BY <1>2 DEF Merged
  <2> HIDE DEF c
  <2>3. /\ DOMAIN mg2 = DOMAIN mg /\ mg2[c] = r /\ \A i \in DOMAIN mg : i # c => mg2[i] = mg[i]
        /\ mg2 = [i \in 1..Len(mg) |-> mg2[i]]
    BY <1>1, <2>1, <2>2
  <2>4. IsSeq(mg2)
    BY <1>1, <2>3, MapIsSeq
  <2>5. \A i \in DOMAIN mg : Key(mg2[i]) = Key(mg[i])
    BY <2>1, <2>3
  <2>6. ASSUME NEW i \in DOMAIN mg2, NEW j \in DOMAIN mg2, Key(mg2[i]) = Key(mg2[j]) PROVE i = j
    <3>1. i \in DOMAIN mg /\ j \in DOMAIN mg
      BY <2>3
    <3>2. Key(mg[i]) = Key(mg[j])
      BY <2>5, <2>6, <3>1
    <3> QED
      BY <3>1, <3>2 DEF Merges
  <2>7. ASSUME NEW i \in 1..(n + 1) PROVE \E j \in DOMAIN mg2 : Key(mg2[j]) = Key(o[i])
    <3>1. CASE i = n + 1
      BY <3>1, <2>1, <2>3
    <3>2. CASE i \in 1..n
      <4>1. PICK j \in DOMAIN mg : Key(mg[j]) = Key(o[i])
        BY <3>2 DEF Merges
      <4>2. j \in DOMAIN mg2
        BY <2>3
      <4>3. Key(mg2[j]) = Key(o[i])
        BY <4>1, <2>5
      <4> QED
        BY <4>2, <4>3
    <3> QED
      BY <3>1, <3>2
  <2>8. ASSUME NEW j \in DOMAIN mg2
        PROVE  \E i \in 1..(n + 1) : mg2[j] = o[i] /\ \A k \in (i + 1)..(n + 1) : Key(o[k]) # Key(o[i])
    <3>1. CASE j = c
      <4>1. n + 1 \in 1..(n + 1) /\ mg2[j] = o[n + 1] /\ (n + 1 + 1)..(n + 1) = {}
        BY <3>1, <2>3
      <4> QED
        BY <4>1
    <3>2. CASE j # c
      <4>1. PICK i \in 1..n : mg[j] = o[i] /\ \A k \in (i + 1)..n : Key(o[k]) # Key(o[i])
        BY <2>3 DEF Merges
      <4>2. Key(mg[j]) # Key(mg[c])
        BY <3>2, <2>1, <2>3 DEF Merges
      <4>5. Key(o[n + 1]) # Key(o[i])
        BY <4>1, <4>2, <2>1
      <4>3. \A k \in (i + 1)..(n + 1) : k \in (i + 1)..n \/ k = n + 1
        OBVIOUS
      <4>4. mg2[j] = o[i]
        BY <3>2, <4>1, <2>3
      <4>6. i \in 1..(n + 1)
        BY <4>1
      <4>7. \A k \in (i + 1)..(n + 1) : Key(o[k]) # Key(o[i])
        BY <4>1, <4>3, <4>5
      <4> QED
        BY <4>4, <4>6, <4>7
    <3> QED
      BY <3>1, <3>2
  <2> QED
    BY <2>4, <2>6, <2>7, <2>8 DEF Merges
<1>3. CASE ~\E i \in DOMAIN mg : Key(mg[i]) = Key(r)
  <2> DEFINE m == Len(mg)
  <2>1. mg2 = Append(mg, r)
    BY <1>3 DEF Merged
  <2>2. /\ IsSeq(mg2) /\ Len(mg2) = m + 1 /\ mg2[m + 1] = r
        /\ \A i \in 1..m : mg2[i] = mg[i]
    BY <2>1, AppendIsSeq
  <2>3. DOMAIN mg2 = 1..(m + 1) /\ m \in Nat /\ DOMAIN mg = 1..m
    BY <1>1, <2>2, SeqFacts
  <2> HIDE DEF m
  <2>4. \A i \in DOMAIN mg2 : (i \in DOMAIN mg /\ mg2[i] = mg[i]) \/ (i = m + 1 /\ mg2[i] = r)
    BY <2>2, <2>3
  <2>5. \A i, j \in DOMAIN mg2 : Key(mg2[i]) = Key(mg2[j]) => i = j
    BY <1>3, <2>4 DEF Merges
  <2>6. ASSUME NEW i \in 1..(n + 1) PROVE \E j \in DOMAIN mg2 : Key(mg2[j]) = Key(o[i])
    <3>1. CASE i = n + 1
      BY <3>1, <2>2, <2>3
    <3>2. CASE i \in 1..n
      <4>1. PICK j \in DOMAIN mg : Key(mg[j]) = Key(o[i])
        BY <3>2 DEF Merges
      <4> QED
        BY <4>1, <2>2, <2>3
    <3> QED
      BY <3>1, <3>2
  <2>7. ASSUME NEW j \in DOMAIN mg2
        PROVE  \E i \in 1..(n + 1) : mg2[j] = o[i] /\ \A k \in (i + 1)..(n + 1) : Key(o[k]) # Key(o[i])
    <3>1. CASE j = m + 1 /\ mg2[j] = r
      <4>1. n + 1 \in 1..(n + 1) /\ mg2[j] = o[n + 1] /\ (n + 1 + 1)..(n + 1) = {}
        BY <3>1
      <4> QED
        BY <4>1
    <3>2. CASE j \in DOMAIN mg /\ mg2[j] = mg[j]
      <4>1. PICK i \in 1..n : mg[j] = o[i] /\ \A k \in (i + 1)..n : Key(o[k]) # Key(o[i])
        BY <3>2 DEF Merges
      <4>2. Key(o[n + 1]) # Key(o[i])
        BY <1>3, <3>2, <4>1
      <4>3. \A k \in (i + 1)..(n + 1) : k \in (i + 1)..n \/ k = n + 1
        OBVIOUS
      <4>4. i \in 1..(n + 1) /\ mg2[j] = o[i]
        BY <3>2, <4>1
      <4> QED
        BY <4>1, <4>2, <4>3, <4>4
    <3> QED
      BY <3>1, <3>2, <2>4
  <2> QED
    BY <2>2, <2>5, <2>6, <2>7 DEF Merges
<1> QED
  BY <1>2, <1>3

\* The documents of a repository that may be submitted,
LEMMA SpecsFacts ==
  ASSUME repo \in Repos
  PROVE  /\ Len(repo.specs) \in Nat /\ DOMAIN repo.specs = 1..Len(repo.specs)
         /\ \A i \in DOMAIN repo.specs : IsDocument(repo.specs[i])
BY ReposAssumption, SeqFacts

\* and the lines of its .env files.
LEMMA LinesFacts ==
  ASSUME repo \in Repos
  PROVE  IsSeq(Lines) /\ \A l \in ToSet(Lines) : IsLine(l)
<1>1. /\ IsSeq(repo.env)
      /\ \A lines \in ToSet(repo.env) : IsSeq(lines) /\ \A l \in ToSet(lines) : IsLine(l)
  BY ReposAssumption
<1>2. \A i \in DOMAIN repo.env : IsSeq(repo.env[i]) /\ \A l \in ToSet(repo.env[i]) : IsLine(l)
  BY <1>1, SeqFacts
<1>3. IsSeq(Lines) /\ ToSet(Lines) = UNION {ToSet(repo.env[i]) : i \in DOMAIN repo.env}
  BY <1>1, <1>2, FlattenIsSeqOf DEF Lines
<1> QED
  BY <1>2, <1>3

\* What the scan finds in the .env files has the fields of a setting.
IsSetting(c) ==
    /\ c = [url |-> c.url, port |-> c.port, auth |-> c.auth, var |-> c.var]
    /\ c.auth \in AuthTypes

\* Reading a line keeps them.
LEMMA ReadLineFacts ==
  ASSUME NEW c, IsSetting(c), NEW line, IsLine(line)
  PROVE  IsSetting(ReadLine(c, line))
<1>1. CASE line.k = "url"
  <2>1. ReadLine(c, line) \in {c, [c EXCEPT !.url = line.v]}
    BY <1>1 DEF ReadLine
  <2> QED
    BY <2>1 DEF IsSetting
<1>2. CASE line.k = "port"
  <2>1. ReadLine(c, line) \in {c, [c EXCEPT !.port = line.v]}
    BY <1>2 DEF ReadLine
  <2> QED
    BY <2>1 DEF IsSetting
<1>3. CASE line.k = "auth"
  <2>1. ReadLine(c, line) \in {c, [c EXCEPT !.auth = line.type, !.var = line.var]}
    BY <1>3 DEF ReadLine
  <2>2. line.type \in AuthTypes
    BY <1>3 DEF IsLine, AuthTypes
  <2> QED
    BY <2>1, <2>2 DEF IsSetting
<1>4. CASE line.k \notin {"url", "port", "auth"}
  <2>1. ReadLine(c, line) = c
    BY <1>4 DEF ReadLine
  <2> QED
    BY <2>1
<1> QED
  BY <1>1, <1>2, <1>3, <1>4

\* The smallest number of a set stays when a greater one is added.
LEMMA MinOfMore ==
  ASSUME NEW m \in Nat, NEW I \in SUBSET (1..m)
  PROVE  /\ I # {} => Min(I \cup {m + 1}) = Min(I) /\ Min(I) \in 1..m
         /\ I = {} => Min(I \cup {m + 1}) = m + 1
<1> DEFINE J == I \cup {m + 1}
<1>1. J \in SUBSET (1..(m + 1)) /\ J # {} /\ m + 1 \in Nat
  OBVIOUS
<1>2. Min(J) \in J /\ \A i \in J : Min(J) <= i
  BY <1>1, MinMax
<1>3. CASE I = {}
  BY <1>2, <1>3
<1>4. CASE I # {}
  <2>1. Min(I) \in I /\ \A i \in I : Min(I) <= i
    BY <1>4, MinMax
  <2>2. Min(I) \in 1..m /\ Min(I) \in J /\ Min(J) \in 1..(m + 1)
    BY <1>1, <1>2, <2>1
  <2>3. Min(J) <= Min(I)
    BY <1>2, <2>2
  <2>4. Min(J) # m + 1
    BY <2>2, <2>3
  <2>5. Min(J) \in I
    BY <1>2, <2>4
  <2>6. Min(I) <= Min(J)
    BY <2>1, <2>5
  <2> QED
    BY <1>4, <2>2, <2>3, <2>6
<1> QED
  BY <1>3, <1>4

\* The usable lines of each kind among the first i.
UrlLines(i)  == {l \in 1..i : Lines[l].k = "url" /\ Lines[l].http}
PortLines(i) == {l \in 1..i : Lines[l].k = "port"}
AuthLines(i) == {l \in 1..i : Lines[l].k = "auth"}

\* What the scan has found after i lines: the first usable one of each kind.
Scanned(c, i) ==
    /\ IsSetting(c)
    /\ c.url = IF UrlLines(i) = {} THEN "" ELSE Lines[Min(UrlLines(i))].v
    /\ c.port = IF PortLines(i) = {} THEN "" ELSE Lines[Min(PortLines(i))].v
    /\ c.auth = IF AuthLines(i) = {} THEN "none" ELSE Lines[Min(AuthLines(i))].type
    /\ c.var = IF AuthLines(i) = {} THEN "" ELSE Lines[Min(AuthLines(i))].var

\* One line more is one usable line more, or none.
LEMMA OneLineMore ==
  ASSUME NEW i \in Nat, NEW line, line = Lines[i + 1]
  PROVE  /\ UrlLines(i) \in SUBSET (1..i) /\ PortLines(i) \in SUBSET (1..i) /\ AuthLines(i) \in SUBSET (1..i)
         /\ UrlLines(i + 1) = IF line.k = "url" /\ line.http THEN UrlLines(i) \cup {i + 1} ELSE UrlLines(i)
         /\ PortLines(i + 1) = IF line.k = "port" THEN PortLines(i) \cup {i + 1} ELSE PortLines(i)
         /\ AuthLines(i + 1) = IF line.k = "auth" THEN AuthLines(i) \cup {i + 1} ELSE AuthLines(i)
<1>1. 1..(i + 1) = (1..i) \cup {i + 1}
  OBVIOUS
<1> QED
  BY <1>1 DEF UrlLines, PortLines, AuthLines

\* A value that was found is not empty, and a kind of authentication is one.
LEMMA FoundValues ==
  ASSUME repo \in Repos, NEW i \in 0..Len(Lines)
  PROVE  /\ UrlLines(i) # {} => Min(UrlLines(i)) \in UrlLines(i) /\ Lines[Min(UrlLines(i))].v # ""
         /\ PortLines(i) # {} => Min(PortLines(i)) \in PortLines(i) /\ Lines[Min(PortLines(i))].v # ""
         /\ AuthLines(i) # {} => /\ Min(AuthLines(i)) \in AuthLines(i)
                             /\ Lines[Min(AuthLines(i))].type \in {"bearer", "api_key"}
<1>1. /\ Len(Lines) \in Nat /\ i \in Nat /\ DOMAIN Lines = 1..Len(Lines)
      /\ \A l \in DOMAIN Lines : IsLine(Lines[l])
  BY LinesFacts, SeqFacts
<1>2. \A l \in 1..i : IsLine(Lines[l])
  BY <1>1
<1>3. /\ UrlLines(i) \in SUBSET (1..i) /\ PortLines(i) \in SUBSET (1..i) /\ AuthLines(i) \in SUBSET (1..i)
  BY DEF UrlLines, PortLines, AuthLines
<1>4. /\ UrlLines(i) # {} => Min(UrlLines(i)) \in UrlLines(i)
      /\ PortLines(i) # {} => Min(PortLines(i)) \in PortLines(i)
      /\ AuthLines(i) # {} => Min(AuthLines(i)) \in AuthLines(i)
  BY <1>1, <1>3, MinMax
<1>5. /\ \A l \in UrlLines(i) : Lines[l].v # ""
      /\ \A l \in PortLines(i) : Lines[l].v # ""
      /\ \A l \in AuthLines(i) : Lines[l].type \in {"bearer", "api_key"}
  BY <1>2 DEF UrlLines, PortLines, AuthLines, IsLine
<1> QED
  BY <1>4, <1>5

\* Reading the next line keeps it: a setting that was found is not empty, so it is
\* never taken for one that is still missing.
LEMMA ReadOneMore ==
  ASSUME repo \in Repos, NEW i \in Nat, i + 1 <= Len(Lines), NEW c, Scanned(c, i),
         NEW line, line = Lines[i + 1]
  PROVE  Scanned(ReadLine(c, line), i + 1)
<1> DEFINE d == ReadLine(c, line)
<1>1. IsLine(line) /\ Len(Lines) \in Nat /\ i \in 0..Len(Lines)
  BY LinesFacts, SeqFacts
<1>2. IsSetting(d) /\ IsSetting(c)
  BY <1>1, ReadLineFacts DEF Scanned
<1>3. c = [url |-> c.url, port |-> c.port, auth |-> c.auth, var |-> c.var]
  BY <1>2 DEF IsSetting
<1>4. /\ c.url = "" <=> UrlLines(i) = {}
      /\ c.port = "" <=> PortLines(i) = {}
      /\ c.auth = "none" <=> AuthLines(i) = {}
  BY <1>1, FoundValues DEF Scanned
<1>5. CASE line.k = "url"
  <2>1. /\ PortLines(i + 1) = PortLines(i) /\ AuthLines(i + 1) = AuthLines(i)
        /\ UrlLines(i + 1) = IF line.http THEN UrlLines(i) \cup {i + 1} ELSE UrlLines(i)
    BY <1>5, OneLineMore
  <2>2. d = IF c.url = "" /\ line.http THEN [c EXCEPT !.url = line.v] ELSE c
    BY <1>5 DEF ReadLine
  <2>3. d.port = c.port /\ d.auth = c.auth /\ d.var = c.var
    BY <1>3, <2>2
  <2>4. d.url = IF UrlLines(i + 1) = {} THEN "" ELSE Lines[Min(UrlLines(i + 1))].v
    <3>1. CASE ~line.http
      BY <2>1, <2>2, <3>1 DEF Scanned
    <3>2. CASE line.http /\ UrlLines(i) = {}
      <4>1. Min(UrlLines(i + 1)) = i + 1 /\ UrlLines(i + 1) # {}
        BY <2>1, <3>2, MinOfMore, OneLineMore
      <4>2. d.url = line.v
        BY <1>3, <1>4, <2>2, <3>2
      <4> QED
        BY <4>1, <4>2
    <3>3. CASE line.http /\ UrlLines(i) # {}
      <4>1. Min(UrlLines(i + 1)) = Min(UrlLines(i)) /\ UrlLines(i + 1) # {}
        BY <2>1, <3>3, MinOfMore, OneLineMore
      <4>2. d = c
        BY <1>4, <2>2, <3>3
      <4> QED
        BY <3>3, <4>1, <4>2 DEF Scanned
    <3> QED
      BY <3>1, <3>2, <3>3
  <2>5. Scanned(d, i + 1)
    <3> HIDE DEF d
    <3> QED
      BY <1>2, <2>1, <2>3, <2>4 DEF Scanned
  <2> QED
    BY <2>5
<1>6. CASE line.k = "port"
  <2>1. /\ UrlLines(i + 1) = UrlLines(i) /\ AuthLines(i + 1) = AuthLines(i)
        /\ PortLines(i + 1) = PortLines(i) \cup {i + 1}
    BY <1>6, OneLineMore
  <2>2. d = IF c.port = "" THEN [c EXCEPT !.port = line.v] ELSE c
    BY <1>6 DEF ReadLine
  <2>3. d.url = c.url /\ d.auth = c.auth /\ d.var = c.var
    BY <1>3, <2>2
  <2>4. d.port = IF PortLines(i + 1) = {} THEN "" ELSE Lines[Min(PortLines(i + 1))].v
    <3>1. CASE PortLines(i) = {}
      <4>1. Min(PortLines(i + 1)) = i + 1 /\ PortLines(i + 1) # {}
        BY <2>1, <3>1, MinOfMore, OneLineMore
      <4>2. d.port = line.v
        BY <1>3, <1>4, <2>2, <3>1
      <4> QED
        BY <4>1, <4>2
    <3>2. CASE PortLines(i) # {}
      <4>1. Min(PortLines(i + 1)) = Min(PortLines(i)) /\ PortLines(i + 1) # {}
        BY <2>1, <3>2, MinOfMore, OneLineMore
      <4>2. d = c
        BY <1>4, <2>2, <3>2
      <4> QED
        BY <3>2, <4>1, <4>2 DEF Scanned
    <3> QED
      BY <3>1, <3>2
  <2>5. Scanned(d, i + 1)
    <3> HIDE DEF d
    <3> QED
      BY <1>2, <2>1, <2>3, <2>4 DEF Scanned
  <2> QED
    BY <2>5
<1>7. CASE line.k = "auth"
  <2>1. /\ UrlLines(i + 1) = UrlLines(i) /\ PortLines(i + 1) = PortLines(i)
        /\ AuthLines(i + 1) = AuthLines(i) \cup {i + 1}
    BY <1>7, OneLineMore
  <2>2. d = IF c.auth = "none" THEN [c EXCEPT !.auth = line.type, !.var = line.var] ELSE c
    BY <1>7 DEF ReadLine
  <2>3. d.url = c.url /\ d.port = c.port
    BY <1>3, <2>2
  <2>4. /\ d.auth = IF AuthLines(i + 1) = {} THEN "none" ELSE Lines[Min(AuthLines(i + 1))].type
        /\ d.var = IF AuthLines(i + 1) = {} THEN "" ELSE Lines[Min(AuthLines(i + 1))].var
    <3>1. CASE AuthLines(i) = {}
      <4>1. Min(AuthLines(i + 1)) = i + 1 /\ AuthLines(i + 1) # {}
        BY <2>1, <3>1, MinOfMore, OneLineMore
      <4>2. d.auth = line.type /\ d.var = line.var
        BY <1>3, <1>4, <2>2, <3>1
      <4> QED
        BY <4>1, <4>2
    <3>2. CASE AuthLines(i) # {}
      <4>1. Min(AuthLines(i + 1)) = Min(AuthLines(i)) /\ AuthLines(i + 1) # {}
        BY <2>1, <3>2, MinOfMore, OneLineMore
      <4>2. d = c
        BY <1>4, <2>2, <3>2
      <4> QED
        BY <3>2, <4>1, <4>2 DEF Scanned
    <3> QED
      BY <3>1, <3>2
  <2>5. Scanned(d, i + 1)
    <3> HIDE DEF d
    <3> QED
      BY <1>2, <2>1, <2>3, <2>4 DEF Scanned
  <2> QED
    BY <2>5
<1>8. CASE line.k \notin {"url", "port", "auth"}
  <2>1. UrlLines(i + 1) = UrlLines(i) /\ PortLines(i + 1) = PortLines(i) /\ AuthLines(i + 1) = AuthLines(i)
    BY <1>8, OneLineMore
  <2>2. d = c
    BY <1>8 DEF ReadLine
  <2> QED
    BY <2>1, <2>2 DEF Scanned
<1> QED
  BY <1>5, <1>6, <1>7, <1>8

\* The whole scan.
LEMMA ScanFacts ==
  ASSUME repo \in Repos
  PROVE  Scanned(FoldLeft(ReadLine, NoConfig, Lines), Len(Lines))
<1>1. IsSeq(Lines) /\ Len(Lines) \in Nat
  BY LinesFacts, SeqFacts
<1>2. PICK f : Runs(f, "settings", NoConfig, Lines) /\ FoldLeft(ReadLine, NoConfig, Lines) = f[Len(Lines)]
  BY <1>1, SettingsRun
<1> DEFINE Have == {m \in Nat : m <= Len(Lines) => Scanned(f[m], m)}
<1>3. 0 \in Have
  <2>1. UrlLines(0) = {} /\ PortLines(0) = {} /\ AuthLines(0) = {}
    BY DEF UrlLines, PortLines, AuthLines
  <2>2. f[0] = NoConfig
    BY <1>2 DEF Runs
  <2>3. IsSetting(NoConfig)
    BY DEF IsSetting, NoConfig, AuthTypes
  <2>4. NoConfig.url = "" /\ NoConfig.port = "" /\ NoConfig.auth = "none" /\ NoConfig.var = ""
    BY DEF NoConfig
  <2>5. Scanned(NoConfig, 0)
    BY <2>1, <2>3, <2>4, Zenon DEF Scanned
  <2> QED
    BY <2>2, <2>5
<1>4. ASSUME NEW m \in Nat, m \in Have PROVE m + 1 \in Have
  <2> SUFFICES ASSUME m + 1 <= Len(Lines) PROVE Scanned(f[m + 1], m + 1)
    OBVIOUS
  <2>1. Scanned(f[m], m)
    BY <1>1, <1>4
  <2>2. f[m + 1] = ReadLine(f[m], Lines[m + 1])
    <3>1. (m + 1) - 1 = m /\ m + 1 \in 1..Len(Lines)
      BY <1>1
    <3> QED
      BY <1>2, <3>1 DEF Runs, Step
  <2> QED
    BY <2>1, <2>2, ReadOneMore
<1>5. Len(Lines) \in Have
  <2> HIDE DEF Have
  <2> QED
    BY <1>1, <1>3, <1>4, NatInduct
<1> QED
  BY <1>1, <1>2, <1>5

\* The library names that occur in the code stand for a kind of authentication.
LEMMA CodeAuthFacts == CodeAuth \in AuthTypes
BY DEF CodeAuth, AuthTypes

\* detect_config over the whole repository, field by field.
LEMMA DetectedFacts ==
  ASSUME repo \in Repos, NEW env, env = FoldLeft(ReadLine, NoConfig, Lines)
  PROVE  /\ Scanned(env, Len(Lines))
         /\ Detected.auth = (IF env.auth = "none" THEN CodeAuth ELSE env.auth)
         /\ Detected.url = (IF env.url = "" /\ env.port # "" THEN "localhost:" \o env.port ELSE env.url)
         /\ Detected.var = env.var
         /\ Detected.auth \in AuthTypes
<1>1. Scanned(env, Len(Lines))
  BY ScanFacts
<1>2. /\ env = [url |-> env.url, port |-> env.port, auth |-> env.auth, var |-> env.var]
      /\ env.auth \in AuthTypes
  BY <1>1 DEF Scanned, IsSetting
<1> DEFINE auth == IF env.auth = "none" THEN CodeAuth ELSE env.auth
           url == IF env.url = "" /\ env.port # "" THEN "localhost:" \o env.port ELSE env.url
<1>3. Detected = [env EXCEPT !.auth = auth, !.url = url]
  BY DEF Detected, Lines
<1>4. auth \in AuthTypes
  BY <1>2, CodeAuthFacts
<1>5. Detected.auth = auth /\ Detected.url = url /\ Detected.var = env.var
  <2> HIDE DEF auth, url
  <2> QED
    BY <1>2, <1>3
<1> QED
  BY <1>1, <1>4, <1>5

\* The places of the first lines, as ConfigRight finds them.
LEMMA FirstLines ==
  /\ First(LAMBDA l : l.k = "url" /\ l.http) =
       IF UrlLines(Len(Lines)) # {} THEN Min(UrlLines(Len(Lines))) ELSE 0
  /\ First(LAMBDA l : l.k = "port") = IF PortLines(Len(Lines)) # {} THEN Min(PortLines(Len(Lines))) ELSE 0
  /\ First(LAMBDA l : l.k = "auth") = IF AuthLines(Len(Lines)) # {} THEN Min(AuthLines(Len(Lines))) ELSE 0
BY DEF First, SelectInSeq, UrlLines, PortLines, AuthLines

\* The settings of the user and of the repository, put together, are right.
LEMMA MergedConfigRight ==
  ASSUME repo \in Repos, NEW c, c = MergedConfig(Detected, repo.user)
  PROVE  ConfigRight(c) /\ c.auth \in AuthTypes
<1> DEFINE env == FoldLeft(ReadLine, NoConfig, Lines)
           n == Len(Lines)
           url == First(LAMBDA l : l.k = "url" /\ l.http)
           port == First(LAMBDA l : l.k = "port")
           auth == First(LAMBDA l : l.k = "auth")
           user == repo.user
<1>1. n \in Nat /\ n \in 0..n
  BY LinesFacts, SeqFacts
<1>2. /\ Scanned(env, n)
      /\ Detected.auth = (IF env.auth = "none" THEN CodeAuth ELSE env.auth)
      /\ Detected.url = (IF env.url = "" /\ env.port # "" THEN "localhost:" \o env.port ELSE env.url)
      /\ Detected.var = env.var
      /\ Detected.auth \in AuthTypes
  BY DetectedFacts
<1>3. /\ c.url = (IF user.url # "" THEN user.url ELSE Detected.url)
      /\ c.auth = (IF user.auth \in AuthTypes THEN user.auth ELSE Detected.auth)
      /\ c.var = (IF user.var # "" THEN user.var ELSE Detected.var)
  BY Zenon DEF MergedConfig
<1>4. /\ url = IF UrlLines(n) # {} THEN Min(UrlLines(n)) ELSE 0
      /\ port = IF PortLines(n) # {} THEN Min(PortLines(n)) ELSE 0
      /\ auth = IF AuthLines(n) # {} THEN Min(AuthLines(n)) ELSE 0
  BY FirstLines
<1>5. ConfigRight(c) <=>
        /\ c.url = IF user.url # "" THEN user.url
                   ELSE IF url # 0 THEN Lines[url].v
                   ELSE IF port # 0 THEN "localhost:" \o Lines[port].v ELSE ""
        /\ user.auth \in AuthTypes => c.auth = user.auth
        /\ user.auth \notin AuthTypes /\ auth # 0 => c.auth = Lines[auth].type
        /\ user.var = "" => c.var = IF auth # 0 THEN Lines[auth].var ELSE ""
        /\ user.var # "" => c.var = user.var
  BY DEF ConfigRight
<1> HIDE DEF url, port, auth, n, env, user
<1>6. /\ url # 0 <=> UrlLines(n) # {}
      /\ port # 0 <=> PortLines(n) # {}
      /\ auth # 0 <=> AuthLines(n) # {}
  <2>1. /\ UrlLines(n) \in SUBSET (1..n) /\ PortLines(n) \in SUBSET (1..n) /\ AuthLines(n) \in SUBSET (1..n)
    BY DEF UrlLines, PortLines, AuthLines
  <2>2. \A I \in SUBSET (1..n) : I # {} => Min(I) \in 1..n /\ Min(I) # 0
    <3> SUFFICES ASSUME NEW I \in SUBSET (1..n), I # {} PROVE Min(I) \in 1..n /\ Min(I) # 0
      OBVIOUS
    <3>1. PICK k \in 1..n : k = Min(I)
      BY <1>1, MinMax
    <3>2. k # 0
      BY <1>1
    <3> QED
      BY <3>1, <3>2
  <2>3. /\ UrlLines(n) # {} => Min(UrlLines(n)) # 0
        /\ PortLines(n) # {} => Min(PortLines(n)) # 0
        /\ AuthLines(n) # {} => Min(AuthLines(n)) # 0
    BY <2>1, <2>2
  <2> QED
    BY <1>4, <2>3
<1>7. /\ url # 0 => url = Min(UrlLines(n)) /\ env.url = Lines[url].v /\ env.url # ""
      /\ url = 0 => env.url = ""
      /\ port # 0 => port = Min(PortLines(n)) /\ env.port = Lines[port].v /\ env.port # ""
      /\ port = 0 => env.port = ""
      /\ auth # 0 => /\ auth = Min(AuthLines(n)) /\ env.auth = Lines[auth].type /\ env.auth # "none"
                     /\ env.var = Lines[auth].var
      /\ auth = 0 => env.auth = "none" /\ env.var = ""
  <2>1. /\ UrlLines(n) # {} => Lines[Min(UrlLines(n))].v # ""
        /\ PortLines(n) # {} => Lines[Min(PortLines(n))].v # ""
        /\ AuthLines(n) # {} => Lines[Min(AuthLines(n))].type # "none"
    BY <1>1, FoundValues DEF n
  <2>2. /\ url # 0 => url = Min(UrlLines(n))
        /\ port # 0 => port = Min(PortLines(n))
        /\ auth # 0 => auth = Min(AuthLines(n))
    BY <1>4, <1>6
  <2> QED
    BY <1>2, <1>4, <1>6, <2>1 DEF Scanned
<1>8. c.url = IF user.url # "" THEN user.url
              ELSE IF url # 0 THEN Lines[url].v
              ELSE IF port # 0 THEN "localhost:" \o Lines[port].v ELSE ""
  <2>1. url # 0 => Detected.url = Lines[url].v
    BY <1>2, <1>7, Zenon
  <2>2. url = 0 /\ port # 0 => Detected.url = "localhost:" \o Lines[port].v
    BY <1>2, <1>7, Zenon
  <2>3. url = 0 /\ port = 0 => Detected.url = ""
    BY <1>2, <1>7, Zenon
  <2> QED
    BY <1>3, <2>1, <2>2, <2>3, Zenon
<1>9. user.auth \in AuthTypes => c.auth = user.auth
  BY <1>3
<1>10. user.auth \notin AuthTypes /\ auth # 0 => c.auth = Lines[auth].type
  BY <1>2, <1>3, <1>7, Zenon
<1>11. user.var = "" => c.var = IF auth # 0 THEN Lines[auth].var ELSE ""
  BY <1>2, <1>3, <1>7, Zenon
<1>12. user.var # "" => c.var = user.var
  BY <1>3
<1>13. c.auth \in AuthTypes
  BY <1>2, <1>3
<1> QED
  BY <1>5, <1>8, <1>9, <1>10, <1>11, <1>12, <1>13, Zenon

\* ConfigRight speaks of the repository and the settings alone.
LEMMA SameSettings ==
  ASSUME repo' = repo
  PROVE  ConfigRight(config)' <=> ConfigRight(config')
BY DEF ConfigRight, First, SelectInSeq, Lines

\* Where the pipeline is and what it has found.
Before == {"openapi", "fastapi", "django"}
Places ==
    /\ stage \in Stages
    /\ document \in 0..Len(repo.specs) /\ read \in 0..Len(Files)
    /\ pass \in {"off", "prefixes", "routes", "over"}
    /\ stage = "openapi" => pass = "off" /\ read = 0
Findings ==
    /\ DOMAIN prefixOf \subseteq DOMAIN Files
    /\ IsRoutes(openapi) /\ IsRoutes(fastapi) /\ IsRoutes(django)
    /\ config.auth \in AuthTypes
    /\ stage \in {"graph", "generate", "done", "refused"} => ConfigRight(config)

\* What is still to be merged are the last of the routes offered, and what was
\* merged is right for those before them.
Merging ==
    /\ IsSeq(pending) /\ IsSeq(merged)
    /\ IF stage \in Before THEN pending = <<>> /\ merged = <<>>
       ELSE /\ Len(pending) <= Len(Offered)
            /\ \A i \in 1..Len(pending) : pending[i] = Offered[Len(Offered) - Len(pending) + i]
            /\ Merges(merged, Offered, Len(Offered) - Len(pending))

\* The invariant.
PipeInv == WalkInv /\ Places /\ Findings /\ Merging

\* The values of Places, in the state after a step of a repository that stays.
LEMMA SameValues ==
  ASSUME repo' = repo
  PROVE  /\ Files' = Files /\ Len(repo.specs)' = Len(repo.specs) /\ Len(Files)' = Len(Files)
         /\ (UNCHANGED <<openapi, fastapi, django>> => Offered' = Offered)
BY DEF Files, Offered, AstRoutes, Wants

\* The routes offered are a finite list.
LEMMA OfferedIsSeq ==
  ASSUME Findings
  PROVE  IsSeq(Offered) /\ Len(Offered) \in Nat
BY ConcatIsSeq, SeqFacts DEF Findings, IsRoutes, Offered, AstRoutes

\* The invariant holds at the start.
LEMMA PipeStarts == Init => PipeInv
<1> SUFFICES ASSUME Init PROVE PipeInv
  OBVIOUS
<1>1. WalkInv
  BY WalkStarts
<1>2. /\ repo \in Repos /\ stage = "openapi" /\ document = 0 /\ openapi = <<>> /\ pending = <<>>
      /\ merged = <<>> /\ config = MergedConfig(NoConfig, [url |-> "", auth |-> "", var |-> ""])
      /\ pass = "off" /\ read = 0 /\ prefixOf = <<>> /\ fastapi = <<>> /\ django = <<>>
  BY DEF Init, FastApiInit, DjangoInit
<1>3. 0 \in 0..Len(repo.specs) /\ 0 \in 0..Len(Files)
  <2>1. Len(repo.specs) \in Nat /\ Len(Files) \in Nat
    BY <1>2, SpecsFacts, FilesFacts
  <2> QED
    BY <2>1
<1>4. config.auth \in AuthTypes
  <2>1. config.auth \in {"none"} \cup AuthTypes
    BY <1>2, Zenon DEF MergedConfig, NoConfig
  <2> QED
    BY <2>1 DEF AuthTypes
<1>5. DOMAIN prefixOf \subseteq DOMAIN Files
  <2>1. DOMAIN <<>> = {}
    OBVIOUS
  <2> QED
    BY <1>2, <2>1
<1>6. Findings
  BY <1>2, <1>4, <1>5, NoRoutes DEF Findings
<1>7. Places
  BY <1>2, <1>3 DEF Places, Stages
<1>8. Merging
  BY <1>2, EmptyIsSeq DEF Merging, Before
<1> QED
  BY <1>1, <1>6, <1>7, <1>8 DEF PipeInv

-----------------------------------------------------------------------------
(* Places.                                                                 *)

\* Every step keeps the places in their ranges.
LEMMA PlacesKept ==
  ASSUME PipeInv, [Next]_vars
  PROVE  Places'
<1>1. /\ Len(repo.specs) \in Nat /\ Len(Files) \in Nat
  BY SpecsFacts, FilesFacts DEF PipeInv, WalkInv
<1>2. /\ stage \in Stages /\ document \in 0..Len(repo.specs) /\ read \in 0..Len(Files)
      /\ pass \in {"off", "prefixes", "routes", "over"}
      /\ stage = "openapi" => pass = "off" /\ read = 0
  BY DEF PipeInv, Places
<1>3. SUFFICES ASSUME repo' = repo
               PROVE  /\ stage' \in Stages /\ document' \in 0..Len(repo.specs) /\ read' \in 0..Len(Files)
                      /\ pass' \in {"off", "prefixes", "routes", "over"}
                      /\ stage' = "openapi" => pass' = "off" /\ read' = 0
  <2>1. repo' = repo
    BY DEF Next, vars, Finished, ReadDocument, StartFastApi, RunFastApi, StartDjango, RunDjango,
           StartMerge, MergeRoute, DetectConfig, BuildGraph, Generate
  <2> QED
    BY <1>3, <2>1, SameValues DEF Places
<1>4. CASE ReadDocument
  BY <1>1, <1>2, <1>4 DEF ReadDocument, fastapiVars
<1>5. CASE StartFastApi
  BY <1>2, <1>5 DEF StartFastApi, Stages
<1>6. CASE RunFastApi
  <2>1. stage = "fastapi" /\ UNCHANGED <<stage, document>> /\ FastApiStep
    BY <1>6 DEF RunFastApi
  <2>2. CASE ReadPrefixes
    BY <1>1, <1>2, <2>1, <2>2 DEF ReadPrefixes
  <2>3. CASE SecondPass
    BY <1>1, <1>2, <2>1, <2>3 DEF SecondPass
  <2>4. CASE ExtractRoutes
    BY <1>1, <1>2, <2>1, <2>4 DEF ExtractRoutes
  <2>5. CASE FastApiEnds
    BY <1>1, <1>2, <2>1, <2>5 DEF FastApiEnds
  <2> QED
    BY <2>1, <2>2, <2>3, <2>4, <2>5 DEF FastApiStep
<1>7. CASE StartDjango
  BY <1>2, <1>7 DEF StartDjango, Stages, fastapiVars
<1>8. CASE RunDjango
  BY <1>2, <1>8 DEF RunDjango, fastapiVars
<1>9. CASE StartMerge
  BY <1>2, <1>9 DEF StartMerge, Stages, fastapiVars
<1>10. CASE MergeRoute
  BY <1>2, <1>10 DEF MergeRoute, fastapiVars
<1>11. CASE DetectConfig
  BY <1>2, <1>11 DEF DetectConfig, Stages, fastapiVars
<1>12. CASE BuildGraph
  BY <1>2, <1>12 DEF BuildGraph, Stages, fastapiVars
<1>13. CASE Generate
  <2>1. stage' \in {"done", "refused"}
    BY <1>13 DEF Generate
  <2> QED
    BY <1>2, <1>13, <2>1 DEF Generate, Stages, fastapiVars
<1>14. CASE UNCHANGED vars
  BY <1>2, <1>14 DEF vars, fastapiVars
<1> QED
  BY <1>4, <1>5, <1>6, <1>7, <1>8, <1>9, <1>10, <1>11, <1>12, <1>13, <1>14 DEF Next, Finished

-----------------------------------------------------------------------------
(* Findings.                                                               *)

\* Steps that find nothing new.
LEMMA FindingsStay ==
  ASSUME PipeInv, repo' = repo, UNCHANGED <<prefixOf, openapi, fastapi, django, config>>,
         stage' \in {"graph", "generate", "done", "refused"} =>
           stage \in {"graph", "generate", "done", "refused"}
  PROVE  Findings'
BY SameValues, SameSettings DEF PipeInv, Findings, IsRoutes, IsRoute

\* Reading a document adds routes.
LEMMA ReadDocumentFindings ==
  ASSUME PipeInv, ReadDocument
  PROVE  Findings'
<1>1. /\ repo' = repo /\ document' = document + 1 /\ document < Len(repo.specs)
      /\ openapi' = openapi \o SpecRoutes(repo.specs[document']) /\ stage' = "openapi"
      /\ UNCHANGED <<prefixOf, fastapi, django, config>>
  BY DEF ReadDocument, fastapiVars, djangoVars
<1>2. document' \in DOMAIN repo.specs /\ repo \in Repos
  BY <1>1, SpecsFacts DEF PipeInv, Places, WalkInv
<1>3. IsRoutes(SpecRoutes(repo.specs[document']))
  BY <1>2, SpecsFacts, SpecRoutesFacts
<1>4. IsRoutes(openapi')
  BY <1>1, <1>3, ConcatRoutes DEF PipeInv, Findings
<1> QED
  BY <1>1, <1>4, SameValues DEF PipeInv, Findings, IsRoutes, IsRoute

\* So does a file of FastAPI's second pass; one of the first adds prefixes of files.
LEMMA RunFastApiFindings ==
  ASSUME PipeInv, RunFastApi
  PROVE  Findings'
<1>1. /\ repo' = repo /\ FastApiStep /\ stage' = "fastapi" /\ UNCHANGED <<openapi, django, config>>
      /\ repo \in Repos
  BY DEF RunFastApi, coreVars, djangoVars, PipeInv, WalkInv
<1>2. CASE ReadPrefixes
  <2>1. /\ read' = read + 1 /\ read < Len(Files) /\ fastapi' = fastapi
        /\ prefixOf' = Updated(prefixOf, PrefixesIn(Files[read']))
    BY <1>2 DEF ReadPrefixes
  <2>2. read' \in DOMAIN Files
    BY <1>1, <2>1, FilesFacts DEF PipeInv, Places
  <2>3. DOMAIN PrefixesIn(Files[read']) \subseteq DOMAIN Files
    BY <1>1, <2>2, FilesFacts, PrefixesInFacts
  <2>4. DOMAIN prefixOf' = DOMAIN prefixOf \cup DOMAIN PrefixesIn(Files[read'])
    BY <2>1 DEF Updated
  <2>5. DOMAIN prefixOf' \subseteq DOMAIN Files
    BY <2>3, <2>4 DEF PipeInv, Findings
  <2> QED
    BY <1>1, <2>1, <2>5, SameValues DEF PipeInv, Findings, IsRoutes, IsRoute
<1>3. CASE SecondPass
  BY <1>1, <1>3, FindingsStay DEF SecondPass
<1>4. CASE ExtractRoutes
  <2> DEFINE prefix == IF read' \in DOMAIN prefixOf THEN prefixOf[read'] ELSE <<>>
  <2>1. /\ read' = read + 1 /\ read < Len(Files) /\ prefixOf' = prefixOf
        /\ fastapi' = fastapi \o RoutesIn(Files[read'], prefix)
    BY <1>4 DEF ExtractRoutes
  <2> HIDE DEF prefix
  <2>2. read' \in DOMAIN Files
    BY <1>1, <2>1, FilesFacts DEF PipeInv, Places
  <2>3. IsRoutes(RoutesIn(Files[read'], prefix))
    BY <1>1, <2>2, FilesFacts, RoutesInFacts
  <2>4. IsRoutes(fastapi')
    BY <2>1, <2>3, ConcatRoutes DEF PipeInv, Findings
  <2> QED
    BY <1>1, <2>1, <2>4, SameValues DEF PipeInv, Findings, IsRoutes, IsRoute
<1>5. CASE FastApiEnds
  BY <1>1, <1>5, FindingsStay DEF FastApiEnds
<1> QED
  BY <1>1, <1>2, <1>3, <1>4, <1>5 DEF FastApiStep

\* So does a pattern that lists routes.
LEMMA RunDjangoFindings ==
  ASSUME PipeInv, RunDjango
  PROVE  Findings'
<1>1. /\ repo' = repo /\ DjangoStep /\ stage' = "django"
      /\ UNCHANGED <<openapi, prefixOf, fastapi, config>>
      /\ repo \in Repos /\ Walk(stack, visited, handled)
  BY DEF RunDjango, coreVars, fastapiVars, PipeInv, WalkInv
<1>2. CASE ListRoutes
  <2> DEFINE found == ViewRoutes(Top.file, PathUnder(Top.prefix, Here), Here)
  <2>1. django' = django \o found /\ stack # <<>> /\ Top.next <= Len(Patterns(Top.file))
    BY <1>2 DEF ListRoutes, InFile
  <2>2. IsRoutes(found)
    <3>1. /\ IsPattern(Here) /\ Top.file \in DOMAIN Files
          /\ IsSeq(PathUnder(Top.prefix, Here)) /\ PathUnder(Top.prefix, Here) # <<>>
      BY <1>1, <2>1, HereFacts
    <3> QED
      BY <1>1, <3>1, ViewRoutesFacts
  <2> HIDE DEF found
  <2>3. IsRoutes(django')
    BY <2>1, <2>2, ConcatRoutes DEF PipeInv, Findings
  <2> QED
    BY <1>1, <2>3, SameValues DEF PipeInv, Findings, IsRoutes, IsRoute
<1>3. CASE StartFile \/ FollowInclude \/ CloseFile \/ DjangoEnds
  <2>1. django' = django
    BY <1>3 DEF StartFile, FollowInclude, CloseFile, DjangoEnds
  <2> QED
    BY <1>1, <2>1, FindingsStay
<1> QED
  BY <1>1, <1>2, <1>3 DEF DjangoStep

\* Detecting the configuration sets what is right.
LEMMA DetectConfigFindings ==
  ASSUME PipeInv, DetectConfig
  PROVE  Findings'
<1>1. /\ repo' = repo /\ config' = MergedConfig(Detected, repo.user) /\ repo \in Repos
      /\ UNCHANGED <<prefixOf, openapi, fastapi, django>>
  BY DEF DetectConfig, fastapiVars, djangoVars, PipeInv, WalkInv
<1>2. ConfigRight(config') /\ (config').auth \in AuthTypes
  BY <1>1, MergedConfigRight
<1>3. ConfigRight(config)'
  BY <1>1, <1>2, SameSettings
<1> QED
  BY <1>1, <1>2, <1>3, SameValues DEF PipeInv, Findings, IsRoutes, IsRoute

\* No other step changes what was found.
LEMMA FindingsKept ==
  ASSUME PipeInv, [Next]_vars
  PROVE  Findings'
<1>1. CASE ReadDocument
  BY <1>1, ReadDocumentFindings
<1>2. CASE StartFastApi
  BY <1>2, FindingsStay DEF StartFastApi, coreVars, djangoVars
<1>3. CASE RunFastApi
  BY <1>3, RunFastApiFindings
<1>4. CASE StartDjango
  BY <1>4, FindingsStay DEF StartDjango, coreVars, fastapiVars
<1>5. CASE RunDjango
  BY <1>5, RunDjangoFindings
<1>6. CASE StartMerge
  BY <1>6, FindingsStay DEF StartMerge, fastapiVars, djangoVars
<1>7. CASE MergeRoute
  BY <1>7, FindingsStay DEF MergeRoute, fastapiVars, djangoVars
<1>8. CASE DetectConfig
  BY <1>8, DetectConfigFindings
<1>9. CASE BuildGraph
  BY <1>9, FindingsStay DEF BuildGraph, fastapiVars, djangoVars
<1>10. CASE Generate
  BY <1>10, FindingsStay DEF Generate, fastapiVars, djangoVars
<1>11. CASE UNCHANGED vars
  BY <1>11, FindingsStay DEF vars, coreVars, fastapiVars, djangoVars
<1> QED
  BY <1>1, <1>2, <1>3, <1>4, <1>5, <1>6, <1>7, <1>8, <1>9, <1>10, <1>11 DEF Next, Finished

-----------------------------------------------------------------------------
(* Merging.                                                                *)

\* Steps that merge nothing.
LEMMA MergingStays ==
  ASSUME PipeInv, repo' = repo, UNCHANGED <<pending, merged>>,
         stage \in Before <=> stage' \in Before,
         stage \notin Before => UNCHANGED <<openapi, fastapi, django>>
  PROVE  Merging'
<1>1. CASE stage \in Before
  BY <1>1 DEF PipeInv, Merging, IsSeq
<1>2. CASE stage \notin Before
  <2>1. Offered' = Offered
    BY <1>2, SameValues
  <2> QED
    BY <1>2, <2>1 DEF PipeInv, Merging, Merges, IsSeq
<1> QED
  BY <1>1, <1>2

\* At the start of the merge everything is still to be merged.
LEMMA StartMergeMerging ==
  ASSUME PipeInv, StartMerge
  PROVE  Merging'
<1>1. /\ repo' = repo /\ pending' = Offered /\ merged' = merged /\ stage = "django" /\ stage' = "merge"
      /\ UNCHANGED <<openapi, fastapi, django>>
  BY DEF StartMerge, fastapiVars, djangoVars
<1>2. merged = <<>> /\ IsSeq(merged)
  BY <1>1 DEF PipeInv, Merging, Before
<1>3. Offered' = Offered /\ IsSeq(Offered) /\ Len(Offered) \in Nat
  BY <1>1, SameValues, OfferedIsSeq DEF PipeInv
<1>4. Len(Offered) - Len(Offered) = 0 /\ \A i \in 1..Len(Offered) : Len(Offered) - Len(Offered) + i = i
  BY <1>3
<1>5. Merges(<<>>, Offered, 0)
  BY MergesNothing
<1>6. stage' \notin Before
  BY <1>1 DEF Before
<1> QED
  BY <1>1, <1>2, <1>3, <1>4, <1>5, <1>6 DEF Merging, Merges, IsSeq

\* A step of the merge merges the next route.
LEMMA MergeRouteMerging ==
  ASSUME PipeInv, MergeRoute
  PROVE  Merging'
<1> DEFINE o == Offered
           l == Len(pending)
           n == Len(o) - l
<1>1. /\ repo' = repo /\ pending # <<>> /\ pending' = Tail(pending) /\ stage = "merge" /\ stage' = stage
      /\ merged' = Merged(merged, Head(pending)) /\ UNCHANGED <<openapi, fastapi, django>>
  BY DEF MergeRoute, fastapiVars, djangoVars
<1>2. stage \notin Before /\ stage' \notin Before
  BY <1>1 DEF Before
<1>3. /\ IsSeq(pending) /\ IsSeq(merged) /\ l <= Len(o)
      /\ \A i \in 1..l : pending[i] = o[n + i]
      /\ Merges(merged, o, n)
  BY <1>2 DEF PipeInv, Merging
<1>4. Offered' = o /\ Len(o) \in Nat
  BY <1>1, SameValues, OfferedIsSeq DEF PipeInv
<1>5. /\ l \in Nat \ {0} /\ IsSeq(Tail(pending)) /\ Len(Tail(pending)) = l - 1
      /\ Head(pending) = pending[1] /\ \A i \in 1..(l - 1) : Tail(pending)[i] = pending[i + 1]
  BY <1>1, <1>3, TailIsSeq
<1> HIDE DEF o, l
<1>6. n \in Nat /\ Len(o) - (l - 1) = n + 1 /\ l - 1 <= Len(o)
  BY <1>3, <1>4, <1>5
<1>7. Head(pending) = o[n + 1]
  BY <1>3, <1>5
<1>8. IsSeq(merged') /\ Merges(merged', o, n + 1)
  <2> HIDE DEF n
  <2> QED
    BY <1>1, <1>3, <1>6, <1>7, MergeOneMore
<1>9. \A i \in 1..(l - 1) : Tail(pending)[i] = o[n + 1 + i]
  <2> SUFFICES ASSUME NEW i \in 1..(l - 1) PROVE Tail(pending)[i] = o[n + 1 + i]
    OBVIOUS
  <2>1. i + 1 \in 1..l /\ n + (i + 1) = n + 1 + i
    BY <1>5, <1>6
  <2>2. Tail(pending)[i] = pending[i + 1] /\ pending[i + 1] = o[n + (i + 1)]
    BY <1>3, <1>5, <2>1
  <2> QED
    BY <2>1, <2>2
<1> HIDE DEF n
<1>10. /\ IsSeq(pending') /\ Len(pending') = l - 1 /\ Len(pending') <= Len(o)
       /\ \A i \in 1..Len(pending') : pending'[i] = o[Len(o) - Len(pending') + i]
       /\ Merges(merged', o, Len(o) - Len(pending'))
  BY <1>1, <1>5, <1>6, <1>8, <1>9
<1> QED
  BY <1>2, <1>4, <1>8, <1>10 DEF Merging, Merges, IsSeq

\* No other step changes what was merged, or the routes once the merge has begun.
LEMMA MergingKept ==
  ASSUME PipeInv, [Next]_vars
  PROVE  Merging'
<1>1. CASE ReadDocument \/ StartFastApi \/ RunFastApi \/ StartDjango \/ RunDjango
  <2>1. /\ repo' = repo /\ UNCHANGED <<pending, merged>>
        /\ stage \in Before /\ stage' \in Before
    BY <1>1 DEF ReadDocument, StartFastApi, RunFastApi, StartDjango, RunDjango, coreVars, Before
  <2> QED
    BY <2>1, MergingStays
<1>2. CASE StartMerge
  BY <1>2, StartMergeMerging
<1>3. CASE MergeRoute
  BY <1>3, MergeRouteMerging
<1>4. CASE DetectConfig \/ BuildGraph \/ Generate
  <2>1. /\ repo' = repo /\ UNCHANGED <<pending, merged, openapi, fastapi, django>>
        /\ stage \in {"merge", "graph", "generate"}
        /\ stage' \in {"graph", "generate", "done", "refused"}
    BY <1>4 DEF DetectConfig, BuildGraph, Generate, fastapiVars, djangoVars
  <2>2. stage \notin Before /\ stage' \notin Before
    BY <2>1 DEF Before
  <2> QED
    BY <2>1, <2>2, MergingStays
<1>5. CASE UNCHANGED vars
  BY <1>5, MergingStays DEF vars, coreVars, fastapiVars, djangoVars
<1> QED
  BY <1>1, <1>2, <1>3, <1>4, <1>5 DEF Next, Finished

-----------------------------------------------------------------------------

\* So the invariant is kept and holds always;
LEMMA PipeKept == PipeInv /\ [Next]_vars => PipeInv'
BY WalkKept, PlacesKept, FindingsKept, MergingKept DEF PipeInv

LEMMA PipeAlways == Spec => []PipeInv
BY PipeStarts, PipeKept, PTL DEF Spec

\* it implies the three properties.
LEMMA TypeSuffices == PipeInv => TypeOK
<1> SUFFICES ASSUME PipeInv PROVE TypeOK
  OBVIOUS
<1>1. /\ walk \in {"off", "on", "over"} /\ visited \subseteq DOMAIN Files
      /\ \A i \in DOMAIN stack : stack[i].file \in visited
  BY DEF PipeInv, WalkInv, NoneForgotten, Walk, WalkShape
<1>2. \A r \in ToSet(openapi \o fastapi \o django) : r.method \in HttpMethods /\ r.path # <<>>
  <2>1. IsRoutes(openapi \o fastapi)
    BY ConcatRoutes DEF PipeInv, Findings
  <2> DEFINE both == openapi \o fastapi
  <2> HIDE DEF both
  <2>2. IsRoutes(both \o django)
    BY <2>1, ConcatRoutes DEF PipeInv, Findings, both
  <2> QED
    BY <2>2 DEF IsRoutes, IsRoute, both
<1> QED
  BY <1>1, <1>2 DEF PipeInv, Places, Findings, TypeOK

LEMMA MergeSuffices == PipeInv => MergedRight
<1> SUFFICES ASSUME PipeInv, stage \in {"merge", "graph", "generate", "done", "refused"}
             PROVE  Merges(merged, Offered, Len(Offered) - Len(pending))
  BY DEF MergedRight, Merges
<1>1. stage \notin Before
  BY DEF Before
<1> QED
  BY <1>1 DEF PipeInv, Merging

LEMMA ConfigSuffices == PipeInv => ConfigDetected
BY DEF PipeInv, Findings, ConfigDetected

\* The pipeline's state has its shape: every route any parser hands over has a known
\* method and a path, and the walk stays within the repository's files (run_pipeline).
THEOREM TypeOKAlways == Spec => []TypeOK
BY PipeAlways, TypeSuffices, PTL

\* Whatever the layers offer, the merged routes are the last ones of every method and
\* path, one of each (merge_routes).
THEOREM MergedRightAlways == Spec => []MergedRight
BY PipeAlways, MergeSuffices, PTL

\* The client's base URL and authentication are the user's, else those of the first
\* usable line of the .env files (detect_config, merge_config).
THEOREM ConfigDetectedAlways == Spec => []ConfigDetected
BY PipeAlways, ConfigSuffices, PTL

-----------------------------------------------------------------------------
(* Coming to an end.                                                      *)

\* The stages in order.
LEMMA Ranks ==
  /\ Rank("openapi") = 1 /\ Rank("fastapi") = 2 /\ Rank("django") = 3 /\ Rank("merge") = 4
  /\ Rank("graph") = 5 /\ Rank("generate") = 6 /\ Rank("done") = 7 /\ Rank("refused") = 7
<1> DEFINE At(s) == CHOOSE i \in 1..7 : Order[i] = s
<1>1. /\ Order[1] = "openapi" /\ Order[2] = "fastapi" /\ Order[3] = "django" /\ Order[4] = "merge"
      /\ Order[5] = "graph" /\ Order[6] = "generate" /\ Order[7] = "done"
  BY DEF Order
<1>2. \A i \in 1..7 : i \in {1, 2, 3, 4, 5, 6, 7}
  OBVIOUS
<1>3. \A i, j \in 1..7 : Order[i] = Order[j] => i = j
  BY <1>1, <1>2
<1>4. ASSUME NEW i \in 1..7 PROVE At(Order[i]) = i
  <2>1. At(Order[i]) \in 1..7 /\ Order[At(Order[i])] = Order[i]
    OBVIOUS
  <2> HIDE DEF At
  <2> QED
    BY <1>3, <2>1
<1>5. \A s : Rank(s) = IF s = "refused" THEN 7 ELSE At(s)
  BY DEF Rank
<1> HIDE DEF At
<1>6. /\ At("openapi") = 1 /\ At("fastapi") = 2 /\ At("django") = 3 /\ At("merge") = 4
      /\ At("graph") = 5 /\ At("generate") = 6 /\ At("done") = 7
  BY <1>1, <1>4
<1> QED
  BY <1>5, <1>6

\* The patterns handled are never more than there are.
LEMMA HandledAreFew ==
  ASSUME repo \in Repos, Walk(stack, visited, handled)
  PROVE  AllPatterns \in Nat /\ Len(handled) \in Nat /\ Len(handled) <= AllPatterns
<1> DEFINE lists == [f \in DOMAIN Files |-> IF Files[f].broken THEN <<>> ELSE Patterns(f)]
<1>1. Len(Files) \in Nat /\ DOMAIN Files = 1..Len(Files) /\ DOMAIN lists = DOMAIN Files
  BY FilesFacts
<1>2. AllPatterns = Len(FlattenSeq(lists))
  BY DEF AllPatterns
<1>3. \A f \in DOMAIN Files : IsSeq(lists[f])
  BY PatternsFacts, EmptyIsSeq
<1>4. \A f \in DOMAIN Files : ~Files[f].broken => lists[f] = Patterns(f)
  OBVIOUS
<1>5. IsSeq(handled) /\ visited \subseteq DOMAIN Files
      /\ \A k, l \in DOMAIN handled : handled[k] = handled[l] => k = l
  BY DEF Walk, WalkShape, HandledOnce
<1>6. \A k \in DOMAIN handled : \E f \in DOMAIN lists : \E i \in DOMAIN lists[f] : handled[k] = <<f, i>>
  BY <1>1, <1>4, <1>5 DEF Walk, HandledOnce
<1>7. IsSeq(lists)
  <2>1. lists = [f \in 1..Len(Files) |-> lists[f]]
    BY <1>1
  <2> HIDE DEF lists
  <2> QED
    BY <1>1, <2>1, MapIsSeq
<1> HIDE DEF lists
<1>8. Len(FlattenSeq(lists)) \in Nat /\ Len(handled) <= Len(FlattenSeq(lists))
  BY <1>1, <1>3, <1>5, <1>6, <1>7, PlacesCounted
<1> QED
  BY <1>2, <1>5, <1>8, SeqFacts

\* There are as many patterns after a step as before it.
LEMMA SameAllPatterns ==
  ASSUME repo' = repo
  PROVE  AllPatterns' = AllPatterns
BY DEF AllPatterns, Patterns, Of, Filter, Files

\* The stage's work, by the variable that counts it.
Advance ==
    \/ Rank(stage') > Rank(stage)
    \/ stage' = stage /\ 0 <= Left' /\ Left' < Left

\* What is left to do in a stage, before a step
LEMMA LeftNow ==
  /\ stage = "openapi" => Left = Len(repo.specs) - document
  /\ stage = "fastapi" /\ pass = "prefixes" => Left = 2 * Len(Files) + 2 - read
  /\ stage = "fastapi" /\ pass = "routes" => Left = Len(Files) + 1 - read
  /\ stage = "fastapi" /\ pass = "over" => Left = 0
  /\ stage = "django" /\ walk = "on" =>
       Left = 1 + 3 * (AllPatterns - Len(handled)) + 2 * Len(starts) + Len(stack)
  /\ stage = "django" /\ walk = "over" => Left = 0
  /\ stage = "merge" => Left = Len(pending)
BY DEF Left

\* and after it.
LEMMA LeftThen ==
  ASSUME repo' = repo
  PROVE
  /\ stage' = "openapi" => Left' = Len(repo.specs) - document'
  /\ stage' = "fastapi" /\ pass' = "prefixes" => Left' = 2 * Len(Files) + 2 - read'
  /\ stage' = "fastapi" /\ pass' = "routes" => Left' = Len(Files) + 1 - read'
  /\ stage' = "fastapi" /\ pass' = "over" => Left' = 0
  /\ stage' = "django" /\ walk' = "on" =>
       Left' = 1 + 3 * (AllPatterns - Len(handled')) + 2 * Len(starts') + Len(stack')
  /\ stage' = "django" /\ walk' = "over" => Left' = 0
  /\ stage' = "merge" => Left' = Len(pending')
BY SameAllPatterns, SameValues DEF Left

\* A document read is one less to read.
LEMMA DocumentsAdvance ==
  ASSUME PipeInv, ReadDocument
  PROVE  Advance
<1>1. Len(repo.specs) \in Nat /\ document \in 0..Len(repo.specs)
  BY SpecsFacts DEF PipeInv, WalkInv, Places
<1>2. /\ repo' = repo /\ stage = "openapi" /\ stage' = stage /\ document' = document + 1
      /\ document < Len(repo.specs)
  BY DEF ReadDocument
<1>3. Left = Len(repo.specs) - document /\ Left' = Len(repo.specs) - document'
  BY <1>2, LeftNow, LeftThen
<1> QED
  BY <1>1, <1>2, <1>3 DEF Advance

\* A file read is one less to read in its pass, and while the first pass lasts the
\* second one counts as work left.
LEMMA FastApiAdvances ==
  ASSUME PipeInv, RunFastApi
  PROVE  Advance
<1>1. Len(Files) \in Nat /\ read \in 0..Len(Files)
  BY FilesFacts DEF PipeInv, WalkInv, Places
<1>2. repo' = repo /\ stage = "fastapi" /\ stage' = stage /\ FastApiStep
  BY DEF RunFastApi
<1>3. CASE ReadPrefixes
  <2>1. pass = "prefixes" /\ pass' = pass /\ read' = read + 1 /\ read < Len(Files)
    BY <1>3 DEF ReadPrefixes
  <2>2. Left = 2 * Len(Files) + 2 - read /\ Left' = 2 * Len(Files) + 2 - read'
    BY <1>2, <2>1, LeftNow, LeftThen
  <2> QED
    BY <1>1, <1>2, <2>1, <2>2 DEF Advance
<1>4. CASE SecondPass
  <2>1. pass = "prefixes" /\ pass' = "routes" /\ read = Len(Files) /\ read' = 0
    BY <1>4 DEF SecondPass
  <2>2. Left = 2 * Len(Files) + 2 - read /\ Left' = Len(Files) + 1 - read'
    BY <1>2, <2>1, LeftNow, LeftThen
  <2> QED
    BY <1>1, <1>2, <2>1, <2>2 DEF Advance
<1>5. CASE ExtractRoutes
  <2>1. pass = "routes" /\ pass' = pass /\ read' = read + 1 /\ read < Len(Files)
    BY <1>5 DEF ExtractRoutes
  <2>2. Left = Len(Files) + 1 - read /\ Left' = Len(Files) + 1 - read'
    BY <1>2, <2>1, LeftNow, LeftThen
  <2> QED
    BY <1>1, <1>2, <2>1, <2>2 DEF Advance
<1>6. CASE FastApiEnds
  <2>1. pass = "routes" /\ pass' = "over" /\ read = Len(Files)
    BY <1>6 DEF FastApiEnds
  <2>2. Left = Len(Files) + 1 - read /\ Left' = 0
    BY <1>2, <2>1, LeftNow, LeftThen
  <2> QED
    BY <1>1, <1>2, <2>1, <2>2 DEF Advance
<1> QED
  BY <1>2, <1>3, <1>4, <1>5, <1>6 DEF FastApiStep

\* Less is left of the walk when, of patterns to handle, files to start from and
\* collectors, three times the first, twice the second and the third are less.
LEMMA WalkAdvances ==
  ASSUME NEW p \in Nat, NEW h \in Nat, NEW h2 \in Nat, h2 <= p, NEW s \in Nat, NEW s2 \in Nat,
         NEW c \in Nat, NEW c2 \in Nat, 2 * s2 + c2 < 3 * (h2 - h) + 2 * s + c
  PROVE  /\ 0 <= 1 + 3 * (p - h2) + 2 * s2 + c2
         /\ 1 + 3 * (p - h2) + 2 * s2 + c2 < 1 + 3 * (p - h) + 2 * s + c
OBVIOUS

\* A collector more, at most, is what opening a file adds.
LEMMA OpenAddsOne ==
  ASSUME NEW f, NEW prefix, NEW below, IsSeq(below), Open(f, prefix, below)
  PROVE  IsSeq(stack') /\ Len(stack') \in Nat /\ Len(stack') <= Len(below) + 1
<1> DEFINE new == [file |-> f, prefix |-> prefix, next |-> 1]
<1>1. stack' = below \/ stack' = Append(below, new)
  BY DEF Open
<1>2. Len(below) \in Nat
  BY SeqFacts
<1> HIDE DEF new
<1>3. IsSeq(Append(below, new)) /\ Len(Append(below, new)) = Len(below) + 1
  BY AppendIsSeq
<1>4. CASE stack' = below
  BY <1>2, <1>4
<1>5. CASE stack' = Append(below, new)
  BY <1>2, <1>3, <1>5
<1> QED
  BY <1>1, <1>4, <1>5

\* Each step of the walk handles a pattern, starts from a file or closes one.
LEMMA DjangoAdvances ==
  ASSUME PipeInv, RunDjango
  PROVE  Advance
<1>1. /\ repo' = repo /\ stage = "django" /\ stage' = stage /\ DjangoStep /\ repo \in Repos
      /\ WalkInv /\ Walk(stack, visited, handled)
  BY DEF RunDjango, PipeInv, WalkInv
<1>2. WalkInv'
  BY <1>1, StartFileKeepsWalk, FollowIncludeKeepsWalk, ListRoutesKeepsWalk, CloseFileKeepsWalk,
     DjangoEndsKeepsWalk DEF DjangoStep
<1>3. /\ IsSeq(stack) /\ IsSeq(starts) /\ IsSeq(handled)
      /\ IsSeq(stack') /\ IsSeq(starts') /\ IsSeq(handled')
  BY <1>1, <1>2 DEF WalkInv, Walk, WalkShape, NoneForgotten, IsSeq
<1>4. /\ Len(stack) \in Nat /\ Len(starts) \in Nat /\ Len(handled) \in Nat
      /\ Len(stack') \in Nat /\ Len(starts') \in Nat /\ Len(handled') \in Nat
  BY <1>3, SeqFacts
<1>5. AllPatterns \in Nat /\ Len(handled) <= AllPatterns
  BY <1>1, HandledAreFew
<1>6. Len(handled') <= AllPatterns
  <2>1. Walk(stack, visited, handled)' /\ (repo \in Repos)'
    BY <1>2 DEF WalkInv
  <2>2. (Len(handled) <= AllPatterns)'
    BY <2>1, HandledAreFew, PTL
  <2> QED
    BY <1>1, <2>2, SameAllPatterns
<1> DEFINE p == AllPatterns
           h == Len(handled)
           s == Len(starts)
           c == Len(stack)
           h2 == Len(handled')
           s2 == Len(starts')
           c2 == Len(stack')
<1>7. CASE walk = "on" /\ walk' = "on" /\ 2 * s2 + c2 < 3 * (h2 - h) + 2 * s + c
  <2>1. Left = 1 + 3 * (p - h) + 2 * s + c /\ Left' = 1 + 3 * (p - h2) + 2 * s2 + c2
    BY <1>1, <1>7, LeftNow, LeftThen
  <2> HIDE DEF p, h, s, c, h2, s2, c2
  <2>2. 0 <= Left' /\ Left' < Left
    BY <1>4, <1>5, <1>6, <1>7, <2>1, WalkAdvances DEF p, h, s, c, h2, s2, c2
  <2> QED
    BY <1>1, <2>2 DEF Advance
<1>8. CASE StartFile
  <2>1. /\ walk = "on" /\ walk' = "on" /\ stack = <<>> /\ starts # <<>> /\ starts' = Tail(starts)
        /\ handled' = handled /\ Open(Head(starts), <<>>, <<>>)
    BY <1>8 DEF StartFile
  <2>2. s2 = s - 1
    BY <1>3, <2>1, TailIsSeq
  <2>3. c = 0 /\ c2 <= 0 + 1
    BY <2>1, EmptyIsSeq, OpenAddsOne
  <2>4. h2 = h
    BY <2>1
  <2>5. 2 * s2 + c2 < 3 * (h2 - h) + 2 * s + c
    <3> HIDE DEF s2, c2, h2, h, s, c
    <3> QED
      BY <1>4, <2>2, <2>3, <2>4 DEF s2, c2, h2, h, s, c
  <2> QED
    BY <1>7, <2>1, <2>5
<1>9. ASSUME stack # <<>>, handled' = Append(handled, <<Top.file, Top.next>>)
      PROVE  /\ h2 = h + 1
             /\ IsSeq(Append(Front(stack), Past)) /\ Len(Append(Front(stack), Past)) = c
  <2>1. h2 = h + 1
    BY <1>3, <1>9, AppendIsSeq
  <2> DEFINE fr == Front(stack)
  <2>2. IsSeq(fr) /\ Len(fr) = c - 1 /\ c \in Nat
    BY <1>3, <1>4, <1>9, FrontIsSeq
  <2> HIDE DEF fr, c
  <2>3. IsSeq(Append(fr, Past)) /\ Len(Append(fr, Past)) = c - 1 + 1
    BY <2>2, AppendIsSeq
  <2>4. c - 1 + 1 = c
    BY <2>2
  <2> QED
    BY <2>1, <2>3, <2>4 DEF fr
<1>10. CASE FollowInclude
  <2>1. /\ walk = "on" /\ walk' = "on" /\ stack # <<>> /\ starts' = starts
        /\ handled' = Append(handled, <<Top.file, Top.next>>)
        /\ Open(Target(Top.file, Here), PathUnder(Top.prefix, Here), Append(Front(stack), Past))
    BY <1>10 DEF FollowInclude, InFile, Handle
  <2>2. h2 = h + 1 /\ s2 = s
    BY <1>9, <2>1
  <2>3. c2 <= c + 1
    BY <1>9, <2>1, OpenAddsOne
  <2>4. 2 * s2 + c2 < 3 * (h2 - h) + 2 * s + c
    <3> HIDE DEF s2, c2, h2, h, s, c
    <3> QED
      BY <1>4, <2>2, <2>3 DEF s2, c2, h2, h, s, c
  <2> QED
    BY <1>7, <2>1, <2>4
<1>11. CASE ListRoutes
  <2>1. /\ walk = "on" /\ walk' = "on" /\ stack # <<>> /\ starts' = starts
        /\ handled' = Append(handled, <<Top.file, Top.next>>)
        /\ stack' = Append(Front(stack), Past)
    BY <1>11 DEF ListRoutes, InFile, Handle
  <2>2. h2 = h + 1 /\ s2 = s /\ c2 = c
    BY <1>9, <2>1
  <2>3. 2 * s2 + c2 < 3 * (h2 - h) + 2 * s + c
    <3> HIDE DEF s2, c2, h2, h, s, c
    <3> QED
      BY <1>4, <2>2 DEF s2, c2, h2, h, s, c
  <2> QED
    BY <1>7, <2>1, <2>3
<1>12. CASE CloseFile
  <2>1. /\ walk = "on" /\ walk' = "on" /\ stack # <<>> /\ starts' = starts
        /\ handled' = handled /\ stack' = Front(stack)
    BY <1>12 DEF CloseFile
  <2>2. h2 = h /\ s2 = s /\ c2 = c - 1
    BY <1>3, <2>1, FrontIsSeq
  <2>3. 2 * s2 + c2 < 3 * (h2 - h) + 2 * s + c
    <3> HIDE DEF s2, c2, h2, h, s, c
    <3> QED
      BY <1>4, <2>2 DEF s2, c2, h2, h, s, c
  <2> QED
    BY <1>7, <2>1, <2>3
<1>13. CASE DjangoEnds
  <2>1. walk = "on" /\ walk' = "over"
    BY <1>13 DEF DjangoEnds
  <2>2. Left = 1 + 3 * (p - h) + 2 * s + c /\ Left' = 0
    BY <1>1, <2>1, LeftNow, LeftThen
  <2> HIDE DEF p, h, s, c
  <2>3. 0 < Left
    BY <1>4, <1>5, <2>2 DEF p, h, s, c
  <2> QED
    BY <1>1, <2>2, <2>3 DEF Advance
<1> QED
  BY <1>1, <1>8, <1>10, <1>11, <1>12, <1>13 DEF DjangoStep

\* A route merged is one less to merge.
LEMMA MergingAdvances ==
  ASSUME PipeInv, MergeRoute
  PROVE  Advance
<1>1. /\ repo' = repo /\ stage = "merge" /\ stage' = stage /\ pending # <<>> /\ pending' = Tail(pending)
  BY DEF MergeRoute
<1>2. Len(pending) \in Nat \ {0} /\ Len(Tail(pending)) = Len(pending) - 1
  BY <1>1, TailIsSeq DEF PipeInv, Merging
<1>3. Left = Len(pending) /\ Left' = Len(pending')
  BY <1>1, LeftNow, LeftThen
<1> QED
  BY <1>1, <1>2, <1>3 DEF Advance

\* Every step advances.
LEMMA StepsAdvance == PipeInv /\ [Next]_vars => [Advance]_vars
<1> SUFFICES ASSUME PipeInv, Next PROVE Advance \/ UNCHANGED vars
  OBVIOUS
<1>1. CASE ReadDocument \/ RunFastApi \/ RunDjango \/ MergeRoute
  BY <1>1, DocumentsAdvance, FastApiAdvances, DjangoAdvances, MergingAdvances
<1>2. CASE StartFastApi
  BY <1>2, Ranks DEF StartFastApi, Advance
<1>3. CASE StartDjango
  BY <1>3, Ranks DEF StartDjango, Advance
<1>4. CASE StartMerge
  BY <1>4, Ranks DEF StartMerge, Advance
<1>5. CASE DetectConfig
  BY <1>5, Ranks DEF DetectConfig, Advance
<1>6. CASE BuildGraph
  BY <1>6, Ranks DEF BuildGraph, Advance
<1>7. CASE Generate
  <2>1. stage = "generate" /\ stage' \in {"done", "refused"}
    BY <1>7 DEF Generate
  <2> QED
    BY <2>1, Ranks DEF Advance
<1>8. CASE Finished
  BY <1>8 DEF Finished
<1> QED
  BY <1>1, <1>2, <1>3, <1>4, <1>5, <1>6, <1>7, <1>8 DEF Next

\* Every parse of every repository comes to an end: each step ends its stage or leaves
\* less to do in it, however files include each other (run_pipeline, DjangoParser.parse).
THEOREM ParsingAdvancesAlways == Spec => ParsingAdvances
BY PipeAlways, StepsAdvance, PTL DEF Spec, ParsingAdvances, Advance

-----------------------------------------------------------------------------
(* The passes of FastAPI's parser.                                          *)

\* What the passes have found: the map of the calls in the files that were read, then
\* the routes of those files as they are served.
FoundUpTo(n) == UNION {ServedIn(f) : f \in 1..n}
FastRight ==
    /\ pass = "off" => prefixOf = <<>> /\ fastapi = <<>>
    /\ pass = "prefixes" => CallMap(prefixOf, read) /\ fastapi = <<>>
    /\ pass = "routes" => CallMap(prefixOf, Len(Files)) /\ Found(fastapi) = FoundUpTo(read)
    /\ pass = "over" => Found(fastapi) = Served
FastInv == PipeInv /\ (ByModule => FastRight)

\* It all depends on the repository, which stays.
LEMMA SameReading ==
  ASSUME repo' = repo
  PROVE  /\ ByModule' <=> ByModule
         /\ Files' = Files
         /\ \A f : Inclusions(f)' = Inclusions(f)
         /\ \A c : CalledWith(c)' = CalledWith(c)
         /\ \A f : ServedIn(f)' = ServedIn(f)
<1>1. Files' = Files
  BY DEF Files
<1>2. \A f : Inclusions(f)' = Inclusions(f)
  BY <1>1 DEF Inclusions
<1>3. \A c : CalledWith(c)' = CalledWith(c)
  BY <1>1 DEF CalledWith
<1>4. \A f : IncludedUnder(f)' = IncludedUnder(f)
  <2> SUFFICES ASSUME NEW f PROVE IncludedUnder(f)' = IncludedUnder(f)
    OBVIOUS
  <2>1. Inclusions(f)' = Inclusions(f)
    BY <1>2
  <2>2. (CHOOSE c \in Inclusions(f) : TRUE)' = (CHOOSE c \in Inclusions(f) : TRUE)
    BY <2>1, Zenon
  <2> QED
    BY <1>3, <2>1, <2>2 DEF IncludedUnder
<1>5. \A f : Routers(f)' = Routers(f)
  BY <1>1 DEF Routers
<1>6. \A f, on : RouterPrefix(f, on)' = RouterPrefix(f, on)
  <2> SUFFICES ASSUME NEW f, NEW on PROVE RouterPrefix(f, on)' = RouterPrefix(f, on)
    OBVIOUS
  <2>1. Routers(f)' = Routers(f)
    BY <1>5
  <2>2. (CHOOSE i \in Routers(f) : TRUE)' = (CHOOSE i \in Routers(f) : TRUE)
    BY <2>1, Zenon
  <2> DEFINE i == CHOOSE i \in Routers(f) : TRUE
  <2>3. RouterPrefix(f, on) = IF on = <<"app">> THEN <<>> ELSE Files[f].body[i].prefix.p
    BY DEF RouterPrefix
  <2>4. RouterPrefix(f, on)' = IF on = <<"app">> THEN <<>> ELSE (Files')[f].body[i'].prefix.p
    BY DEF RouterPrefix
  <2>5. i' = i
    BY <2>2
  <2> HIDE DEF i
  <2> QED
    BY <1>1, <2>3, <2>4, <2>5
<1>7. \A f, i : OwnPath(f, i)' = OwnPath(f, i)
  BY <1>1 DEF OwnPath
<1>8. \A f, i : ServedPath(f, i)' = ServedPath(f, i)
  BY <1>1, <1>4, <1>6, <1>7 DEF ServedPath
<1>9. \A f : ServedIn(f)' = ServedIn(f)
  BY <1>1, <1>8 DEF ServedIn
<1>10. \A f, i : ReadableStatement(f, i)' <=> ReadableStatement(f, i)
  BY <1>1, <1>3, <1>5, <1>7, <1>8 DEF ReadableStatement
<1>11. \A f : ReadableFile(f)' <=> ReadableFile(f)
  BY <1>1, <1>2, <1>5, <1>10 DEF ReadableFile
<1>12. ByModule' <=> ByModule
  BY <1>1, <1>11 DEF ByModule, Readable
<1> QED
  BY <1>1, <1>2, <1>3, <1>9, <1>12

\* The invariant holds at the start.
LEMMA FastStarts == Init => FastInv
<1> SUFFICES ASSUME Init PROVE FastInv
  OBVIOUS
<1>1. pass = "off" /\ prefixOf = <<>> /\ fastapi = <<>>
  BY DEF Init, FastApiInit
<1> QED
  BY <1>1, PipeStarts DEF FastInv, FastRight

\* What a step has to keep of a repository that stays.
LEMMA FastSuffices ==
  ASSUME FastInv, repo' = repo,
         NEW m, m = prefixOf', NEW s, s = fastapi', NEW n, n = read', NEW ps, ps = pass',
         ByModule => /\ ps = "off" => m = <<>> /\ s = <<>>
                     /\ ps = "prefixes" => CallMap(m, n) /\ s = <<>>
                     /\ ps = "routes" => CallMap(m, Len(Files)) /\ Found(s) = FoundUpTo(n)
                     /\ ps = "over" => Found(s) = Served
  PROVE  (ByModule => FastRight)'
<1> SUFFICES ASSUME ByModule PROVE FastRight'
  BY SameReading
<1>1. /\ Files' = Files /\ \A f : Inclusions(f)' = Inclusions(f) /\ \A c : CalledWith(c)' = CalledWith(c)
      /\ \A f : ServedIn(f)' = ServedIn(f)
  BY SameReading
<1>2. CallMap(prefixOf, read)' <=> CallMap(m, n)
  BY <1>1 DEF CallMap
<1>3. CallMap(prefixOf, Len(Files))' <=> CallMap(m, Len(Files))
  BY <1>1 DEF CallMap
<1>4. Found(fastapi)' = Found(s)
  BY DEF Found, Shown
<1>5. FoundUpTo(read)' = FoundUpTo(n)
  BY <1>1 DEF FoundUpTo
<1>6. Served' = Served
  BY <1>1 DEF Served
<1> QED
  BY <1>2, <1>3, <1>4, <1>5, <1>6 DEF FastRight

\* A file more was searched for calls.
LEMMA ReadPrefixesRight ==
  ASSUME FastInv, repo' = repo, ReadPrefixes
  PROVE  (ByModule => FastRight)'
<1> SUFFICES ASSUME ByModule PROVE CallMap(prefixOf', read') /\ fastapi' = <<>> /\ pass' = "prefixes"
  BY FastSuffices
<1>1. /\ repo \in Repos /\ read \in 0..Len(Files) /\ Len(Files) \in Nat
      /\ CallMap(prefixOf, read) /\ fastapi = <<>>
  BY FilesFacts DEF FastInv, FastRight, PipeInv, WalkInv, Places, ReadPrefixes
<1>2. /\ read < Len(Files) /\ read' = read + 1 /\ prefixOf' = Updated(prefixOf, PrefixesIn(Files[read + 1]))
      /\ fastapi' = fastapi /\ pass' = "prefixes"
  BY DEF ReadPrefixes
<1>3. CallMap(prefixOf', read + 1)
  BY <1>1, <1>2, OneFileMore
<1> QED
  BY <1>1, <1>2, <1>3

\* A file more was searched for routes.
LEMMA ExtractRoutesRight ==
  ASSUME FastInv, repo' = repo, ExtractRoutes
  PROVE  (ByModule => FastRight)'
<1> DEFINE g == read + 1
           prefix == IF g \in DOMAIN prefixOf THEN prefixOf[g] ELSE <<>>
           more == RoutesIn(Files[g], prefix)
<1> SUFFICES ASSUME ByModule
             PROVE  /\ CallMap(prefixOf', Len(Files)) /\ Found(fastapi') = FoundUpTo(read')
                    /\ pass' = "routes"
  BY FastSuffices
<1>1. /\ repo \in Repos /\ read \in 0..Len(Files) /\ Len(Files) \in Nat /\ DOMAIN Files = 1..Len(Files)
      /\ CallMap(prefixOf, Len(Files)) /\ Found(fastapi) = FoundUpTo(read) /\ IsSeq(fastapi)
  BY FilesFacts DEF FastInv, FastRight, PipeInv, WalkInv, Places, Findings, IsRoutes, ExtractRoutes
<1>2. /\ read < Len(Files) /\ read' = g /\ fastapi' = fastapi \o more
      /\ prefixOf' = prefixOf /\ pass' = "routes"
  BY DEF ExtractRoutes
<1>3. g \in DOMAIN Files /\ 1..g = 1..read \cup {g}
  BY <1>1, <1>2
<1>4. prefix = IncludedUnder(g)
  BY <1>1, <1>3, MapRight
<1> HIDE DEF prefix
<1>5. IsSeq(more) /\ Found(more) = ServedIn(g)
  <2>1. IsFile(Files[g])
    BY <1>1, <1>3, FilesFacts
  <2> HIDE DEF g
  <2> QED
    BY <1>1, <1>3, <1>4, <2>1, RoutesInFacts, RoutesInRight DEF IsRoutes
<1> HIDE DEF more, g
<1>6. Found(fastapi \o more) = Found(fastapi) \cup Found(more)
  BY <1>1, <1>5, ConcatIsSeq DEF Found
<1>7. FoundUpTo(g) = FoundUpTo(read) \cup ServedIn(g)
  BY <1>3 DEF FoundUpTo
<1> QED
  BY <1>1, <1>2, <1>5, <1>6, <1>7

\* So does the change of passes.
LEMMA RunFastApiRight ==
  ASSUME FastInv, RunFastApi
  PROVE  (ByModule => FastRight)'
<1>1. repo' = repo /\ FastApiStep
  BY DEF RunFastApi
<1>2. CASE SecondPass
  <2> SUFFICES ASSUME ByModule
               PROVE  /\ CallMap(prefixOf', Len(Files)) /\ Found(fastapi') = FoundUpTo(read')
                      /\ pass' = "routes"
    BY <1>1, FastSuffices
  <2>1. /\ pass' = "routes" /\ read' = 0 /\ prefixOf' = prefixOf /\ fastapi' = <<>>
        /\ CallMap(prefixOf, Len(Files))
    BY <1>2 DEF SecondPass, FastInv, FastRight
  <2>2. Found(<<>>) = {} /\ FoundUpTo(0) = {}
    BY EmptyIsSeq DEF Found, FoundUpTo
  <2> QED
    BY <2>1, <2>2
<1>3. CASE FastApiEnds
  <2> SUFFICES ASSUME ByModule PROVE Found(fastapi') = Served /\ pass' = "over"
    BY <1>1, FastSuffices
  <2>1. /\ pass' = "over" /\ fastapi' = fastapi /\ Found(fastapi) = FoundUpTo(Len(Files))
    BY <1>3 DEF FastApiEnds, FastInv, FastRight
  <2>2. DOMAIN Files = 1..Len(Files)
    BY FilesFacts DEF FastInv, PipeInv, WalkInv
  <2> QED
    BY <2>1, <2>2 DEF FoundUpTo, Served
<1> QED
  BY <1>1, <1>2, <1>3, ReadPrefixesRight, ExtractRoutesRight DEF FastApiStep

\* Every step keeps what FastAPI's parser has found right.
LEMMA FastKept == FastInv /\ [Next]_vars => FastInv'
<1> SUFFICES ASSUME FastInv, [Next]_vars PROVE (ByModule => FastRight)'
  BY PipeKept DEF FastInv
<1>1. CASE RunFastApi
  BY <1>1, RunFastApiRight
<1>2. CASE StartFastApi
  <2>1. /\ repo' = repo /\ UNCHANGED <<read, prefixOf, fastapi>> /\ stage = "openapi"
        /\ pass' \in {"prefixes", pass}
    BY <1>2 DEF StartFastApi
  <2>2. pass = "off" /\ read = 0 /\ repo \in Repos
    BY <2>1 DEF FastInv, PipeInv, Places, WalkInv
  <2> SUFFICES ASSUME ByModule
               PROVE  /\ pass' \in {"off", "prefixes"} /\ prefixOf' = <<>> /\ fastapi' = <<>>
                      /\ CallMap(prefixOf', read')
    BY <2>1, FastSuffices
  <2>3. prefixOf = <<>> /\ fastapi = <<>>
    BY <2>2 DEF FastInv, FastRight
  <2>4. CallMap(prefixOf', read')
    BY <2>1, <2>2, <2>3, CallMapStarts
  <2> QED
    BY <2>1, <2>2, <2>3, <2>4
<1>3. CASE ~RunFastApi /\ ~StartFastApi
  <2>1. repo' = repo /\ UNCHANGED fastapiVars
    BY <1>3 DEF Next, vars, Finished, ReadDocument, StartDjango, RunDjango, StartMerge, MergeRoute,
                DetectConfig, BuildGraph, Generate
  <2>2. UNCHANGED <<pass, read, prefixOf, fastapi>>
    BY <2>1 DEF fastapiVars
  <2>3. ByModule => FastRight
    BY DEF FastInv
  <2>4. ByModule => /\ pass' = "off" => prefixOf' = <<>> /\ fastapi' = <<>>
                    /\ pass' = "prefixes" => CallMap(prefixOf', read') /\ fastapi' = <<>>
                    /\ pass' = "routes" => CallMap(prefixOf', Len(Files)) /\ Found(fastapi') = FoundUpTo(read')
                    /\ pass' = "over" => Found(fastapi') = Served
    BY <2>2, <2>3 DEF FastRight
  <2> QED
    BY <2>1, <2>4, FastSuffices
<1> QED
  BY <1>1, <1>2, <1>3

\* It implies the property.
LEMMA FoundIsServed == FastInv => FastApiServed
<1> SUFFICES ASSUME FastInv, pass = "over", ByModule PROVE FastApiServed
  BY DEF FastApiServed
<1>1. Found(fastapi) = Served
  BY DEF FastInv, FastRight
<1> QED
  BY <1>1 DEF FastApiServed, FoundByAst, Found, Shown

\* Of every repository it can read that includes its routers as module.router, the
\* parser of FastAPI finds exactly the routes that are served, each under its full
\* path (FastAPIParser.parse).  An imported router loses its prefix: the run
\* lost_prefix refutes the same of include_router(name).
THEOREM FastApiServedAlways == Spec => []FastApiServed
<1>1. Spec => []FastInv
  BY FastStarts, FastKept, PTL DEF Spec
<1> QED
  BY <1>1, FoundIsServed, PTL

-----------------------------------------------------------------------------
(* The names of a client.                                                  *)

\* What becomes of one token of a name.
Token(t) ==
    LET low == CASE t = "Id" -> "id" [] t = "Name" -> "name" [] OTHER -> t
    IN  IF low \in {"-", ":", "$"} THEN "_" ELSE low

\* snake_case works token by token.
LEMMA SnakeTokens ==
  ASSUME NEW n
  PROVE  Snake(n) = [i \in DOMAIN n |-> Token(n[i])]
BY DEF Snake, Retoken, Lower, Token

\* A token that was made a name's stays as it is.
LEMMA TokenStays ==
  ASSUME NEW t
  PROVE  Token(Token(t)) = Token(t) /\ Token(IF t \in {"_"} THEN "-" ELSE t) = Token(t)
<1>1. Token("id") = "id" /\ Token("name") = "name"
  BY Zenon DEF Token
<1>2. Token("_") = "_" /\ Token("-") = "_"
  BY Zenon DEF Token
<1>3. CASE t = "Id"
  <2>1. Token(t) = "id" /\ t \notin {"_"}
    BY <1>3, Zenon DEF Token
  <2> QED
    BY <1>1, <2>1, Zenon
<1>4. CASE t = "Name"
  <2>1. Token(t) = "name" /\ t \notin {"_"}
    BY <1>4, Zenon DEF Token
  <2> QED
    BY <1>1, <2>1, Zenon
<1>5. CASE t \in {"-", ":", "$"}
  <2>1. Token(t) = "_" /\ t \notin {"_"}
    BY <1>5, Zenon DEF Token
  <2> QED
    BY <1>2, <2>1, Zenon
<1>6. CASE t \notin {"Id", "Name", "-", ":", "$"}
  <2>1. Token(t) = t
    BY <1>6, Zenon DEF Token
  <2>2. t \in {"_"} => Token("-") = Token(t)
    BY <1>2, <2>1, Zenon
  <2> QED
    BY <2>1, <2>2, Zenon
<1> QED
  BY <1>3, <1>4, <1>5, <1>6, Zenon

\* Names token by token, without the tokens.
LEMMA Tokens ==
  ASSUME NEW n, NEW from, NEW to
  PROVE  Retoken(n, from, to) = [i \in DOMAIN n |-> IF n[i] \in from THEN to ELSE n[i]]
BY DEF Retoken

\* A name that is in snake case stays as it is, and dashes do not matter.
LEMMA SnakeStays ==
  ASSUME NEW n
  PROVE  Snake(Snake(n)) = Snake(n) /\ Snake(Dashed(n)) = Snake(n)
<1> DEFINE Dash(t) == IF t \in {"_"} THEN "-" ELSE t
<1>1. Dashed(n) = [i \in DOMAIN n |-> Dash(n[i])]
  BY Tokens, Zenon DEF Dashed
<1>2. \A t : Token(Token(t)) = Token(t) /\ Token(Dash(t)) = Token(t)
  BY TokenStays, Zenon
<1> HIDE DEF Dash
<1>3. /\ Snake(n) = [i \in DOMAIN n |-> Token(n[i])]
      /\ Snake(Snake(n)) = [i \in DOMAIN Snake(n) |-> Token(Snake(n)[i])]
      /\ Snake(Dashed(n)) = [i \in DOMAIN Dashed(n) |-> Token(Dashed(n)[i])]
  BY SnakeTokens
<1>4. Snake(Snake(n)) = [i \in DOMAIN n |-> Token(Token(n[i]))]
  BY <1>3
<1>5. Snake(Dashed(n)) = [i \in DOMAIN n |-> Token(Dash(n[i]))]
  BY <1>1, <1>3
<1> QED
  BY <1>2, <1>3, <1>4, <1>5

\* Three and five tokens, of which Token leaves each as it is.
LEMMA ThreeStay ==
  ASSUME NEW a, NEW b, NEW c, Token(a) = a, Token(b) = b, Token(c) = c
  PROVE  Snake(<<a, b, c>>) = <<a, b, c>>
<1> DEFINE v == <<a, b, c>>
<1>1. DOMAIN v = 1..3 /\ v = [i \in 1..3 |-> v[i]] /\ \A i \in 1..3 : Token(v[i]) = v[i]
  OBVIOUS
<1>2. Snake(v) = [i \in DOMAIN v |-> Token(v[i])]
  BY SnakeTokens
<1> HIDE DEF v
<1>3. Snake(v) = v
  BY <1>1, <1>2
<1> QED
  BY <1>3 DEF v

\* and so does one of five tokens.
LEMMA FiveStay ==
  ASSUME NEW a, NEW b, NEW c, NEW d, NEW e,
         Token(a) = a, Token(b) = b, Token(c) = c, Token(d) = d, Token(e) = e
  PROVE  Snake(<<a, b, c, d, e>>) = <<a, b, c, d, e>>
<1> DEFINE v == <<a, b, c, d, e>>
<1>1. DOMAIN v = 1..5 /\ v = [i \in 1..5 |-> v[i]] /\ \A i \in 1..5 : Token(v[i]) = v[i]
  OBVIOUS
<1>2. Snake(v) = [i \in DOMAIN v |-> Token(v[i])]
  BY SnakeTokens
<1> HIDE DEF v
<1>3. Snake(v) = v
  BY <1>1, <1>2
<1> QED
  BY <1>3 DEF v

\* A name of one token, with two more,
LEMMA OneLonger ==
  ASSUME NEW a, NEW d, NEW e, NEW n, NEW v, n = <<a>>, v = <<d, e>>
  PROVE  n \o v = <<a, d, e>>
<1> DEFINE s == n \o v
<1>1. /\ n \in Seq({a}) /\ Len(n) = 1
      /\ n[1] = a
      /\ v \in Seq({d, e}) /\ Len(v) = 2 /\ v[1] = d /\ v[2] = e
  OBVIOUS
<1>2. IsSeq(n) /\ IsSeq(v)
  BY <1>1, IsSeqIntro
<1>3. /\ s = [i \in 1..(Len(n) + Len(v)) |-> s[i]]
      /\ \A i \in 1..Len(n) : s[i] = n[i]
      /\ \A i \in 1..Len(v) : s[Len(n) + i] = v[i]
  BY <1>2, ConcatPlaces
<1> HIDE DEF s
<1>4. /\ s[1] = a
      /\ s[1 + 1] = d /\ s[1 + 2] = e
  BY <1>1, <1>3
<1>5. s = [i \in 1..3 |-> s[i]]
  BY <1>1, <1>3
<1>6. <<a, d, e>> = [i \in 1..3 |-> s[i]]
  BY <1>4
<1>7. s = <<a, d, e>>
  BY <1>5, <1>6, Zenon
<1> QED
  BY <1>7 DEF s

\* and one of three tokens, with two more.
LEMMA ThreeLonger ==
  ASSUME NEW a, NEW b, NEW c, NEW d, NEW e, NEW n, NEW v, n = <<a, b, c>>, v = <<d, e>>
  PROVE  n \o v = <<a, b, c, d, e>>
<1> DEFINE s == n \o v
<1>1. /\ n \in Seq({a, b, c}) /\ Len(n) = 3
      /\ n[1] = a /\ n[2] = b /\ n[3] = c
      /\ v \in Seq({d, e}) /\ Len(v) = 2 /\ v[1] = d /\ v[2] = e
  OBVIOUS
<1>2. IsSeq(n) /\ IsSeq(v)
  BY <1>1, IsSeqIntro
<1>3. /\ s = [i \in 1..(Len(n) + Len(v)) |-> s[i]]
      /\ \A i \in 1..Len(n) : s[i] = n[i]
      /\ \A i \in 1..Len(v) : s[Len(n) + i] = v[i]
  BY <1>2, ConcatPlaces
<1> HIDE DEF s
<1>4. /\ s[1] = a /\ s[2] = b /\ s[3] = c
      /\ s[3 + 1] = d /\ s[3 + 2] = e
  BY <1>1, <1>3
<1>5. s = [i \in 1..5 |-> s[i]]
  BY <1>1, <1>3
<1>6. <<a, b, c, d, e>> = [i \in 1..5 |-> s[i]]
  BY <1>4
<1>7. s = <<a, b, c, d, e>>
  BY <1>5, <1>6, Zenon
<1> QED
  BY <1>7 DEF s

\* Names of one, of three and of five tokens are never the same.
LEMMA Lengths ==
  ASSUME NEW a, NEW b, NEW c, NEW d, NEW e
  PROVE  \A x, y, z : /\ <<a, b, c>> # <<x>> /\ (<<a, b, c>> = <<x, y, z>> => c = z)
                      /\ <<a, b, c, d, e>> # <<x>> /\ <<a, b, c, d, e>> # <<x, y, z>>
<1> TAKE x, y, z
<1>1. Len(<<a, b, c>>) = 3 /\ Len(<<a, b, c, d, e>>) = 5 /\ Len(<<x>>) = 1 /\ Len(<<x, y, z>>) = 3
  OBVIOUS
<1>2. <<a, b, c>>[3] = c /\ <<x, y, z>>[3] = z
  OBVIOUS
<1> QED
  BY <1>1, <1>2

\* The names a template uses, with the ending that makes them others.
LEMMA ReservedFacts ==
  ASSUME NEW n \in Reserved
  PROVE  n \o <<"_", "val">> \notin Reserved /\ Snake(n \o <<"_", "val">>) = n \o <<"_", "val">>
<1>1. Token("raw") = "raw" /\ Token("_") = "_" /\ Token("body") = "body" /\ Token("val") = "val"
  BY Zenon DEF Token
<1>2. n = <<"raw", "_", "body">> \/ \E w \in {"pretty", "body", "data", "result", "params"} : n = <<w>>
  BY Zenon DEF Reserved
<1>3. CASE n = <<"raw", "_", "body">>
  <2>1. /\ n \o <<"_", "val">> = <<"raw", "_", "body", "_", "val">>
        /\ Snake(n \o <<"_", "val">>) = n \o <<"_", "val">>
    <3> DEFINE raw == "raw" us == "_" body == "body" val == "val" v == <<us, val>>
    <3>1. /\ n = <<raw, us, body>> /\ v = <<us, val>>
          /\ Token(raw) = raw /\ Token(us) = us /\ Token(body) = body /\ Token(val) = val
      BY <1>1, <1>3, Zenon
    <3> HIDE DEF v
    <3> HIDE DEF raw, us, body, val
    <3>2. n \o v = <<raw, us, body, us, val>> /\ Snake(n \o v) = n \o v
      <4>1. n \o v = <<raw, us, body, us, val>>
        BY <3>1, ThreeLonger
      <4>2. Snake(<<raw, us, body, us, val>>) = <<raw, us, body, us, val>>
        BY <3>1, FiveStay
      <4> QED
        BY <4>1, <4>2, Zenon
    <3> QED
      BY <3>2, Zenon DEF raw, us, body, val, v
  <2>2. <<"raw", "_", "body", "_", "val">> \notin Reserved
    BY Lengths, Zenon DEF Reserved
  <2> QED
    BY <2>1, <2>2, Zenon
<1>4. CASE \E w \in {"pretty", "body", "data", "result", "params"} : n = <<w>>
  <2>1. PICK w \in {"pretty", "body", "data", "result", "params"} : n = <<w>>
    BY <1>4
  <2>2. n \o <<"_", "val">> = <<w, "_", "val">>
    <3> DEFINE us == "_" val == "val" v == <<us, val>>
    <3>1. n = <<w>> /\ v = <<us, val>>
      BY <2>1, Zenon
    <3> HIDE DEF v
    <3> HIDE DEF us, val
    <3>2. n \o v = <<w, us, val>>
      BY <3>1, OneLonger
    <3> QED
      BY <3>2, Zenon DEF us, val, v
  <2>3. Token(w) = w
    BY Zenon DEF Token
  <2>4. Snake(<<w, "_", "val">>) = <<w, "_", "val">>
    BY <1>1, <2>3, ThreeStay, Zenon
  <2>5. <<w, "_", "val">> # <<"raw", "_", "body">>
    <3>1. "val" # "body"
      OBVIOUS
    <3> QED
      BY <3>1, Lengths, Zenon
  <2>6. <<w, "_", "val">> \notin Reserved
    BY <2>5, Lengths, Zenon DEF Reserved
  <2> QED
    BY <2>2, <2>4, <2>6, Zenon
<1> QED
  BY <1>2, <1>3, <1>4, Zenon

\* What _make_python_name makes of a name: never one that the template uses, and
\* it leaves it alone when it is given it again.
LEMMA PythonNameFacts ==
  ASSUME NEW n
  PROVE  /\ PythonName(n) \notin Reserved
         /\ Snake(PythonName(n)) = PythonName(n)
         /\ PythonName(PythonName(n)) = PythonName(n)
         /\ PythonName(Dashed(n)) = PythonName(n)
<1>1. CASE Snake(n) \in Reserved
  <2> DEFINE v == Snake(n) \o <<"_", "val">>
  <2>1. PythonName(n) = v /\ PythonName(Dashed(n)) = v
    BY <1>1, SnakeStays, Zenon DEF PythonName
  <2>2. v \notin Reserved /\ Snake(v) = v
    BY <1>1, ReservedFacts, Zenon
  <2> HIDE DEF v
  <2>3. PythonName(v) = v
    BY <2>2, Zenon DEF PythonName
  <2> QED
    BY <2>1, <2>2, <2>3, Zenon
<1>2. CASE Snake(n) \notin Reserved
  <2>1. PythonName(n) = Snake(n) /\ PythonName(Dashed(n)) = Snake(n)
    BY <1>2, SnakeStays, Zenon DEF PythonName
  <2>2. PythonName(Snake(n)) = Snake(n) /\ Snake(Snake(n)) = Snake(n)
    BY <1>2, SnakeStays, Zenon DEF PythonName
  <2> QED
    BY <1>2, <2>1, <2>2, Zenon
<1> QED
  BY <1>1, <1>2

-----------------------------------------------------------------------------
(* The template of a path.                                                 *)

\* What the first m parameters make of a path: the literal segments stay, and a
\* placeholder is the variable's once it was the parameter's turn.
NamedUpTo(g, p, ps, m) ==
    /\ DOMAIN g = DOMAIN p
    /\ \A i \in DOMAIN p : p[i].k = "lit" => g[i] = p[i]
    /\ \A i \in DOMAIN p : \A k \in DOMAIN ps :
         p[i] = Par(ps[k].name) => g[i] = IF k <= m THEN Par(PythonName(ps[k].name)) ELSE p[i]

\* No two parameters get one name.
NoTwice(ps) == \A a, b \in DOMAIN ps : PythonName(ps[a].name) = PythonName(ps[b].name) => a = b

\* One more parameter is renamed, and those before it stay renamed.
LEMMA OneNameMore ==
  ASSUME NEW p, NEW ps, IsSeq(ps), NoTwice(ps), NEW m \in Nat, m + 1 \in DOMAIN ps,
         NEW g, NamedUpTo(g, p, ps, m), NEW h, h = Renamed(g, ps[m + 1])
  PROVE  NamedUpTo(h, p, ps, m + 1)
<1> DEFINE n == ps[m + 1].name
           y == PythonName(n)
<1>1. h = [i \in DOMAIN g |-> IF g[i] \in {Par(n)} THEN Par(y) ELSE g[i]]
  BY Tokens DEF Renamed
<1>2. DOMAIN h = DOMAIN p
  BY <1>1 DEF NamedUpTo
<1>3. \A a, b : Par(a) = Par(b) => a = b
  BY DEF Par
<1>4. \A k \in DOMAIN ps : k \in Nat
  BY SeqFacts
<1> HIDE DEF n, y
<1>5. ASSUME NEW i \in DOMAIN p, p[i].k = "lit" PROVE h[i] = p[i]
  <2>1. g[i] = p[i] /\ i \in DOMAIN g
    BY <1>5 DEF NamedUpTo
  <2>2. g[i] # Par(n)
    BY <1>5, <2>1 DEF Par
  <2> QED
    BY <1>1, <2>1, <2>2
<1>6. ASSUME NEW i \in DOMAIN p, NEW k \in DOMAIN ps, p[i] = Par(ps[k].name)
      PROVE  h[i] = IF k <= m + 1 THEN Par(PythonName(ps[k].name)) ELSE p[i]
  <2>1. g[i] = (IF k <= m THEN Par(PythonName(ps[k].name)) ELSE p[i]) /\ i \in DOMAIN g
    BY <1>6 DEF NamedUpTo
  <2>2. CASE k = m + 1
    <3>1. g[i] = Par(n) /\ y = PythonName(ps[k].name)
      BY <1>6, <2>1, <2>2 DEF n, y
    <3> QED
      BY <1>1, <2>1, <2>2, <3>1
  <2>3. CASE k # m + 1
    <3>1. PythonName(n) # PythonName(ps[k].name)
      BY <2>3 DEF NoTwice, n
    <3>2. g[i] # Par(n)
      <4>1. CASE k <= m
        <5>1. g[i] = Par(PythonName(ps[k].name))
          BY <2>1, <4>1
        <5>2. PythonName(PythonName(ps[k].name)) = PythonName(ps[k].name)
          BY PythonNameFacts
        <5>3. PythonName(ps[k].name) # n
          BY <3>1, <5>2
        <5> QED
          BY <1>3, <5>1, <5>3
      <4>2. CASE ~(k <= m)
        <5>1. g[i] = Par(ps[k].name)
          BY <1>6, <2>1, <4>2
        <5> QED
          BY <1>3, <3>1, <5>1
      <4> QED
        BY <4>1, <4>2
    <3>3. h[i] = g[i]
      BY <1>1, <2>1, <3>2
    <3>4. k <= m + 1 <=> k <= m
      BY <1>4, <2>3
    <3> QED
      BY <2>1, <3>3, <3>4
  <2> QED
    BY <2>2, <2>3
<1> QED
  BY <1>2, <1>5, <1>6 DEF NamedUpTo

\* The template of a path in which every placeholder is a parameter's: the
\* placeholders are the variables', the rest is as it was.
LEMMA TemplateFacts ==
  ASSUME NEW p, NEW ps, IsSeq(ps), NoTwice(ps)
  PROVE  LET t == Template(p, ps)
         IN  /\ DOMAIN t = DOMAIN p
             /\ \A i \in DOMAIN p : p[i].k = "lit" => t[i] = p[i]
             /\ \A i \in DOMAIN p : \A k \in DOMAIN ps :
                  p[i] = Par(ps[k].name) => t[i] = Par(PythonName(ps[k].name))
<1>1. PICK f : Runs(f, "names", p, ps) /\ FoldLeft(Renamed, p, ps) = f[Len(ps)]
  BY NamesRun
<1>2. DOMAIN ps = 1..Len(ps) /\ Len(ps) \in Nat
  BY SeqFacts
<1> DEFINE Have == {m \in Nat : m <= Len(ps) => NamedUpTo(f[m], p, ps, m)}
<1>3. 0 \in Have
  <2>1. f[0] = p
    BY <1>1 DEF Runs
  <2>2. \A k \in DOMAIN ps : ~(k <= 0)
    BY <1>2
  <2>3. NamedUpTo(p, p, ps, 0)
    BY <2>2 DEF NamedUpTo
  <2> QED
    BY <2>1, <2>3
<1>4. ASSUME NEW m \in Nat, m \in Have PROVE m + 1 \in Have
  <2> SUFFICES ASSUME m + 1 <= Len(ps) PROVE NamedUpTo(f[m + 1], p, ps, m + 1)
    OBVIOUS
  <2>1. m + 1 \in DOMAIN ps /\ m + 1 \in 1..Len(ps) /\ m <= Len(ps) /\ (m + 1) - 1 = m
    BY <1>2
  <2>2. f[m + 1] = Step("names", f[m], ps[m + 1])
    BY <1>1, <2>1 DEF Runs
  <2>3. f[m + 1] = Renamed(f[m], ps[m + 1])
    BY <2>2 DEF Step
  <2>4. NamedUpTo(f[m], p, ps, m)
    BY <1>4, <2>1
  <2> QED
    BY <2>1, <2>3, <2>4, OneNameMore
<1>5. Nat \subseteq Have
  <2> HIDE DEF Have
  <2> QED
    BY <1>3, <1>4, NatInduct
<1> DEFINE g == f[Len(ps)]
           t == Template(p, ps)
<1>6. NamedUpTo(g, p, ps, Len(ps))
  BY <1>2, <1>5
<1>7. t = [i \in DOMAIN g |-> IF g[i].k = "lit" THEN g[i] ELSE Placeholder(g[i])]
  BY <1>1, Zenon DEF Template
<1> HIDE DEF g, t, Have
<1>8. DOMAIN t = DOMAIN p
  BY <1>6, <1>7 DEF NamedUpTo
<1>9. ASSUME NEW i \in DOMAIN p, p[i].k = "lit" PROVE t[i] = p[i]
  BY <1>6, <1>7, <1>9 DEF NamedUpTo
<1>10. ASSUME NEW i \in DOMAIN p, NEW k \in DOMAIN ps, p[i] = Par(ps[k].name)
       PROVE  t[i] = Par(PythonName(ps[k].name))
  <2> DEFINE y == PythonName(ps[k].name)
  <2>1. g[i] = Par(y) /\ i \in DOMAIN g
    BY <1>2, <1>6, <1>10 DEF NamedUpTo
  <2>2. Snake(y) = y
    BY PythonNameFacts
  <2> HIDE DEF y
  <2>3. t[i] = IF g[i].k = "lit" THEN g[i] ELSE Placeholder(g[i])
    BY <1>7, <2>1
  <2>4. g[i].k = "par" /\ g[i].n = y
    BY <2>1 DEF Par
  <2>5. Placeholder(g[i]) = Par(y)
    <3>1. Placeholder(g[i]) = Par(Snake(g[i].n))
      BY <2>4, Zenon DEF Placeholder
    <3> QED
      BY <2>2, <2>4, <3>1
  <2>6. t[i] = Par(y)
    BY <2>3, <2>4, <2>5
  <2> QED
    BY <2>6 DEF y
<1> QED
  BY <1>8, <1>9, <1>10 DEF t

-----------------------------------------------------------------------------
(* The parameters of a command.                                            *)

\* Two lists of parameters without a namesake, nor one in each, have none together.
LEMMA NoTwiceConcat ==
  ASSUME NEW s, IsSeq(s), NEW t, IsSeq(t), NoTwice(s), NoTwice(t),
         \A a \in DOMAIN s : \A b \in DOMAIN t : PythonName(s[a].name) # PythonName(t[b].name)
  PROVE  NoTwice(s \o t)
<1> DEFINE st == s \o t
<1>1. ASSUME NEW i \in DOMAIN st, NEW j \in DOMAIN st, PythonName(st[i].name) = PythonName(st[j].name)
      PROVE  i = j
  <2>1. \/ i \in DOMAIN s /\ st[i] = s[i]
        \/ \E a \in DOMAIN t : i = Len(s) + a /\ st[i] = t[a]
    BY ConcatCases
  <2>2. \/ j \in DOMAIN s /\ st[j] = s[j]
        \/ \E a \in DOMAIN t : j = Len(s) + a /\ st[j] = t[a]
    BY ConcatCases
  <2> HIDE DEF st
  <2>3. CASE i \in DOMAIN s /\ st[i] = s[i] /\ j \in DOMAIN s /\ st[j] = s[j]
    BY <1>1, <2>3 DEF NoTwice
  <2>4. ASSUME NEW a \in DOMAIN t, i = Len(s) + a, st[i] = t[a],
               NEW b \in DOMAIN t, j = Len(s) + b, st[j] = t[b]
        PROVE  i = j
    BY <1>1, <2>4 DEF NoTwice
  <2> QED
    BY <1>1, <2>1, <2>2, <2>3, <2>4
<1> QED
  BY <1>1 DEF NoTwice

\* What is picked from parameters that get different names gets different names.
LEMMA NoTwicePicked ==
  ASSUME NEW s, IsSeq(s), NoTwice(s), NEW I \in SUBSET DOMAIN s
  PROVE  /\ IsSeq(Picked(s, I)) /\ NoTwice(Picked(s, I))
         /\ \A a \in DOMAIN Picked(s, I) : \E i \in I : Picked(s, I)[a] = s[i]
         /\ \A i \in I : \E a \in DOMAIN Picked(s, I) : Picked(s, I)[a] = s[i]
<1> DEFINE u == Picked(s, I)
<1>1. IsSeq(u) /\ ToSet(u) = {s[i] : i \in I}
  BY PickedIsSeq
<1>2. PICK q \in [DOMAIN u -> I] : /\ \A a, b \in DOMAIN q : a < b => q[a] < q[b]
                                   /\ \A a \in DOMAIN q : u[a] = s[q[a]]
  BY PickedPlaces
<1> HIDE DEF u
<1>3. Len(u) \in Nat /\ DOMAIN u = 1..Len(u) /\ DOMAIN s = 1..Len(s) /\ Len(s) \in Nat
  BY <1>1, SeqFacts
<1>4. ASSUME NEW a \in DOMAIN u, NEW b \in DOMAIN u, PythonName(u[a].name) = PythonName(u[b].name)
      PROVE  a = b
  <2>1. q[a] = q[b]
    BY <1>2, <1>4 DEF NoTwice
  <2>2. q[a] \in Nat /\ q[b] \in Nat
    BY <1>2, <1>3
  <2>3. ~(a < b) /\ ~(b < a)
    BY <1>2, <2>1, <2>2
  <2> QED
    BY <1>3, <2>3
<1>5. \A a \in DOMAIN u : u[a] \in ToSet(u)
  BY <1>1, SeqFacts
<1>6. ASSUME NEW i \in I PROVE \E a \in DOMAIN u : s[i] = u[a]
  <2>1. s[i] \in ToSet(u)
    BY <1>1
  <2> QED
    BY <2>1 DEF ToSet
<1>7. NoTwice(u)
  BY <1>4 DEF NoTwice
<1>8. \A a \in DOMAIN u : \E i \in I : u[a] = s[i]
  BY <1>1, <1>5
<1>9. \A i \in I : \E a \in DOMAIN u : u[a] = s[i]
  BY <1>6
<1> QED
  BY <1>1, <1>7, <1>8, <1>9 DEF u

\* A command's parameters: those the path names and the others, in order.
Given(r)  == Subcommand(r).params
InPath(r) == {i \in DOMAIN r.params : IsPathParam(r.params[i].name, r.path)}
PathOf(r) == Picked(Given(r), InPath(r))
RestOf(r) == Picked(Given(r), DOMAIN r.params \ InPath(r))

\* What generate is given of the parameters: each has its name, and a flag of it.
LEMMA GivenFacts ==
  ASSUME NEW r, IsSeq(r.params)
  PROVE  /\ IsSeq(Given(r)) /\ DOMAIN Given(r) = DOMAIN r.params
         /\ \A i \in DOMAIN r.params : /\ Given(r)[i].name = r.params[i].name
                                       /\ Given(r)[i].flag = Dashed(r.params[i].name)
         /\ Distinct(r) => NoTwice(Given(r))
<1> DEFINE g == Given(r)
<1>1. g = [i \in DOMAIN r.params |-> [name |-> r.params[i].name, flag |-> Dashed(r.params[i].name)]]
  BY DEF Given, Subcommand
<1> HIDE DEF g
<1>2. DOMAIN g = DOMAIN r.params /\ g = [i \in DOMAIN r.params |-> g[i]]
  BY <1>1
<1>3. IsSeq(g)
  BY <1>2, EachIsSeq
<1>4. \A i \in DOMAIN r.params : g[i].name = r.params[i].name /\ g[i].flag = Dashed(r.params[i].name)
  BY <1>1
<1>5. ASSUME Distinct(r) PROVE NoTwice(g)
  <2> DEFINE y == [i \in DOMAIN r.params |-> PythonName(r.params[i].name)]
  <2>1. \A a, b \in DOMAIN y : y[a] = y[b] => a = b
    BY <1>5 DEF Distinct, IsInjective
  <2>2. \A a, b \in DOMAIN r.params :
           PythonName(r.params[a].name) = PythonName(r.params[b].name) => a = b
    BY <2>1
  <2> QED
    BY <1>2, <1>4, <2>2 DEF NoTwice
<1> QED
  BY <1>2, <1>3, <1>4, <1>5 DEF g

\* What _build_command_context makes of a route's subcommand.
LEMMA CommandValue ==
  ASSUME NEW r, IsSeq(r.params)
  PROVE  LET c     == CommandOf(Subcommand(r))
             flags == {RestOf(r)[i].flag : i \in DOMAIN RestOf(r)}
         IN  c = [name     |-> CommandName(r),
                  method   |-> r.method,
                  template |-> Template(r.path, PathOf(r)),
                  path     |-> PathOf(r),
                  query    |-> IF HasBody(r.method) THEN <<>> ELSE RestOf(r),
                  body     |-> IF HasBody(r.method) THEN RestOf(r) ELSE <<>>,
                  rawBody  |-> HasBody(r.method) /\ <<"body">> \in flags]
<1> DEFINE sub == Subcommand(r)
           g == sub.params
<1>1. sub.name = CommandName(r) /\ sub.method = r.method /\ sub.endpoint = r.path /\ g = Given(r)
  BY DEF Subcommand, Given
<1>2. /\ DOMAIN g = DOMAIN r.params /\ \A i \in DOMAIN r.params : g[i].name = r.params[i].name
  BY <1>1, GivenFacts
<1> HIDE DEF sub
<1>3. Filter(g, LAMBDA p : IsPathParam(p.name, sub.endpoint)) = PathOf(r)
  <2>1. {i \in DOMAIN g : IsPathParam(g[i].name, sub.endpoint)} = InPath(r)
    BY <1>1, <1>2 DEF InPath
  <2>2. Picked(g, {i \in DOMAIN g : IsPathParam(g[i].name, sub.endpoint)}) = PathOf(r)
    BY <1>1, <2>1 DEF PathOf
  <2> QED
    BY <2>2 DEF Filter
<1>4. Filter(g, LAMBDA p : ~IsPathParam(p.name, sub.endpoint)) = RestOf(r)
  <2>1. {i \in DOMAIN g : ~IsPathParam(g[i].name, sub.endpoint)} = DOMAIN r.params \ InPath(r)
    BY <1>1, <1>2 DEF InPath
  <2>2. Picked(g, {i \in DOMAIN g : ~IsPathParam(g[i].name, sub.endpoint)}) = RestOf(r)
    BY <1>1, <2>1 DEF RestOf
  <2> QED
    BY <2>2 DEF Filter
<1> QED
  BY <1>1, <1>3, <1>4, Zenon DEF CommandOf, sub

\* The parameters of a command are those of its route, each once.
LEMMA ParametersFacts ==
  ASSUME NEW r, IsSeq(r.params), Distinct(r)
  PROVE  LET ps == Parameters(CommandOf(Subcommand(r)))
         IN  /\ IsSeq(ps) /\ NoTwice(ps)
             /\ \A i \in DOMAIN r.params : \E a \in DOMAIN ps : ps[a].name = r.params[i].name
             /\ \A a \in DOMAIN ps : \E i \in DOMAIN r.params : ps[a].name = r.params[i].name
<1> DEFINE c == CommandOf(Subcommand(r))
           ps == Parameters(c)
           path == PathOf(r)
           rest == RestOf(r)
           g == Given(r)
           I == InPath(r)
           J == DOMAIN r.params \ I
<1>1. /\ IsSeq(g) /\ NoTwice(g) /\ DOMAIN g = DOMAIN r.params
      /\ \A i \in DOMAIN r.params : g[i].name = r.params[i].name
  BY GivenFacts
<1>2. /\ c.path = path
      /\ c.query = IF HasBody(r.method) THEN <<>> ELSE rest
      /\ c.body = IF HasBody(r.method) THEN rest ELSE <<>>
  <2> HIDE DEF path, rest
  <2> QED
    BY CommandValue DEF path, rest
<1>3. I \in SUBSET DOMAIN g /\ J \in SUBSET DOMAIN g
  BY <1>1 DEF InPath
<1>4. /\ IsSeq(path) /\ NoTwice(path)
      /\ \A a \in DOMAIN path : \E i \in I : path[a] = g[i]
      /\ \A i \in I : \E a \in DOMAIN path : path[a] = g[i]
  BY <1>1, <1>3, NoTwicePicked DEF PathOf
<1>5. /\ IsSeq(rest) /\ NoTwice(rest)
      /\ \A a \in DOMAIN rest : \E i \in J : rest[a] = g[i]
      /\ \A i \in J : \E a \in DOMAIN rest : rest[a] = g[i]
  BY <1>1, <1>3, NoTwicePicked DEF RestOf
<1> HIDE DEF path, rest, g, I, J, c
<1>6. /\ IsSeq(<<>>) /\ NoTwice(<<>>) /\ DOMAIN <<>> = {} /\ ToSet(<<>>) = {}
  BY EmptyIsSeq DEF NoTwice
<1>7. ASSUME NEW a \in DOMAIN path, NEW b \in DOMAIN rest
      PROVE  PythonName(path[a].name) # PythonName(rest[b].name)
  <2>1. PICK i \in I : path[a] = g[i]
    BY <1>4
  <2>2. PICK j \in J : rest[b] = g[j]
    BY <1>5
  <2>3. i # j /\ i \in DOMAIN g /\ j \in DOMAIN g
    BY <1>3 DEF J
  <2> QED
    BY <1>1, <2>1, <2>2, <2>3 DEF NoTwice
<1> DEFINE pq == path \o c.query
<1>8. IsSeq(c.query) /\ NoTwice(c.query) /\ IsSeq(c.body) /\ NoTwice(c.body)
  BY <1>2, <1>5, <1>6
<1>9. \A a \in DOMAIN path : \A b \in DOMAIN c.query : PythonName(path[a].name) # PythonName(c.query[b].name)
  BY <1>2, <1>6, <1>7
<1>10. /\ IsSeq(pq) /\ NoTwice(pq) /\ ToSet(pq) = ToSet(path) \cup ToSet(c.query)
  BY <1>4, <1>8, <1>9, NoTwiceConcat, ConcatIsSeq
<1>11. ps = pq \o c.body
  BY <1>2 DEF Parameters
<1>12. \A a \in DOMAIN pq : \A b \in DOMAIN c.body : PythonName(pq[a].name) # PythonName(c.body[b].name)
  <2> SUFFICES ASSUME NEW a \in DOMAIN pq, NEW b \in DOMAIN c.body
               PROVE  PythonName(pq[a].name) # PythonName(c.body[b].name)
    OBVIOUS
  <2>1. HasBody(r.method) /\ c.body = rest /\ c.query = <<>>
    BY <1>2, <1>6
  <2> HIDE DEF pq
  <2>2. pq[a] \in ToSet(pq)
    BY DEF ToSet
  <2>3. pq[a] \in ToSet(path)
    BY <1>6, <1>10, <2>1, <2>2
  <2>4. PICK e \in DOMAIN path : pq[a] = path[e]
    BY <2>3 DEF ToSet
  <2> QED
    BY <1>7, <2>1, <2>4
<1> HIDE DEF pq
<1>13. IsSeq(ps) /\ NoTwice(ps) /\ ToSet(ps) = ToSet(path) \cup ToSet(c.query) \cup ToSet(c.body)
  BY <1>8, <1>10, <1>11, <1>12, NoTwiceConcat, ConcatIsSeq
<1> HIDE DEF ps
<1>14. ASSUME NEW a \in DOMAIN ps PROVE \E i \in DOMAIN r.params : ps[a].name = r.params[i].name
  <2>1. ps[a] \in ToSet(ps)
    BY DEF ToSet
  <2>2. ToSet(ps) \subseteq ToSet(path) \cup ToSet(rest)
    BY <1>2, <1>6, <1>13
  <2>3. CASE ps[a] \in ToSet(path)
    <3>1. PICK b \in DOMAIN path : ps[a] = path[b]
      BY <2>3 DEF ToSet
    <3>2. PICK i \in I : path[b] = g[i]
      BY <1>4
    <3> QED
      BY <1>1, <1>3, <3>1, <3>2
  <2>4. CASE ps[a] \in ToSet(rest)
    <3>1. PICK b \in DOMAIN rest : ps[a] = rest[b]
      BY <2>4 DEF ToSet
    <3>2. PICK i \in J : rest[b] = g[i]
      BY <1>5
    <3> QED
      BY <1>1, <1>3, <3>1, <3>2
  <2> QED
    BY <2>1, <2>2, <2>3, <2>4
<1>15. ASSUME NEW i \in DOMAIN r.params PROVE \E a \in DOMAIN ps : ps[a].name = r.params[i].name
  <2>1. g[i] \in ToSet(path) \cup ToSet(rest)
    <3>1. CASE i \in I
      BY <1>4, <3>1 DEF ToSet
    <3>2. CASE i \in J
      BY <1>5, <3>2 DEF ToSet
    <3> QED
      BY <3>1, <3>2 DEF J
  <2>2. g[i] \in ToSet(ps)
    BY <1>2, <1>13, <2>1
  <2>3. PICK a \in DOMAIN ps : ps[a] = g[i]
    BY <2>2 DEF ToSet
  <2> QED
    BY <1>1, <2>3
<1> QED
  BY <1>13, <1>14, <1>15 DEF ps, c

\* A list of names that ends in one or two others.
LEMMA OtherNames ==
  ASSUME NEW y, IsSeq(y), IsInjective(y), NEW n, NEW m, n # m,
         \A a \in DOMAIN y : y[a] # n /\ y[a] # m, NEW t, t = <<>> \/ t = <<m>>
  PROVE  IsInjective(y \o <<n>> \o t)
<1> DEFINE one == <<n>>
           yn == y \o one
<1>1. IsSeq(one) /\ IsInjective(one) /\ \A b \in DOMAIN one : one[b] = n
  <2>1. IsSeq(one)
    BY SingletonIsSeq
  <2>2. DOMAIN one = {1} /\ one[1] = n
    OBVIOUS
  <2> HIDE DEF one
  <2> QED
    BY <2>1, <2>2 DEF IsInjective
<1>2. IsSeq(t) /\ IsInjective(t) /\ \A b \in DOMAIN t : t[b] = m
  <2>1. CASE t = <<>>
    BY <2>1, EmptyIsSeq DEF IsInjective
  <2>2. CASE t = <<m>>
    <3>1. IsSeq(t)
      BY <2>2, SingletonIsSeq
    <3>2. DOMAIN t = {1} /\ t[1] = m
      BY <2>2
    <3> QED
      BY <3>1, <3>2 DEF IsInjective
  <2> QED
    BY <2>1, <2>2
<1> HIDE DEF one
<1>3. \A a \in DOMAIN y : \A b \in DOMAIN one : y[a] # one[b]
  BY <1>1
<1>4. IsInjective(yn) /\ IsSeq(yn) /\ ToSet(yn) = ToSet(y) \cup ToSet(one)
  BY <1>1, <1>3, InjectiveConcat, ConcatIsSeq
<1> HIDE DEF yn
<1>5. ASSUME NEW a \in DOMAIN yn, NEW b \in DOMAIN t PROVE yn[a] # t[b]
  <2>1. yn[a] \in ToSet(y) \cup ToSet(one)
    BY <1>4, SeqFacts
  <2>2. yn[a] # m
    <3>1. ASSUME yn[a] \in ToSet(y) PROVE yn[a] # m
      BY <3>1 DEF ToSet
    <3>2. ASSUME yn[a] \in ToSet(one) PROVE yn[a] # m
      BY <1>1, <3>2 DEF ToSet
    <3> QED
      BY <2>1, <3>1, <3>2
  <2> QED
    BY <1>2, <2>2
<1>6. IsInjective(yn \o t)
  BY <1>2, <1>4, <1>5, InjectiveConcat
<1> QED
  BY <1>6 DEF yn, one

\* The function of a command has no argument twice: the parameters get different
\* names, and none gets the name of an argument the template adds.
LEMMA ArgumentsDiffer ==
  ASSUME NEW r, IsSeq(r.params), Distinct(r)
  PROVE  IsInjective(Arguments(CommandOf(Subcommand(r))))
<1> DEFINE c == CommandOf(Subcommand(r))
           ps == Parameters(c)
           y == [i \in DOMAIN ps |-> PythonName(ps[i].name)]
           n == <<"pretty">>
           m == <<"raw", "_", "body">>
           t == IF c.body # <<>> /\ ~c.rawBody THEN <<m>> ELSE <<>>
<1>1. IsSeq(ps) /\ NoTwice(ps)
  BY ParametersFacts
<1>2. n \in Reserved /\ m \in Reserved
  BY Zenon DEF Reserved
<1>3. n # m
  BY Lengths, Zenon
<1>4. Arguments(c) = y \o <<n>> \o t
  BY Zenon DEF Arguments
<1> HIDE DEF n, m, c
<1>5. t = <<>> \/ t = <<m>>
  OBVIOUS
<1> HIDE DEF t, ps
<1>6. IsSeq(y)
  BY <1>1, EachIsSeq
<1>7. IsInjective(y)
  BY <1>1 DEF NoTwice, IsInjective
<1>8. \A a \in DOMAIN y : y[a] \notin Reserved
  BY PythonNameFacts
<1> HIDE DEF y
<1>9. \A a \in DOMAIN y : y[a] # n /\ y[a] # m
  BY <1>2, <1>8
<1>10. IsInjective(y \o <<n>> \o t)
  BY <1>3, <1>5, <1>6, <1>7, <1>9, OtherNames
<1> QED
  BY <1>4, <1>10, Zenon DEF c

\* A name is looked up among parameters that get different names.
LEMMA LookupFacts ==
  ASSUME NEW c, IsSeq(Parameters(c)), NoTwice(Parameters(c)), NEW a \in DOMAIN Parameters(c)
  PROVE  Lookup(c, PythonName(Parameters(c)[a].name)) = Parameters(c)[a].name
<1> DEFINE ps == Parameters(c)
           v == PythonName(ps[a].name)
           I == {i \in 1..Len(ps) : PythonName(ps[i].name) = v}
           k == SelectLastInSeq(ps, LAMBDA p : PythonName(p.name) = v)
<1>1. k = IF I # {} THEN Max(I) ELSE 0
  BY DEF SelectLastInSeq
<1>2. Lookup(c, v) = IF k = 0 THEN <<"NameError">> ELSE ps[k].name
  BY DEF Lookup
<1>3. Len(ps) \in Nat /\ DOMAIN ps = 1..Len(ps)
  BY SeqFacts
<1> HIDE DEF k, ps
<1>4. a \in I /\ I \in SUBSET (1..Len(ps))
  BY <1>3 DEF ps
<1>5. Max(I) \in I
  BY <1>3, <1>4, MinMax
<1>6. k \in I
  BY <1>1, <1>4, <1>5
<1>7. k \in DOMAIN ps /\ PythonName(ps[k].name) = PythonName(ps[a].name) /\ k # 0
  BY <1>3, <1>6
<1>8. k = a
  BY <1>7 DEF NoTwice, ps
<1> QED
  BY <1>2, <1>7, <1>8 DEF ps

\* A parameter is in the path if its own name is there: the name with dashes would
\* be that of another parameter, and the two would get one name.
LEMMA PathParamFacts ==
  ASSUME NEW r, IsSeq(r.params), Distinct(r), Expressible(r)
  PROVE  /\ \A i \in DOMAIN r.params : i \in InPath(r) <=> r.params[i].name \in Params(r.path)
         /\ \A i \in DOMAIN r.path : \/ r.path[i].k = "lit"
                                     \/ \E k \in InPath(r) : r.path[i] = Par(r.params[k].name)
<1> DEFINE p == r.path
           ps == r.params
<1>1. /\ \A s \in ToSet(p) : s.k = "lit" \/ s = Par(s.n)
      /\ Params(p) \subseteq {q.name : q \in ToSet(ps)}
  BY DEF Expressible
<1>2. \A i \in DOMAIN p : p[i] \in ToSet(p)
  BY DEF ToSet
<1>3. \A n : n \in Params(p) <=> \E j \in DOMAIN p : p[j].k = "par" /\ p[j].n = n
  BY DEF Params
<1>4. \A n : Par(n).k = "par" /\ Par(n).n = n
  BY DEF Par
<1>5. \A n : Par(n) \in ToSet(p) <=> n \in Params(p)
  <2> SUFFICES ASSUME NEW n PROVE Par(n) \in ToSet(p) <=> n \in Params(p)
    OBVIOUS
  <2>1. ASSUME Par(n) \in ToSet(p) PROVE n \in Params(p)
    <3>1. PICK j \in DOMAIN p : p[j] = Par(n)
      BY <2>1 DEF ToSet
    <3> QED
      BY <1>3, <1>4, <3>1
  <2>2. ASSUME n \in Params(p) PROVE Par(n) \in ToSet(p)
    <3>1. PICK j \in DOMAIN p : p[j].k = "par" /\ p[j].n = n
      BY <1>3, <2>2
    <3>2. p[j] = Par(n)
      BY <1>1, <1>2, <3>1
    <3> QED
      BY <1>2, <3>2
  <2> QED
    BY <2>1, <2>2
<1>6. \A a, b \in DOMAIN ps : PythonName(ps[a].name) = PythonName(ps[b].name) => a = b
  BY GivenFacts DEF NoTwice
<1>7. ASSUME NEW n \in Params(p) PROVE \E i \in DOMAIN ps : ps[i].name = n
  <2>1. PICK q \in ToSet(ps) : q.name = n
    BY <1>1
  <2> QED
    BY <2>1 DEF ToSet
<1>8. ASSUME NEW i \in DOMAIN ps PROVE i \in InPath(r) <=> ps[i].name \in Params(p)
  <2> DEFINE n == ps[i].name
  <2>1. i \in InPath(r) <=> \E s \in ToSet(p) : s \in {Par(n), Par(Dashed(n))}
    BY DEF InPath, IsPathParam
  <2>2. i \in InPath(r) <=> (n \in Params(p) \/ Dashed(n) \in Params(p))
    <3> HIDE DEF n
    <3> QED
      BY <1>5, <2>1
  <2>3. ASSUME Dashed(n) \in Params(p) PROVE n \in Params(p)
    <3>1. PICK j \in DOMAIN ps : ps[j].name = Dashed(n)
      BY <1>7, <2>3
    <3>2. PythonName(ps[j].name) = PythonName(n)
      BY <3>1, PythonNameFacts
    <3>3. j = i
      BY <1>6, <3>2
    <3> QED
      BY <2>3, <3>1, <3>3
  <2> QED
    BY <2>2, <2>3
<1>9. ASSUME NEW i \in DOMAIN p, p[i].k # "lit" PROVE \E k \in InPath(r) : p[i] = Par(ps[k].name)
  <2>1. p[i] = Par(p[i].n)
    BY <1>1, <1>2, <1>9
  <2>2. p[i].n \in Params(p)
    BY <1>2, <1>5, <2>1
  <2>3. PICK k \in DOMAIN ps : ps[k].name = p[i].n
    BY <1>7, <2>2
  <2>4. k \in InPath(r)
    BY <1>8, <2>2, <2>3
  <2> QED
    BY <2>1, <2>3, <2>4
<1> QED
  BY <1>8, <1>9

\* The path of the request is the path of the route.
LEMMA SentPath ==
  ASSUME NEW r, IsSeq(r.params), Distinct(r), Expressible(r)
  PROVE  Sent(CommandOf(Subcommand(r))).path = Wanted(r).path
<1> DEFINE c == CommandOf(Subcommand(r))
           t == c.template
           ps == Parameters(c)
           path == PathOf(r)
<1>1. t = Template(r.path, path)
  <2> HIDE DEF path
  <2> QED
    BY CommandValue DEF path
<1>2. /\ IsSeq(Given(r)) /\ NoTwice(Given(r)) /\ DOMAIN Given(r) = DOMAIN r.params
      /\ \A i \in DOMAIN r.params : Given(r)[i].name = r.params[i].name
  BY GivenFacts
<1>3. InPath(r) \in SUBSET DOMAIN Given(r)
  BY <1>2 DEF InPath
<1>4. /\ IsSeq(path) /\ NoTwice(path)
      /\ \A i \in InPath(r) : \E a \in DOMAIN path : path[a] = Given(r)[i]
  BY <1>2, <1>3, NoTwicePicked DEF PathOf
<1>5. /\ IsSeq(ps) /\ NoTwice(ps)
      /\ \A i \in DOMAIN r.params : \E a \in DOMAIN ps : ps[a].name = r.params[i].name
  BY ParametersFacts
<1>6. /\ Sent(c).path = [i \in DOMAIN t |-> IF t[i].k = "lit" THEN t[i].n ELSE Lookup(c, t[i].n)]
      /\ Wanted(r).path = [i \in DOMAIN r.path |-> r.path[i].n]
  <2> HIDE DEF c
  <2> QED
    BY DEF Sent, Wanted
<1> HIDE DEF path, c
<1>7. /\ DOMAIN t = DOMAIN r.path
      /\ \A i \in DOMAIN r.path : r.path[i].k = "lit" => t[i] = r.path[i]
      /\ \A i \in DOMAIN r.path : \A k \in DOMAIN path :
           r.path[i] = Par(path[k].name) => t[i] = Par(PythonName(path[k].name))
  BY <1>1, <1>4, TemplateFacts
<1> HIDE DEF t
<1>8. ASSUME NEW i \in DOMAIN r.path
      PROVE  (IF t[i].k = "lit" THEN t[i].n ELSE Lookup(c, t[i].n)) = r.path[i].n
  <2>1. CASE r.path[i].k = "lit"
    BY <1>7, <2>1
  <2>2. CASE r.path[i].k # "lit"
    <3>1. PICK k \in InPath(r) : r.path[i] = Par(r.params[k].name)
      BY <2>2, PathParamFacts
    <3>2. k \in DOMAIN r.params /\ Given(r)[k].name = r.params[k].name
      BY <1>2, <1>3
    <3>3. PICK a \in DOMAIN path : path[a] = Given(r)[k]
      BY <1>4
    <3>4. t[i] = Par(PythonName(r.params[k].name))
      BY <1>7, <3>1, <3>2, <3>3
    <3>5. PICK b \in DOMAIN ps : ps[b].name = r.params[k].name
      BY <1>5, <3>2
    <3>6. Lookup(c, PythonName(ps[b].name)) = ps[b].name
      BY <1>5, LookupFacts
    <3>7. t[i].k # "lit" /\ t[i].n = PythonName(ps[b].name)
      BY <3>4, <3>5 DEF Par
    <3>8. r.path[i].n = r.params[k].name
      BY <3>1 DEF Par
    <3> QED
      BY <3>5, <3>6, <3>7, <3>8
  <2> QED
    BY <2>1, <2>2
<1>9. Sent(c).path = Wanted(r).path
  BY <1>6, <1>7, <1>8
<1> QED
  BY <1>9 DEF c

\* The parameters that the path does not name, by name.
RestNames(r) == {r.params[i].name : i \in DOMAIN r.params \ InPath(r)}
Twins(N) == {<<n, n>> : n \in N}

\* They keep their names in Python, are none of the template's, and are where a
\* command sends them.
LEMMA RestFacts ==
  ASSUME NEW r, IsSeq(r.params), Distinct(r), Expressible(r)
  PROVE  /\ \A n \in RestNames(r) : PythonName(n) = n /\ Dashed(n) # <<"body">>
         /\ {<<PythonName(p.name), p.name>> : p \in ToSet(RestOf(r))} = Twins(RestNames(r))
         /\ Wanted(r).query = IF HasBody(r.method) THEN {} ELSE Twins(RestNames(r))
         /\ Wanted(r).body = IF HasBody(r.method) THEN Twins(RestNames(r)) ELSE {}
<1> DEFINE ps == r.params
           N == RestNames(r)
           J == DOMAIN ps \ InPath(r)
           rest == {p \in ToSet(ps) : p.name \notin Params(r.path)}
           L == IF HasBody(r.method) THEN "body" ELSE "query"
<1>1. \A i \in DOMAIN ps : i \in InPath(r) <=> ps[i].name \in Params(r.path)
  BY PathParamFacts
<1>2. \A i \in DOMAIN ps : i \in InPath(r) <=> IsPathParam(ps[i].name, r.path)
  BY DEF InPath
<1>3. \A p \in ToSet(ps) : ~IsPathParam(p.name, r.path) => p.loc = L /\ PythonName(p.name) = p.name
  BY DEF Expressible
<1>4. rest = {ps[i] : i \in J}
  BY <1>1 DEF ToSet
<1>5. \A i \in J : ps[i].loc = L /\ PythonName(ps[i].name) = ps[i].name
  <2> SUFFICES ASSUME NEW i \in J PROVE ps[i].loc = L /\ PythonName(ps[i].name) = ps[i].name
    OBVIOUS
  <2>1. ps[i] \in ToSet(ps) /\ ~IsPathParam(ps[i].name, r.path)
    BY <1>2 DEF ToSet
  <2> QED
    BY <1>3, <2>1
<1>6. N = {ps[i].name : i \in J}
  BY DEF RestNames
<1>7. ASSUME NEW n \in N PROVE PythonName(n) = n /\ Dashed(n) # <<"body">>
  <2>1. PythonName(n) = n
    BY <1>5, <1>6
  <2>2. n \notin Reserved /\ Snake(n) = n
    BY <2>1, PythonNameFacts
  <2>3. Snake(Dashed(n)) = n
    BY <2>2, SnakeStays
  <2>4. ASSUME Dashed(n) = <<"body">> PROVE FALSE
    <3> DEFINE b == "body"
               v == <<b>>
    <3>1. Token(b) = b
      BY Zenon DEF Token
    <3>2. v \in Reserved
      BY Zenon DEF Reserved
    <3>3. Dashed(n) = v
      BY <2>4
    <3>4. Snake(v) = v
      <4> HIDE DEF b
      <4>1. Snake(v) = [i \in DOMAIN v |-> Token(v[i])]
        BY SnakeTokens, Zenon
      <4>2. DOMAIN v = 1..1 /\ v[1] = b /\ v = [i \in 1..1 |-> v[i]]
        OBVIOUS
      <4> HIDE DEF v
      <4> QED
        BY <3>1, <4>1, <4>2
    <3> HIDE DEF v
    <3> QED
      BY <2>2, <2>3, <3>2, <3>3, <3>4
  <2> QED
    BY <2>1, <2>4
<1>8. {<<PythonName(p.name), p.name>> : p \in ToSet(RestOf(r))} = Twins(N)
  <2> DEFINE g == Given(r)
  <2>1. /\ IsSeq(g) /\ DOMAIN g = DOMAIN ps /\ \A i \in DOMAIN ps : g[i].name = ps[i].name
    BY GivenFacts
  <2> HIDE DEF g
  <2>2. ToSet(RestOf(r)) = {g[i] : i \in J}
    <3>1. J \in SUBSET DOMAIN g
      BY <2>1
    <3> QED
      BY <2>1, <3>1, PickedIsSeq DEF RestOf, g
  <2> HIDE DEF J
  <2>3. \A i \in J : g[i].name = ps[i].name
    BY <2>1 DEF J
  <2>4. \A p : p \in ToSet(RestOf(r)) <=> \E i \in J : p = g[i]
    BY <2>2
  <2>5. \A n : n \in N <=> \E i \in J : n = ps[i].name
    BY <1>6
  <2> HIDE DEF N, ps
  <2>6. \A p \in ToSet(RestOf(r)) : p.name \in N /\ PythonName(p.name) = p.name
    BY <2>3, <2>4, <2>5, <1>7
  <2>7. \A n \in N : \E p \in ToSet(RestOf(r)) : p.name = n
    BY <2>3, <2>4, <2>5
  <2> QED
    BY <2>6, <2>7 DEF Twins
<1> DEFINE at(loc) == {<<p.name, p.name>> : p \in {q \in rest : q.loc = loc}}
<1>9. Wanted(r).query = at("query") /\ Wanted(r).body = at("body")
  BY DEF Wanted
<1> HIDE DEF rest, L
<1>10. {q \in rest : q.loc = L} = rest
  BY <1>4, <1>5
<1>11. \A loc : loc # L => {q \in rest : q.loc = loc} = {}
  BY <1>4, <1>5
<1>12. {<<p.name, p.name>> : p \in rest} = Twins(N)
  BY <1>4, <1>6 DEF Twins
<1>13. at(L) = Twins(N)
  BY <1>10, <1>12
<1>14. \A loc : loc # L => at(loc) = {}
  BY <1>11
<1> HIDE DEF at, N
<1>15. CASE HasBody(r.method)
  <2>1. L = "body" /\ "query" # L
    BY <1>15 DEF L
  <2>2. Wanted(r).query = {} /\ Wanted(r).body = Twins(N)
    BY <1>9, <1>13, <1>14, <2>1
  <2> QED
    BY <1>7, <1>8, <1>15, <2>2 DEF N
<1>16. CASE ~HasBody(r.method)
  <2>1. L = "query" /\ "body" # L
    BY <1>16 DEF L
  <2>2. Wanted(r).query = Twins(N) /\ Wanted(r).body = {}
    BY <1>9, <1>13, <1>14, <2>1
  <2> QED
    BY <1>7, <1>8, <1>16, <2>2 DEF N
<1> QED
  BY <1>15, <1>16

\* A command that a client can express sends the request its route asks for, and
\* hides nothing it needs for that.
LEMMA SentIsWanted ==
  ASSUME NEW r, IsSeq(r.params), Distinct(r), Expressible(r)
  PROVE  Sent(CommandOf(Subcommand(r))) = Wanted(r) /\ ~Hides(CommandOf(Subcommand(r)))
<1> DEFINE c == CommandOf(Subcommand(r))
           rest == RestOf(r)
           N == RestNames(r)
           flags == {rest[i].flag : i \in DOMAIN rest}
           pairs(s) == {<<PythonName(p.name), p.name>> : p \in ToSet(s)}
<1>1. /\ c.method = r.method
      /\ c.query = IF HasBody(r.method) THEN <<>> ELSE rest
      /\ c.body = IF HasBody(r.method) THEN rest ELSE <<>>
  <2> HIDE DEF rest
  <2> QED
    BY CommandValue DEF rest
<1>2. /\ \A n \in N : PythonName(n) = n /\ Dashed(n) # <<"body">>
      /\ pairs(rest) = Twins(N)
      /\ Wanted(r).query = IF HasBody(r.method) THEN {} ELSE Twins(N)
      /\ Wanted(r).body = IF HasBody(r.method) THEN Twins(N) ELSE {}
  BY RestFacts
<1>3. Sent(c).path = Wanted(r).path
  BY SentPath
<1>4. <<"body">> \notin flags
  <2> DEFINE J == DOMAIN r.params \ InPath(r)
  <2>1. /\ IsSeq(Given(r)) /\ DOMAIN Given(r) = DOMAIN r.params
        /\ \A i \in DOMAIN r.params : Given(r)[i].flag = Dashed(r.params[i].name)
    BY GivenFacts
  <2>2. J \in SUBSET DOMAIN Given(r)
    BY <2>1
  <2>3. ToSet(rest) = {Given(r)[i] : i \in J}
    BY <2>1, <2>2, PickedIsSeq DEF RestOf
  <2> HIDE DEF rest
  <2>4. ASSUME NEW a \in DOMAIN rest PROVE rest[a].flag # <<"body">>
    <3>1. rest[a] \in ToSet(rest)
      BY DEF ToSet
    <3>2. PICK i \in J : rest[a] = Given(r)[i]
      BY <2>3, <3>1
    <3>3. r.params[i].name \in N
      BY DEF RestNames
    <3>4. rest[a].flag = Dashed(r.params[i].name)
      BY <2>1, <3>2
    <3> QED
      BY <1>2, <3>3, <3>4
  <2> QED
    BY <2>4
<1>5. ~c.rawBody
  <2> DEFINE raw == HasBody(r.method) /\ <<"body">> \in flags
             name == CommandName(r)
             template == Template(r.path, PathOf(r))
             path == PathOf(r)
             query == IF HasBody(r.method) THEN <<>> ELSE RestOf(r)
             body == IF HasBody(r.method) THEN RestOf(r) ELSE <<>>
             v == [name |-> name, method |-> r.method, template |-> template, path |-> path,
                   query |-> query, body |-> body, rawBody |-> raw]
  <2>1. c = v
    BY CommandValue, Zenon
  <2>2. ~raw
    BY <1>4
  <2> HIDE DEF c, raw, name, template, path, query, body
  <2>3. v.rawBody = raw
    OBVIOUS
  <2> HIDE DEF v
  <2> QED
    BY <2>1, <2>2, <2>3
<1>6. ~Hides(c)
  <2> DEFINE ps == Parameters(c)
  <2>1. \A a \in DOMAIN ps : \E i \in DOMAIN r.params : ps[a].name = r.params[i].name
    BY ParametersFacts
  <2> HIDE DEF c
  <2>2. ASSUME NEW p \in ToSet(ps) PROVE PythonName(p.name) # ApiCall
    <3>1. PICK a \in DOMAIN ps : p = ps[a]
      BY DEF ToSet
    <3>2. PICK i \in DOMAIN r.params : ps[a].name = r.params[i].name
      BY <2>1
    <3>3. r.params[i] \in ToSet(r.params)
      BY DEF ToSet
    <3>4. PythonName(r.params[i].name) # ApiCall
      BY <3>3 DEF Expressible
    <3> QED
      BY <3>1, <3>2, <3>4
  <2> QED
    BY <1>5, <2>2 DEF Hides
<1>7. pairs(<<>>) = {}
  BY EmptyIsSeq
<1>8. Sent(c) = [method |-> c.method, path |-> Sent(c).path, query |-> pairs(c.query), body |-> pairs(c.body)]
  <2> HIDE DEF c
  <2> QED
    BY <1>5 DEF Sent
<1>9. Wanted(r) = [method |-> r.method, path |-> Wanted(r).path, query |-> Wanted(r).query,
                   body |-> Wanted(r).body]
  BY DEF Wanted
<1> HIDE DEF c, pairs, rest, N
<1>10. pairs(c.query) = Wanted(r).query /\ pairs(c.body) = Wanted(r).body
  BY <1>1, <1>2, <1>7
<1>11. Sent(c) = Wanted(r)
  BY <1>1, <1>3, <1>8, <1>9, <1>10
<1> QED
  BY <1>6, <1>11 DEF c

-----------------------------------------------------------------------------
(* The client of a list of routes.                                         *)

\* The client that build_command_graph and generate make of routes.
ClientOf(routes, lifecycle) == GeneratedClient(CommandGraph(routes), lifecycle)

\* A generated client has a command for every route, in order, and then at most
\* those of the lifecycle.
LEMMA ClientFacts ==
  ASSUME NEW routes, IsSeq(routes), NEW lifecycle \in BOOLEAN
  PROVE  LET c == ClientOf(routes, lifecycle)
         IN  /\ IsSeq(c) /\ Len(routes) \in Nat /\ DOMAIN routes = 1..Len(routes)
             /\ DOMAIN routes \subseteq DOMAIN c
             /\ \A i \in DOMAIN routes : c[i] = CommandOf(Subcommand(routes[i]))
             /\ \A i \in DOMAIN c : i \notin DOMAIN routes =>
                  lifecycle /\ c[i] \in {[name |-> <<"login">>], [name |-> <<"logout">>]}
<1> DEFINE g == CommandGraph(routes)
           u == [i \in DOMAIN g |-> CommandOf(g[i])]
           two == <<[name |-> <<"login">>], [name |-> <<"logout">>]>>
           t == IF lifecycle THEN two ELSE <<>>
           c == ClientOf(routes, lifecycle)
<1>1. c = u \o t
  BY DEF ClientOf, GeneratedClient
<1>2. DOMAIN u = DOMAIN routes /\ u = [i \in DOMAIN routes |-> u[i]]
      /\ \A i \in DOMAIN routes : u[i] = CommandOf(Subcommand(routes[i]))
  BY DEF CommandGraph
<1>3. IsSeq(t) /\ \A i \in DOMAIN t : lifecycle /\ t[i] \in {[name |-> <<"login">>], [name |-> <<"logout">>]}
  <2> DEFINE l == [name |-> <<"login">>]
             o == [name |-> <<"logout">>]
  <2>1. IsSeq(two) /\ ToSet(two) = {l, o}
    <3> HIDE DEF l, o
    <3> QED
      BY PairIsSeq DEF l, o
  <2>2. \A i \in DOMAIN two : two[i] \in {l, o}
    BY <2>1, SeqFacts
  <2>3. IsSeq(<<>>) /\ DOMAIN <<>> = {}
    BY EmptyIsSeq
  <2> HIDE DEF two, l, o
  <2>4. IsSeq(t) /\ \A i \in DOMAIN t : lifecycle /\ t[i] \in {l, o}
    BY <2>1, <2>2, <2>3
  <2> QED
    BY <2>4 DEF l, o
<1> HIDE DEF u, t, c
<1>4. IsSeq(u) /\ Len(u) = Len(routes)
  BY <1>2, EachIsSeq
<1>5. Len(routes) \in Nat /\ DOMAIN routes = 1..Len(routes)
  BY SeqFacts
<1>6. /\ DOMAIN c = 1..(Len(u) + Len(t)) /\ Len(t) \in Nat /\ DOMAIN t = 1..Len(t)
      /\ \A i \in 1..Len(u) : c[i] = u[i]
      /\ \A i \in 1..Len(t) : c[Len(u) + i] = t[i]
  <2> DEFINE ut == u \o t
  <2>1. IsSeq(t) /\ IsSeq(u)
    BY <1>3, <1>4
  <2>2. /\ DOMAIN ut = 1..(Len(u) + Len(t)) /\ Len(t) \in Nat /\ DOMAIN t = 1..Len(t)
        /\ \A i \in 1..Len(u) : ut[i] = u[i]
        /\ \A i \in 1..Len(t) : ut[Len(u) + i] = t[i]
    BY <2>1, ConcatPlaces
  <2> QED
    BY <1>1, <2>2
<1>7. IsSeq(c)
  BY <1>1, <1>3, <1>4, ConcatIsSeq
<1>8. DOMAIN routes \subseteq DOMAIN c /\ \A i \in DOMAIN routes : c[i] = u[i]
  BY <1>4, <1>5, <1>6
<1>9. ASSUME NEW i \in DOMAIN c, i \notin DOMAIN routes PROVE \E j \in DOMAIN t : c[i] = t[j]
  <2>1. i - Len(u) \in 1..Len(t) /\ i = Len(u) + (i - Len(u))
    BY <1>4, <1>5, <1>6, <1>9
  <2> QED
    BY <1>6, <2>1
<1>10. \A i \in DOMAIN c : i \notin DOMAIN routes =>
         lifecycle /\ c[i] \in {[name |-> <<"login">>], [name |-> <<"logout">>]}
  <2> SUFFICES ASSUME NEW i \in DOMAIN c, i \notin DOMAIN routes
               PROVE  lifecycle /\ c[i] \in {[name |-> <<"login">>], [name |-> <<"logout">>]}
    OBVIOUS
  <2>1. PICK j \in DOMAIN t : c[i] = t[j]
    BY <1>9
  <2> QED
    BY <1>3, <2>1
<1> QED
  BY <1>2, <1>5, <1>7, <1>8, <1>10 DEF c

\* It loads if no route has two parameters of one name,
LEMMA ClientLoads ==
  ASSUME NEW routes, IsSeq(routes), NEW lifecycle \in BOOLEAN,
         \A i \in DOMAIN routes : IsSeq(routes[i].params) /\ Distinct(routes[i])
  PROVE  Loads(ClientOf(routes, lifecycle))
<1> DEFINE cl == ClientOf(routes, lifecycle)
<1>1. /\ \A i \in DOMAIN routes : cl[i] = CommandOf(Subcommand(routes[i]))
      /\ \A i \in DOMAIN cl : i \notin DOMAIN routes =>
           cl[i] \in {[name |-> <<"login">>], [name |-> <<"logout">>]}
  BY ClientFacts
<1>2. ASSUME NEW c \in ToSet(cl), "template" \in DOMAIN c PROVE IsInjective(Arguments(c))
  <2>1. PICK i \in DOMAIN cl : c = cl[i]
    BY DEF ToSet
  <2>2. i \in DOMAIN routes
    <3>1. DOMAIN [name |-> <<"login">>] = {"name"} /\ DOMAIN [name |-> <<"logout">>] = {"name"}
      OBVIOUS
    <3>2. "template" \notin {"name"}
      OBVIOUS
    <3> HIDE DEF cl
    <3> QED
      BY <1>1, <1>2, <2>1, <3>1, <3>2
  <2>3. c = CommandOf(Subcommand(routes[i]))
    BY <1>1, <2>1, <2>2
  <2> QED
    BY <2>2, <2>3, ArgumentsDiffer
<1> HIDE DEF cl
<1>3. Loads(cl)
  BY <1>2, Zenon DEF Loads
<1> QED
  BY <1>3 DEF cl

\* its functions leave the template its names if those of the routes do,
LEMMA ClientApart ==
  ASSUME NEW routes, IsSeq(routes), NEW lifecycle \in BOOLEAN,
         \A i \in DOMAIN routes : IsSeq(routes[i].params) /\ Apart(routes[i])
  PROVE  ~Shadowed(ClientOf(routes, lifecycle))
<1> DEFINE cl == ClientOf(routes, lifecycle)
<1>1. /\ \A i \in DOMAIN routes : cl[i] = CommandOf(Subcommand(routes[i]))
      /\ \A i \in DOMAIN cl : i \notin DOMAIN routes =>
           cl[i] \in {[name |-> <<"login">>], [name |-> <<"logout">>]}
  BY ClientFacts
<1>2. \A i \in DOMAIN routes : CommandOf(Subcommand(routes[i])).name = CommandName(routes[i])
  BY CommandValue
<1>3. ASSUME NEW w \in {"login", "logout"} PROVE FuncName(<<w>>) \notin TemplateNames
  <2> DEFINE n == <<w>>
  <2>1. DOMAIN n = {1} /\ n[1] = w
    OBVIOUS
  <2>2. w \notin {"Id", "Name", "-", ":", "$", "app", "typer", "json"}
    OBVIOUS
  <2> HIDE DEF n
  <2>3. FuncName(n)[1] = w
    BY <2>1, <2>2, Zenon DEF FuncName
  <2>4. DOMAIN FuncName(n) = {1}
    BY <2>1 DEF FuncName
  <2>5. <<"app">>[1] = "app" /\ <<"typer">>[1] = "typer" /\ <<"json">>[1] = "json"
    OBVIOUS
  <2>6. DOMAIN ApiCall = {1, 2, 3}
    BY DEF ApiCall
  <2>7. FuncName(n) # ApiCall
    BY <2>4, <2>6
  <2> QED
    <3>1. FuncName(n) # <<"app">> /\ FuncName(n) # <<"typer">> /\ FuncName(n) # <<"json">>
      BY <2>2, <2>3, <2>5, Zenon
    <3> QED
      BY <2>7, <3>1, Zenon DEF TemplateNames, n
<1>4. ASSUME NEW c \in ToSet(cl) PROVE FuncName(c.name) \notin TemplateNames
  <2>1. PICK i \in DOMAIN cl : c = cl[i]
    BY DEF ToSet
  <2> HIDE DEF cl
  <2>2. CASE i \in DOMAIN routes
    BY <1>1, <1>2, <2>1, <2>2, Zenon DEF Apart
  <2>3. CASE i \notin DOMAIN routes
    <3>1. c.name = <<"login">> \/ c.name = <<"logout">>
      BY <1>1, <2>1, <2>3
    <3> QED
      BY <1>3, <3>1
  <2> QED
    BY <2>2, <2>3
<1> HIDE DEF cl
<1>5. ~Shadowed(cl)
  BY <1>4, Zenon DEF Shadowed
<1> QED
  BY <1>5 DEF cl

\* and a name no later command takes invokes the route's command.
LEMMA InvokedFacts ==
  ASSUME NEW routes, IsSeq(routes), NEW lifecycle \in BOOLEAN,
         \A i \in DOMAIN routes : IsSeq(routes[i].params),
         NEW i \in DOMAIN routes,
         \A j \in DOMAIN routes : j > i => CommandName(routes[j]) # CommandName(routes[i]),
         lifecycle => CommandName(routes[i]) \notin {<<"login">>, <<"logout">>}
  PROVE  Invoked(ClientOf(routes, lifecycle), CommandName(routes[i])) = CommandOf(Subcommand(routes[i]))
<1> DEFINE cl == ClientOf(routes, lifecycle)
           n == CommandName(routes[i])
           I == {j \in 1..Len(cl) : cl[j].name = n}
           k == SelectLastInSeq(cl, LAMBDA c : c.name = n)
<1>1. /\ IsSeq(cl) /\ Len(routes) \in Nat /\ DOMAIN routes = 1..Len(routes)
      /\ DOMAIN routes \subseteq DOMAIN cl
      /\ \A j \in DOMAIN routes : cl[j] = CommandOf(Subcommand(routes[j]))
      /\ \A j \in DOMAIN cl : j \notin DOMAIN routes =>
           lifecycle /\ cl[j] \in {[name |-> <<"login">>], [name |-> <<"logout">>]}
  BY ClientFacts
<1>2. k = IF I # {} THEN Max(I) ELSE 0
  BY DEF SelectLastInSeq
<1>3. Invoked(cl, n) = cl[k]
  BY DEF Invoked
<1>4. \A j \in DOMAIN routes : CommandOf(Subcommand(routes[j])).name = CommandName(routes[j])
  BY CommandValue
<1> HIDE DEF cl, k
<1>5. DOMAIN cl = 1..Len(cl) /\ Len(cl) \in Nat
  BY <1>1, SeqFacts
<1>6. \A j \in DOMAIN routes : cl[j].name = CommandName(routes[j])
  BY <1>1, <1>4
<1>7. ASSUME NEW j \in DOMAIN cl, j > i PROVE cl[j].name # n
  <2>1. CASE j \in DOMAIN routes
    BY <1>6, <1>7, <2>1
  <2>2. CASE j \notin DOMAIN routes
    <3>1. lifecycle /\ cl[j] \in {[name |-> <<"login">>], [name |-> <<"logout">>]}
      BY <1>1, <2>2
    <3>2. cl[j].name \in {<<"login">>, <<"logout">>}
      BY <3>1
    <3> QED
      BY <3>1, <3>2
  <2> QED
    BY <2>1, <2>2
<1>8. i \in I /\ I \in SUBSET (1..Len(cl))
  BY <1>1, <1>5, <1>6
<1>9. Max(I) \in I /\ i <= Max(I)
  BY <1>5, <1>8, MinMax
<1>10. Max(I) = i
  <2> DEFINE m == Max(I)
  <2>1. m \in DOMAIN cl /\ cl[m].name = n /\ i <= m /\ m \in Nat /\ i \in Nat
    BY <1>1, <1>5, <1>9
  <2> HIDE DEF m, n
  <2> QED
    BY <1>7, <2>1 DEF m
<1>11. Invoked(cl, n) = cl[i]
  BY <1>2, <1>3, <1>8, <1>10
<1> QED
  BY <1>1, <1>11 DEF cl

\* So the name sends the request the route asks for.
LEMMA RequestedIsWanted ==
  ASSUME NEW routes, IsSeq(routes), NEW lifecycle \in BOOLEAN,
         \A i \in DOMAIN routes : IsSeq(routes[i].params) /\ Distinct(routes[i]) /\ Apart(routes[i]),
         NEW i \in DOMAIN routes, Expressible(routes[i]),
         \A j \in DOMAIN routes : j > i => CommandName(routes[j]) # CommandName(routes[i]),
         lifecycle => CommandName(routes[i]) \notin {<<"login">>, <<"logout">>}
  PROVE  Requested(ClientOf(routes, lifecycle), CommandName(routes[i])) = Wanted(routes[i])
<1>1. Loads(ClientOf(routes, lifecycle)) /\ ~Shadowed(ClientOf(routes, lifecycle))
  BY ClientLoads, ClientApart
<1>2. Invoked(ClientOf(routes, lifecycle), CommandName(routes[i])) = CommandOf(Subcommand(routes[i]))
  BY InvokedFacts
<1>3. Sent(CommandOf(Subcommand(routes[i]))) = Wanted(routes[i]) /\ ~Hides(CommandOf(Subcommand(routes[i])))
  BY SentIsWanted
<1> QED
  BY <1>1, <1>2, <1>3 DEF Requested

\* What was generated is made of what was merged.
MadeOfMerged ==
    /\ stage = "generate" => graph = CommandGraph(merged)
    /\ stage = "done" => client = ClientOf(merged, repo.lifecycle)

\* Every step keeps that,
LEMMA MadeOfMergedKept ==
  ASSUME MadeOfMerged, [Next]_vars
  PROVE  MadeOfMerged'
<1>1. CASE \/ ReadDocument \/ StartFastApi \/ RunFastApi \/ StartDjango \/ RunDjango
           \/ StartMerge \/ MergeRoute \/ DetectConfig
  <2>1. stage' \in {"openapi", "fastapi", "django", "merge", "graph"}
    BY <1>1 DEF ReadDocument, StartFastApi, RunFastApi, StartDjango, RunDjango, StartMerge,
         MergeRoute, DetectConfig
  <2> QED
    BY <2>1 DEF MadeOfMerged
<1>2. CASE BuildGraph
  <2>1. stage' = "generate" /\ graph' = CommandGraph(merged) /\ merged' = merged
    BY <1>2 DEF BuildGraph
  <2>2. CommandGraph(merged)' = CommandGraph(merged)
    BY <2>1 DEF CommandGraph
  <2> QED
    BY <2>1, <2>2 DEF MadeOfMerged
<1>3. CASE Generate
  <2>1. /\ stage = "generate" /\ stage' \in {"done", "refused"} /\ repo' = repo /\ merged' = merged
        /\ client' = GeneratedClient(graph, repo.lifecycle)
    BY <1>3 DEF Generate
  <2>2. client' = ClientOf(merged, repo.lifecycle)
    BY <2>1 DEF MadeOfMerged, ClientOf
  <2>3. ClientOf(merged, repo.lifecycle)' = ClientOf(merged, repo.lifecycle)
    BY <2>1 DEF ClientOf, GeneratedClient, CommandGraph
  <2> QED
    BY <2>1, <2>2, <2>3 DEF MadeOfMerged
<1>4. CASE UNCHANGED vars
  <2>1. UNCHANGED <<stage, graph, merged, client, repo>>
    BY <1>4 DEF vars, coreVars
  <2> QED
    BY <2>1 DEF MadeOfMerged, ClientOf, GeneratedClient, CommandGraph
<1> QED
  BY <1>1, <1>2, <1>3, <1>4 DEF Next, Finished

\* so it always holds.
LEMMA MadeOfMergedAlways == Spec => []MadeOfMerged
<1>1. Init => MadeOfMerged
  <2>1. Init => stage = "openapi"
    BY Zenon DEF Init
  <2> QED
    BY <2>1 DEF MadeOfMerged
<1> QED
  BY <1>1, MadeOfMergedKept, PTL DEF Spec

\* Each merged route is one that was offered, with its parameters.
LEMMA MergedAreRoutes ==
  ASSUME PipeInv, NEW i \in DOMAIN merged
  PROVE  IsSeq(merged) /\ IsSeq(merged[i].params)
<1>1. IsSeq(merged)
  BY DEF PipeInv, Merging
<1>2. stage \notin Before
  <2>1. ASSUME stage \in Before PROVE DOMAIN merged = {}
    <3>1. merged = <<>>
      BY <2>1 DEF PipeInv, Merging
    <3> QED
      BY <3>1
  <2> QED
    BY <2>1
<1>3. /\ Len(pending) <= Len(Offered) /\ IsSeq(pending)
      /\ Merges(merged, Offered, Len(Offered) - Len(pending))
  BY <1>2 DEF PipeInv, Merging
<1>4. IsRoutes(Offered) /\ Len(Offered) \in Nat /\ DOMAIN Offered = 1..Len(Offered)
  <2>1. IsRoutes(openapi) /\ IsRoutes(fastapi) /\ IsRoutes(django)
    BY DEF PipeInv, Findings
  <2>2. IsRoutes(AstRoutes)
    BY <2>1 DEF AstRoutes
  <2>3. IsRoutes(Offered)
    BY <2>1, <2>2, ConcatRoutes DEF Offered
  <2> QED
    BY <2>3, SeqFacts DEF IsRoutes
<1>5. PICK j \in 1..(Len(Offered) - Len(pending)) : merged[i] = Offered[j]
  BY <1>3 DEF Merges
<1>6. Len(pending) \in Nat
  BY <1>3, SeqFacts
<1>7. j \in DOMAIN Offered
  BY <1>4, <1>5, <1>6
<1>8. IsRoute(Offered[j])
  BY <1>4, <1>7, SeqFacts DEF IsRoutes
<1> QED
  BY <1>1, <1>5, <1>8 DEF IsRoute

\* The invariants of the pipeline have the clients that are made reach their routes.
LEMMA ClientSuffices == PipeInv /\ MadeOfMerged => ClientReaches
<1> SUFFICES ASSUME PipeInv, MadeOfMerged, stage = "done",
                    \A j \in DOMAIN merged : Distinct(merged[j]) /\ Apart(merged[j]),
                    NEW i \in DOMAIN merged, Expressible(merged[i]), NotHidden(i)
             PROVE  Requested(client, CommandName(merged[i])) = Wanted(merged[i])
  BY DEF ClientReaches
<1>1. client = ClientOf(merged, repo.lifecycle)
  BY DEF MadeOfMerged
<1>2. IsSeq(merged) /\ \A j \in DOMAIN merged : IsSeq(merged[j].params) /\ Distinct(merged[j]) /\ Apart(merged[j])
  BY MergedAreRoutes
<1>3. repo.lifecycle \in BOOLEAN
  BY ReposAssumption DEF PipeInv, WalkInv
<1>4. /\ \A j \in DOMAIN merged : j > i => CommandName(merged[j]) # CommandName(merged[i])
      /\ repo.lifecycle => CommandName(merged[i]) \notin {<<"login">>, <<"logout">>}
  BY DEF NotHidden
<1> QED
  BY <1>1, <1>2, <1>3, <1>4, RequestedIsWanted

\* A client's commands, invoked by their names, send the requests the merged routes
\* ask for: every command that can express its route and is not hidden by a later
\* namesake, if no route has two parameters of one name and no command's function a
\* name the template calls (_build_command_context, cli.py.j2).
THEOREM ClientReachesAlways == Spec => []ClientReaches
BY PipeAlways, MadeOfMergedAlways, ClientSuffices, PTL

=============================================================================
