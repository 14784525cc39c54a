-------------------------- MODULE PublicationProofs --------------------------
(***************************************************************************)
(* Theorems of Publication, for any number of runs, names and output       *)
(* types: what is shown as published is there and is the right package,    *)
(* and what a publication fails for.                                       *)
(***************************************************************************)
EXTENDS Publication, FiniteSetTheorems, TLAPS

\* The attempts that were not started yet: their threads are idle.
Late(j) == \/ phase[j[1]] = "generate"
           \/ j[2] > next[j[1]]
           \/ j[2] = next[j[1]] /\ j[3] > try[j[1]]
LateIsIdle == \A j \in Jobs : Late(j) => job[j].pc = "idle"

\* An idle thread has nothing to upload.
IdleIsEmpty == \A j \in Jobs : job[j].pc = "idle" => job[j].left = {}

\* A thread works on a directory it may pick, and what it has done is on PyPI.
UploadsAreThere ==
    \A j \in Jobs : job[j].pc \in {"upload", "ok"} =>
        /\ job[j].dir \in RightDirs(j)
        /\ \A f \in Files : job[j].pc = "ok" \/ f \notin job[j].left =>
             pypi[Slot(j, f)] # Nothing

\* Every file on PyPI came from a run that has a project of that name.
Owned ==
    \A p \in Packages, f \in Files : pypi[<<p, f>>] # Nothing =>
        \E q \in Runs, d \in Types :
            d \in Dirs(q) /\ p = PackageAt(q, d) /\ pypi[<<p, f>>] = <<q, d>>

\* Where a run is: one package listed for every type that is done.
Progress ==
    \A r \in Runs :
        /\ next[r] <= Len(Wanted(r))
        /\ Len(published[r]) <= Len(Wanted(r))
        /\ phase[r] = "generate" => next[r] = 1
        /\ phase[r] \in {"generate", "publish"} => Len(published[r]) = next[r] - 1

\* The attempts of the current activity that are over.
Used(r) == IF phase[r] = "failed" THEN 2
           ELSE IF phase[r] = "publish" /\ job[Current(r)].pc = "error" THEN try[r]
           ELSE try[r] - 1
FaultCount ==
    \A r \in Runs : /\ faults[r] <= Used(r)
                    /\ Unpickable(r) \/ Taken(r) \/ faults[r] = Used(r)

Listed ==
    \A r \in Runs : ~Unpickable(r) => \A i \in DOMAIN published[r] :
        published[r][i] = <<Wanted(r)[i], PackageAt(r, Wanted(r)[i])>>

PInv == /\ TypeOK /\ LateIsIdle /\ IdleIsEmpty /\ UploadsAreThere /\ Owned /\ Progress
        /\ FaultCount /\ Listed /\ PublishedIsThere

-----------------------------------------------------------------------------
(* Packages and the directories they are picked from.                      *)

LEMMA Requests ==
    ASSUME TypeOK, NEW r \in Runs
    PROVE  /\ request[r].name \in Names
           /\ Wanted(r) \in Seq(Types)
           /\ Len(Wanted(r)) \in 1..MaxTypes
           /\ \A i \in 1..Len(Wanted(r)) : Wanted(r)[i] \in Dirs(r)
           /\ Dirs(r) \subseteq Types
  <1>1. request \in [Runs -> [name : Names, types : Seq(Types)]]
    BY RequestsAssumption DEF TypeOK
  <1>2. Len(Wanted(r)) \in 1..MaxTypes
    BY RequestsAssumption DEF TypeOK, Wanted
  <1>3. request[r].name \in Names /\ Wanted(r) \in Seq(Types)
    BY <1>1 DEF Wanted
  <1>4. DOMAIN Wanted(r) = 1..Len(Wanted(r))
    BY <1>3
  <1>5. \A i \in 1..Len(Wanted(r)) : Wanted(r)[i] \in Types
    BY <1>3
  <1> QED
    BY <1>2, <1>3, <1>4, <1>5 DEF Dirs

LEMMA PackageType ==
    ASSUME TypeOK, NEW r \in Runs, NEW d \in Types
    PROVE  PackageAt(r, d) \in Packages
  <1>1. request[r].name \in Stems \X Suffixes
    BY Requests DEF Names
  <1> QED
    BY <1>1, RequestsAssumption DEF PackageAt, PackageOf, Packages

\* Two types make two packages.
LEMMA PackagesDiffer ==
    ASSUME TypeOK, NEW r \in Runs, NEW c \in Types, NEW d \in Types,
           PackageAt(r, c) = PackageAt(r, d)
    PROVE  c = d
  <1>1. request[r].name \in Stems \X Suffixes
    BY Requests DEF Names
  <1>2. PICK s \in Stems, n \in Suffixes : request[r].name = <<s, n>>
    BY <1>1
  <1>3. n \in Nat
    BY RequestsAssumption
  <1>4. PackageAt(r, "cli")[2] = n /\ PackageAt(r, "mcp")[2] = n + 1
    BY <1>2 DEF PackageAt, PackageOf
  <1>5. PackageAt(r, "cli") # PackageAt(r, "mcp")
    BY <1>3, <1>4
  <1> QED
    BY <1>5 DEF Types

\* One directory or both.
LEMMA SetsOfTypes ==
    ASSUME NEW S \in SUBSET Types
    PROVE  /\ Cardinality(S) > 1 => S = Types /\ Cardinality(S) = 2
           /\ ~(Cardinality(S) > 1) => \A a, b \in S : a = b
  <1>1. CASE S = {}
    BY <1>1, FS_EmptySet
  <1>2. CASE \E a \in Types : S = {a}
    <2>1. PICK a \in Types : S = {a}
      BY <1>2
    <2>2. Cardinality({a}) = 1
      BY FS_Singleton
    <2> QED
      BY <2>1, <2>2
  <1>3. CASE S = {"cli", "mcp"}
    <2>1. IsFiniteSet({"cli"}) /\ Cardinality({"cli"}) = 1
      BY FS_Singleton
    <2>2. Cardinality({"cli"} \cup {"mcp"}) = 2
      BY <2>1, FS_AddElement
    <2>3. {"cli"} \cup {"mcp"} = {"cli", "mcp"}
      OBVIOUS
    <2> QED
      BY <1>3, <2>2, <2>3 DEF Types
  <1> QED
    BY <1>1, <1>2, <1>3 DEF Types

\* A name that can be picked leads to the directory of the type, and to no other.
LEMMA RightDir ==
    ASSUME TypeOK, NEW j \in Jobs, j[2] <= Len(Wanted(j[1])), ~Unpickable(j[1])
    PROVE  RightDirs(j) = {TypeOf(j)}
  <1> DEFINE r == j[1]
  <1>1. r \in Runs /\ j[2] \in 1..Len(Wanted(r))
    BY Requests DEF Jobs
  <1>2. TypeOf(j) \in Dirs(r) /\ Dirs(r) \subseteq Types
    BY <1>1, Requests DEF TypeOf
  <1>3. CASE ~(Cardinality(Dirs(r)) > 1)
    BY <1>2, <1>3, SetsOfTypes DEF RightDirs
  <1>4. CASE Cardinality(Dirs(r)) > 1
    <2>1. Dirs(r) = Types /\ Cardinality(Dirs(r)) = 2
      BY <1>2, <1>4, SetsOfTypes
    <2>2. ~EndsInMcp(PackageAt(r, "cli"))
      BY <2>1 DEF Unpickable, PackageAt, PackageOf
    <2>3. EndsInMcp(PackageAt(r, "mcp"))
      <3>1. request[r].name \in Stems \X Suffixes
        BY <1>1, Requests DEF Names
      <3>2. request[r].name[2] \in Nat
        BY <3>1, RequestsAssumption
      <3> QED
        BY <3>2 DEF PackageAt, PackageOf, EndsInMcp
    <2>4. RightDirs(j) = {d \in Types : EndsInMcp(PackageAt(r, d)) <=> TypeOf(j) = "mcp"}
      BY <1>4, <2>1 DEF RightDirs
    <2> QED
      BY <1>2, <2>2, <2>3, <2>4 DEF Types
  <1> QED
    BY <1>3, <1>4

LEMMA RightDirsAreDirs ==
    ASSUME NEW j \in Jobs
    PROVE  RightDirs(j) \subseteq Dirs(j[1])
  BY DEF RightDirs

\* The requests never change, nor what is computed from them.
LEMMA SameRequest ==
    ASSUME request' = request
    PROVE  /\ \A r : Wanted(r)' = Wanted(r) /\ Dirs(r)' = Dirs(r)
                     /\ (Unpickable(r)' <=> Unpickable(r))
           /\ \A r, d : PackageAt(r, d)' = PackageAt(r, d)
           /\ \A j : RightDirs(j)' = RightDirs(j)
  BY DEF Wanted, Dirs, Unpickable, PackageAt, RightDirs, TypeOf
-----------------------------------------------------------------------------
(* The invariant at the start.                                             *)

LEMMA InitPInv == Init => PInv
  <1> SUFFICES ASSUME Init PROVE PInv
    OBVIOUS
  <1>1. \A r \in Runs : Len(request[r].types) \in 1..MaxTypes
    BY RequestsAssumption DEF Init
  <1>2. 1 \in 1..MaxTypes \/ Runs = {}
    BY <1>1, RequestsAssumption
  <1>3. TypeOK
    BY <1>2, RequestsAssumption DEF Init, TypeOK, IdleJob, JobState, Types, Files, Tries, Jobs
  <1>4. /\ LateIsIdle /\ IdleIsEmpty /\ UploadsAreThere /\ Owned /\ Listed
        /\ PublishedIsThere
    BY DEF Init, LateIsIdle, IdleIsEmpty, UploadsAreThere, Owned, Listed, PublishedIsThere, IdleJob
  <1>5. Progress
    BY <1>1, RequestsAssumption DEF Init, Progress, Wanted
  <1>6. FaultCount
    BY DEF Init, FaultCount, Used
  <1> QED
    BY <1>3, <1>4, <1>5, <1>6 DEF PInv

-----------------------------------------------------------------------------
(* Types.                                                                  *)

LEMMA CurrentJob ==
    ASSUME TypeOK, NEW r \in Runs
    PROVE  Current(r) \in Jobs /\ job[Current(r)] \in JobState
  BY DEF TypeOK, Current, Jobs

LEMMA IdleType == IdleJob \in JobState
  BY DEF IdleJob, JobState, Types

LEMMA RetryTypes ==
    ASSUME TypeOK, NEW r \in Runs, Retry(r)
    PROVE  /\ phase' \in [Runs -> {"generate", "publish", "complete", "failed"}]
           /\ try' \in [Runs -> Tries]
  <1>1. CASE try[r] = 1
    <2>1. try' = [try EXCEPT ![r] = 2] /\ phase' = phase
      BY <1>1 DEF Retry
    <2> QED
      BY <2>1 DEF TypeOK, Tries
  <1>2. CASE try[r] # 1
    <2>1. phase' = [phase EXCEPT ![r] = "failed"] /\ try' = try
      BY <1>2 DEF Retry
    <2> QED
      BY <2>1 DEF TypeOK
  <1> QED
    BY <1>1, <1>2

LEMMA RunTypes ==
    ASSUME PInv, NEW r \in Runs, RunStep(r)
    PROVE  TypeOK'
  <1> USE DEF PInv
  <1>1. Current(r) \in Jobs /\ job[Current(r)] \in JobState
    BY CurrentJob
  <1>2. next[r] \in 1..MaxTypes /\ try[r] \in {1, 2} /\ faults[r] \in 0..2
    BY DEF TypeOK, Tries
  <1>3. ASSUME Retry(r) PROVE phase' \in [Runs -> {"generate", "publish", "complete", "failed"}]
                              /\ try' \in [Runs -> Tries]
    BY <1>3, RetryTypes
  <1>4. ASSUME Faulted(r), Used(r) < 2 PROVE faults' \in [Runs -> 0..2]
    <2>1. faults[r] < 2
      BY <1>2, <1>4 DEF FaultCount, Used
    <2> QED
      BY <1>2, <1>4, <2>1 DEF Faulted, TypeOK
  <1>5. ASSUME Fresh(r) PROVE try' \in [Runs -> Tries] /\ faults' \in [Runs -> 0..2]
    BY <1>5 DEF Fresh, TypeOK, Tries
  <1>6. CASE GenerateFails(r)
    <2>1. Used(r) < 2
      BY <1>2, <1>6 DEF GenerateFails, Used
    <2> QED
      BY <1>3, <1>4, <1>6, <2>1 DEF GenerateFails, TypeOK
  <1>7. CASE GenerateReturns(r)
    BY <1>5, <1>7 DEF GenerateReturns, TypeOK
  <1>8. CASE PublishReturns(r)
    <2>1. job' \in [Jobs -> JobState]
      BY <1>8, IdleType DEF PublishReturns, TypeOK
    <2>2. PackageAt(r, job[Current(r)].dir) \in Packages
      BY <1>1, PackageType DEF JobState
    <2>3. Wanted(r)[next[r]] \in Types
      BY <1>2, Requests DEF Progress
    <2>4. published' \in [Runs -> Seq(Types \X Packages)]
      <3>1. published[r] \in Seq(Types \X Packages)
        BY DEF TypeOK
      <3>2. <<Wanted(r)[next[r]], PackageAt(r, job[Current(r)].dir)>> \in Types \X Packages
        BY <2>2, <2>3
      <3> HIDE DEF PInv
      <3>3. Append(published[r], <<Wanted(r)[next[r]], PackageAt(r, job[Current(r)].dir)>>)
              \in Seq(Types \X Packages)
        BY <3>1, <3>2
      <3> QED
        BY <1>8, <3>3 DEF PublishReturns, TypeOK, PInv
    <2>5. next' \in [Runs -> 1..MaxTypes]
      <3>1. next[r] < Len(Wanted(r)) => next[r] + 1 \in 1..MaxTypes
        BY <1>2, Requests, RequestsAssumption
      <3> QED
        BY <1>8, <3>1 DEF PublishReturns, TypeOK
    <2>6. phase' \in [Runs -> {"generate", "publish", "complete", "failed"}]
      BY <1>8 DEF PublishReturns, TypeOK
    <2> QED
      BY <1>5, <1>8, <2>1, <2>4, <2>5, <2>6 DEF PublishReturns, TypeOK
  <1>9. CASE PublishRaises(r)
    <2>1. job' \in [Jobs -> JobState]
      BY <1>9, IdleType DEF PublishRaises, TypeOK
    <2> QED
      BY <1>3, <1>9, <2>1 DEF PublishRaises, TypeOK
  <1>10. CASE TimesOut(r)
    <2>1. Used(r) < 2
      BY <1>2, <1>10 DEF TimesOut, Used
    <2> QED
      BY <1>3, <1>4, <1>10, <2>1 DEF TimesOut, TypeOK
  <1> QED
    BY <1>6, <1>7, <1>8, <1>9, <1>10 DEF RunStep

LEMMA EndsType ==
    ASSUME TypeOK, NEW j \in Jobs, NEW pc \in {"ok", "error"}, Ends(j, pc)
    PROVE  job' \in [Jobs -> JobState]
  <1>1. [job[j] EXCEPT !.pc = pc] \in JobState
    BY DEF TypeOK, JobState
  <1> QED
    BY <1>1, IdleType DEF Ends, TypeOK

LEMMA SlotType ==
    ASSUME TypeOK, NEW j \in Jobs, NEW f \in Files
    PROVE  Slot(j, f) \in Packages \X Files /\ <<j[1], job[j].dir>> \in Content
  <1>1. j[1] \in Runs /\ job[j].dir \in Types
    BY DEF TypeOK, Jobs, JobState
  <1> QED
    BY <1>1, PackageType DEF Slot, Content

LEMMA JobTypes ==
    ASSUME PInv, NEW j \in Jobs, JobStep(j)
    PROVE  TypeOK'
  <1> USE DEF PInv
  <1>1. job[j] \in JobState /\ j[1] \in Runs
    BY DEF TypeOK, Jobs
  <1>2. ASSUME NEW f \in Files, Store(j, f)
        PROVE pypi' \in [Packages \X Files -> Content \cup {Nothing}]
    BY <1>2, SlotType DEF Store, TypeOK
  <1>3. ASSUME NEW f \in Files, Uploaded(j, f) PROVE job' \in [Jobs -> JobState]
    <2>1. CASE job[j].left = {f}
      BY <1>3, <2>1, EndsType DEF Uploaded
    <2>2. CASE job[j].left # {f}
      <3>1. [job[j] EXCEPT !.left = @ \ {f}] \in JobState
        BY <1>1 DEF JobState
      <3> QED
        BY <1>3, <2>2, <3>1 DEF Uploaded, TypeOK
    <2> QED
      BY <2>1, <2>2
  <1>4. CASE Build(j)
    <2>1. \A d \in RightDirs(j) : [pc |-> "upload", dir |-> d, left |-> Files] \in JobState
      BY <1>1, RightDirsAreDirs, Requests DEF JobState
    <2>2. [job[j] EXCEPT !.pc = "error"] \in JobState
      BY <1>1 DEF JobState
    <2>3. job' \in [Jobs -> JobState]
      BY <1>4, <2>1, <2>2 DEF Build, TypeOK
    <2> QED
      BY <1>4, <2>3 DEF Build, TypeOK
  <1>5. CASE \E f \in Files : Upload(j, f)
    BY <1>2, <1>3, <1>5 DEF Upload, TypeOK
  <1>6. CASE \E f \in Files : Skip(j, f)
    BY <1>3, <1>6 DEF Skip, TypeOK
  <1>8. CASE \E f \in Files : Refuse(j, f)
    BY <1>8, EndsType DEF Refuse, TypeOK
  <1>7. CASE Break(j)
    <2>1. job' \in [Jobs -> JobState]
      BY <1>7, EndsType DEF Break
    <2>2. pypi' \in [Packages \X Files -> Content \cup {Nothing}]
      <3>1. job[j].left \subseteq Files
        BY <1>1 DEF JobState
      <3> QED
        BY <1>2, <1>7, <3>1 DEF Break, TypeOK
    <2>3. faults' \in [Runs -> 0..2]
      <3>1. CASE Awaited(j)
        <4>1. try[j[1]] \in {1, 2} /\ faults[j[1]] \in 0..2
          BY <1>1 DEF TypeOK, Tries
        <4>2. Used(j[1]) = try[j[1]] - 1
          BY <1>7, <3>1 DEF Break, Used, Awaited
        <4>3. faults[j[1]] <= Used(j[1])
          BY <1>1 DEF FaultCount
        <4>4. faults[j[1]] + 1 \in 0..2
          BY <4>1, <4>2, <4>3
        <4> QED
          BY <1>1, <1>7, <3>1, <4>4 DEF Break, Faulted, TypeOK
      <3>2. CASE ~Awaited(j)
        BY <1>7, <3>2 DEF Break, TypeOK
      <3> QED
        BY <3>1, <3>2
    <2> QED
      BY <1>7, <2>1, <2>2, <2>3 DEF Break, TypeOK
  <1> QED
    BY <1>4, <1>5, <1>6, <1>7, <1>8 DEF JobStep

-----------------------------------------------------------------------------
(* Steps of the workflow.                                                  *)

LEMMA JobTuple ==
    ASSUME NEW j \in Jobs
    PROVE  /\ j[1] \in Runs /\ j[2] \in 1..MaxTypes /\ j[3] \in {1, 2}
           /\ j = <<j[1], j[2], j[3]>>
  BY DEF Jobs, Tries

\* A workflow step touches its own run, and of the threads only the current one.
LEMMA RunFrame ==
    ASSUME TypeOK, NEW r \in Runs, RunStep(r)
    PROVE  /\ request' = request /\ pypi' = pypi
           /\ \A q \in Runs \ {r} :
                /\ phase'[q] = phase[q] /\ next'[q] = next[q] /\ try'[q] = try[q]
                /\ published'[q] = published[q] /\ faults'[q] = faults[q]
           /\ \A k \in Jobs : job'[k] = job[k] \/ (k = Current(r) /\ job'[k] = IdleJob)
  <1>1. CASE GenerateFails(r)
    BY <1>1 DEF GenerateFails, Retry, Faulted, TypeOK
  <1>2. CASE GenerateReturns(r)
    BY <1>2 DEF GenerateReturns, Fresh, TypeOK
  <1>3. CASE PublishReturns(r)
    BY <1>3 DEF PublishReturns, Fresh, TypeOK
  <1>4. CASE PublishRaises(r)
    BY <1>4 DEF PublishRaises, Retry, TypeOK
  <1>5. CASE TimesOut(r)
    BY <1>5 DEF TimesOut, Retry, Faulted, TypeOK
  <1> QED
    BY <1>1, <1>2, <1>3, <1>4, <1>5 DEF RunStep

\* The next attempt, or the failure of the run.
LEMMA Retried ==
    ASSUME TypeOK, NEW r \in Runs, Retry(r)
    PROVE  \/ try[r] = 1 /\ try'[r] = 2 /\ phase'[r] = phase[r]
           \/ try[r] = 2 /\ try'[r] = 2 /\ phase'[r] = "failed"
  <1>1. try[r] \in {1, 2}
    BY DEF TypeOK, Tries
  <1>2. CASE try[r] = 1
    BY <1>2 DEF Retry, TypeOK
  <1>3. CASE try[r] # 1
    BY <1>1, <1>3 DEF Retry, TypeOK
  <1> QED
    BY <1>2, <1>3

\* No step makes an attempt late again, but the one that takes its result.
LEMMA RunLate ==
    ASSUME PInv, NEW r \in Runs, RunStep(r), NEW k \in Jobs, Late(k)'
    PROVE  Late(k) \/ (k = Current(r) /\ job'[k] = IdleJob)
  <1>0. TypeOK /\ Progress
    BY DEF PInv
  <1>1. CASE k[1] # r
    BY <1>0, <1>1, JobTuple, RunFrame DEF Late
  <1>2. CASE k[1] = r
    <2>1. k[2] \in Nat /\ k[3] \in {1, 2} /\ k = <<r, k[2], k[3]>>
      BY <1>2, JobTuple
    <2>2. next[r] \in Nat /\ try[r] \in {1, 2}
      BY <1>0 DEF TypeOK, Tries
    <2>3. CASE GenerateFails(r)
      BY <1>2, <2>3 DEF GenerateFails, Late
    <2>4. CASE GenerateReturns(r)
      BY <1>2, <2>4 DEF GenerateReturns, Late
    <2>5. CASE PublishReturns(r)
      <3>1. try'[r] = 1 /\ job'[Current(r)] = IdleJob /\ phase'[r] # "generate"
        BY <1>0, <2>5, CurrentJob DEF PublishReturns, Fresh, TypeOK
      <3>2. next'[r] \in {next[r], next[r] + 1}
        BY <1>0, <2>5 DEF PublishReturns, TypeOK
      <3>3. CASE k[2] > next[r]
        BY <1>2, <3>3 DEF Late
      <3>4. CASE ~(k[2] > next[r])
        <4>1. k[2] = next[r] /\ k[3] = 2
          BY <1>2, <2>1, <2>2, <3>1, <3>2, <3>4 DEF Late
        <4>2. CASE try[r] = 1
          BY <1>2, <4>1, <4>2 DEF Late
        <4>3. CASE try[r] = 2
          BY <2>1, <3>1, <4>1, <4>3 DEF Current
        <4> QED
          BY <2>2, <4>2, <4>3
      <3> QED
        BY <3>3, <3>4
    <2>6. CASE PublishRaises(r)
      <3>1. Retry(r) /\ next' = next /\ phase[r] = "publish"
        BY <2>6 DEF PublishRaises
      <3> QED
        BY <1>0, <1>2, <2>1, <2>2, <3>1, Retried DEF Late
    <2>7. CASE TimesOut(r)
      <3>1. Retry(r) /\ next' = next /\ phase[r] = "publish"
        BY <2>7 DEF TimesOut
      <3> QED
        BY <1>0, <1>2, <2>1, <2>2, <3>1, Retried DEF Late
    <2> QED
      BY <2>3, <2>4, <2>5, <2>6, <2>7 DEF RunStep
  <1> QED
    BY <1>1, <1>2

LEMMA RunKeepsJobs ==
    ASSUME PInv, NEW r \in Runs, RunStep(r)
    PROVE  LateIsIdle' /\ IdleIsEmpty' /\ UploadsAreThere' /\ Owned'
  <1>0. TypeOK /\ LateIsIdle /\ IdleIsEmpty /\ UploadsAreThere /\ Owned
    BY DEF PInv
  <1>1. /\ request' = request /\ pypi' = pypi
        /\ \A k \in Jobs : job'[k] = job[k] \/ job'[k] = IdleJob
    BY <1>0, RunFrame
  <1>2. LateIsIdle'
    <2> SUFFICES ASSUME NEW k \in Jobs, Late(k)' PROVE job'[k].pc = "idle"
      BY DEF LateIsIdle
    <2> QED
      BY <1>0, <1>1, RunLate DEF LateIsIdle, IdleJob
  <1>3. UploadsAreThere'
    <2> SUFFICES ASSUME NEW k \in Jobs, job'[k].pc \in {"upload", "ok"}
                 PROVE  /\ job'[k].dir \in RightDirs(k)'
                        /\ \A f \in Files : job'[k].pc = "ok" \/ f \notin job'[k].left =>
                             pypi'[Slot(k, f)'] # Nothing
      BY DEF UploadsAreThere
    <2>1. job'[k] = job[k]
      BY <1>1 DEF IdleJob
    <2>2. RightDirs(k)' = RightDirs(k)
      BY <1>1, SameRequest
    <2>3. \A f \in Files : Slot(k, f)' = Slot(k, f)
      BY <1>1, <2>1, SameRequest DEF Slot
    <2> QED
      BY <1>0, <1>1, <2>1, <2>2, <2>3 DEF UploadsAreThere
  <1>4. Owned'
    BY <1>0, <1>1, SameRequest DEF Owned
  <1>5. IdleIsEmpty'
    BY <1>0, <1>1 DEF IdleIsEmpty, IdleJob
  <1> QED
    BY <1>2, <1>3, <1>4, <1>5

LEMMA RunProgresses ==
    ASSUME PInv, NEW r \in Runs, RunStep(r)
    PROVE  Progress'
  <1>0. TypeOK /\ Progress
    BY DEF PInv
  <1> SUFFICES ASSUME NEW q \in Runs
               PROVE  /\ next'[q] <= Len(Wanted(q))
                      /\ Len(published'[q]) <= Len(Wanted(q))
                      /\ phase'[q] = "generate" => next'[q] = 1
                      /\ phase'[q] \in {"generate", "publish"} =>
                           Len(published'[q]) = next'[q] - 1
    <2>1. \A q : Wanted(q)' = Wanted(q)
      BY <1>0, RunFrame, SameRequest
    <2> QED
      BY <2>1 DEF Progress
  <1>1. CASE q # r
    BY <1>0, <1>1, RunFrame DEF Progress
  <1>2. CASE q = r
    <2>1. next[r] \in Nat /\ Len(published[r]) \in Nat /\ Len(Wanted(r)) \in Nat
      BY <1>0, Requests DEF TypeOK
    <2>2. CASE GenerateFails(r)
      BY <1>0, <1>2, <2>2, Retried DEF GenerateFails, Progress
    <2>3. CASE GenerateReturns(r)
      BY <1>0, <1>2, <2>3 DEF GenerateReturns, Progress, TypeOK
    <2>4. CASE PublishReturns(r)
      <3>1. Len(published'[r]) = Len(published[r]) + 1
        BY <1>0, <2>4 DEF PublishReturns, TypeOK
      <3>2. Len(published[r]) = next[r] - 1 /\ next[r] <= Len(Wanted(r))
        BY <1>0, <2>4 DEF PublishReturns, Progress
      <3>3. CASE next[r] < Len(Wanted(r))
        <4>1. next'[r] = next[r] + 1 /\ phase'[r] = "publish"
          BY <1>0, <2>4, <3>3 DEF PublishReturns, TypeOK
        <4> QED
          BY <1>2, <2>1, <3>1, <3>2, <3>3, <4>1
      <3>4. CASE ~(next[r] < Len(Wanted(r)))
        <4>1. next'[r] = next[r] /\ phase'[r] = "complete"
          BY <1>0, <2>4, <3>4 DEF PublishReturns, TypeOK
        <4> QED
          BY <1>2, <2>1, <3>1, <3>2, <3>4, <4>1
      <3> QED
        BY <3>3, <3>4
    <2>5. CASE PublishRaises(r)
      BY <1>0, <1>2, <2>5, Retried DEF PublishRaises, Progress
    <2>6. CASE TimesOut(r)
      BY <1>0, <1>2, <2>6, Retried DEF TimesOut, Progress
    <2> QED
      BY <2>2, <2>3, <2>4, <2>5, <2>6 DEF RunStep
  <1> QED
    BY <1>1, <1>2

\* The second attempt of an activity finds an idle thread.
LEMMA SecondTry ==
    ASSUME PInv, NEW r \in Runs, phase[r] = "publish", try[r] = 1
    PROVE  job[<<r, next[r], 2>>].pc = "idle"
  <1>1. <<r, next[r], 2>> \in Jobs
    BY DEF PInv, TypeOK, Jobs, Tries
  <1>2. Late(<<r, next[r], 2>>)
    BY DEF Late
  <1> QED
    BY <1>1, <1>2 DEF PInv, LateIsIdle

LEMMA RunCountsFaults ==
    ASSUME PInv, NEW r \in Runs, RunStep(r)
    PROVE  FaultCount'
  <1>0. TypeOK /\ Progress /\ LateIsIdle /\ FaultCount
    BY DEF PInv
  <1>1. \A q \in Runs : Unpickable(q)' <=> Unpickable(q)
    BY <1>0, RunFrame, SameRequest
  <1> SUFFICES ASSUME NEW q \in Runs
               PROVE  /\ faults'[q] <= Used(q)'
                      /\ Unpickable(q) \/ Taken(q)' \/ faults'[q] = Used(q)'
    BY <1>1 DEF FaultCount
  <1>2. /\ faults[q] <= Used(q)
        /\ Unpickable(q) \/ Taken(q) \/ faults[q] = Used(q)
    BY <1>0 DEF FaultCount
  <1>5. ASSUME next'[q] = next[q], Taken(q) PROVE Taken(q)'
    <2>1. request' = request /\ pypi' = pypi
      BY <1>0, RunFrame
    <2> QED
      BY <1>5, <2>1 DEF Taken, PackageAt, Wanted
  <1>3. CASE q # r
    <2>1. Current(q)' = Current(q) /\ Current(q) \in Jobs /\ Current(q) # Current(r)
      BY <1>0, <1>3, CurrentJob, RunFrame DEF Current
    <2>2. job'[Current(q)] = job[Current(q)]
      BY <1>0, <2>1, RunFrame
    <2>3. Used(q)' = Used(q) /\ faults'[q] = faults[q] /\ next'[q] = next[q]
      BY <1>0, <1>3, <2>1, <2>2, RunFrame DEF Used
    <2> QED
      BY <1>2, <1>5, <2>3
  <1>4. CASE q = r
    <2>1. /\ next[r] \in 1..MaxTypes /\ next[r] \in Nat
          /\ try[r] \in {1, 2} /\ faults[r] \in Nat
          /\ Current(r) \in Jobs
      <3>1. /\ next[r] \in 1..MaxTypes /\ faults[r] \in 0..2
            /\ try[r] \in {1, 2}
        BY <1>0 DEF TypeOK, Tries
      <3> QED
        BY <1>0, <3>1, CurrentJob
    <2>2. CASE GenerateFails(r)
      <3>1. /\ faults'[r] = faults[r] + 1 /\ Retry(r) /\ phase[r] = "generate"
            /\ next' = next
        BY <1>0, <2>2 DEF GenerateFails, Faulted, TypeOK
      <3>2. Used(r) = try[r] - 1
        BY <3>1 DEF Used
      <3>3. Used(r)' = try[r]
        BY <1>0, <3>1, Retried DEF Used
      <3> QED
        BY <1>2, <1>4, <1>5, <2>1, <3>1, <3>2, <3>3
    <2>3. CASE GenerateReturns(r)
      <3>1. /\ faults'[r] = 0 /\ try'[r] = 1 /\ next'[r] = next[r]
            /\ job' = job /\ phase[r] = "generate" /\ phase'[r] = "publish"
        BY <1>0, <2>3 DEF GenerateReturns, Fresh, TypeOK
      <3>2. <<r, next[r], 1>> \in Jobs /\ Late(<<r, next[r], 1>>)
        BY <2>1, <3>1 DEF Jobs, Tries, Late
      <3>3. Current(r)' = <<r, next[r], 1>> /\ job[<<r, next[r], 1>>].pc = "idle"
        BY <1>0, <3>1, <3>2 DEF Current, LateIsIdle
      <3>4. Used(r)' = 0
        BY <3>1, <3>3 DEF Used
      <3> QED
        BY <1>4, <3>1, <3>4
    <2>4. CASE PublishReturns(r)
      <3>1. faults'[r] = 0 /\ try'[r] = 1
        BY <1>0, <2>4 DEF PublishReturns, Fresh, TypeOK
      <3>2. CASE next[r] < Len(Wanted(r))
        <4>1. /\ phase'[r] = "publish" /\ next'[r] = next[r] + 1
          BY <1>0, <2>4, <3>2 DEF PublishReturns, TypeOK
        <4>2. next[r] + 1 \in 1..MaxTypes
          BY <1>0, <2>1, <3>2, Requests, RequestsAssumption
        <4>3. <<r, next[r] + 1, 1>> \in Jobs /\ Late(<<r, next[r] + 1, 1>>)
          BY <2>1, <4>2 DEF Jobs, Tries, Late
        <4>4. job'[<<r, next[r] + 1, 1>>].pc = "idle"
          BY <1>0, <4>3, RunFrame DEF LateIsIdle, IdleJob
        <4>5. Current(r)' = <<r, next[r] + 1, 1>>
          BY <3>1, <4>1 DEF Current
        <4>6. Used(r)' = 0
          BY <3>1, <4>1, <4>4, <4>5 DEF Used
        <4> QED
          BY <1>4, <3>1, <4>6
      <3>3. CASE ~(next[r] < Len(Wanted(r)))
        <4>1. phase'[r] = "complete"
          BY <1>0, <2>4, <3>3 DEF PublishReturns, TypeOK
        <4>2. Used(r)' = 0
          BY <3>1, <4>1 DEF Used
        <4> QED
          BY <1>4, <3>1, <4>2
      <3> QED
        BY <3>2, <3>3
    <2>5. CASE PublishRaises(r) \/ TimesOut(r)
      <3>1. /\ Retry(r) /\ phase[r] = "publish" /\ next'[r] = next[r]
            /\ try[r] = 1 => job'[<<r, next[r], 2>>].pc = "idle"
        <4>1. Retry(r) /\ phase[r] = "publish" /\ next'[r] = next[r]
          BY <2>5 DEF PublishRaises, TimesOut
        <4>2. <<r, next[r], 2>> \in Jobs
          BY <2>1 DEF Jobs, Tries
        <4> QED
          BY <1>0, <4>1, <4>2, RunFrame, SecondTry DEF IdleJob
      <3>2. try[r] = 1 => Current(r)' = <<r, next[r], 2>>
        BY <1>0, <2>1, <3>1, Retried DEF Current
      <3>3. Used(r)' = try[r]
        <4>1. CASE try[r] = 1
          <5>1. try'[r] = 2 /\ phase'[r] = "publish"
            BY <1>0, <3>1, <4>1, Retried
          <5> QED
            BY <3>1, <3>2, <4>1, <5>1 DEF Used
        <4>2. CASE try[r] = 2
          <5>1. phase'[r] = "failed"
            BY <1>0, <3>1, <4>2, Retried
          <5> QED
            BY <4>2, <5>1 DEF Used
        <4> QED
          BY <2>1, <4>1, <4>2
      <3>4. CASE PublishRaises(r)
        <4>1. Used(r) = try[r] /\ faults'[r] = faults[r]
          BY <3>1, <3>4 DEF PublishRaises, Used
        <4> QED
          BY <1>2, <1>4, <1>5, <3>1, <3>3, <4>1
      <3>5. CASE TimesOut(r)
        <4>1. Used(r) = try[r] - 1 /\ faults'[r] = faults[r] + 1
          BY <1>0, <3>1, <3>5 DEF TimesOut, Faulted, Used, TypeOK
        <4> QED
          BY <1>2, <1>4, <1>5, <2>1, <3>1, <3>3, <4>1
      <3> QED
        BY <2>5, <3>4, <3>5
    <2> QED
      BY <2>2, <2>3, <2>4, <2>5 DEF RunStep
  <1> QED
    BY <1>3, <1>4

\* What a result adds to the list: a package that is on PyPI, and the right one.
LEMMA Result ==
    ASSUME PInv, NEW r \in Runs, phase[r] = "publish", job[Current(r)].pc = "ok"
    PROVE  /\ PackageAt(r, job[Current(r)].dir) \in Packages
           /\ \A f \in Files : pypi[<<PackageAt(r, job[Current(r)].dir), f>>] # Nothing
           /\ ~Unpickable(r) => job[Current(r)].dir = Wanted(r)[next[r]]
  <1> DEFINE j == Current(r)
  <1>1. j \in Jobs /\ j[1] = r /\ j[2] = next[r] /\ job[j].dir \in Types
    BY CurrentJob DEF PInv, Current, JobState
  <1>2. PackageAt(r, job[j].dir) \in Packages
    BY <1>1, PackageType DEF PInv
  <1>3. job[j].dir \in RightDirs(j) /\ \A f \in Files : pypi[Slot(j, f)] # Nothing
    BY <1>1 DEF PInv, UploadsAreThere
  <1>4. \A f \in Files : Slot(j, f) = <<PackageAt(r, job[j].dir), f>>
    BY <1>1 DEF Slot
  <1>5. j[2] <= Len(Wanted(j[1]))
    BY <1>1 DEF PInv, Progress
  <1>6. ~Unpickable(r) => RightDirs(j) = {TypeOf(j)}
    BY <1>1, <1>5, RightDir DEF PInv
  <1>7. TypeOf(j) = Wanted(r)[next[r]]
    BY <1>1 DEF TypeOf
  <1> QED
    BY <1>2, <1>3, <1>4, <1>6, <1>7

LEMMA RunLists ==
    ASSUME PInv, NEW r \in Runs, RunStep(r)
    PROVE  Listed' /\ PublishedIsThere'
  <1>0. TypeOK /\ Progress /\ Listed /\ PublishedIsThere
    BY DEF PInv
  <1>1. /\ request' = request /\ pypi' = pypi
        /\ \A q \in Runs \ {r} : published'[q] = published[q]
    BY <1>0, RunFrame
  <1>2. CASE PublishReturns(r)
    <2> DEFINE p == PackageAt(r, job[Current(r)].dir)
    <2>1. /\ phase[r] = "publish" /\ job[Current(r)].pc = "ok"
          /\ published'[r] = Append(published[r], <<Wanted(r)[next[r]], p>>)
      BY <1>0, <1>2 DEF PublishReturns, TypeOK
    <2>2. published[r] \in Seq(Types \X Packages) /\ Len(published[r]) = next[r] - 1
          /\ next[r] \in Nat
      BY <1>0, <2>1 DEF TypeOK, Progress
    <2> HIDE DEF p
    <2>3. /\ DOMAIN published'[r] = 1..next[r]
          /\ DOMAIN published[r] = 1..(next[r] - 1)
          /\ published'[r][next[r]] = <<Wanted(r)[next[r]], p>>
          /\ \A i \in 1..(next[r] - 1) : published'[r][i] = published[r][i]
      BY <2>1, <2>2
    <2>4. /\ \A f \in Files : pypi[<<p, f>>] # Nothing
          /\ ~Unpickable(r) => p = PackageAt(r, Wanted(r)[next[r]])
      BY <2>1, Result DEF p
    <2>5. Listed'
      <3> SUFFICES ASSUME NEW q \in Runs, ~Unpickable(q), NEW i \in DOMAIN published'[q]
                   PROVE  published'[q][i] = <<Wanted(q)[i], PackageAt(q, Wanted(q)[i])>>
        BY <1>1, SameRequest DEF Listed
      <3>1. CASE q # r
        BY <1>0, <1>1, <3>1 DEF Listed
      <3>2. CASE q = r /\ i = next[r]
        BY <2>3, <2>4, <3>2
      <3>3. CASE q = r /\ i # next[r]
        <4>1. i \in 1..(next[r] - 1)
          BY <2>2, <2>3, <3>3
        <4>2. i \in DOMAIN published[r] /\ published'[r][i] = published[r][i]
          BY <2>3, <4>1
        <4> QED
          BY <1>0, <3>3, <4>2 DEF Listed
      <3> QED
        BY <3>1, <3>2, <3>3
    <2>6. PublishedIsThere'
      <3> SUFFICES ASSUME NEW q \in Runs, NEW i \in DOMAIN published'[q], NEW f \in Files
                   PROVE  pypi[<<published'[q][i][2], f>>] # Nothing
        BY <1>1 DEF PublishedIsThere
      <3>1. CASE q # r
        BY <1>0, <1>1, <3>1 DEF PublishedIsThere
      <3>2. CASE q = r /\ i = next[r]
        BY <2>3, <2>4, <3>2
      <3>3. CASE q = r /\ i # next[r]
        <4>1. i \in 1..(next[r] - 1)
          BY <2>2, <2>3, <3>3
        <4>2. i \in DOMAIN published[r] /\ published'[r][i] = published[r][i]
          BY <2>3, <4>1
        <4> QED
          BY <1>0, <3>3, <4>2 DEF PublishedIsThere
      <3> QED
        BY <3>1, <3>2, <3>3
    <2> QED
      BY <2>5, <2>6
  <1>3. CASE ~PublishReturns(r)
    <2>1. published' = published
      BY <1>3 DEF RunStep, GenerateFails, GenerateReturns, PublishRaises, TimesOut
    <2> QED
      BY <1>0, <1>1, <2>1, SameRequest DEF Listed, PublishedIsThere
  <1> QED
    BY <1>2, <1>3

-----------------------------------------------------------------------------
(* Steps of the threads.                                                   *)

\* What a thread may store: a file of the package it works on, in a free place.
Stores(j) ==
    \/ pypi' = pypi
    \/ \E f \in job[j].left : f \in Files /\ pypi[Slot(j, f)] = Nothing /\ Store(j, f)

\* A thread's step changes that thread, and adds to PyPI.
LEMMA JobFrame ==
    ASSUME TypeOK, NEW j \in Jobs, JobStep(j)
    PROVE  /\ request' = request /\ phase' = phase /\ next' = next /\ try' = try
           /\ published' = published
           /\ \A k \in Jobs \ {j} : job'[k] = job[k]
           /\ job[j].pc = "upload" \/ (job[j].pc = "idle" /\ Awaited(j))
           /\ Stores(j)
  <1>1. job[j] \in JobState
    BY DEF TypeOK
  <1>2. CASE Build(j)
    BY <1>2 DEF Build, TypeOK, Stores
  <1>3. CASE \E f \in Files : Upload(j, f)
    BY <1>3 DEF Upload, Uploaded, Ends, TypeOK, Stores
  <1>4. CASE \E f \in Files : Skip(j, f)
    BY <1>4 DEF Skip, Uploaded, Ends, TypeOK, Stores
  <1>5. CASE Break(j)
    BY <1>1, <1>5 DEF Break, Ends, TypeOK, JobState, Stores
  <1>6. CASE \E f \in Files : Refuse(j, f)
    BY <1>6 DEF Refuse, Ends, TypeOK, Stores
  <1> QED
    BY <1>2, <1>3, <1>4, <1>5, <1>6 DEF JobStep

LEMMA PypiGrows ==
    ASSUME TypeOK, NEW j \in Jobs, Stores(j), NEW s \in Packages \X Files,
           pypi[s] # Nothing
    PROVE  pypi'[s] = pypi[s]
  <1>1. CASE pypi' = pypi
    BY <1>1
  <1>2. CASE \E f \in job[j].left : f \in Files /\ pypi[Slot(j, f)] = Nothing /\ Store(j, f)
    BY <1>2, SlotType DEF Store, TypeOK
  <1> QED
    BY <1>1, <1>2 DEF Stores

LEMMA Something ==
    ASSUME NEW q, NEW d
    PROVE  <<q, d>> # Nothing
  <1>1. Len(<<q, d>>) = 2 /\ Len(<<>>) = 0
    OBVIOUS
  <1> QED
    BY <1>1 DEF Nothing

LEMMA JobIsNotLate ==
    ASSUME PInv, NEW j \in Jobs, JobStep(j)
    PROVE  ~Late(j)
  <1>1. CASE job[j].pc = "upload"
    BY <1>1 DEF PInv, LateIsIdle
  <1>2. CASE Awaited(j)
    <2>1. /\ phase[j[1]] = "publish" /\ j[2] = next[j[1]] /\ j[3] = try[j[1]]
      BY <1>2 DEF Awaited, Current
    <2>2. j[2] \in 1..MaxTypes /\ j[3] \in {1, 2}
      BY JobTuple
    <2> QED
      BY <2>1, <2>2 DEF Late
  <1> QED
    BY <1>1, <1>2, JobFrame DEF PInv

\* How a thread ends: with its result, or unheard.
LEMMA Ended ==
    ASSUME TypeOK, NEW j \in Jobs, NEW pc \in {"ok", "error"}, Ends(j, pc)
    PROVE  /\ Awaited(j) => /\ job'[j].pc = pc /\ job'[j].dir = job[j].dir
                            /\ job'[j].left = job[j].left
           /\ ~Awaited(j) => job'[j] = IdleJob
  <1>1. CASE Awaited(j)
    <2>1. job' = [job EXCEPT ![j] = [@ EXCEPT !.pc = pc]]
      BY <1>1 DEF Ends
    <2>2. job'[j] = [job[j] EXCEPT !.pc = pc]
      BY <2>1 DEF TypeOK
    <2>3. job[j] \in JobState
      BY DEF TypeOK
    <2> QED
      BY <1>1, <2>2, <2>3 DEF JobState
  <1>2. CASE ~Awaited(j)
    <2>1. job' = [job EXCEPT ![j] = IdleJob]
      BY <1>2 DEF Ends
    <2> QED
      BY <1>2, <2>1 DEF TypeOK
  <1> QED
    BY <1>1, <1>2

\* The thread's own record after its step.
LEMMA OwnJob ==
    ASSUME PInv, NEW j \in Jobs, JobStep(j), job'[j].pc \in {"upload", "ok"}
    PROVE  /\ job'[j].dir \in RightDirs(j)
           /\ \A f \in Files : job'[j].pc = "ok" \/ f \notin job'[j].left =>
                pypi'[<<PackageAt(j[1], job'[j].dir), f>>] # Nothing
  <1>0. TypeOK /\ UploadsAreThere /\ job[j] \in JobState
    BY DEF PInv, TypeOK
  <1>1. CASE Build(j)
    <2>1. CASE job' = [job EXCEPT ![j].pc = "error"]
      <3>1. job'[j] = [job[j] EXCEPT !.pc = "error"]
        BY <1>0, <2>1 DEF TypeOK
      <3>2. job'[j].pc = "error"
        BY <1>0, <3>1 DEF JobState
      <3> QED
        BY <3>2
    <2>2. ASSUME NEW d \in RightDirs(j),
                 job' = [job EXCEPT ![j] = [pc |-> "upload", dir |-> d, left |-> Files]]
          PROVE  job'[j].pc = "upload" /\ job'[j].dir = d /\ job'[j].left = Files
      BY <1>0, <2>2 DEF TypeOK
    <2> QED
      BY <1>1, <2>1, <2>2 DEF Build
  <1>2. CASE \E f \in Files : Upload(j, f) \/ Skip(j, f)
    <2>1. PICK g \in Files : Upload(j, g) \/ Skip(j, g)
      BY <1>2
    <2>2. job[j].pc = "upload" /\ g \in job[j].left /\ Uploaded(j, g)
      BY <2>1 DEF Upload, Skip
    <2>3. /\ job[j].dir \in RightDirs(j)
          /\ \A f \in Files : f \notin job[j].left => pypi[Slot(j, f)] # Nothing
      BY <1>0, <2>2 DEF UploadsAreThere
    <2>4. /\ job'[j].dir = job[j].dir
          /\ job'[j].pc = "ok" => job[j].left = {g}
          /\ job'[j].pc = "upload" => job'[j].left = job[j].left \ {g}
      <3>1. CASE job[j].left = {g}
        <4>1. Ends(j, "ok")
          BY <2>2, <3>1 DEF Uploaded
        <4>2. Awaited(j)
          BY <1>0, <4>1, Ended DEF IdleJob
        <4>3. job'[j].pc = "ok" /\ job'[j].dir = job[j].dir
          BY <1>0, <4>1, <4>2, Ended
        <4> QED
          BY <3>1, <4>3
      <3>2. CASE job[j].left # {g}
        <4>1. job'[j] = [job[j] EXCEPT !.left = @ \ {g}]
          BY <1>0, <2>2, <3>2 DEF Uploaded, TypeOK
        <4>2. /\ job'[j].pc = job[j].pc /\ job'[j].dir = job[j].dir
              /\ job'[j].left = job[j].left \ {g}
          BY <1>0, <4>1 DEF JobState
        <4> QED
          BY <2>2, <4>2
      <3> QED
        BY <3>1, <3>2
    <2>5. pypi'[Slot(j, g)] # Nothing
      <3>1. CASE Upload(j, g)
        <4>1. pypi'[Slot(j, g)] = <<j[1], job[j].dir>>
          BY <1>0, <3>1, SlotType DEF Upload, Store, TypeOK
        <4> QED
          BY <4>1, Something
      <3>2. CASE Skip(j, g)
        BY <3>2 DEF Skip
      <3> QED
        BY <2>1, <3>1, <3>2
    <2>6. \A f \in Files : f \notin job[j].left \/ f = g => pypi'[Slot(j, f)] # Nothing
      BY <1>0, <2>3, <2>5, JobFrame, PypiGrows, SlotType
    <2> QED
      BY <2>3, <2>4, <2>6 DEF Slot
  <1>3. CASE Break(j) \/ \E f \in Files : Refuse(j, f)
    <2>1. Ends(j, "error")
      BY <1>3 DEF Break, Refuse
    <2>2. job'[j].pc \in {"error", "idle"}
      BY <1>0, <2>1, Ended DEF IdleJob
    <2> QED
      BY <2>2
  <1> QED
    BY <1>1, <1>2, <1>3 DEF JobStep

LEMMA IdleStaysEmpty ==
    ASSUME PInv, NEW j \in Jobs, JobStep(j), job'[j].pc = "idle"
    PROVE  job'[j].left = {}
  <1>0. TypeOK /\ job[j] \in JobState
    BY DEF PInv, TypeOK
  <1>1. ASSUME NEW pc \in {"ok", "error"}, Ends(j, pc) PROVE job'[j].left = {}
    BY <1>0, <1>1, Ended DEF IdleJob
  <1>2. CASE Build(j)
    <2>1. CASE job' = [job EXCEPT ![j].pc = "error"]
      <3>1. job'[j] = [job[j] EXCEPT !.pc = "error"]
        BY <1>0, <2>1 DEF TypeOK
      <3> QED
        BY <1>0, <3>1 DEF JobState
    <2>2. ASSUME NEW d \in RightDirs(j),
                 job' = [job EXCEPT ![j] = [pc |-> "upload", dir |-> d, left |-> Files]]
          PROVE  job'[j].pc = "upload"
      BY <1>0, <2>2 DEF TypeOK
    <2> QED
      BY <1>2, <2>1, <2>2 DEF Build
  <1>3. ASSUME NEW f \in Files, Upload(j, f) \/ Skip(j, f) PROVE job'[j].left = {}
    <2>1. job[j].pc = "upload" /\ Uploaded(j, f)
      BY <1>3 DEF Upload, Skip
    <2>2. CASE job[j].left = {f}
      BY <1>1, <2>1, <2>2 DEF Uploaded
    <2>3. CASE job[j].left # {f}
      <3>1. job'[j] = [job[j] EXCEPT !.left = @ \ {f}]
        BY <1>0, <2>1, <2>3 DEF Uploaded, TypeOK
      <3> QED
        BY <1>0, <2>1, <3>1 DEF JobState
    <2> QED
      BY <2>2, <2>3
  <1>4. CASE Break(j) \/ \E f \in Files : Refuse(j, f)
    BY <1>1, <1>4 DEF Break, Refuse
  <1> QED
    BY <1>2, <1>3, <1>4 DEF JobStep

LEMMA JobKeepsRest ==
    ASSUME PInv, NEW j \in Jobs, JobStep(j)
    PROVE  /\ LateIsIdle' /\ IdleIsEmpty' /\ UploadsAreThere' /\ Owned'
           /\ Progress' /\ Listed' /\ PublishedIsThere'
  <1>0. /\ TypeOK /\ LateIsIdle /\ UploadsAreThere /\ Owned /\ Progress
        /\ Listed /\ PublishedIsThere /\ IdleIsEmpty
    BY DEF PInv
  <1>1. /\ request' = request /\ phase' = phase /\ next' = next /\ try' = try
        /\ published' = published /\ Stores(j)
        /\ \A k \in Jobs \ {j} : job'[k] = job[k]
    BY <1>0, JobFrame
  <1>2. \A s \in Packages \X Files : pypi[s] # Nothing => pypi'[s] = pypi[s]
    BY <1>0, <1>1, PypiGrows
  <1>3. LateIsIdle'
    <2> SUFFICES ASSUME NEW k \in Jobs, Late(k)' PROVE job'[k].pc = "idle"
      BY DEF LateIsIdle
    <2>1. Late(k)
      BY <1>1 DEF Late
    <2>2. k # j
      BY <2>1, JobIsNotLate
    <2> QED
      BY <1>0, <1>1, <2>1, <2>2 DEF LateIsIdle
  <1>4. UploadsAreThere'
    <2> SUFFICES ASSUME NEW k \in Jobs, job'[k].pc \in {"upload", "ok"}
                 PROVE  /\ job'[k].dir \in RightDirs(k)'
                        /\ \A f \in Files : job'[k].pc = "ok" \/ f \notin job'[k].left =>
                             pypi'[Slot(k, f)'] # Nothing
      BY DEF UploadsAreThere
    <2>1. /\ RightDirs(k)' = RightDirs(k)
          /\ \A f \in Files : Slot(k, f)' = <<PackageAt(k[1], job'[k].dir), f>>
      BY <1>1, SameRequest DEF Slot
    <2>2. CASE k = j
      BY <2>1, <2>2, OwnJob
    <2>3. CASE k # j
      <3>1. job'[k] = job[k]
        BY <1>1, <2>3
      <3>2. \A f \in Files : Slot(k, f)' = Slot(k, f) /\ Slot(k, f) \in Packages \X Files
        BY <1>0, <2>1, <3>1, SlotType DEF Slot
      <3> QED
        BY <1>0, <1>2, <2>1, <3>1, <3>2 DEF UploadsAreThere
    <2> QED
      BY <2>2, <2>3
  <1>5. Owned'
    <2> SUFFICES ASSUME NEW p \in Packages, NEW f \in Files, pypi'[<<p, f>>] # Nothing
                 PROVE  \E q \in Runs, d \in Types :
                          /\ d \in Dirs(q) /\ p = PackageAt(q, d)
                          /\ pypi'[<<p, f>>] = <<q, d>>
      BY <1>1, SameRequest DEF Owned
    <2>1. <<p, f>> \in Packages \X Files
      OBVIOUS
    <2>2. CASE pypi[<<p, f>>] # Nothing
      BY <1>0, <1>2, <2>1, <2>2 DEF Owned
    <2>3. CASE pypi[<<p, f>>] = Nothing
      <3>1. PICK g \in job[j].left : g \in Files /\ Store(j, g)
        BY <1>1, <2>3 DEF Stores
      <3>2. <<p, f>> = Slot(j, g)
        BY <1>0, <2>1, <2>3, <3>1, SlotType DEF Store, TypeOK
      <3>3. p = PackageAt(j[1], job[j].dir) /\ pypi'[<<p, f>>] = <<j[1], job[j].dir>>
        BY <1>0, <2>1, <3>1, <3>2 DEF Store, Slot, TypeOK
      <3>4. j[1] \in Runs /\ job[j].dir \in Types
        BY <1>0 DEF TypeOK, Jobs, JobState
      <3>5. job[j].dir \in Dirs(j[1])
        <4>1. job[j].pc = "upload"
          BY <1>0, <3>1, JobFrame DEF IdleIsEmpty
        <4> QED
          BY <1>0, <4>1, RightDirsAreDirs DEF UploadsAreThere
      <3> QED
        BY <3>3, <3>4, <3>5
    <2> QED
      BY <2>2, <2>3
  <1>6. Progress' /\ Listed'
    BY <1>0, <1>1, SameRequest DEF Progress, Listed
  <1>7. PublishedIsThere'
    <2> SUFFICES ASSUME NEW r \in Runs, NEW i \in DOMAIN published[r], NEW f \in Files
                 PROVE  pypi'[<<published[r][i][2], f>>] # Nothing
      BY <1>1 DEF PublishedIsThere
    <2>1. published[r][i] \in Types \X Packages
      <3>1. published[r] \in Seq(Types \X Packages)
        BY <1>0 DEF TypeOK
      <3> QED
        BY <3>1
    <2>2. <<published[r][i][2], f>> \in Packages \X Files
      BY <2>1
    <2> QED
      BY <1>0, <1>2, <2>2 DEF PublishedIsThere
  <1>8. IdleIsEmpty'
    BY <1>0, <1>1, IdleStaysEmpty DEF IdleIsEmpty
  <1> QED
    BY <1>3, <1>4, <1>5, <1>6, <1>7, <1>8

\* A file on PyPI stays there, so a package that is taken stays taken.
LEMMA TakenStays ==
    ASSUME PInv, NEW j \in Jobs, JobStep(j), NEW q \in Runs, Taken(q)
    PROVE  Taken(q)'
  <1>0. TypeOK /\ Progress
    BY DEF PInv
  <1>1. /\ request' = request /\ next' = next /\ Stores(j)
    BY <1>0, JobFrame
  <1>2. PICK f \in Files : pypi[<<PackageAt(q, Wanted(q)[next[q]]), f>>] # Nothing
    BY DEF Taken
  <1>3. PackageAt(q, Wanted(q)[next[q]]) \in Packages
    <2>1. next[q] \in 1..Len(Wanted(q))
      BY <1>0, Requests DEF Progress, TypeOK
    <2>2. Wanted(q)[next[q]] \in Types
      BY <1>0, <2>1, Requests
    <2> QED
      BY <1>0, <2>2, PackageType
  <1>4. pypi'[<<PackageAt(q, Wanted(q)[next[q]]), f>>] # Nothing
    BY <1>0, <1>1, <1>2, <1>3, PypiGrows
  <1>5. /\ Wanted(q)' = Wanted(q)
        /\ PackageAt(q, Wanted(q)[next[q]])' = PackageAt(q, Wanted(q)[next[q]])
    BY <1>1 DEF Wanted, PackageAt
  <1> QED
    BY <1>4, <1>5 DEF Taken

\* The thread a run waits for works on the package of its current type.
LEMMA RefusedIsTaken ==
    ASSUME PInv, NEW j \in Jobs, Awaited(j), job[j].pc = "upload",
           NEW f \in Files, pypi[Slot(j, f)] # Nothing
    PROVE  Unpickable(j[1]) \/ Taken(j[1])
  <1>1. TypeOK /\ j[1] \in Runs /\ j[2] = next[j[1]]
    BY DEF PInv, Jobs, Awaited, Current
  <1>2. job[j].dir \in RightDirs(j)
    BY DEF PInv, UploadsAreThere
  <1>3. CASE ~Unpickable(j[1])
    <2>1. RightDirs(j) = {TypeOf(j)}
      BY <1>1, <1>3, RightDir DEF PInv, Progress
    <2>2. job[j].dir = Wanted(j[1])[next[j[1]]]
      BY <1>1, <1>2, <2>1 DEF TypeOf
    <2> QED
      BY <2>2 DEF Taken, Slot
  <1> QED
    BY <1>3

LEMMA JobCountsFaults ==
    ASSUME PInv, NEW j \in Jobs, JobStep(j)
    PROVE  FaultCount'
  <1>0. TypeOK /\ Progress /\ FaultCount /\ job[j] \in JobState
    BY DEF PInv, TypeOK
  <1>1. /\ request' = request /\ phase' = phase /\ next' = next /\ try' = try
        /\ \A k \in Jobs \ {j} : job'[k] = job[k]
    BY <1>0, JobFrame
  <1> SUFFICES ASSUME NEW q \in Runs
               PROVE  /\ faults'[q] <= Used(q)'
                      /\ Unpickable(q) \/ Taken(q)' \/ faults'[q] = Used(q)'
    <2>1. \A q \in Runs : Unpickable(q)' <=> Unpickable(q)
      BY <1>1, SameRequest
    <2> QED
      BY <2>1 DEF FaultCount
  <1>2. /\ faults[q] <= Used(q)
        /\ Unpickable(q) \/ Taken(q) \/ faults[q] = Used(q)
        /\ faults[q] \in Nat /\ try[q] \in {1, 2}
    <2>1. faults[q] \in 0..2 /\ try[q] \in {1, 2}
      BY <1>0 DEF TypeOK, Tries
    <2> QED
      BY <1>0, <2>1 DEF FaultCount
  <1>3. Current(q) \in Jobs /\ Current(q)' = Current(q)
    BY <1>0, <1>1, CurrentJob DEF Current
  <1>6. Taken(q) => Taken(q)'
    BY TakenStays
  <1>4. CASE ~(Awaited(j) /\ q = j[1])
    <2>1. phase[q] = "publish" => Current(q) # j
      BY <1>4, JobTuple DEF Awaited, Current
    <2>2. Used(q)' = Used(q)
      BY <1>1, <1>3, <2>1 DEF Used
    <2>3. faults'[q] = faults[q]
      BY <1>0, <1>4 DEF JobStep, Build, Upload, Skip, Refuse, Break, Faulted, TypeOK
    <2> QED
      BY <1>2, <1>6, <2>2, <2>3
  <1>5. CASE Awaited(j) /\ q = j[1]
    <2>1. phase[q] = "publish" /\ Current(q) = j
      BY <1>5 DEF Awaited
    <2>2. job[j].pc # "error"
      BY <1>0 DEF JobStep, Build, Upload, Skip, Refuse, Break
    <2>3. Used(q) = try[q] - 1
      BY <2>1, <2>2 DEF Used
    <2>4. Used(q)' = IF job'[j].pc = "error" THEN try[q] ELSE try[q] - 1
      BY <1>1, <1>3, <2>1 DEF Used
    <2>5. CASE Break(j)
      <3>1. job'[j].pc = "error"
        BY <1>0, <1>5, <2>5, Ended DEF Break
      <3>2. faults'[q] = faults[q] + 1
        BY <1>0, <1>5, <2>5 DEF Break, Faulted, TypeOK
      <3> QED
        BY <1>2, <1>6, <2>3, <2>4, <3>1, <3>2
    <2>6. CASE Build(j)
      <3>1. faults' = faults
        BY <2>6 DEF Build
      <3>2. CASE RightDirs(j) = {}
        <4>1. j[2] <= Len(Wanted(j[1]))
          BY <1>0, <1>5, <2>1 DEF Progress, Current
        <4>2. Unpickable(q)
          BY <1>0, <1>5, <3>2, <4>1, RightDir
        <4> QED
          BY <1>2, <1>6, <2>3, <2>4, <3>1, <4>2
      <3>3. CASE RightDirs(j) # {}
        <4>1. PICK d \in RightDirs(j) :
                job' = [job EXCEPT ![j] = [pc |-> "upload", dir |-> d, left |-> Files]]
          BY <2>6, <3>3 DEF Build
        <4>2. job'[j].pc = "upload"
          BY <1>0, <4>1 DEF TypeOK
        <4> QED
          BY <1>2, <1>6, <2>3, <2>4, <3>1, <4>2
      <3> QED
        BY <3>2, <3>3
    <2>7. CASE \E f \in Files : Upload(j, f) \/ Skip(j, f)
      <3>1. PICK f \in Files : Upload(j, f) \/ Skip(j, f)
        BY <2>7
      <3>2. Uploaded(j, f) /\ job[j].pc = "upload" /\ faults' = faults
        BY <3>1 DEF Upload, Skip
      <3>3. job'[j].pc # "error"
        <4>1. CASE job[j].left = {f}
          BY <1>0, <1>5, <3>2, <4>1, Ended DEF Uploaded
        <4>2. CASE job[j].left # {f}
          <5>1. job'[j] = [job[j] EXCEPT !.left = @ \ {f}]
            BY <1>0, <3>2, <4>2 DEF Uploaded, TypeOK
          <5> QED
            BY <1>0, <3>2, <5>1 DEF JobState
        <4> QED
          BY <4>1, <4>2
      <3> QED
        BY <1>2, <1>6, <2>3, <2>4, <3>2, <3>3
    <2>8. CASE \E f \in Files : Refuse(j, f)
      <3>1. PICK f \in Files : Refuse(j, f)
        BY <2>8
      <3>2. /\ job[j].pc = "upload" /\ pypi[Slot(j, f)] # Nothing
            /\ Ends(j, "error") /\ faults' = faults
        BY <3>1 DEF Refuse
      <3>3. job'[j].pc = "error"
        BY <1>0, <1>5, <3>2, Ended
      <3>4. Unpickable(q) \/ Taken(q)
        BY <1>5, <3>2, RefusedIsTaken
      <3>5. Unpickable(q) \/ Taken(q)'
        BY <3>4, TakenStays
      <3> QED
        BY <1>2, <2>3, <2>4, <3>2, <3>3, <3>5
    <2> QED
      BY <2>5, <2>6, <2>7, <2>8 DEF JobStep
  <1> QED
    BY <1>4, <1>5

-----------------------------------------------------------------------------
(* The theorems.                                                           *)

LEMMA NextPInv == PInv /\ [Next]_vars => PInv'
  <1> SUFFICES ASSUME PInv, [Next]_vars PROVE PInv'
    OBVIOUS
  <1>1. ASSUME NEW r \in Runs, RunStep(r) PROVE PInv'
    BY <1>1, RunTypes, RunKeepsJobs, RunProgresses, RunCountsFaults, RunLists DEF PInv
  <1>2. ASSUME NEW j \in Jobs, JobStep(j) PROVE PInv'
    BY <1>2, JobTypes, JobKeepsRest, JobCountsFaults DEF PInv
  <1>3. CASE UNCHANGED vars
    <2>1. /\ TypeOK' = TypeOK /\ LateIsIdle' = LateIsIdle /\ IdleIsEmpty' = IdleIsEmpty
          /\ UploadsAreThere' = UploadsAreThere /\ Owned' = Owned /\ Progress' = Progress
          /\ FaultCount' = FaultCount /\ Listed' = Listed
          /\ PublishedIsThere' = PublishedIsThere
      BY <1>3 DEF vars, TypeOK, LateIsIdle, Late, IdleIsEmpty, UploadsAreThere, RightDirs,
                  Slot, Owned, Progress, FaultCount, Taken, Used, Current, Listed,
                  PublishedIsThere, Wanted, Dirs, PackageAt, Unpickable, TypeOf
    <2> QED
      BY <2>1 DEF PInv
  <1> QED
    BY <1>1, <1>2, <1>3 DEF Next

LEMMA Invariance == Spec => []PInv
  BY InitPInv, NextPInv, PTL DEF Spec

\* Every variable of the publications keeps its type.
THEOREM TypeCorrect == Spec => []TypeOK
  BY Invariance, PTL DEF PInv

\* Every file of every package that a service shows as published is on PyPI,
\* however attempts are retried, given up and overlap.
THEOREM PublishedIsThereAlways == Spec => []PublishedIsThere
  BY Invariance, PTL DEF PInv

\* One fault in an activity does not by itself fail a publication: without two, the
\* name's packages cannot be told apart or PyPI already had a file of the package.
THEOREM OneFaultIsTolerated == Spec => []FaultTolerated
  <1>1. PInv => FaultTolerated
    BY DEF PInv, FaultCount, Used, FaultTolerated
  <1> QED
    BY <1>1, Invariance, PTL

\* Without a namesake on PyPI each listed package is the one generated for its type,
\* in the run's own content.
THEOREM PublishedIsOwnAlways == Spec => []PublishedIsOwn
  <1>1. ASSUME PInv PROVE PublishedIsOwn
    <2>0. TypeOK /\ Owned /\ Progress /\ Listed /\ PublishedIsThere
      BY <1>1 DEF PInv
    <2> SUFFICES ASSUME NEW r \in Runs, Alone(r), ~Unpickable(r),
                        NEW i \in DOMAIN published[r], NEW f \in Files
                 PROVE  /\ published[r][i] = <<Wanted(r)[i], PackageAt(r, Wanted(r)[i])>>
                        /\ pypi[<<PackageAt(r, Wanted(r)[i]), f>>] = <<r, Wanted(r)[i]>>
      BY DEF PublishedIsOwn, Files
    <2> DEFINE t == Wanted(r)[i]
               p == PackageAt(r, t)
    <2>1. published[r][i] = <<t, p>>
      BY <2>0 DEF Listed
    <2>2. t \in Dirs(r) /\ t \in Types
      <3>1. published[r] \in Seq(Types \X Packages)
        BY <2>0 DEF TypeOK
      <3>2. i \in 1..Len(Wanted(r))
        <4>1. i \in 1..Len(published[r]) /\ Len(published[r]) \in Nat
          BY <3>1
        <4>2. Len(published[r]) <= Len(Wanted(r)) /\ Len(Wanted(r)) \in Nat
          BY <2>0, Requests DEF Progress
        <4> QED
          BY <4>1, <4>2
      <3> QED
        BY <2>0, <3>2, Requests
    <2>3. p \in Packages /\ p \in Projects(r)
      BY <2>0, <2>2, PackageType DEF Projects
    <2>4. pypi[<<p, f>>] # Nothing
      BY <2>0, <2>1 DEF PublishedIsThere
    <2>5. PICK q \in Runs, d \in Types :
            d \in Dirs(q) /\ p = PackageAt(q, d) /\ pypi[<<p, f>>] = <<q, d>>
      BY <2>0, <2>3, <2>4 DEF Owned
    <2>6. q = r
      <3>1. p \in Projects(q)
        BY <2>5 DEF Projects
      <3> QED
        BY <2>3, <3>1 DEF Alone
    <2>7. d = t
      BY <2>0, <2>2, <2>5, <2>6, PackagesDiffer
    <2> QED
      BY <2>1, <2>5, <2>6, <2>7
  <1> QED
    BY <1>1, Invariance, PTL
=============================================================================
