----------------------------- MODULE Publication -----------------------------
(***************************************************************************)
(* PublishWorkflow from its first activity to its last: the packages of a  *)
(* run are generated into a fresh directory, then each requested type is   *)
(* built and uploaded to PyPI by an activity that is tried twice.  Several *)
(* runs publish side by side, and an attempt that Temporal gave up on may  *)
(* go on uploading next to the attempt that replaced it.                   *)
(*                                                                         *)
(* A name is a pair <<stem, n>>: the stem followed by n times "_mcp".  PyPI *)
(* compares names with - and _ identified, so the CLI package of a service *)
(* called x_mcp and the MCP package of a service called x are one project. *)
(* The version is always 0.1.0.                                            *)
(***************************************************************************)
EXTENDS Naturals, Sequences, FiniteSets

CONSTANTS
    Runs,      \* publish runs
    Stems,     \* stems of the names users choose
    Suffixes,  \* how often a chosen name may end in _mcp
    MaxTypes,  \* bound on the length of output_types
    Plans      \* what the runs are asked for: cli_name and output_types

Types    == {"cli", "mcp"}
Files    == {"sdist", "wheel"}
Names    == Stems \X Suffixes
Packages == Stems \X (Suffixes \cup {n + 1 : n \in Suffixes})

ASSUME RequestsAssumption ==
    /\ Suffixes \subseteq Nat /\ MaxTypes \in Nat
    /\ Plans \subseteq [Runs -> [name : Names, types : Seq(Types)]]
    /\ \A plan \in Plans, r \in Runs : Len(plan[r].types) \in 1..MaxTypes

\* A try at publishing the i-th output type of a run: a thread of the worker.
Tries   == 1..2   \* RetryPolicy(maximum_attempts=2) of both activities
Jobs    == Runs \X (1..MaxTypes) \X Tries
Content == Runs \X Types   \* what was generated for a run and a type
Nothing == <<>>

VARIABLES
    request,
    phase,      \* "generate", "publish", "complete", "failed"
    next,       \* the output type being published
    try,        \* the attempt of the current activity
    job,        \* the publish activities' threads, timed out ones included
    published,  \* published_packages
    pypi,       \* the files PyPI has
    faults      \* history: the attempts of the current activity a fault has hit

vars == <<request, phase, next, try, job, published, pypi, faults>>

\* pip_generator.generate, mcp_generator.generate: directory and project name.
PackageOf(n, t) == IF t = "cli" THEN n ELSE <<n[1], n[2] + 1>>

EndsInMcp(p) == p[2] > 0
Wanted(r)    == request[r].types

\* The directories in output_dir: one per type asked for, however often.
Dirs(r) == {Wanted(r)[i] : i \in DOMAIN Wanted(r)}
PackageAt(r, d) == PackageOf(request[r].name, d)

IdleJob == [pc |-> "idle", dir |-> "cli", left |-> {}]
JobState == [pc : {"idle", "upload", "ok", "error"}, dir : Types, left : SUBSET Files]

TypeOK ==
    /\ request \in Plans
    /\ phase \in [Runs -> {"generate", "publish", "complete", "failed"}]
    /\ next \in [Runs -> 1..MaxTypes]
    /\ try \in [Runs -> Tries]
    /\ job \in [Jobs -> JobState]
    /\ published \in [Runs -> Seq(Types \X Packages)]
    /\ pypi \in [Packages \X Files -> Content \cup {Nothing}]
    /\ faults \in [Runs -> 0..2]

Init ==
    /\ request \in Plans
    /\ phase = [r \in Runs |-> "generate"]
    /\ next = [r \in Runs |-> 1]
    /\ try = [r \in Runs |-> 1]
    /\ job = [j \in Jobs |-> IdleJob]
    /\ published = [r \in Runs |-> <<>>]
    /\ pypi = [f \in Packages \X Files |-> Nothing]
    /\ faults = [r \in Runs |-> 0]

-----------------------------------------------------------------------------
(* The workflow.                                                           *)

Current(r) == <<r, next[r], try[r]>>

\* Mutation of Retry: the last failure is not handled.
RetryOrStall(r) ==
    /\ try[r] = 1
    /\ try' = [try EXCEPT ![r] = 2]
    /\ UNCHANGED phase

\* Mutation of Retry: one attempt more than the policy allows.
RetryTwice(r) ==
    IF try[r] <= 2
      THEN /\ try' = [try EXCEPT ![r] = @ + 1]
           /\ UNCHANGED phase
      ELSE /\ phase' = [phase EXCEPT ![r] = "failed"]
           /\ UNCHANGED try

\* Mutation of Retry: the policy of a single attempt.
RetryNever(r) ==
    /\ phase' = [phase EXCEPT ![r] = "failed"]
    /\ UNCHANGED try

\* The current activity's attempt failed: the next one, or the except branch,
\* which publishes no further type.  The post of "failed" in that branch, like
\* the other posts of this workflow, is an activity without a bound on its
\* attempts: it is in WorkflowRuns and ServiceLifecycle, not here.
Retry(r) ==
    IF try[r] = 1
      THEN /\ try' = [try EXCEPT ![r] = 2]
           /\ UNCHANGED phase
      ELSE /\ phase' = [phase EXCEPT ![r] = "failed"]
           /\ UNCHANGED try

Faulted(r) == faults' = [faults EXCEPT ![r] = @ + 1]

\* The next activity starts from its first attempt.
Fresh(r) == /\ try' = [try EXCEPT ![r] = 1]
            /\ faults' = [faults EXCEPT ![r] = 0]

\* generate_packages_activity fails; what it wrote is in a directory of its own.
GenerateFails(r) ==
    /\ phase[r] = "generate"
    /\ Retry(r)
    /\ Faulted(r)
    /\ UNCHANGED <<request, next, job, published, pypi>>

GenerateReturns(r) ==
    /\ phase[r] = "generate"
    /\ phase' = [phase EXCEPT ![r] = "publish"]
    /\ Fresh(r)
    /\ UNCHANGED <<request, next, job, published, pypi>>

\* The activity's result: the next output type, or status complete with
\* everything that was published.
PublishReturns(r) ==
    /\ phase[r] = "publish"
    /\ job[Current(r)].pc = "ok"
    /\ job' = [job EXCEPT ![Current(r)] = IdleJob]
    /\ published' = [published EXCEPT ![r] =
           Append(@, <<Wanted(r)[next[r]], PackageAt(r, job[Current(r)].dir)>>)]
    /\ Fresh(r)
    /\ IF next[r] < Len(Wanted(r))
         THEN /\ next' = [next EXCEPT ![r] = @ + 1]
              /\ UNCHANGED phase
         ELSE /\ phase' = [phase EXCEPT ![r] = "complete"]
              /\ UNCHANGED next
    /\ UNCHANGED <<request, pypi>>

\* The activity raised.
PublishRaises(r) ==
    /\ phase[r] = "publish"
    /\ job[Current(r)].pc = "error"
    /\ job' = [job EXCEPT ![Current(r)] = IdleJob]
    /\ Retry(r)
    /\ UNCHANGED <<request, next, published, pypi, faults>>

\* start_to_close or heartbeat timeout (an upload sends no heartbeat): the
\* attempt is given up, but its thread may still run.
TimesOut(r) ==
    /\ phase[r] = "publish"
    /\ job[Current(r)].pc \in {"idle", "upload"}
    /\ Retry(r)
    /\ Faulted(r)
    /\ UNCHANGED <<request, next, job, published, pypi>>

-----------------------------------------------------------------------------
(* publish_to_pypi_activity, one attempt.                                  *)

TypeOf(j) == Wanted(j[1])[j[2]]
Awaited(j) == phase[j[1]] = "publish" /\ Current(j[1]) = j

\* Mutation of RightDirs: the directories are not told apart.
AnyDir(j) == Dirs(j[1])

\* With two packages in output_dir, the directory's name decides.
RightDirs(j) ==
    IF Cardinality(Dirs(j[1])) > 1
      THEN {d \in Dirs(j[1]) : EndsInMcp(PackageAt(j[1], d)) <=> TypeOf(j) = "mcp"}
      ELSE Dirs(j[1])

\* The token was fetched and the package in the first directory left, if any,
\* was built; ValueError when none is.
Build(j) ==
    /\ Awaited(j)
    /\ job[j].pc = "idle"
    /\ \/ \E d \in RightDirs(j) :
            job' = [job EXCEPT ![j] = [pc |-> "upload", dir |-> d, left |-> Files]]
       \/ /\ RightDirs(j) = {}
          /\ job' = [job EXCEPT ![j].pc = "error"]
    /\ UNCHANGED <<request, phase, next, try, published, pypi, faults>>

Slot(j, f) == <<PackageAt(j[1], job[j].dir), f>>

\* The thread ends: Temporal hears of it if it still waits for it.
Ends(j, pc) ==
    job' = [job EXCEPT ![j] = IF Awaited(j) THEN [@ EXCEPT !.pc = pc] ELSE IdleJob]

\* Mutation of Uploaded: the loop stops after its first file.
UploadedFirst(j, f) == Ends(j, "ok")

\* One file done, in the order glob lists them; the last one ends the activity.
Uploaded(j, f) ==
    IF job[j].left = {f} THEN Ends(j, "ok")
                         ELSE job' = [job EXCEPT ![j].left = @ \ {f}]

\* PyPI keeps the file under its name for good.
Store(j, f) == pypi' = [pypi EXCEPT ![Slot(j, f)] = <<j[1], job[j].dir>>]

Upload(j, f) ==
    /\ job[j].pc = "upload" /\ f \in job[j].left
    /\ pypi[Slot(j, f)] = Nothing
    /\ Store(j, f)
    /\ Uploaded(j, f)
    /\ UNCHANGED <<request, phase, next, try, published, faults>>

\* The name is taken, and the answer is 409, which is logged and skipped (or
\* 200, which PyPI may answer for the very same file).
Skip(j, f) ==
    /\ job[j].pc = "upload" /\ f \in job[j].left
    /\ pypi[Slot(j, f)] # Nothing
    /\ Uploaded(j, f)
    /\ UNCHANGED <<request, phase, next, try, published, pypi, faults>>

\* The name is taken, and the answer is 400: the activity raises.  It is no
\* fault of the attempt, and the next attempt will meet the file again.
Refuse(j, f) ==
    /\ job[j].pc = "upload" /\ f \in job[j].left
    /\ pypi[Slot(j, f)] # Nothing
    /\ Ends(j, "error")
    /\ UNCHANGED <<request, phase, next, try, published, pypi, faults>>

\* The token request, the build or an upload fails, or the thread dies; an
\* upload whose answer was lost may have been stored.
Break(j) ==
    /\ job[j].pc = "upload" \/ (job[j].pc = "idle" /\ Awaited(j))
    /\ Ends(j, "error")
    /\ \/ UNCHANGED pypi
       \/ \E f \in job[j].left : pypi[Slot(j, f)] = Nothing /\ Store(j, f)
    /\ IF Awaited(j) THEN Faulted(j[1]) ELSE UNCHANGED faults
    /\ UNCHANGED <<request, phase, next, try, published>>

RunStep(r) == \/ GenerateFails(r) \/ GenerateReturns(r) \/ PublishReturns(r)
              \/ PublishRaises(r) \/ TimesOut(r)
JobStep(j) == \/ Build(j) \/ Break(j)
              \/ \E f \in Files : Upload(j, f) \/ Skip(j, f) \/ Refuse(j, f)

Next == (\E r \in Runs : RunStep(r)) \/ (\E j \in Jobs : JobStep(j))

\* Temporal's timeouts end every attempt, so the workflow always moves on; it
\* needs nothing of the threads.
Spec == Init /\ [][Next]_vars /\ \A r \in Runs : WF_vars(RunStep(r))

-----------------------------------------------------------------------------
(* Properties.                                                             *)

\* What a service shows as published can be installed: every file of every
\* package is on PyPI, after lost answers, retries and attempts that overlap
\* (publish_to_pypi_activity, _upload_to_pypi).
PublishedIsThere ==
    \A r \in Runs : \A i \in DOMAIN published[r] : \A f \in Files :
        pypi[<<published[r][i][2], f>>] # Nothing

\* The PyPI projects a run may write to.
Projects(r) == {PackageAt(r, d) : d \in Dirs(r)}
Alone(r) == \A q \in Runs \ {r} : Projects(q) \cap Projects(r) = {}

\* A name for which "pick the right one" finds no CLI package.
Unpickable(r) == EndsInMcp(request[r].name) /\ Cardinality(Dirs(r)) = 2

\* ... and it is the package generated for the type it is listed under, in
\* the run's own content, if no other service has a project of that name: a
\* name that ends in _mcp is safe only with one type (comment "pick the right
\* one" in publish_to_pypi_activity).
PublishedIsOwn ==
    \A r \in Runs : Alone(r) /\ ~Unpickable(r) =>
        \A i \in DOMAIN published[r] :
            LET p == PackageAt(r, Wanted(r)[i]) IN
            /\ published[r][i] = <<Wanted(r)[i], p>>
            /\ \A f \in Files : pypi[<<p, f>>] = <<r, Wanted(r)[i]>>

\* PyPI has a file of the package that a run is publishing.
Taken(r) == \E f \in Files : pypi[<<PackageAt(r, Wanted(r)[next[r]]), f>>] # Nothing

\* A fault in one attempt of an activity fails no publication by itself: one
\* that failed had faults in both attempts, or a name whose directories cannot
\* be told apart, or met a file that was already on PyPI.  The last may be what
\* its own first attempt, or the thread of it that goes on, has uploaded: the
\* code counts on 409 there, and any other answer is an error
\* (maximum_attempts=2 and the status codes of _upload_to_pypi).
FaultTolerated ==
    \A r \in Runs : phase[r] = "failed" => faults[r] = 2 \/ Unpickable(r) \/ Taken(r)

\* Every publication ends complete or failed, so that the status can settle.
PublicationEnds == \A r \in Runs : <>(phase[r] \in {"complete", "failed"})
=============================================================================
