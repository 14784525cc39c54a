---------------------------- MODULE WorkflowRuns ----------------------------
(***************************************************************************)
(* The Temporal side: the workflow runs of one service and the activities  *)
(* they execute, one after the other.  A run is at pc[w]: a status name    *)
(* means "executing update_service_status with that status", any other     *)
(* name is the activity being executed.  Temporal is external: modelled    *)
(* as the workflow code uses it - an activity's result is delivered, or,   *)
(* after its last attempt, its failure is raised into the workflow.        *)
(***************************************************************************)
EXTENDS CoreService

VARIABLES
    pc,       \* pc[w]: the step run w executes
    attempt,  \* attempt[w]: the attempt of that step
    result,   \* result[w]: upload_result.artifact_id of a generate run
    holders,  \* the parse runs whose local clone_dir / extract_dir is set
    dirs      \* the clone and extraction directories on the worker's disk

runVars == <<pc, attempt, result, holders, dirs>>

\* The directories of run w: the one an attempt returned to the workflow, and
\* those (one stands for all) whose path the workflow never learns: what failed
\* attempts made, and the download directory an sdist is extracted in.
Held(w)  == <<w, "held">>
Stray(w) == <<w, "stray">>

-----------------------------------------------------------------------------
(* The workflows: the step that follows each step that succeeds.           *)

\* Mutation of ParseSteps: no "parsing" is posted.
ParseStepsUnannounced ==
    [cloning       |-> "clone_repo",
     clone_repo    |-> "parse_routes",
     parsing       |-> "parse_routes",
     parse_routes  |-> "detect_auth",
     detect_auth   |-> "parsed",
     parsed        |-> "cleanup_clone",
     cleanup_clone |-> "done"]

ParseSteps ==
    [cloning       |-> "clone_repo",
     clone_repo    |-> "parsing",
     parsing       |-> "parse_routes",
     parse_routes  |-> "detect_auth",
     detect_auth   |-> "parsed",
     parsed        |-> "cleanup_clone",
     cleanup_clone |-> "done"]

PyPIParseSteps ==
    [downloading      |-> "fetch_pypi_sdist",
     fetch_pypi_sdist |-> "parsing",
     parsing          |-> "parse_routes",
     parse_routes     |-> "detect_auth",
     detect_auth      |-> "parsed",
     parsed           |-> "cleanup_clone",
     cleanup_clone    |-> "done"]

GenerateSteps ==
    [generating        |-> "generate_packages",
     generate_packages |-> "packaging",
     packaging         |-> "package_zip",
     package_zip       |-> "upload_artifact",
     upload_artifact   |-> "complete",
     complete          |-> "done"]

\* publish_to_pypi stands for the activities of the loop over output_types,
\* which has at least one entry: Core sees nothing between them.
PublishSteps ==
    [generating        |-> "generate_packages",
     generate_packages |-> "publishing",
     publishing        |-> "publish_to_pypi",
     publish_to_pypi   |-> "complete",
     complete          |-> "done"]

Steps == [github |-> ParseSteps, pypi |-> PyPIParseSteps,
          generate |-> GenerateSteps, publish |-> PublishSteps]

FirstStep == [github |-> "cloning", pypi |-> "downloading",
              generate |-> "generating", publish |-> "generating"]

\* RetryPolicy(maximum_attempts).  update_service_status has no policy, which
\* is Temporal's default one: it is retried for ever.
MaxAttempts ==
    [clone_repo |-> 3, fetch_pypi_sdist |-> 3, parse_routes |-> 1,
     detect_auth |-> 1, cleanup_clone |-> 1, generate_packages |-> 2,
     package_zip |-> 1, upload_artifact |-> 2, publish_to_pypi |-> 2,
     cleanup_after_failure |-> 1]

\* The directory-making activities.
Fetches == {"clone_repo", "fetch_pypi_sdist"}
\* The activities that touch neither Core nor the tracked directories.
PlainActivities == {"parse_routes", "detect_auth", "generate_packages",
                    "package_zip", "publish_to_pypi"}

\* The steps of a run that are not in its Steps table: not started; in the
\* except branch of run(); closed by return or by raise.
ExtraSteps == {"unborn", "failed", "cleanup_after_failure", "done", "error"}
StepsOf(k) == DOMAIN Steps[k] \cup ExtraSteps

Active(w)  == pc[w] \notin {"unborn", "done", "error"}
Posting(w) == Active(w) /\ pc[w] \in Posts

RunTypeOK ==
    /\ pc \in [Runs -> UNION {StepsOf(k) : k \in ParseKinds \cup GenerateKinds}]
    /\ \A w \in Runs : pc[w] \in StepsOf(Kind[w])
    /\ attempt \in [Runs -> Attempts]
    /\ result \in [Runs -> Ticket \cup {None}]
    /\ holders \in SUBSET Runs
    /\ dirs \in SUBSET (Runs \X {"held", "stray"})

RunInit ==
    /\ pc = [w \in Runs |-> "unborn"]
    /\ attempt = [w \in Runs |-> 1]
    /\ result = [w \in Runs |-> None]
    /\ holders = {}
    /\ dirs = {}

-----------------------------------------------------------------------------

\* The except branch posts "failed", then removes clone_dir if it is set
\* (only the parse workflows have one), then re-raises.
Following(w) ==
    CASE pc[w] = "failed" ->
            IF w \in holders THEN "cleanup_after_failure" ELSE "error"
      [] pc[w] = "cleanup_after_failure" -> "error"
      [] OTHER -> Steps[Kind[w]][pc[w]]

\* Mutation of AfterFailure: the workflow raises without posting "failed".
AfterFailureSilent(w) ==
    IF pc[w] = "detect_auth" THEN "parsed" ELSE "error"

\* Where the workflow goes when a step's last attempt failed: detect_auth and
\* the cleanup of the except branch are in a try of their own.
AfterFailure(w) ==
    CASE pc[w] = "detect_auth" -> "parsed"
      [] pc[w] = "cleanup_after_failure" -> "error"
      [] OTHER -> "failed"

GoTo(w, step) ==
    /\ pc' = [pc EXCEPT ![w] = step]
    /\ attempt' = [attempt EXCEPT ![w] = 1]

\* The server side of start_workflow: the run exists from here on.
LaunchRun(w) ==
    /\ GoTo(w, FirstStep[Kind[w]])
    /\ UNCHANGED <<result, holders, dirs>>

\* A step that returns nothing the workflow keeps.
StepReturns(w) ==
    /\ GoTo(w, Following(w))
    /\ UNCHANGED <<result, holders, dirs>>

\* clone_repo_activity, fetch_pypi_sdist_activity: a fresh directory, whose
\* path the workflow keeps in clone_dir / extract_dir.  An extract_dir is a part
\* of the download directory, which holds the archive too.
FetchReturns(w) ==
    /\ pc[w] \in Fetches
    /\ GoTo(w, Following(w))
    /\ holders' = holders \cup {w}
    /\ dirs' = dirs \cup {Held(w)} \cup IF Kind[w] = "pypi" THEN {Stray(w)} ELSE {}
    /\ UNCHANGED result

PlainReturns(w) ==
    /\ pc[w] \in PlainActivities
    /\ StepReturns(w)

\* cleanup_clone_activity: rmtree of the path the workflow kept, which ignores
\* errors and so may leave it.
CleanupReturns(w) ==
    /\ pc[w] \in {"cleanup_clone", "cleanup_after_failure"}
    /\ GoTo(w, Following(w))
    /\ dirs' \in {dirs, dirs \ {Held(w)}}
    /\ UNCHANGED <<result, holders>>

\* The upload answered: the workflow keeps the new artifact's id.
UploadReturns(w, k) ==
    /\ GoTo(w, Following(w))
    /\ result' = [result EXCEPT ![w] = <<w, k>>]
    /\ UNCHANGED <<holders, dirs>>

\* Mutations of AttemptFails: one attempt too many; after the last attempt the
\* activity is scheduled anew.
OneAttemptMore(w) ==
    IF attempt[w] <= MaxAttempts[pc[w]]
      THEN /\ attempt' = [attempt EXCEPT ![w] = @ + 1]
           /\ UNCHANGED pc
      ELSE GoTo(w, AfterFailure(w))

RetriedForEver(w) ==
    /\ attempt' = [attempt EXCEPT ![w] = (@ % MaxAttempts[pc[w]]) + 1]
    /\ UNCHANGED pc

\* An attempt raised, timed out, or missed its heartbeats (a worker crash):
\* Temporal schedules the next attempt or raises ActivityError.
AttemptFails(w) ==
    IF attempt[w] < MaxAttempts[pc[w]]
      THEN /\ attempt' = [attempt EXCEPT ![w] = @ + 1]
           /\ UNCHANGED pc
      ELSE GoTo(w, AfterFailure(w))

\* A failed attempt of an activity of the worker's own.  A fetch may have made
\* its directory, a cleanup may have removed it; nothing is undone.
ActivityFails(w) ==
    /\ pc[w] \in DOMAIN MaxAttempts \ {"upload_artifact"}
    /\ AttemptFails(w)
    /\ \/ UNCHANGED dirs
       \/ pc[w] \in Fetches /\ dirs' = dirs \cup {Stray(w)}
       \/ pc[w] \in {"cleanup_clone", "cleanup_after_failure"}
            /\ dirs' = dirs \ {Held(w)}
    /\ UNCHANGED <<result, holders>>
=============================================================================
