-------------------------- MODULE ServiceLifecycle --------------------------
(***************************************************************************)
(* The life of one service: Core (CoreService) and the workflow runs that  *)
(* parse it, generate from it and publish it (WorkflowRuns), joined by the *)
(* worker's HTTP requests.  Delivery is at least once: an attempt that     *)
(* Temporal gives up on leaves its request in flight, and Core may still   *)
(* apply it, before or after those of the next attempts and steps.         *)
(***************************************************************************)
EXTENDS WorkflowRuns

CONSTANTS
    MaxLate,  \* bound: how many requests are given up on while in flight
    MaxLost   \* bound: how many answers of Core do not arrive

ASSUME MaxLateAssumption == MaxLate \in Nat
ASSUME MaxLostAssumption == MaxLost \in Nat

VARIABLES
    lateCalls,  \* how many requests were given up on so far
    lostAnswers,\* how many answers did not arrive so far
    raced,      \* history: two runs overlapped
    overwritten \* history: an auth-config request that had read the service
                \* before its routes were stored was saved after them

marks == <<lateCalls, lostAnswers, raced, overwritten>>
vars == <<coreVars, runVars, marks>>

TypeOK ==
    /\ CoreTypeOK
    /\ RunTypeOK
    /\ lateCalls \in 0..MaxLate
    /\ lostAnswers \in 0..MaxLost
    /\ raced \in BOOLEAN
    /\ overwritten \in BOOLEAN

Init ==
    /\ CoreInit
    /\ RunInit
    /\ lateCalls = 0
    /\ lostAnswers = 0
    /\ raced = FALSE
    /\ overwritten = FALSE

-----------------------------------------------------------------------------

\* Run w still has something to tell Core, whatever happens: all that may be
\* left of the others is the removal of a directory.
Working(w) == Active(w) /\ pc[w] \notin {"cleanup_clone", "cleanup_after_failure"}

\* A run starts to work when it is launched, or when its last step fails.
NoteOverlap ==
    /\ raced' = (raced \/ \E v, w \in Runs : v # w /\ Working(v)' /\ Working(w)')
    /\ UNCHANGED <<lateCalls, lostAnswers, overwritten>>

\* start_workflow, called between the flush and the commit of the request.
Launch(w) ==
    /\ StartMoves(w, {"flushed"}, "launched")
    /\ LaunchRun(w)
    /\ NoteOverlap
    /\ UNCHANGED <<row, artifacts, lock, calls, edit, removal>>

StartStep(w) ==
    \/ Launch(w)
    \/ /\ \/ CreateService(w)
          \/ CheckGenerate(w)
          \/ FlushGenerating(w)
          \/ CommitStart(w)
          \/ AbortStart(w)
       /\ UNCHANGED <<runVars, marks>>

\* The activity sends its request; the next attempt sends it again.
Send(w) ==
    /\ Posting(w)
    /\ \A c \in calls : c.run = w => c.late > 0
    /\ calls' = calls \cup
         {[run |-> w, post |-> pc[w], attempt |-> attempt[w],
           art |-> IF pc[w] = "complete" /\ Kind[w] = "generate"
                     THEN result[w] ELSE None,
           late |-> 0, phase |-> "sent", seen |-> NoView, seenArts |-> {}]}
    /\ UNCHANGED <<row, artifacts, lock, start, edit, removal>>
    /\ UNCHANGED <<runVars, marks>>

CallIsRead(c) ==
    /\ ReadService(c) \/ ReadArtifacts(c)
    /\ UNCHANGED <<runVars, marks>>

\* Core answers 200: the workflow goes on if it still waits for the answer.
StatusAnswered(c) ==
    /\ CommitStatus(c)
    /\ IF c.late = 0 THEN StepReturns(c.run) ELSE UNCHANGED runVars
    /\ UNCHANGED marks

UploadAnswered(c) ==
    /\ CommitUpload(c)
    /\ IF c.late = 0 THEN UploadReturns(c.run, c.attempt) ELSE UNCHANGED runVars
    /\ UNCHANGED marks

\* Mutation of StatusRejected: the error is swallowed and the run goes on.
RejectionIgnored(c) ==
    /\ RejectStatus(c)
    /\ IF c.late = 0 THEN StepReturns(c.run) ELSE UNCHANGED runVars
    /\ UNCHANGED marks

\* Core has applied the request but the answer does not arrive: the connection
\* broke, or the worker crashed.  A status is then posted again (Send), and an
\* upload is an attempt that failed.
LoseAnswer ==
    /\ lostAnswers < MaxLost
    /\ lostAnswers' = lostAnswers + 1
    /\ UNCHANGED <<lateCalls, raced, overwritten>>

StatusAnswerLost(c) ==
    /\ c.late = 0
    /\ LoseAnswer
    /\ CommitStatus(c)
    /\ UNCHANGED runVars

UploadAnswerLost(c) ==
    /\ c.late = 0
    /\ LoseAnswer
    /\ CommitUpload(c)
    /\ AttemptFails(c.run)
    /\ UNCHANGED <<result, holders, dirs>>

\* Core answers an error to a status request, which is sent again (Send); so is
\* one that never arrived, as if it had not been sent.
StatusRejected(c) ==
    /\ RejectStatus(c)
    /\ UNCHANGED <<runVars, marks>>

UploadFails(c) ==
    /\ ~IsStatus(c)
    /\ c.late = 0
    /\ LoseCall(c)
    /\ AttemptFails(c.run)
    /\ UNCHANGED <<result, holders, dirs, marks>>

\* start_to_close or heartbeat timeout with the request still in flight.
GiveUp(c) ==
    /\ c.late = 0
    /\ lateCalls < MaxLate
    /\ lateCalls' = lateCalls + 1
    /\ calls' = (calls \ {c}) \cup {[c EXCEPT !.late = lateCalls + 1]}
    /\ IF IsStatus(c) THEN UNCHANGED <<pc, attempt>> ELSE AttemptFails(c.run)
    /\ UNCHANGED <<row, artifacts, lock, start, edit, removal>>
    /\ UNCHANGED <<result, holders, dirs, lostAnswers, raced, overwritten>>

\* ... and it may never be applied.
LateCallLost(c) ==
    /\ c.late > 0
    /\ LoseCall(c)
    /\ UNCHANGED <<runVars, marks>>

CallStep(c) ==
    \/ CallIsRead(c)
    \/ StatusAnswered(c)
    \/ UploadAnswered(c)
    \/ StatusAnswerLost(c)
    \/ UploadAnswerLost(c)
    \/ StatusRejected(c)
    \/ UploadFails(c)
    \/ GiveUp(c)
    \/ LateCallLost(c)

ActivityStep(w) ==
    /\ \/ FetchReturns(w)
       \/ PlainReturns(w)
       \/ CleanupReturns(w)
       \/ ActivityFails(w)
    /\ NoteOverlap
    /\ UNCHANGED coreVars

\* Both columns of the service are saved as they were before its routes.
SavesStale(e) == EditCommits(e) /\ "routes" \in row.graph \ edit[e].graph

UserStep ==
    /\ \/ \E e \in Editors : EditReads(e) \/ EditCommits(e) \/ EditAborts(e)
       \/ \E d \in Removers : DeleteReads(d) \/ DeleteCommits(d) \/ DeleteAborts(d)
    /\ overwritten' = (overwritten \/ \E e \in Editors : SavesStale(e))
    /\ UNCHANGED <<runVars, lateCalls, lostAnswers, raced>>

Next ==
    \/ \E w \in Runs : StartStep(w) \/ Send(w) \/ ActivityStep(w)
    \/ \E c \in calls : CallStep(c)
    \/ UserStep

Spec == Init /\ [][Next]_vars

\* A worker's activity is retried until it answers or runs out of attempts; a
\* start request that flushed its UPDATE ends in COMMIT or ROLLBACK.  Nothing
\* makes a user act, an answer be lost, a request be given up on, or a late
\* request be applied.
RunStep(w) ==
    \/ Send(w)
    \/ ActivityStep(w)
    \/ \E c \in calls :
          /\ c.run = w /\ c.late = 0
          /\ \/ CallIsRead(c)
             \/ StatusAnswered(c)
             \/ UploadAnswered(c)
             \/ StatusRejected(c)
             \/ UploadFails(c)

StartEnds(w) == start[w] \in {"flushed", "launched"} /\ StartStep(w)

Fairness ==
    \A w \in Runs : WF_vars(RunStep(w)) /\ WF_vars(StartEnds(w))
FairSpec == Spec /\ Fairness

-----------------------------------------------------------------------------
(* Safety.  "lateCalls = 0": no request outlived its activity so far;      *)
(* "~raced": no two runs worked at the same time so far.  The properties   *)
(* name the two hazards exactly: what they do not excuse cannot happen.    *)

\* The statuses at which the web client stops polling.
Terminal == {"parsed", "complete", "failed", "timed_out"}
InProgress == Statuses \ Terminal

\* A service never shows work in progress that nobody is doing, however many
\* runs overlap, are orphaned by a rolled-back start, or fail: some run that
\* still has to post to Core exists.  Only a late request can break this.
InProgressHasWorker ==
    (lateCalls = 0 /\ row.present /\ row.status \in InProgress)
      => \E w \in Runs : Working(w)

\* The download link of a service leads to its one artifact.  Overlapping
\* uploads, or an upload applied after its retry, leave it dangling or leave a
\* second artifact behind.
ArtifactIntact ==
    (lateCalls = 0 /\ ~raced /\ row.present)
      => artifacts = IF row.art = None THEN {} ELSE {row.art}

\* No artifact survives its service, although the upload and the delete both
\* act on artifacts they read before they commit.
NoOrphanArtifact == ~row.present => artifacts = {}

\* The routes are stored, or an auth-config request erased them: one that had
\* read the service before they were stored, and wrote the whole graph as read.
RoutesKept == "routes" \in row.graph \/ overwritten

\* Every service that is offered for generation, being generated or complete
\* has the routes of its parse, although CheckGenerate holds no lock on what it
\* read, posts may be late or repeated, and auth-config requests write the whole
\* graph: only one that read it before the routes were stored erases them.
GraphBeforeGeneration ==
    (row.present /\ row.status \in {"parsed", "generating", "packaging",
                                    "publishing", "complete"})
      => RoutesKept

\* What the status says while a run executes one of its own activities.
ShownDuring ==
    [clone_repo |-> "cloning", fetch_pypi_sdist |-> "downloading",
     parse_routes |-> "parsing", detect_auth |-> "parsing",
     generate_packages |-> "generating", package_zip |-> "packaging",
     upload_artifact |-> "packaging", publish_to_pypi |-> "publishing"]

\* The status shows the step that is executing.
StatusTracksRun ==
    (lateCalls = 0 /\ ~raced /\ row.present)
      => \A w \in Runs : pc[w] \in DOMAIN ShownDuring
                           => row.status = ShownDuring[pc[w]]

\* The documented service state machine (downloading and publishing are the
\* PyPI counterparts of cloning and packaging).
Moves ==
    [cloning     |-> {"parsing", "failed"},
     downloading |-> {"parsing", "failed"},
     parsing     |-> {"parsed", "failed"},
     parsed      |-> {"generating", "failed"},
     generating  |-> {"packaging", "publishing", "failed"},
     packaging   |-> {"complete", "failed"},
     publishing  |-> {"complete", "failed"},
     complete    |-> {"generating"},
     failed      |-> {}]

DocumentedMove == row'.status \in Moves[row.status]

StatusChanges == row.present /\ row'.present /\ row'.status # row.status

\* The two moves it lacks and the code makes (see DocumentedMoves).  A parse run
\* posts "parsed" before it removes its clone; when the removal fails it posts
\* "failed" over a service that may be complete by now.  And a start request that
\* was checked before some run failed does not look at the status again.
UndocumentedMove ==
    \/ row.status = "complete" /\ row'.status = "failed"
    \/ row.status = "failed" /\ row'.status = "generating"

\* Unless runs overlap or a request is late, these two moves are the only ones
\* that leave the documented state machine: the status never goes back.
StatusMoves ==
    [][(lateCalls = 0 /\ ~raced /\ StatusChanges)
        => (DocumentedMove \/ UndocumentedMove)]_vars

\* What an auth-config request saved, what a parse found and what the runs
\* reported is lost in one way only: to a request that had read the service
\* before it was saved, or to the new graph of a parse.
LostOnlyToStaleReads ==
    [][(row.present /\ row'.present) =>
         \A part \in (row.graph \ row'.graph) \cup (row.meta \ row'.meta) :
            \/ \E e \in Editors :
                  /\ edit[e].phase = "read" /\ edit'[e].phase = "idle"
                  /\ part \notin edit[e].graph \cup edit[e].meta
            \/ \E c \in calls \ calls' :
                  \/ part = "login" /\ c.post = "parsed"
                  \/ part \in MetaKeys \ c.seen.meta]_vars

-----------------------------------------------------------------------------
(* The inductive invariant behind InProgressHasWorker, NoOrphanArtifact    *)
(* and GraphBeforeGeneration.                                              *)

Parsing(w)    == Kind[w] \in ParseKinds
Generating(w) == Kind[w] \in GenerateKinds

\* A run has at most one request that it waits for, the one of its step.
LiveCalls ==
    /\ \A c \in calls :
          /\ pc[c.run] # "unborn"
          /\ c.post \in StepsOf(Kind[c.run])
          /\ c.late = 0 => c.post = pc[c.run]
          /\ lateCalls = 0 => c.late = 0
    /\ \A c, d \in calls : (c.run = d.run /\ c.late = 0 /\ d.late = 0) => c = d

\* A run exists only once its start request launched it; one request creates
\* the service, and it committed before any other could find the service.
StartOrder ==
    /\ \A w \in Runs :
          /\ start[w] \in {"none", "checked", "flushed"} => pc[w] = "unborn"
          /\ start[w] = "checked" => Generating(w)
    /\ \A v, w \in Runs :
          (Parsing(v) /\ Parsing(w) /\ start[v] # "none" /\ start[w] # "none") => v = w
    /\ (row.present \/ \E w \in Runs : Generating(w) /\ start[w] # "none")
          => \E v \in Runs : Parsing(v) /\ start[v] = "committed"

\* The row is locked exactly while a generate request is between its flush
\* and its end, and nobody deletes the service meanwhile.
LockHeld ==
    /\ lock # None => (row.present /\ Generating(lock)
                         /\ start[lock] \in {"flushed", "launched"})
    /\ \A w \in Runs :
          (Generating(w) /\ start[w] \in {"flushed", "launched"}) => lock = w

\* Until the request that launched it ends, a run cannot get far: a parse run
\* finds no service, and of the posts of a generate run only one that changes
\* nothing can commit.
LaunchedWaits ==
    \A w \in Runs : start[w] = "launched" =>
        /\ Parsing(w) =>
              /\ pc[w] = FirstStep[Kind[w]]
              /\ \A c \in calls : (c.run = w /\ IsStatus(c)) => c.phase = "sent"
        /\ Generating(w) =>
              /\ \/ pc[w] = "generating"
                 \/ /\ row.status = "generating"
                    /\ pc[w] \in {"generate_packages", "packaging",
                                  "publishing", "failed"}
              /\ \A c \in calls : c.run = w =>
                    /\ IsStatus(c)
                    /\ c.phase = "read" => c.seen.status = row.status

\* A generation finds the routes as long as there is a service.
GraphKept ==
    /\ GraphBeforeGeneration
    /\ \A w \in Runs : (Generating(w) /\ start[w] # "none" /\ row.present)
                         => RoutesKept

\* Run w will write the row before it ends: none of its requests is about to
\* commit a terminal status that it believes is there already.
WillWrite(w) ==
    /\ Working(w)
    /\ \A c \in calls :
          (c.run = w /\ c.phase = "read" /\ c.post \in Terminal)
             => c.seen.status # c.post

InProgressHasWriter ==
    (lateCalls = 0 /\ row.present /\ row.status \in InProgress)
      => \E w \in Runs : WillWrite(w)

\* What the proofs carry through every step.
IInv ==
    /\ TypeOK
    /\ LiveCalls
    /\ StartOrder
    /\ LockHeld
    /\ LaunchedWaits
    /\ GraphKept
    /\ NoOrphanArtifact
    /\ InProgressHasWriter

-----------------------------------------------------------------------------
(* Liveness, under FairSpec.                                               *)

\* A service that shows work in progress settles or is deleted: the client's
\* polling ends, unless a late request puts an old status back.
Settles ==
    (row.present /\ row.status \in InProgress)
      ~> (~row.present \/ row.status \in Terminal \/ lateCalls > 0)

\* A run ends as long as its service is there to answer it.
RunsEnd ==
    \A w \in Runs : (Active(w) /\ row.present) ~> (~Active(w) \/ ~row.present)

-----------------------------------------------------------------------------
(* What the documentation says and the code does not do.                   *)

\* The status moves along the documented state machine.
DocumentedMoves == [][StatusChanges => DocumentedMove]_vars

\* Temporal ends every run, gracefully, by a timeout if need be.
EveryRunEnds == \A w \in Runs : Active(w) ~> ~Active(w)
=============================================================================
