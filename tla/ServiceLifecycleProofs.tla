----------------------- MODULE ServiceLifecycleProofs -----------------------
(***************************************************************************)
(* Theorems of ServiceLifecycle, for any number of start requests, users   *)
(* and late requests.                                                      *)
(***************************************************************************)
EXTENDS ServiceLifecycle, TLAPS

-----------------------------------------------------------------------------
(* The workflow tables.                                                    *)

Kinds == ParseKinds \cup GenerateKinds

LEMMA KindOfRun == \A w \in Runs : Kind[w] \in Kinds
  BY KindAssumption DEF Kinds

\* A workflow's table leads from its steps to its steps.
LEMMA StepsClosed ==
    \A k \in Kinds : \A s \in DOMAIN Steps[k] : Steps[k][s] \in StepsOf(k)
  BY DEF Kinds, ParseKinds, GenerateKinds, Steps, StepsOf, ExtraSteps,
         ParseSteps, PyPIParseSteps, GenerateSteps, PublishSteps

LEMMA FirstStepIsStep == \A k \in Kinds : FirstStep[k] \in StepsOf(k)
  BY DEF Kinds, ParseKinds, GenerateKinds, Steps, StepsOf, ExtraSteps, FirstStep,
         ParseSteps, PyPIParseSteps, GenerateSteps, PublishSteps

\* A posted status is a step of the run's own workflow, or "failed".
LEMMA FollowingIsStep ==
    ASSUME RunTypeOK, NEW w \in Runs, pc[w] \notin {"unborn", "done", "error"}
    PROVE  Following(w) \in StepsOf(Kind[w])
  <1>1. Kind[w] \in Kinds
    BY KindOfRun
  <1>2. pc[w] \in StepsOf(Kind[w])
    BY DEF RunTypeOK
  <1>3. CASE pc[w] \in {"failed", "cleanup_after_failure"}
    BY <1>3 DEF Following, StepsOf, ExtraSteps
  <1>4. CASE pc[w] \notin {"failed", "cleanup_after_failure"}
    <2>1. pc[w] \in DOMAIN Steps[Kind[w]]
      BY <1>2, <1>4 DEF StepsOf, ExtraSteps
    <2> QED
      BY <1>1, <1>4, <2>1, StepsClosed DEF Following
  <1> QED
    BY <1>3, <1>4

LEMMA AfterFailureIsStep ==
    ASSUME RunTypeOK, NEW w \in Runs
    PROVE  AfterFailure(w) \in StepsOf(Kind[w])
  <1>1. Kind[w] \in Kinds
    BY KindOfRun
  <1>2. pc[w] \in StepsOf(Kind[w])
    BY DEF RunTypeOK
  <1>3. CASE pc[w] = "detect_auth"
    BY <1>1, <1>2, <1>3
       DEF AfterFailure, Kinds, ParseKinds, GenerateKinds, Steps, StepsOf,
           ExtraSteps, ParseSteps, PyPIParseSteps, GenerateSteps, PublishSteps
  <1>4. CASE pc[w] # "detect_auth"
    BY <1>4 DEF AfterFailure, StepsOf, ExtraSteps
  <1> QED
    BY <1>3, <1>4

-----------------------------------------------------------------------------
(* Type correctness.                                                       *)

LEMMA GoToType ==
    ASSUME RunTypeOK, NEW w \in Runs, NEW s \in StepsOf(Kind[w]), GoTo(w, s)
    PROVE  /\ pc' \in [Runs -> UNION {StepsOf(k) : k \in Kinds}]
           /\ \A v \in Runs : pc'[v] \in StepsOf(Kind[v])
           /\ attempt' \in [Runs -> Attempts]
  <1>1. Kind[w] \in Kinds
    BY KindOfRun
  <1>2. s \in UNION {StepsOf(k) : k \in Kinds}
    BY <1>1
  <1>3. 1 \in Attempts
    BY DEF Attempts
  <1> QED
    BY <1>2, <1>3 DEF RunTypeOK, GoTo, Kinds

LEMMA AttemptFailsType ==
    ASSUME RunTypeOK, NEW w \in Runs, pc[w] \in DOMAIN MaxAttempts, AttemptFails(w)
    PROVE  /\ pc' \in [Runs -> UNION {StepsOf(k) : k \in Kinds}]
           /\ \A v \in Runs : pc'[v] \in StepsOf(Kind[v])
           /\ attempt' \in [Runs -> Attempts]
  <1>1. CASE attempt[w] < MaxAttempts[pc[w]]
    <2>1. MaxAttempts[pc[w]] \in 1..3
      BY DEF MaxAttempts
    <2>2. attempt[w] + 1 \in Attempts
      BY <1>1, <2>1 DEF RunTypeOK, Attempts
    <2>3. attempt' = [attempt EXCEPT ![w] = attempt[w] + 1] /\ pc' = pc
      BY <1>1 DEF AttemptFails
    <2> QED
      BY <2>2, <2>3 DEF RunTypeOK, Kinds
  <1>2. CASE ~(attempt[w] < MaxAttempts[pc[w]])
    <2>1. GoTo(w, AfterFailure(w))
      BY <1>2 DEF AttemptFails
    <2> QED
      BY <2>1, AfterFailureIsStep, GoToType
  <1> QED
    BY <1>1, <1>2

\* A run's own activities keep the types of the runs' state.
LEMMA StepReturnsType ==
    ASSUME RunTypeOK, NEW w \in Runs, Active(w), StepReturns(w)
    PROVE  RunTypeOK'
  <1>1. Following(w) \in StepsOf(Kind[w])
    BY FollowingIsStep DEF Active
  <1>2. GoTo(w, Following(w)) /\ UNCHANGED <<result, holders, dirs>>
    BY DEF StepReturns
  <1> QED
    BY <1>1, <1>2, GoToType DEF RunTypeOK, Kinds

LEMMA ActivityType ==
    ASSUME RunTypeOK, NEW w \in Runs,
           FetchReturns(w) \/ PlainReturns(w) \/ CleanupReturns(w) \/ ActivityFails(w)
    PROVE  RunTypeOK'
  <1> DEFINE PcOK == /\ pc' \in [Runs -> UNION {StepsOf(k) : k \in Kinds}]
                     /\ \A v \in Runs : pc'[v] \in StepsOf(Kind[v])
                     /\ attempt' \in [Runs -> Attempts]
             DirsOK == /\ result' = result
                       /\ holders' \in SUBSET Runs
                       /\ dirs' \in SUBSET (Runs \X {"held", "stray"})
  <1>1. CASE FetchReturns(w)
    <2>1. Active(w) /\ GoTo(w, Following(w))
      BY <1>1 DEF FetchReturns, Fetches, Active
    <2>2. PcOK
      BY <2>1, FollowingIsStep, GoToType DEF Active
    <2>3. DirsOK
      BY <1>1 DEF FetchReturns, RunTypeOK, Held, Stray
    <2> QED
      BY <2>2, <2>3 DEF RunTypeOK, Kinds
  <1>2. CASE PlainReturns(w)
    BY <1>2, StepReturnsType DEF PlainReturns, PlainActivities, Active
  <1>3. CASE CleanupReturns(w)
    <2>1. Active(w) /\ GoTo(w, Following(w))
      BY <1>3 DEF CleanupReturns, Active
    <2>2. PcOK
      BY <2>1, FollowingIsStep, GoToType DEF Active
    <2>3. DirsOK
      BY <1>3 DEF CleanupReturns, RunTypeOK, Held
    <2> QED
      BY <2>2, <2>3 DEF RunTypeOK, Kinds
  <1>4. CASE ActivityFails(w)
    <2>1. pc[w] \in DOMAIN MaxAttempts /\ AttemptFails(w)
      BY <1>4 DEF ActivityFails
    <2>2. PcOK
      BY <2>1, AttemptFailsType
    <2>3. DirsOK
      BY <1>4 DEF ActivityFails, RunTypeOK, Held, Stray
    <2> QED
      BY <2>2, <2>3 DEF RunTypeOK, Kinds
  <1> QED
    BY <1>1, <1>2, <1>3, <1>4

LEMMA StartRequestType ==
    ASSUME CoreTypeOK, NEW w \in Runs,
           CreateService(w) \/ CheckGenerate(w) \/ FlushGenerating(w)
             \/ CommitStart(w) \/ AbortStart(w)
    PROVE  CoreTypeOK'
  <1>1. start' \in [Runs -> StartPhases]
    BY DEF CoreTypeOK, CreateService, CheckGenerate, FlushGenerating, CommitStart,
           AbortStart, StartMoves, StartPhases
  <1>2. lock' \in Runs \cup {None}
    BY DEF CoreTypeOK, CreateService, CheckGenerate, FlushGenerating, CommitStart,
           AbortStart
  <1>3. row' \in Row
    <2>1. CASE CommitStart(w) /\ Kind[w] \in ParseKinds
      <3>1. \E s \in Statuses :
              row' = [NoRow EXCEPT !.present = TRUE, !.status = s]
        BY <2>1 DEF CommitStart, Statuses
      <3> QED
        BY <3>1 DEF NoRow, Row
    <2>2. CASE CommitStart(w) /\ Kind[w] \notin ParseKinds
      <3>1. row' = [row EXCEPT !.status = "generating", !.genwf = w]
        BY <2>2 DEF CommitStart
      <3> QED
        BY <3>1 DEF CoreTypeOK, Row, Statuses
    <2>3. CASE ~CommitStart(w)
      BY <2>3 DEF CoreTypeOK, CreateService, CheckGenerate, FlushGenerating, AbortStart
    <2> QED
      BY <2>1, <2>2, <2>3
  <1> QED
    BY <1>1, <1>2, <1>3
       DEF CoreTypeOK, CreateService, CheckGenerate, FlushGenerating, CommitStart,
           AbortStart

LEMMA CallReadType ==
    ASSUME CoreTypeOK, NEW c \in calls, ReadService(c) \/ ReadArtifacts(c)
    PROVE  CoreTypeOK'
  <1>1. c \in Call
    BY DEF CoreTypeOK
  <1>2. CASE ReadService(c)
    <2>1. ViewOf(row) \in View
      BY DEF CoreTypeOK, Row, View, ViewOf
    <2>2. [c EXCEPT !.phase = "read", !.seen = ViewOf(row)] \in Call
      BY <1>1, <2>1 DEF Call
    <2> QED
      BY <1>2, <2>2 DEF CoreTypeOK, ReadService
  <1>3. CASE ReadArtifacts(c)
    <2>1. [c EXCEPT !.phase = "read", !.seenArts = artifacts] \in Call
      BY <1>1 DEF Call, CoreTypeOK
    <2> QED
      BY <1>3, <2>1 DEF CoreTypeOK, ReadArtifacts
  <1> QED
    BY <1>2, <1>3

LEMMA CommitStatusType ==
    ASSUME CoreTypeOK, NEW c \in calls, CommitStatus(c)
    PROVE  CoreTypeOK'
  <1>1. c \in Call /\ c.post \in Statuses
    BY DEF CoreTypeOK, CommitStatus, IsStatus
  <1>2. WithStatus(row, c) \in Row
    <2>1. PostedMeta(c) \in SUBSET MetaKeys
      BY DEF PostedMeta
    <2>2. c.seen \in View /\ c.art \in Ticket \cup {None}
      BY <1>1 DEF Call
    <2>3. c.seen.meta \cup PostedMeta(c) \in SUBSET MetaKeys
      BY <2>1, <2>2 DEF View
    <2>4. row \in Row
      BY DEF CoreTypeOK
    <2> QED
      BY <1>1, <2>2, <2>3, <2>4 DEF WithStatus, Row, GraphParts
  <1>3. row' \in Row
    BY <1>2 DEF CommitStatus, CoreTypeOK
  <1> QED
    BY <1>3 DEF CoreTypeOK, CommitStatus

LEMMA CommitUploadType ==
    ASSUME CoreTypeOK, NEW c \in calls, CommitUpload(c)
    PROVE  CoreTypeOK'
  <1>1. <<c.run, c.attempt>> \in Ticket
    BY DEF CoreTypeOK, Call, Ticket
  <1>2. row' \in Row
    BY <1>1 DEF CoreTypeOK, CommitUpload, Row
  <1> QED
    BY <1>1, <1>2 DEF CoreTypeOK, CommitUpload

LEMMA UserStepType ==
    ASSUME CoreTypeOK,
           \/ \E e \in Editors : EditReads(e) \/ EditCommits(e) \/ EditAborts(e)
           \/ \E d \in Removers : DeleteReads(d) \/ DeleteCommits(d) \/ DeleteAborts(d)
    PROVE  CoreTypeOK'
  <1>1. ASSUME NEW e \in Editors, EditReads(e) \/ EditCommits(e) \/ EditAborts(e)
        PROVE  CoreTypeOK'
    <2>1. row \in Row /\ edit[e].graph \in SUBSET GraphParts
            /\ edit[e].meta \in SUBSET MetaKeys
      BY DEF CoreTypeOK
    <2>2. row' \in Row
      <3>1. CASE row' = row
        BY <2>1, <3>1
      <3>2. CASE EditCommits(e)
        <4> DEFINE G == edit[e].graph \cup {"login"}
                   M == edit[e].meta \cup {"auth_config"}
        <4>1. G \in SUBSET GraphParts /\ M \in SUBSET MetaKeys
          BY <2>1 DEF GraphParts, MetaKeys
        <4>2. row' = [row EXCEPT !.graph = G, !.meta = M]
          BY <3>2 DEF EditCommits
        <4> HIDE DEF G, M
        <4> QED
          BY <2>1, <4>1, <4>2 DEF Row
      <3> QED
        BY <1>1, <3>1, <3>2 DEF EditReads, EditAborts
    <2>3. edit' \in [Editors -> [phase : {"idle", "read"},
                                 graph : SUBSET GraphParts, meta : SUBSET MetaKeys]]
      <3> DEFINE E == [phase : {"idle", "read"},
                       graph : SUBSET GraphParts, meta : SUBSET MetaKeys]
      <3>1. IdleEdit \in E
        BY DEF IdleEdit
      <3>2. [phase |-> "read", graph |-> row.graph, meta |-> row.meta] \in E
        BY <2>1 DEF Row
      <3>3. \E x \in E : edit' = [edit EXCEPT ![e] = x]
        BY <1>1, <3>1, <3>2 DEF EditReads, EditCommits, EditAborts
      <3>4. edit \in [Editors -> E]
        BY DEF CoreTypeOK
      <3> HIDE DEF E
      <3>5. edit' \in [Editors -> E]
        BY <3>3, <3>4
      <3> QED
        BY <3>5 DEF E
    <2> QED
      BY <1>1, <2>2, <2>3 DEF CoreTypeOK, EditReads, EditCommits, EditAborts
  <1>2. ASSUME NEW d \in Removers, DeleteReads(d) \/ DeleteCommits(d) \/ DeleteAborts(d)
        PROVE  CoreTypeOK'
    <2>1. NoRow \in Row
      BY DEF NoRow, Row, Statuses
    <2>2. removal' \in [Removers -> [phase : {"idle", "read"}, arts : SUBSET Ticket]]
      BY <1>2 DEF CoreTypeOK, DeleteReads, DeleteCommits, DeleteAborts, IdleRemoval
    <2>3. row' \in Row /\ artifacts' \in SUBSET Ticket
      BY <1>2, <2>1 DEF CoreTypeOK, DeleteReads, DeleteCommits, DeleteAborts
    <2> QED
      BY <1>2, <2>2, <2>3 DEF CoreTypeOK, DeleteReads, DeleteCommits, DeleteAborts
  <1> QED
    BY <1>1, <1>2

LEMMA SendType ==
    ASSUME TypeOK, NEW w \in Runs, Send(w)
    PROVE  TypeOK'
  <1> DEFINE art == IF pc[w] = "complete" /\ Kind[w] = "generate"
                      THEN result[w] ELSE None
             new == [run |-> w, post |-> pc[w], attempt |-> attempt[w],
                     art |-> art, late |-> 0, phase |-> "sent", seen |-> NoView,
                     seenArts |-> {}]
  <1>1. art \in Ticket \cup {None} /\ attempt[w] \in Attempts /\ pc[w] \in Posts
    BY DEF TypeOK, RunTypeOK, Send, Posting
  <1>2. NoView \in View
    BY DEF NoView, View, Statuses
  <1>3. new \in Call
    BY <1>1, <1>2 DEF Call
  <1>4. calls' = calls \cup {new}
    BY DEF Send
  <1> QED
    BY <1>3, <1>4 DEF TypeOK, CoreTypeOK, RunTypeOK, Send, runVars, marks

\* The request a run waits for is that of the step it executes.
LEMMA LiveCallIsActive ==
    ASSUME TypeOK, LiveCalls, NEW c \in calls, c.late = 0
    PROVE  c \in Call /\ c.run \in Runs /\ Active(c.run) /\ pc[c.run] = c.post
  BY DEF TypeOK, CoreTypeOK, Call, LiveCalls, Posts, Statuses, Active

LEMMA CallStepType ==
    ASSUME TypeOK, LiveCalls, NEW c \in calls, CallStep(c)
    PROVE  TypeOK'
  <1> USE DEF TypeOK
  <1>0. c \in Call /\ c.run \in Runs
    BY DEF CoreTypeOK, Call
  <1>1. CASE CallIsRead(c)
    BY <1>1, CallReadType DEF CallIsRead, RunTypeOK, runVars, marks
  <1>2. CASE StatusAnswered(c)
    <2>1. CoreTypeOK'
      BY <1>2, CommitStatusType DEF StatusAnswered
    <2>2. RunTypeOK'
      BY <1>0, <1>2, LiveCallIsActive, StepReturnsType
         DEF StatusAnswered, RunTypeOK, runVars
    <2> QED
      BY <1>2, <2>1, <2>2 DEF StatusAnswered, marks
  <1>3. CASE UploadAnswered(c)
    <2>1. CoreTypeOK'
      BY <1>3, CommitUploadType DEF UploadAnswered
    <2>2. CASE c.late = 0
      <3>1. GoTo(c.run, Following(c.run)) /\ UNCHANGED <<holders, dirs>>
              /\ result' = [result EXCEPT ![c.run] = <<c.run, c.attempt>>]
        BY <1>3, <2>2 DEF UploadAnswered, UploadReturns
      <3>2. Following(c.run) \in StepsOf(Kind[c.run])
        BY <1>0, <2>2, LiveCallIsActive, FollowingIsStep DEF Active
      <3>3. <<c.run, c.attempt>> \in Ticket
        BY <1>0 DEF Call, Ticket
      <3>4. RunTypeOK'
        BY <1>0, <3>1, <3>2, <3>3, GoToType DEF RunTypeOK, Kinds
      <3> QED
        BY <1>3, <2>1, <3>4 DEF UploadAnswered, marks
    <2>3. CASE c.late # 0
      BY <1>3, <2>1, <2>3 DEF UploadAnswered, RunTypeOK, runVars, marks
    <2> QED
      BY <2>2, <2>3
  <1>4. CASE StatusRejected(c) \/ LateCallLost(c)
    BY <1>4 DEF StatusRejected,
                RejectStatus, LateCallLost, LoseCall, CoreTypeOK,
                RunTypeOK, runVars, marks
  <1>5. CASE UploadFails(c)
    <2>1. pc[c.run] \in DOMAIN MaxAttempts
      BY <1>0, <1>5, LiveCallIsActive DEF UploadFails, IsStatus, Call, Posts, MaxAttempts
    <2>2. RunTypeOK'
      BY <1>0, <1>5, <2>1, AttemptFailsType DEF UploadFails, RunTypeOK, Kinds
    <2> QED
      BY <1>5, <2>2 DEF UploadFails, LoseCall, CoreTypeOK, marks
  <1>6. CASE StatusAnswerLost(c)
    <2>1. CoreTypeOK'
      BY <1>6, CommitStatusType DEF StatusAnswerLost
    <2>2. lostAnswers' \in 0..MaxLost
      BY <1>6, MaxLostAssumption DEF StatusAnswerLost, LoseAnswer
    <2> QED
      BY <1>6, <2>1, <2>2 DEF StatusAnswerLost, LoseAnswer, RunTypeOK, runVars
  <1>7. CASE UploadAnswerLost(c)
    <2>1. CoreTypeOK'
      BY <1>7, CommitUploadType DEF UploadAnswerLost
    <2>2. lostAnswers' \in 0..MaxLost
      BY <1>7, MaxLostAssumption DEF UploadAnswerLost, LoseAnswer
    <2>3. pc[c.run] \in DOMAIN MaxAttempts
      BY <1>0, <1>7, LiveCallIsActive
         DEF UploadAnswerLost, CommitUpload, IsStatus, Call, Posts, MaxAttempts
    <2>4. RunTypeOK'
      BY <1>0, <1>7, <2>3, AttemptFailsType DEF UploadAnswerLost, RunTypeOK, Kinds
    <2> QED
      BY <1>7, <2>1, <2>2, <2>4 DEF UploadAnswerLost, LoseAnswer
  <1>8. CASE GiveUp(c)
    <2>1. lateCalls' \in 0..MaxLate /\ lateCalls' \in Nat
      BY <1>8, MaxLateAssumption DEF GiveUp
    <2>2. [c EXCEPT !.late = lateCalls + 1] \in Call
      BY <1>0, <1>8, <2>1 DEF Call, GiveUp
    <2>3. CoreTypeOK'
      BY <1>8, <2>2 DEF GiveUp, CoreTypeOK
    <2>4. CASE IsStatus(c)
      BY <1>8, <2>1, <2>3, <2>4 DEF GiveUp, RunTypeOK
    <2>5. CASE ~IsStatus(c)
      <3>1. pc[c.run] \in DOMAIN MaxAttempts
        BY <1>0, <1>8, <2>5, LiveCallIsActive DEF GiveUp, IsStatus, Call, Posts,
                                                  MaxAttempts
      <3>2. RunTypeOK'
        BY <1>0, <1>8, <2>5, <3>1, AttemptFailsType DEF GiveUp, RunTypeOK, Kinds
      <3> QED
        BY <1>8, <2>1, <2>3, <3>2 DEF GiveUp
    <2> QED
      BY <2>4, <2>5
  <1> QED
    BY <1>1, <1>2, <1>3, <1>4, <1>5, <1>6, <1>7, <1>8 DEF CallStep

LEMMA NextType ==
    ASSUME TypeOK, LiveCalls, [Next]_vars
    PROVE  TypeOK'
  <1>1. ASSUME NEW w \in Runs, StartStep(w)
        PROVE  TypeOK'
    <2>1. CASE Launch(w)
      <3>1. GoTo(w, FirstStep[Kind[w]]) /\ UNCHANGED <<result, holders, dirs>>
        BY <2>1 DEF Launch, LaunchRun
      <3>2. RunTypeOK'
        BY <3>1, GoToType, FirstStepIsStep, KindOfRun DEF TypeOK, RunTypeOK, Kinds
      <3>3. CoreTypeOK'
        BY <2>1 DEF Launch, StartMoves, TypeOK, CoreTypeOK, StartPhases
      <3> QED
        BY <2>1, <3>2, <3>3 DEF Launch, NoteOverlap, TypeOK
    <2>2. CASE ~Launch(w)
      BY <1>1, <2>2, StartRequestType DEF StartStep, TypeOK, RunTypeOK, runVars, marks
    <2> QED
      BY <2>1, <2>2
  <1>2. ASSUME NEW w \in Runs, Send(w)
        PROVE  TypeOK'
    BY <1>2, SendType
  <1>3. ASSUME NEW w \in Runs, ActivityStep(w)
        PROVE  TypeOK'
    BY <1>3, ActivityType DEF ActivityStep, TypeOK, CoreTypeOK, coreVars, NoteOverlap
  <1>4. ASSUME NEW c \in calls, CallStep(c)
        PROVE  TypeOK'
    BY <1>4, CallStepType
  <1>5. CASE UserStep
    BY <1>5, UserStepType DEF UserStep, TypeOK, RunTypeOK, runVars
  <1>6. CASE UNCHANGED vars
    BY <1>6 DEF vars, coreVars, runVars, TypeOK, CoreTypeOK, RunTypeOK, marks
  <1> QED
    BY <1>1, <1>2, <1>3, <1>4, <1>5, <1>6 DEF Next

-----------------------------------------------------------------------------
(* Where a run goes from a step.                                           *)

NoWork == {"unborn", "done", "error", "cleanup_clone", "cleanup_after_failure"}

LEMMA WorkingMeans == \A w \in Runs : Working(w) <=> pc[w] \notin NoWork
  BY DEF Working, Active, NoWork

LEMMA StepsTable ==
    \A k \in Kinds : \A s \in DOMAIN Steps[k] :
        /\ Steps[k][s] # "unborn"
        /\ s \notin Terminal \cup {"cleanup_clone"} => Steps[k][s] \notin NoWork
        /\ s = "generating" => Steps[k][s] = "generate_packages"
        /\ s = "generate_packages" => Steps[k][s] \in {"packaging", "publishing"}
        /\ s = "upload_artifact" => Steps[k][s] = "complete"
  BY DEF Kinds, ParseKinds, GenerateKinds, Steps, Terminal, NoWork,
         ParseSteps, PyPIParseSteps, GenerateSteps, PublishSteps

\* What GoTo(w, Following(w)) reaches from a step that is in the tables.
LEMMA FollowingTable ==
    ASSUME RunTypeOK, NEW w \in Runs,
           pc[w] \notin {"unborn", "done", "error"}
    PROVE  /\ Following(w) # "unborn"
           /\ pc[w] \notin Terminal \cup {"cleanup_clone", "cleanup_after_failure"}
                => Following(w) \notin NoWork
           /\ pc[w] = "generating" => Following(w) = "generate_packages"
           /\ pc[w] = "generate_packages" => Following(w) \in {"packaging", "publishing"}
           /\ pc[w] = "upload_artifact" => Following(w) = "complete"
  <1>1. CASE pc[w] \in {"failed", "cleanup_after_failure"}
    BY <1>1 DEF Following, Terminal
  <1>2. CASE pc[w] \notin {"failed", "cleanup_after_failure"}
    <2>1. Kind[w] \in Kinds /\ pc[w] \in DOMAIN Steps[Kind[w]]
      BY <1>2, KindOfRun DEF RunTypeOK, StepsOf, ExtraSteps
    <2>2. Following(w) = Steps[Kind[w]][pc[w]]
      BY <1>2 DEF Following
    <2> QED
      BY <2>1, <2>2, StepsTable
  <1> QED
    BY <1>1, <1>2

LEMMA GoToPc ==
    ASSUME RunTypeOK, NEW w \in Runs, NEW s, GoTo(w, s)
    PROVE  pc'[w] = s /\ \A v \in Runs \ {w} : pc'[v] = pc[v]
  BY DEF RunTypeOK, GoTo

\* A failed attempt leaves the run where it is or moves it to a step from
\* which it still posts, unless it was removing a directory.
LEMMA AttemptFailsPc ==
    ASSUME RunTypeOK, NEW w \in Runs, AttemptFails(w)
    PROVE  /\ \A v \in Runs \ {w} : pc'[v] = pc[v]
           /\ pc'[w] \in {pc[w], AfterFailure(w)}
  BY GoToPc DEF AttemptFails, RunTypeOK

LEMMA AfterFailureTable ==
    ASSUME NEW w \in Runs
    PROVE  /\ AfterFailure(w) # "unborn"
           /\ pc[w] # "cleanup_after_failure" => AfterFailure(w) \notin NoWork
           /\ pc[w] \in {"generate_packages", "upload_artifact"}
                => AfterFailure(w) = "failed"
  BY DEF AfterFailure, NoWork

LEMMA ActivityPc ==
    ASSUME RunTypeOK, NEW w \in Runs, ActivityStep(w)
    PROVE  /\ pc[w] \notin Posts \cup {"unborn", "done", "error"}
           /\ pc'[w] # "unborn"
           /\ \A v \in Runs \ {w} : pc'[v] = pc[v]
           /\ pc[w] \notin NoWork => pc'[w] \notin NoWork
           /\ pc[w] = "generate_packages"
                => pc'[w] \in {"generate_packages", "packaging", "publishing", "failed"}
  <1>1. CASE FetchReturns(w) \/ PlainReturns(w) \/ CleanupReturns(w)
    <2>1. pc[w] \notin Posts \cup {"unborn", "done", "error"}
      BY <1>1 DEF FetchReturns, PlainReturns, CleanupReturns, Fetches,
                  PlainActivities, Posts, Statuses
    <2>2. GoTo(w, Following(w))
      BY <1>1 DEF FetchReturns, PlainReturns, CleanupReturns, StepReturns
    <2>3. pc[w] \notin Terminal
      BY <2>1 DEF Posts, Statuses, Terminal
    <2> QED
      BY <2>1, <2>2, <2>3, GoToPc, FollowingTable DEF NoWork
  <1>2. CASE ActivityFails(w)
    <2>1. pc[w] \notin Posts \cup {"unborn", "done", "error"} /\ AttemptFails(w)
      BY <1>2 DEF ActivityFails, MaxAttempts, Posts, Statuses
    <2> QED
      BY <2>1, AttemptFailsPc, AfterFailureTable DEF NoWork
  <1> QED
    BY <1>1, <1>2 DEF ActivityStep

\* What the answer to a live request does to the run that waits for it.
LEMMA AnswerPc ==
    ASSUME TypeOK, LiveCalls, NEW c \in calls, c.late = 0,
           \/ StatusAnswered(c)
           \/ UploadAnswered(c)
           \/ UploadFails(c)
           \/ UploadAnswerLost(c)
           \/ (GiveUp(c) /\ ~IsStatus(c))
    PROVE  /\ \A v \in Runs \ {c.run} : pc'[v] = pc[v]
           /\ pc'[c.run] # "unborn"
           /\ c.post \notin Terminal => pc'[c.run] \notin NoWork
           /\ (IsStatus(c) /\ pc[c.run] = "generating")
                => pc'[c.run] = "generate_packages"
  <1> PICK w \in Runs : w = c.run
    BY DEF TypeOK, CoreTypeOK, Call
  <1>1. w \in Runs /\ Active(w) /\ pc[w] = c.post /\ RunTypeOK /\ c \in Call
    BY LiveCallIsActive DEF TypeOK
  <1>2. c.post \notin {"cleanup_clone", "cleanup_after_failure"}
    BY <1>1 DEF Call, Posts, Statuses
  <1>3. CASE StatusAnswered(c)
    <2>1. GoTo(w, Following(w))
      BY <1>3 DEF StatusAnswered, StepReturns
    <2> QED
      BY <1>1, <1>2, <2>1, GoToPc, FollowingTable DEF Active
  <1>4. CASE UploadAnswered(c)
    <2>1. GoTo(w, Following(w)) /\ ~IsStatus(c)
      BY <1>4 DEF UploadAnswered, UploadReturns, CommitUpload
    <2> QED
      BY <1>1, <1>2, <2>1, GoToPc, FollowingTable DEF Active
  <1>5. CASE UploadFails(c) \/ UploadAnswerLost(c) \/ (GiveUp(c) /\ ~IsStatus(c))
    <2>1. AttemptFails(w) /\ ~IsStatus(c)
      BY <1>5 DEF UploadFails, UploadAnswerLost, CommitUpload, GiveUp
    <2>2. pc'[w] \in {pc[w], AfterFailure(w)}
      BY <1>1, <2>1, AttemptFailsPc
    <2>3. pc'[w] \notin NoWork
      BY <1>1, <1>2, <2>2, AfterFailureTable DEF NoWork, Active
    <2> QED
      BY <1>1, <2>1, <2>3, AttemptFailsPc DEF NoWork
  <1> QED
    BY <1>3, <1>4, <1>5

-----------------------------------------------------------------------------
(* Every step keeps each part of IInv.                                     *)

\* The steps that leave the runs and the requests in flight alone.
LEMMA QuietSteps ==
    ASSUME \/ \E w \in Runs : StartStep(w) /\ ~Launch(w)
           \/ UserStep
           \/ UNCHANGED vars
    PROVE  UNCHANGED <<runVars, calls, lateCalls>>
  BY DEF StartStep, CreateService, CheckGenerate, FlushGenerating, CommitStart,
         AbortStart, UserStep, EditReads, EditCommits, EditAborts, DeleteReads,
         DeleteCommits, DeleteAborts, vars, coreVars, runVars, marks

\* How one request's step changes the set of requests.
LEMMA CallStepCalls ==
    ASSUME TypeOK, NEW c \in calls, CallStep(c)
    PROVE  \/ /\ calls' = calls \ {c} /\ lateCalls' = lateCalls
           \/ \E d : /\ calls' = (calls \ {c}) \cup {d}
                     /\ d.run = c.run /\ d.post = c.post
                     /\ \/ /\ CallIsRead(c) /\ d.late = c.late /\ lateCalls' = lateCalls
                           /\ IsStatus(c) => (ReadService(c) /\ d.seen = ViewOf(row))
                        \/ /\ GiveUp(c) /\ d.late > 0 /\ lateCalls' > 0
                           /\ d.phase = c.phase /\ d.seen = c.seen
  <1>1. c \in Call /\ lateCalls \in Nat
    BY MaxLateAssumption DEF TypeOK, CoreTypeOK
  <1>2. CASE CallIsRead(c)
    <2>1. CASE ReadService(c)
      <3> DEFINE d == [c EXCEPT !.phase = "read", !.seen = ViewOf(row)]
      <3>1. d.run = c.run /\ d.post = c.post /\ d.late = c.late /\ d.seen = ViewOf(row)
        BY <1>1 DEF Call
      <3>2. calls' = (calls \ {c}) \cup {d}
        BY <2>1 DEF ReadService
      <3> QED
        BY <1>2, <2>1, <3>1, <3>2 DEF CallIsRead, marks
    <2>2. CASE ReadArtifacts(c)
      <3> DEFINE d == [c EXCEPT !.phase = "read", !.seenArts = artifacts]
      <3>1. d.run = c.run /\ d.post = c.post /\ d.late = c.late
        BY <1>1 DEF Call
      <3>2. calls' = (calls \ {c}) \cup {d} /\ ~IsStatus(c)
        BY <2>2 DEF ReadArtifacts
      <3> QED
        BY <1>2, <3>1, <3>2 DEF CallIsRead, marks
    <2> QED
      BY <1>2, <2>1, <2>2 DEF CallIsRead
  <1>3. CASE GiveUp(c)
    <2> DEFINE d == [c EXCEPT !.late = lateCalls + 1]
    <2>1. /\ d.run = c.run /\ d.post = c.post /\ d.late = lateCalls + 1
          /\ d.phase = c.phase /\ d.seen = c.seen
      BY <1>1 DEF Call
    <2>2. calls' = (calls \ {c}) \cup {d} /\ lateCalls' = lateCalls + 1
      BY <1>3 DEF GiveUp
    <2>3. lateCalls + 1 > 0
      BY <1>1
    <2> QED
      BY <1>3, <2>1, <2>2, <2>3
  <1>4. CASE ~CallIsRead(c) /\ ~GiveUp(c)
    BY <1>4 DEF CallStep, StatusAnswered, CommitStatus, UploadAnswered, CommitUpload,
                StatusRejected, StatusAnswerLost, UploadAnswerLost, LoseAnswer,
                RejectStatus, UploadFails, LateCallLost, LoseCall, marks
  <1> QED
    BY <1>2, <1>3, <1>4

\* How one request's step moves the runs: only the run that waits for it.
LEMMA CallStepPc ==
    ASSUME TypeOK, LiveCalls, NEW c \in calls, CallStep(c)
    PROVE  \/ pc' = pc
           \/ /\ c.late = 0
              /\ ~CallIsRead(c)
              /\ GiveUp(c) => ~IsStatus(c)
              /\ \A v \in Runs \ {c.run} : pc'[v] = pc[v]
              /\ pc'[c.run] # "unborn"
              /\ c.post \notin Terminal => pc'[c.run] \notin NoWork
              /\ (IsStatus(c) /\ pc[c.run] = "generating")
                   => pc'[c.run] = "generate_packages"
  <1>1. CASE CallIsRead(c) \/ StatusRejected(c) \/ LateCallLost(c)
               \/ StatusAnswerLost(c)
               \/ (c.late # 0 /\ (StatusAnswered(c) \/ UploadAnswered(c)))
               \/ (GiveUp(c) /\ IsStatus(c))
    BY <1>1 DEF CallIsRead, StatusRejected, StatusAnswerLost, UploadAnswerLost,
                LoseAnswer, LateCallLost, StatusAnswered,
                UploadAnswered, GiveUp, runVars
  <1>2. CASE /\ c.late = 0 /\ ~CallIsRead(c) /\ ~(GiveUp(c) /\ IsStatus(c))
             /\ \/ StatusAnswered(c)
                \/ UploadAnswered(c)
                \/ UploadFails(c)
                \/ UploadAnswerLost(c)
                \/ (GiveUp(c) /\ ~IsStatus(c))
    BY <1>2, AnswerPc
  <1> QED
    BY <1>1, <1>2 DEF CallStep, UploadFails, UploadAnswerLost, GiveUp

LEMMA FirstStepTable ==
    \A k \in Kinds : FirstStep[k] \notin NoWork
  BY DEF Kinds, ParseKinds, GenerateKinds, FirstStep, NoWork

LEMMA LaunchPc ==
    ASSUME TypeOK, StartOrder, NEW w \in Runs, Launch(w)
    PROVE  /\ pc[w] = "unborn" /\ start[w] = "flushed"
           /\ pc'[w] = FirstStep[Kind[w]] /\ pc'[w] \notin NoWork
           /\ \A v \in Runs \ {w} : pc'[v] = pc[v]
  BY GoToPc, FirstStepTable, KindOfRun
     DEF TypeOK, StartOrder, Launch, StartMoves, LaunchRun

LEMMA SendAdds ==
    ASSUME NEW w \in Runs, Send(w)
    PROVE  \E d : /\ calls' = calls \cup {d}
                  /\ d.run = w /\ d.post = pc[w] /\ d.late = 0 /\ d.phase = "sent"
  <1> DEFINE art == IF pc[w] = "complete" /\ Kind[w] = "generate"
                      THEN result[w] ELSE None
             d == [run |-> w, post |-> pc[w], attempt |-> attempt[w],
                   art |-> art, late |-> 0, phase |-> "sent", seen |-> NoView,
                   seenArts |-> {}]
  <1>1. calls' = calls \cup {d}
    BY DEF Send
  <1>2. d.run = w /\ d.post = pc[w] /\ d.late = 0 /\ d.phase = "sent"
    OBVIOUS
  <1> QED
    BY <1>1, <1>2

LEMMA LiveCallsStep ==
    ASSUME TypeOK, LiveCalls, StartOrder, [Next]_vars
    PROVE  LiveCalls'
  <1>0. \A c \in calls : c \in Call /\ c.run \in Runs /\ c.late \in Nat
    BY DEF TypeOK, CoreTypeOK, Call
  <1>1. ASSUME NEW w \in Runs, Launch(w)
        PROVE  LiveCalls'
    <2>1. calls' = calls /\ lateCalls' = lateCalls
      BY <1>1 DEF Launch, NoteOverlap
    <2>2. \A c \in calls : c.run # w
      BY <1>1, LaunchPc DEF LiveCalls
    <2>3. \A c \in calls : pc'[c.run] = pc[c.run]
      BY <1>0, <1>1, <2>2, LaunchPc
    <2> QED
      BY <2>1, <2>3 DEF LiveCalls
  <1>2. CASE \/ \E w \in Runs : StartStep(w) /\ ~Launch(w)
             \/ UserStep
             \/ UNCHANGED vars
    <2>1. UNCHANGED <<runVars, calls, lateCalls>>
      BY <1>2, QuietSteps
    <2> QED
      BY <2>1 DEF LiveCalls, runVars
  <1>3. ASSUME NEW w \in Runs, Send(w)
        PROVE  LiveCalls'
    <2>1. pc' = pc /\ lateCalls' = lateCalls
      BY <1>3 DEF Send, runVars, marks
    <2>2. PICK d : calls' = calls \cup {d} /\ d.run = w /\ d.post = pc[w] /\ d.late = 0
      BY <1>3, SendAdds
    <2>3. \A c \in calls : c.run = w => c.late # 0
      BY <1>0, <1>3 DEF Send
    <2>4. pc[w] # "unborn" /\ pc[w] \in StepsOf(Kind[w])
      BY <1>3 DEF Send, Posting, Active, TypeOK, RunTypeOK
    <2> QED
      BY <2>1, <2>2, <2>3, <2>4 DEF LiveCalls
  <1>4. ASSUME NEW w \in Runs, ActivityStep(w)
        PROVE  LiveCalls'
    <2>1. calls' = calls /\ lateCalls' = lateCalls
      BY <1>4 DEF ActivityStep, NoteOverlap, coreVars
    <2>2. \A c \in calls : c.late = 0 => c.run # w
      BY <1>0, <1>4, ActivityPc DEF LiveCalls, TypeOK, Call
    <2>3. \A v \in Runs : pc'[v] = pc[v] \/ (v = w /\ pc'[v] # "unborn")
      BY <1>4, ActivityPc DEF TypeOK
    <2> QED
      BY <1>0, <2>1, <2>2, <2>3 DEF LiveCalls
  <1>5. ASSUME NEW c \in calls, CallStep(c)
        PROVE  LiveCalls'
    <2>1. CASE calls' = calls \ {c} /\ lateCalls' = lateCalls
      <3>1. \A b \in calls' : b.late = 0 => pc'[b.run] = pc[b.run]
        BY <1>0, <1>5, <2>1, CallStepPc DEF LiveCalls
      <3>2. \A b \in calls' : pc'[b.run] # "unborn"
        BY <1>0, <1>5, <2>1, CallStepPc DEF LiveCalls
      <3> QED
        BY <2>1, <3>1, <3>2 DEF LiveCalls
    <2>2. ASSUME NEW d, calls' = (calls \ {c}) \cup {d}, d.run = c.run, d.post = c.post,
                 \/ CallIsRead(c) /\ d.late = c.late /\ lateCalls' = lateCalls
                 \/ GiveUp(c) /\ d.late > 0 /\ lateCalls' > 0
          PROVE  LiveCalls'
      <3>1. CASE CallIsRead(c) /\ d.late = c.late /\ lateCalls' = lateCalls
        <4>1. pc' = pc
          BY <3>1 DEF CallIsRead, runVars
        <4> QED
          BY <2>2, <3>1, <4>1 DEF LiveCalls
      <3>2. CASE GiveUp(c) /\ d.late > 0 /\ lateCalls' > 0
        <4>1. c.late = 0 /\ d.late # 0 /\ lateCalls' # 0
          BY <3>2 DEF GiveUp
        <4>2. \A b \in calls \ {c} : b.late = 0 => pc'[b.run] = pc[b.run]
          BY <1>0, <1>5, <4>1, CallStepPc DEF LiveCalls
        <4>3. \A b \in calls : pc'[b.run] # "unborn"
          BY <1>0, <1>5, CallStepPc DEF LiveCalls
        <4> QED
          BY <2>2, <4>1, <4>2, <4>3 DEF LiveCalls
      <3> QED
        BY <2>2, <3>1, <3>2
    <2> QED
      BY <1>5, <2>1, <2>2, CallStepCalls
  <1> QED
    BY <1>1, <1>2, <1>3, <1>4, <1>5 DEF Next, StartStep

LEMMA KindsApart == \A w \in Runs : Parsing(w) <=> ~Generating(w)
  BY KindAssumption DEF Parsing, Generating, ParseKinds, GenerateKinds

LEMMA StartMovesOne ==
    ASSUME TypeOK, NEW w \in Runs, NEW from, NEW to, StartMoves(w, from, to)
    PROVE  start[w] \in from /\ start'[w] = to
             /\ \A v \in Runs \ {w} : start'[v] = start[v]
  BY DEF TypeOK, CoreTypeOK, StartMoves

\* The requests in flight and the users' requests leave starts and locks alone;
\* they write only a row that is present and that no start has locked.
LEMMA RowWrites ==
    ASSUME TypeOK,
           \/ \E c \in calls : CallStep(c)
           \/ UserStep
           \/ UNCHANGED vars
    PROVE  /\ start' = start /\ lock' = lock
           /\ row' = row \/ (lock = None /\ row.present)
           /\ row'.present => row.present
  <1>0. row \in Row
    BY DEF TypeOK, CoreTypeOK
  <1>1. ASSUME NEW c \in calls, StatusAnswered(c) \/ StatusAnswerLost(c)
        PROVE  /\ start' = start /\ lock' = lock
               /\ row' = row \/ (lock = None /\ row.present)
    BY <1>1 DEF StatusAnswered, StatusAnswerLost, CommitStatus
  <1>2. ASSUME NEW c \in calls, CallStep(c), ~StatusAnswered(c), ~StatusAnswerLost(c)
        PROVE  /\ start' = start /\ lock' = lock
               /\ row' = row \/ (lock = None /\ row.present)
    BY <1>2 DEF CallStep, CallIsRead, ReadService, ReadArtifacts, UploadAnswered,
                CommitUpload, StatusRejected, StatusAnswerLost, UploadAnswerLost,
                LoseAnswer, RejectStatus, UploadFails, LoseCall,
                GiveUp, LateCallLost
  <1>3. CASE UserStep
    BY <1>0, <1>3 DEF UserStep, EditReads, EditCommits, EditAborts, DeleteReads,
                      DeleteCommits, DeleteAborts, NoRow, Row
  <1>4. CASE UNCHANGED vars
    BY <1>4 DEF vars, coreVars
  <1> QED
    BY <1>1, <1>2, <1>3, <1>4

\* The steps of the runs themselves write nothing of Core's.
LEMMA RunWrites ==
    ASSUME NEW w \in Runs, Send(w) \/ ActivityStep(w)
    PROVE  start' = start /\ lock' = lock /\ row' = row /\ artifacts' = artifacts
  BY DEF Send, ActivityStep, coreVars

\* A run that was not launched does not move.
LEMMA UnbornStays ==
    ASSUME TypeOK, LiveCalls, NEW v \in Runs, pc[v] = "unborn", [Next]_vars,
           ~Launch(v)
    PROVE  pc'[v] = "unborn"
  <1>1. ASSUME NEW w \in Runs, StartStep(w)
        PROVE  pc'[v] = "unborn"
    <2>1. CASE Launch(w)
      BY <2>1, GoToPc DEF Launch, LaunchRun, TypeOK
    <2>2. CASE ~Launch(w)
      BY <1>1, <2>2, QuietSteps DEF runVars
    <2> QED
      BY <2>1, <2>2
  <1>2. ASSUME NEW w \in Runs, Send(w)
        PROVE  pc'[v] = "unborn"
    BY <1>2 DEF Send, runVars
  <1>3. ASSUME NEW w \in Runs, ActivityStep(w)
        PROVE  pc'[v] = "unborn"
    BY <1>3, ActivityPc DEF TypeOK
  <1>4. ASSUME NEW c \in calls, CallStep(c)
        PROVE  pc'[v] = "unborn"
    BY <1>4, CallStepPc DEF LiveCalls
  <1>5. CASE UserStep \/ UNCHANGED vars
    BY <1>5, QuietSteps DEF runVars
  <1> QED
    BY <1>1, <1>2, <1>3, <1>4, <1>5 DEF Next

LEMMA StartOrderStep ==
    ASSUME TypeOK, LiveCalls, StartOrder, LockHeld, [Next]_vars
    PROVE  StartOrder'
  <1>0. TypeOK'
    BY NextType
  <1>1. ASSUME NEW w \in Runs, StartStep(w)
        PROVE  StartOrder'
    <2>0. row \in Row
      BY DEF TypeOK, CoreTypeOK
    <2>1. CASE CreateService(w)
      <3>1. start[w] = "none" /\ start'[w] = "flushed" /\ pc' = pc /\ row' = row
        BY <1>1, <2>1, StartMovesOne, QuietSteps
           DEF CreateService, Launch, StartMoves, runVars
      <3>2. \A v \in Runs \ {w} : start'[v] = start[v]
        BY <2>1, StartMovesOne DEF CreateService
      <3> QED
        BY <2>1, <3>1, <3>2, KindsApart DEF StartOrder, CreateService, Parsing, Generating
    <2>2. CASE CheckGenerate(w)
      <3>1. start[w] = "none" /\ start'[w] = "checked" /\ pc' = pc /\ row' = row
        BY <1>1, <2>2, StartMovesOne, QuietSteps
           DEF CheckGenerate, Launch, StartMoves, runVars
      <3>2. \A v \in Runs \ {w} : start'[v] = start[v]
        BY <2>2, StartMovesOne DEF CheckGenerate
      <3>3. Generating(w) /\ row.present
        BY <2>2 DEF CheckGenerate, Generating
      <3> QED
        BY <3>1, <3>2, <3>3, KindsApart DEF StartOrder
    <2>3. CASE FlushGenerating(w)
      <3>1. start[w] = "checked" /\ start'[w] = "flushed" /\ pc' = pc /\ row' = row
        BY <1>1, <2>3, StartMovesOne, QuietSteps
           DEF FlushGenerating, Launch, StartMoves, runVars
      <3>2. \A v \in Runs \ {w} : start'[v] = start[v]
        BY <2>3, StartMovesOne DEF FlushGenerating
      <3> QED
        BY <3>1, <3>2 DEF StartOrder
    <2>4. CASE CommitStart(w)
      <3>1. start[w] = "launched" /\ start'[w] = "committed" /\ pc' = pc
        BY <1>1, <2>4, StartMovesOne, QuietSteps
           DEF CommitStart, Launch, StartMoves, runVars
      <3>2. \A v \in Runs \ {w} : start'[v] = start[v]
        BY <2>4, StartMovesOne DEF CommitStart
      <3>3. \E v \in Runs : Parsing(v) /\ start'[v] = "committed"
        <4>1. CASE Parsing(w)
          BY <3>1, <4>1
        <4>2. CASE Generating(w)
          <5>1. PICK v \in Runs : Parsing(v) /\ start[v] = "committed"
            BY <3>1, <4>2 DEF StartOrder
          <5> QED
            BY <3>1, <3>2, <5>1
        <4> QED
          BY <4>1, <4>2, KindsApart
      <3>4. \A v \in Runs : /\ start'[v] # "none" => start[v] # "none"
                            /\ start'[v] \in {"none", "checked", "flushed"}
                                 => start'[v] = start[v]
        BY <3>1, <3>2
      <3>5. \A v \in Runs :
              /\ start'[v] \in {"none", "checked", "flushed"} => pc'[v] = "unborn"
              /\ start'[v] = "checked" => Generating(v)
        BY <3>1, <3>4 DEF StartOrder
      <3>6. \A u, v \in Runs : (Parsing(u) /\ Parsing(v) /\ start'[u] # "none"
                                 /\ start'[v] # "none") => u = v
        BY <3>4 DEF StartOrder
      <3> QED
        BY <3>3, <3>5, <3>6 DEF StartOrder
    <2>5. CASE AbortStart(w)
      <3>1. start[w] \in {"checked", "flushed", "launched"} /\ start'[w] = "aborted"
        BY <2>5, StartMovesOne DEF AbortStart
      <3>2. ~Launch(w)
        BY <3>1, StartMovesOne DEF Launch
      <3>3. pc' = pc /\ row' = row
        BY <1>1, <2>5, <3>2, QuietSteps DEF AbortStart, runVars
      <3>4. \A v \in Runs \ {w} : start'[v] = start[v]
        BY <2>5, StartMovesOne DEF AbortStart
      <3> QED
        BY <3>1, <3>4, <3>3 DEF StartOrder
    <2>6. CASE Launch(w)
      <3>1. start[w] = "flushed" /\ start'[w] = "launched" /\ row' = row
        BY <2>6, StartMovesOne DEF Launch
      <3>2. \A v \in Runs \ {w} : start'[v] = start[v] /\ pc'[v] = pc[v]
        BY <2>6, StartMovesOne, LaunchPc DEF Launch
      <3> QED
        BY <3>1, <3>2 DEF StartOrder
    <2> QED
      BY <1>1, <2>1, <2>2, <2>3, <2>4, <2>5, <2>6 DEF StartStep
  <1>2. CASE ~\E w \in Runs : StartStep(w)
    <2>1. start' = start /\ (row'.present => row.present)
      BY <1>2, RowWrites, RunWrites DEF Next
    <2>2. \A v \in Runs : pc[v] = "unborn" => pc'[v] = "unborn"
      BY <1>2, UnbornStays DEF StartStep
    <2> QED
      BY <2>1, <2>2 DEF StartOrder
  <1> QED
    BY <1>1, <1>2

LEMMA LockHeldStep ==
    ASSUME TypeOK, LiveCalls, StartOrder, LockHeld, [Next]_vars
    PROVE  LockHeld'
  <1>0. None \notin Runs
    BY NoneAssumption
  <1>1. ASSUME NEW w \in Runs, StartStep(w)
        PROVE  LockHeld'
    <2>1. CASE CreateService(w)
      <3>1. start[w] = "none" /\ row' = row /\ lock' = lock
              /\ \A v \in Runs \ {w} : start'[v] = start[v]
        BY <2>1, StartMovesOne DEF CreateService
      <3>2. ~Generating(w)
        BY <2>1, KindsApart DEF CreateService, Parsing
      <3> QED
        BY <3>1, <3>2 DEF LockHeld, TypeOK, CoreTypeOK
    <2>2. CASE CheckGenerate(w)
      <3>1. start[w] = "none" /\ start'[w] = "checked" /\ row' = row /\ lock' = lock
              /\ \A v \in Runs \ {w} : start'[v] = start[v]
        BY <2>2, StartMovesOne DEF CheckGenerate
      <3> QED
        BY <3>1 DEF LockHeld, TypeOK, CoreTypeOK
    <2>3. CASE FlushGenerating(w)
      <3>1. start[w] = "checked" /\ start'[w] = "flushed" /\ row' = row
              /\ \A v \in Runs \ {w} : start'[v] = start[v]
        BY <2>3, StartMovesOne DEF FlushGenerating
      <3>2. lock = None /\ lock' = w /\ row.present
        BY <2>3 DEF FlushGenerating
      <3>3. Generating(w)
        BY <3>1 DEF StartOrder
      <3> QED
        BY <1>0, <3>1, <3>2, <3>3 DEF LockHeld
    <2>4. CASE CommitStart(w)
      <3>1. start[w] = "launched" /\ start'[w] = "committed"
              /\ \A v \in Runs \ {w} : start'[v] = start[v]
        BY <2>4, StartMovesOne DEF CommitStart
      <3>2. CASE Generating(w)
        <4>1. lock = w /\ lock' = None
          BY <2>4, <3>1, <3>2 DEF LockHeld, CommitStart
        <4> QED
          BY <1>0, <3>1, <4>1 DEF LockHeld
      <3>3. CASE Parsing(w)
        <4>1. lock # w /\ lock' = lock
          BY <1>0, <2>4, <3>3, KindsApart DEF LockHeld, CommitStart
        <4>2. row' = [NoRow EXCEPT !.present = TRUE,
                                   !.status = IF Kind[w] = "github"
                                                THEN "cloning" ELSE "downloading"]
          BY <2>4, <3>3 DEF CommitStart, Parsing
        <4>3. row'.present
          BY <4>2 DEF NoRow
        <4> QED
          BY <3>1, <3>3, <4>1, <4>3, KindsApart DEF LockHeld, TypeOK, CoreTypeOK
      <3> QED
        BY <3>2, <3>3, KindsApart
    <2>5. CASE AbortStart(w)
      <3>1. start'[w] = "aborted" /\ row' = row
              /\ \A v \in Runs \ {w} : start'[v] = start[v]
        BY <2>5, StartMovesOne DEF AbortStart
      <3>2. lock' = IF lock = w THEN None ELSE lock
        BY <2>5 DEF AbortStart
      <3> QED
        BY <1>0, <3>1, <3>2 DEF LockHeld, TypeOK, CoreTypeOK
    <2>6. CASE Launch(w)
      <3>1. start[w] = "flushed" /\ start'[w] = "launched" /\ row' = row /\ lock' = lock
              /\ \A v \in Runs \ {w} : start'[v] = start[v]
        BY <2>6, StartMovesOne DEF Launch
      <3> QED
        BY <3>1 DEF LockHeld, TypeOK, CoreTypeOK
    <2> QED
      BY <1>1, <2>1, <2>2, <2>3, <2>4, <2>5, <2>6 DEF StartStep
  <1>2. CASE ~\E w \in Runs : StartStep(w)
    <2>1. start' = start /\ lock' = lock /\ (row' = row \/ lock = None)
      BY <1>2, RowWrites, RunWrites DEF Next
    <2> QED
      BY <2>1 DEF LockHeld
  <1> QED
    BY <1>1, <1>2

\* LaunchedWaits for one run.
LW(w) ==
    start[w] = "launched" =>
        /\ Parsing(w) =>
              /\ pc[w] = FirstStep[Kind[w]]
              /\ \A c \in calls : (c.run = w /\ IsStatus(c)) => c.phase = "sent"
        /\ Generating(w) =>
              /\ \/ pc[w] = "generating"
                 \/ /\ row.status = "generating"
                    /\ pc[w] \in {"generate_packages", "packaging",
                                  "publishing", "failed"}
              /\ \A c \in calls : c.run = w =>
                    /\ IsStatus(c)
                    /\ c.phase = "read" => c.seen.status = row.status

LEMMA LaunchedWaitsIsLW == LaunchedWaits <=> \A w \in Runs : LW(w)
  BY DEF LaunchedWaits, LW

\* While a parse request is launched and not ended there is no service, and
\* while a generate request is, nobody else ends a start or writes the row.
LEMMA LaunchedAlone ==
    ASSUME TypeOK, StartOrder, LockHeld, NEW v \in Runs, start[v] = "launched"
    PROVE  /\ Parsing(v) => ~row.present
           /\ Generating(v) => lock = v /\ lock # None /\ row.present
           /\ Generating(v) => \A w \in Runs \ {v} : start[w] # "launched"
  <1>1. Parsing(v) => ~row.present
    BY DEF StartOrder
  <1>2. Generating(v) => lock = v /\ lock # None /\ row.present
    BY NoneAssumption DEF LockHeld
  <1>3. ASSUME NEW w \in Runs \ {v}, start[w] = "launched"
        PROVE  ~Generating(v)
    <2>1. CASE Generating(v)
      <3>1. ~Generating(w)
        BY <1>2, <1>3, <2>1 DEF LockHeld
      <3>2. PICK u \in Runs : Parsing(u) /\ start[u] = "committed"
        BY <2>1 DEF StartOrder
      <3>3. Parsing(w)
        BY <1>3, <3>1, KindsApart
      <3> QED
        BY <1>3, <3>2, <3>3 DEF StartOrder
    <2> QED
      BY <2>1
  <1> QED
    BY <1>1, <1>2, <1>3

\* A request's step, seen by a start request that is launched and not ended.
LEMMA LaunchedWaitsCall ==
    ASSUME TypeOK, LiveCalls, StartOrder, LockHeld, NEW c \in calls, CallStep(c),
           NEW v \in Runs, start[v] = "launched", LW(v)
    PROVE  LW(v)'
  <1>0. c \in Call /\ c.run \in Runs /\ start' = start
    BY RowWrites DEF TypeOK, CoreTypeOK, Call
  <1>1. CASE Parsing(v)
    <2>1. ~row.present /\ pc[v] = FirstStep[Kind[v]]
      BY <1>1, LaunchedAlone DEF LW
    <2>2. pc[v] \in Statuses
      BY <1>1, <2>1 DEF Parsing, ParseKinds, FirstStep, Statuses
    <2>3. pc'[v] = pc[v]
      <3>1. CASE c.run = v /\ c.late = 0
        <4>1. c.post = pc[v] /\ IsStatus(c) /\ c.phase = "sent"
          BY <1>1, <2>2, <3>1 DEF LiveCalls, LW, IsStatus
        <4> QED
          BY <4>1 DEF CallStep, CallIsRead, StatusAnswered, CommitStatus, UploadAnswered,
                      CommitUpload, StatusRejected, StatusAnswerLost, UploadAnswerLost,
                      LoseAnswer, UploadFails, GiveUp, LateCallLost,
                      runVars
      <3>2. CASE ~(c.run = v /\ c.late = 0)
        BY <3>2, CallStepPc
      <3> QED
        BY <3>1, <3>2
    <2>4. \A b \in calls' : (b.run = v /\ IsStatus(b)) => b.phase = "sent"
      <3>1. CASE calls' = calls \ {c}
        BY <1>1, <3>1 DEF LW
      <3>2. ASSUME NEW d, calls' = (calls \ {c}) \cup {d}, d.run = c.run, d.post = c.post,
                   \/ IsStatus(c) => ReadService(c)
                   \/ d.phase = c.phase
            PROVE  \A b \in calls' : (b.run = v /\ IsStatus(b)) => b.phase = "sent"
        BY <1>1, <2>1, <3>2 DEF LW, IsStatus, ReadService
      <3> QED
        BY <3>1, <3>2, CallStepCalls
    <2> QED
      BY <1>1, <2>1, <2>3, <2>4, KindsApart DEF LW, IsStatus
  <1>2. CASE Generating(v)
    <2>1. lock # None /\ row' = row
      BY <1>2, LaunchedAlone, RowWrites
    <2>2. \/ pc'[v] = "generating"
          \/ /\ row.status = "generating"
             /\ pc'[v] \in {"generate_packages", "packaging", "publishing", "failed"}
      <3>1. CASE pc'[v] = pc[v]
        BY <1>2, <3>1 DEF LW
      <3>2. CASE pc'[v] # pc[v]
        <4>1. /\ c.run = v /\ c.late = 0 /\ ~CallIsRead(c)
              /\ GiveUp(c) => ~IsStatus(c)
              /\ (IsStatus(c) /\ pc[v] = "generating") => pc'[v] = "generate_packages"
          BY <3>2, CallStepPc
        <4>2. c.post = pc[v] /\ IsStatus(c) /\ (c.phase = "read" => c.seen.status = row.status)
          BY <1>2, <4>1 DEF LiveCalls, LW
        <4>3. StatusAnswered(c)
          BY <3>2, <4>1, <4>2
             DEF CallStep, UploadAnswered, CommitUpload, StatusRejected,
                 StatusAnswerLost, UploadAnswerLost, UploadFails,
                 LateCallLost, runVars
        <4>4. c.post = row.status
          BY <2>1, <4>2, <4>3 DEF StatusAnswered, CommitStatus, EmitsUpdate
        <4>5. pc[v] = "generating"
          BY <1>2, <4>2, <4>4 DEF LW, IsStatus, Statuses
        <4> QED
          BY <4>1, <4>2, <4>4, <4>5
      <3> QED
        BY <3>1, <3>2
    <2>3. \A b \in calls' : b.run = v =>
            IsStatus(b) /\ (b.phase = "read" => b.seen.status = row.status)
      <3>1. CASE calls' = calls \ {c}
        BY <1>2, <3>1 DEF LW
      <3>2. ASSUME NEW d, calls' = (calls \ {c}) \cup {d}, d.run = c.run, d.post = c.post,
                   \/ IsStatus(c) => d.seen = ViewOf(row)
                   \/ d.phase = c.phase /\ d.seen = c.seen
            PROVE  \A b \in calls' : b.run = v =>
                     IsStatus(b) /\ (b.phase = "read" => b.seen.status = row.status)
        BY <1>2, <3>2 DEF LW, IsStatus, ViewOf
      <3> QED
        BY <3>1, <3>2, CallStepCalls
    <2> QED
      BY <1>2, <2>1, <2>2, <2>3, KindsApart DEF LW, IsStatus
  <1> QED
    BY <1>1, <1>2, KindsApart

LEMMA LaunchedWaitsStep ==
    ASSUME TypeOK, LiveCalls, StartOrder, LockHeld, LaunchedWaits, [Next]_vars
    PROVE  LaunchedWaits'
  <1>0. \A v \in Runs : LW(v)
    BY LaunchedWaitsIsLW
  <1> SUFFICES ASSUME NEW v \in Runs, start'[v] = "launched"
               PROVE  LW(v)'
    BY DEF LaunchedWaits, LW
  <1>1. ASSUME NEW w \in Runs, Launch(w)
        PROVE  LW(v)'
    <2>1. row' = row /\ calls' = calls
      BY <1>1 DEF Launch
    <2>2. CASE v = w
      <3>1. pc[w] = "unborn" /\ pc'[w] = FirstStep[Kind[w]]
        BY <1>1, LaunchPc
      <3>2. \A c \in calls : c.run # w
        BY <3>1 DEF LiveCalls
      <3>3. Generating(w) => FirstStep[Kind[w]] = "generating"
        BY DEF Generating, GenerateKinds, FirstStep
      <3> QED
        BY <2>1, <2>2, <3>1, <3>2, <3>3 DEF LW
    <2>3. CASE v # w
      BY <1>0, <1>1, <2>1, <2>3, LaunchPc, StartMovesOne DEF LW, Launch
    <2> QED
      BY <2>2, <2>3
  <1>2. ASSUME NEW w \in Runs, StartStep(w), ~Launch(w)
        PROVE  LW(v)'
    <2>1. pc' = pc /\ calls' = calls
      BY <1>2, QuietSteps DEF runVars
    <2>2. v # w /\ start[v] = "launched"
      BY <1>2, StartMovesOne
         DEF StartStep, CreateService, CheckGenerate, FlushGenerating, CommitStart,
             AbortStart
    <2>3. Generating(v) => row' = row
      <3>1. CommitStart(w) => start[w] = "launched"
        BY StartMovesOne DEF CommitStart
      <3>2. Generating(v) => ~CommitStart(w)
        BY <2>2, <3>1, LaunchedAlone
      <3> QED
        BY <1>2, <3>2 DEF StartStep, CreateService, CheckGenerate, FlushGenerating,
                          AbortStart
    <2> QED
      BY <1>0, <2>1, <2>2, <2>3, KindsApart DEF LW
  <1>3. ASSUME NEW w \in Runs, Send(w)
        PROVE  LW(v)'
    <2>1. pc' = pc /\ row' = row /\ start' = start /\ Posting(w)
      BY <1>3, RunWrites DEF Send, runVars
    <2>2. PICK d : calls' = calls \cup {d} /\ d.run = w /\ d.post = pc[w] /\ d.phase = "sent"
      BY <1>3, SendAdds
    <2>3. (v = w /\ Generating(v)) => IsStatus(d)
      BY <1>0, <2>1, <2>2 DEF LW, Posting, IsStatus, Posts, Statuses
    <2> QED
      BY <1>0, <2>1, <2>2, <2>3 DEF LW
  <1>4. ASSUME NEW w \in Runs, ActivityStep(w)
        PROVE  LW(v)'
    <2>1. calls' = calls /\ row' = row /\ start' = start
      BY <1>4, RunWrites DEF ActivityStep, coreVars
    <2>2. CASE v # w
      BY <1>0, <1>4, <2>1, <2>2, ActivityPc DEF LW, TypeOK
    <2>3. CASE v = w
      <3>1. pc[v] \notin Posts
        BY <1>4, <2>3, ActivityPc DEF TypeOK
      <3>2. ~Parsing(v) /\ pc[v] = "generate_packages"
        BY <1>0, <2>1, <3>1, KindsApart
           DEF LW, Parsing, ParseKinds, FirstStep, Posts, Statuses
      <3>3. pc'[v] \in {"generate_packages", "packaging", "publishing", "failed"}
        BY <1>4, <2>3, <3>2, ActivityPc DEF TypeOK
      <3> QED
        BY <1>0, <2>1, <3>2, <3>3 DEF LW
    <2> QED
      BY <2>2, <2>3
  <1>5. ASSUME NEW c \in calls, CallStep(c)
        PROVE  LW(v)'
    BY <1>0, <1>5, LaunchedWaitsCall, RowWrites
  <1>6. CASE UserStep \/ UNCHANGED vars
    <2>1. pc' = pc /\ calls' = calls /\ start' = start /\ (row' = row \/ lock = None)
      BY <1>6, QuietSteps, RowWrites DEF runVars
    <2> QED
      BY <1>0, <2>1, LaunchedAlone DEF LW
  <1> QED
    BY <1>1, <1>2, <1>3, <1>4, <1>5, <1>6 DEF Next

\* Only generate runs post what comes after "parsed".
LEMMA ParsePosts ==
    \A k \in ParseKinds :
       StepsOf(k) \cap {"generating", "packaging", "publishing", "complete"} = {}
  BY DEF ParseKinds, StepsOf, Steps, ParseSteps, PyPIParseSteps, ExtraSteps

LEMMA WithStatusFields ==
    ASSUME TypeOK, NEW c \in calls
    PROVE  /\ WithStatus(row, c).present = row.present
           /\ WithStatus(row, c).status =
                IF c.post = c.seen.status THEN row.status ELSE c.post
           /\ WithStatus(row, c).graph =
                IF c.post = "parsed" THEN {"routes"} ELSE row.graph
  BY DEF TypeOK, CoreTypeOK, Row, WithStatus

\* What a request's step may do to the row: nothing, or the columns of its own
\* post, or the artifact it uploads.
LEMMA CallStepRow ==
    ASSUME TypeOK, NEW c \in calls, CallStep(c)
    PROVE  \/ row' = row
           \/ /\ StatusAnswered(c) \/ StatusAnswerLost(c)
              /\ EmitsUpdate(c) /\ lock = None /\ row.present
              /\ row' = WithStatus(row, c)
           \/ /\ UploadAnswered(c) \/ UploadAnswerLost(c)
              /\ row.present
              /\ row' = [row EXCEPT !.art = <<c.run, c.attempt>>]
  BY DEF CallStep, CallIsRead, ReadService, ReadArtifacts, StatusAnswered, CommitStatus,
         UploadAnswered, CommitUpload, StatusRejected, StatusAnswerLost,
         UploadAnswerLost, LoseAnswer, RejectStatus, UploadFails, LoseCall,
         GiveUp, LateCallLost

LEMMA GraphKeptStep ==
    ASSUME TypeOK, LiveCalls, StartOrder, LockHeld, GraphKept, [Next]_vars
    PROVE  GraphKept'
  <1> DEFINE Ready == {"parsed", "generating", "packaging", "publishing", "complete"}
  <1>0. row \in Row
    BY DEF TypeOK, CoreTypeOK
  <1>1. overwritten => overwritten'
    BY DEF Next, StartStep, Launch, NoteOverlap, Send, ActivityStep, CallStep, CallIsRead,
           StatusAnswered, UploadAnswered, StatusAnswerLost, UploadAnswerLost, LoseAnswer,
           StatusRejected, UploadFails, GiveUp, LateCallLost, UserStep, vars, marks
  <1>2. ASSUME NEW w \in Runs, StartStep(w)
        PROVE  GraphKept'
    <2>1. CASE CommitStart(w) /\ Parsing(w)
      <3>1. start[w] = "launched" /\ start'[w] = "committed"
              /\ \A v \in Runs \ {w} : start'[v] = start[v]
        BY <2>1, StartMovesOne DEF CommitStart
      <3>2. \A v \in Runs : Generating(v) => start'[v] = "none"
        <4>1. ASSUME NEW v \in Runs, Generating(v), start'[v] # "none"
              PROVE  FALSE
          <5>1. start[v] # "none"
            BY <2>1, <3>1, <4>1, KindsApart
          <5>2. PICK u \in Runs : Parsing(u) /\ start[u] = "committed"
            BY <4>1, <5>1 DEF StartOrder
          <5> QED
            BY <2>1, <3>1, <5>2 DEF StartOrder
        <4> QED
          BY <4>1
      <3>3. row'.status \in {"cloning", "downloading"}
        <4>1. \E s \in {"cloning", "downloading"} :
                row' = [NoRow EXCEPT !.present = TRUE, !.status = s]
          BY <2>1 DEF CommitStart, Parsing
        <4> QED
          BY <4>1 DEF NoRow
      <3> QED
        BY <1>1, <3>2, <3>3 DEF GraphKept, GraphBeforeGeneration, RoutesKept
    <2>2. CASE CommitStart(w) /\ Generating(w)
      <3>1. start[w] = "launched"
              /\ \A v \in Runs : start'[v] # "none" => start[v] # "none"
        BY <2>2, StartMovesOne DEF CommitStart
      <3>2. row.present /\ RoutesKept
        BY <2>2, <3>1, LaunchedAlone DEF GraphKept
      <3>3. row' = [row EXCEPT !.status = "generating", !.genwf = w]
        BY <2>2, KindsApart DEF CommitStart, Parsing
      <3>4. row'.graph = row.graph
        BY <1>0, <3>3 DEF Row
      <3> QED
        BY <1>1, <3>2, <3>4 DEF GraphKept, GraphBeforeGeneration, RoutesKept
    <2>3. CASE CheckGenerate(w)
      BY <1>1, <2>3 DEF CheckGenerate, GraphKept, GraphBeforeGeneration, RoutesKept
    <2>4. CASE ~CommitStart(w) /\ ~CheckGenerate(w)
      <3>1. row' = row
        BY <1>2, <2>4 DEF StartStep, Launch, CreateService, FlushGenerating, AbortStart
      <3>2. \A v \in Runs : Generating(v) /\ start'[v] # "none" => start[v] # "none"
        BY <1>2, <2>4, StartMovesOne, KindsApart
           DEF StartStep, Launch, CreateService, FlushGenerating, AbortStart, Parsing
      <3> QED
        BY <1>1, <3>1, <3>2 DEF GraphKept, GraphBeforeGeneration, RoutesKept
    <2> QED
      BY <1>2, <2>1, <2>2, <2>3, <2>4, KindsApart
  <1>3. ASSUME NEW c \in calls, CallStep(c)
        PROVE  GraphKept'
    <2>0. start' = start /\ c.run \in Runs
      BY <1>3, RowWrites DEF TypeOK, CoreTypeOK, Call
    <2>1. CASE row' = row
      BY <1>1, <2>0, <2>1 DEF GraphKept, GraphBeforeGeneration, RoutesKept
    <2>2. CASE row.present /\ row' = WithStatus(row, c)
      <3>1. row'.graph = IF c.post = "parsed" THEN {"routes"} ELSE row.graph
        BY <2>2, WithStatusFields
      <3>2. row'.status = IF c.post = c.seen.status THEN row.status ELSE c.post
        BY <2>2, WithStatusFields
      <3>3. c.post \in Ready \ {"parsed"} => RoutesKept
        <4>1. SUFFICES ASSUME c.post \in Ready \ {"parsed"}
                       PROVE  RoutesKept
          OBVIOUS
        <4>2. c.post \in StepsOf(Kind[c.run]) /\ pc[c.run] # "unborn"
          BY DEF LiveCalls
        <4>3. ~Parsing(c.run)
          BY <4>1, <4>2, ParsePosts DEF Parsing
        <4>4. start[c.run] # "none"
          BY <2>0, <4>2 DEF StartOrder
        <4> QED
          BY <2>0, <2>2, <4>3, <4>4, KindsApart DEF GraphKept
      <3>4. row'.status \in Ready => RoutesKept'
        BY <1>1, <2>2, <3>1, <3>2, <3>3 DEF GraphKept, GraphBeforeGeneration, RoutesKept
      <3>5. \A v \in Runs : (Generating(v) /\ start[v] # "none") => RoutesKept'
        BY <1>1, <2>2, <3>1 DEF GraphKept, RoutesKept
      <3> QED
        BY <1>1, <2>0, <3>4, <3>5 DEF GraphKept, GraphBeforeGeneration, RoutesKept
    <2>3. CASE row' = [row EXCEPT !.art = <<c.run, c.attempt>>]
      <3>1. row'.graph = row.graph /\ row'.status = row.status
              /\ row'.present = row.present
        BY <1>0, <2>3 DEF Row
      <3> QED
        BY <1>1, <2>0, <3>1 DEF GraphKept, GraphBeforeGeneration, RoutesKept
    <2> QED
      BY <1>3, <2>1, <2>2, <2>3, CallStepRow
  <1>4. CASE UserStep
    <2>1. start' = start
      BY <1>4, RowWrites
    <2>2. \/ row' = row
          \/ ~row'.present
          \/ row'.status = row.status /\ row.present /\ (RoutesKept => RoutesKept')
      <3>1. ASSUME NEW e \in Editors, EditCommits(e)
            PROVE  row'.status = row.status /\ row.present /\ (RoutesKept => RoutesKept')
        <4>1. /\ row'.graph = edit[e].graph \cup {"login"} /\ row'.status = row.status
              /\ row.present
          BY <1>0, <3>1 DEF EditCommits, Row
        <4>2. "routes" \in row.graph \ edit[e].graph => overwritten'
          BY <1>4, <3>1 DEF UserStep, SavesStale
        <4> QED
          BY <1>1, <4>1, <4>2 DEF RoutesKept
      <3>2. ASSUME NEW d \in Removers, DeleteCommits(d)
            PROVE  ~row'.present
        BY <3>2 DEF DeleteCommits, NoRow
      <3> QED
        BY <1>4, <3>1, <3>2 DEF UserStep, EditReads, EditAborts, DeleteReads,
                                DeleteAborts
    <2> QED
      BY <1>1, <2>1, <2>2 DEF GraphKept, GraphBeforeGeneration, RoutesKept
  <1>5. CASE \/ \E w \in Runs : Send(w) \/ ActivityStep(w)
             \/ UNCHANGED vars
    <2>1. start' = start /\ row' = row
      BY <1>5, RunWrites DEF vars, coreVars
    <2> QED
      BY <1>1, <2>1 DEF GraphKept, GraphBeforeGeneration, RoutesKept
  <1> QED
    BY <1>2, <1>3, <1>4, <1>5 DEF Next

LEMMA NoOrphanArtifactStep ==
    ASSUME TypeOK, NoOrphanArtifact, [Next]_vars
    PROVE  NoOrphanArtifact'
  <1>0. row \in Row
    BY DEF TypeOK, CoreTypeOK
  <1>1. ASSUME NEW w \in Runs, StartStep(w)
        PROVE  NoOrphanArtifact'
    <2>1. artifacts' = artifacts
      BY <1>1 DEF StartStep, Launch, CreateService, CheckGenerate, FlushGenerating,
                  CommitStart, AbortStart
    <2>2. row.present => row'.present
      <3>1. CASE CommitStart(w) /\ Kind[w] \in ParseKinds
        <4>1. \E s : row' = [NoRow EXCEPT !.present = TRUE, !.status = s]
          BY <3>1 DEF CommitStart
        <4> QED
          BY <4>1 DEF NoRow
      <3>2. CASE ~(CommitStart(w) /\ Kind[w] \in ParseKinds)
        BY <1>0, <1>1, <3>2 DEF StartStep, Launch, CreateService, CheckGenerate,
           FlushGenerating, CommitStart, AbortStart, Row
      <3> QED
        BY <3>1, <3>2
    <2> QED
      BY <2>1, <2>2 DEF NoOrphanArtifact
  <1>2. ASSUME NEW c \in calls, CallStep(c)
        PROVE  NoOrphanArtifact'
    <2>1. row'.present = row.present
      BY <1>0, <1>2, CallStepRow, WithStatusFields DEF Row
    <2>2. artifacts' = artifacts \/ row.present
      BY <1>2 DEF CallStep, CallIsRead, ReadService, ReadArtifacts, StatusAnswered,
         CommitStatus, UploadAnswered, CommitUpload, StatusRejected, StatusAnswerLost,
         UploadAnswerLost, LoseAnswer, RejectStatus,
         UploadFails, LoseCall, GiveUp, LateCallLost
    <2> QED
      BY <2>1, <2>2 DEF NoOrphanArtifact
  <1>3. CASE UserStep
    BY <1>0, <1>3 DEF NoOrphanArtifact, UserStep, EditReads, EditCommits, EditAborts,
       DeleteReads, DeleteCommits, DeleteAborts, Row
  <1>4. CASE \/ \E w \in Runs : Send(w) \/ ActivityStep(w)
             \/ UNCHANGED vars
    BY <1>4, RunWrites DEF NoOrphanArtifact, vars, coreVars
  <1> QED
    BY <1>1, <1>2, <1>3, <1>4 DEF Next

\* The witness survives every step that does not itself put a terminal status
\* on the row, and every step that puts an in-progress status there leaves a
\* run behind that will write again.
LEMMA WriterAfterCall ==
    ASSUME TypeOK, LiveCalls, InProgressHasWriter, NEW c \in calls, CallStep(c),
           lateCalls' = 0, row'.present, row'.status \in InProgress
    PROVE  \E w \in Runs : WillWrite(w)'
  <1>0. /\ c \in Call /\ c.run \in Runs /\ c.late = 0 /\ lateCalls = 0
        /\ \A b \in calls : b.run = c.run => b = c
        /\ row \in Row
    <2>1. lateCalls = 0
      BY CallStepCalls, MaxLateAssumption DEF TypeOK, GiveUp
    <2>2. \A b \in calls : b.late = 0
      BY <2>1 DEF LiveCalls
    <2> QED
      BY <2>1, <2>2 DEF LiveCalls, TypeOK, CoreTypeOK, Call
  <1>1. Active(c.run) /\ pc[c.run] = c.post
    BY <1>0, LiveCallIsActive
  <1>2. c.post \notin NoWork
    BY <1>0 DEF Call, Posts, Statuses, NoWork
  <1>3. CASE calls' = calls \ {c}
    <2>1. \A b \in calls' : b \in calls /\ b.run # c.run
      BY <1>0, <1>3
    \* The run that was answered goes on, unless its post was terminal.
    <2>2. c.post \notin Terminal => WillWrite(c.run)'
      BY <1>0, <1>1, <1>2, <2>1, CallStepPc DEF WillWrite, Working, Active, NoWork
    <2>3. CASE row'.status = row.status /\ row.present
      <3>1. PICK u \in Runs : WillWrite(u)
        BY <1>0, <2>3 DEF InProgressHasWriter
      <3>2. CASE u # c.run
        BY <1>3, <3>1, <3>2, CallStepPc DEF WillWrite, Working, Active
      <3>3. CASE u = c.run /\ c.post \in Terminal
        <4>1. c.phase = "read" => c.seen.status # c.post
          BY <3>1, <3>3 DEF WillWrite
        <4>2. ~StatusAnswered(c)
          <5>1. SUFFICES ASSUME StatusAnswered(c)
                         PROVE  FALSE
            OBVIOUS
          <5>2. EmitsUpdate(c) /\ row' = WithStatus(row, c)
            BY <4>1, <5>1 DEF StatusAnswered, CommitStatus, EmitsUpdate
          <5>3. row'.status = c.post
            BY <4>1, <5>1, <5>2, WithStatusFields DEF StatusAnswered, CommitStatus
          <5> QED
            BY <3>3, <5>3 DEF InProgress
        <4>3. IsStatus(c)
          BY <3>3 DEF Terminal, IsStatus, Statuses
        <4>4. pc' = pc
          BY <1>0, <4>2, <4>3 DEF CallStep, CallIsRead, UploadAnswered, CommitUpload,
             StatusRejected, StatusAnswerLost, UploadAnswerLost, UploadFails,
             GiveUp, LateCallLost, runVars
        <4> QED
          BY <1>3, <3>1, <3>3, <4>4 DEF WillWrite, Working, Active
      <3>4. CASE u = c.run /\ c.post \notin Terminal
        BY <1>0, <2>2, <3>4
      <3> QED
        BY <3>2, <3>3, <3>4
    <2>4. CASE ~(row'.status = row.status /\ row.present)
      <3>1. row' = WithStatus(row, c) /\ row'.status = c.post
        BY <1>0, <2>4, CallStepRow, WithStatusFields DEF Row, NoOrphanArtifact
      <3>2. c.post \notin Terminal
        BY <3>1 DEF InProgress
      <3> QED
        BY <1>0, <2>2, <3>2
    <2> QED
      BY <2>3, <2>4
  <1>4. ASSUME NEW d, calls' = (calls \ {c}) \cup {d}, d.run = c.run, d.post = c.post,
               CallIsRead(c), IsStatus(c) => (ReadService(c) /\ d.seen = ViewOf(row))
        PROVE  \E w \in Runs : WillWrite(w)'
    <2>1. row' = row /\ pc' = pc
      BY <1>4 DEF CallIsRead, ReadService, ReadArtifacts, runVars
    <2>2. PICK u \in Runs : WillWrite(u)
      BY <1>0, <2>1 DEF InProgressHasWriter
    <2>3. (d.post \in Terminal) => d.seen.status # d.post
      BY <1>4, <2>1 DEF Terminal, IsStatus, Statuses, ViewOf, InProgress
    <2>4. WillWrite(u)'
      BY <1>4, <2>1, <2>2, <2>3 DEF WillWrite, Working, Active
    <2> QED
      BY <2>4
  <1> QED
    BY <1>3, <1>4, CallStepCalls

LEMMA InProgressHasWriterStep ==
    ASSUME TypeOK, LiveCalls, StartOrder, LockHeld, LaunchedWaits, InProgressHasWriter,
           [Next]_vars
    PROVE  InProgressHasWriter'
  <1> SUFFICES ASSUME lateCalls' = 0, row'.present, row'.status \in InProgress
               PROVE  \E w \in Runs : WillWrite(w)'
    BY DEF InProgressHasWriter, InProgress
  <1>0. row \in Row /\ \A c \in calls : c \in Call /\ c.run \in Runs
    BY DEF TypeOK, CoreTypeOK, Call
  <1>1. ASSUME NEW w \in Runs, CommitStart(w), StartStep(w)
        PROVE  \E v \in Runs : WillWrite(v)'
    <2>1. start[w] = "launched" /\ pc' = pc /\ calls' = calls /\ lateCalls' = lateCalls
      BY <1>1, StartMovesOne, QuietSteps DEF CommitStart, Launch, StartMoves, runVars
    <2>2. \A c \in calls : c.post = pc[c.run]
      BY <2>1 DEF LiveCalls
    <2>3. CASE Parsing(w)
      <3>1. pc[w] = FirstStep[Kind[w]]
        BY <2>1, <2>3 DEF LaunchedWaits
      <3>2. pc[w] \in {"cloning", "downloading"}
        BY <2>3, <3>1 DEF Parsing, ParseKinds, FirstStep
      <3>3. WillWrite(w)'
        BY <2>1, <2>2, <3>2 DEF WillWrite, Working, Active, Terminal
      <3> QED
        BY <3>3
    <2>4. CASE Generating(w)
      <3>1. \/ pc[w] = "generating"
            \/ /\ row.status = "generating"
               /\ pc[w] \in {"generate_packages", "packaging", "publishing", "failed"}
        BY <2>1, <2>4 DEF LaunchedWaits
      <3>2. \A c \in calls : (c.run = w /\ c.phase = "read") => c.seen.status = row.status
        BY <2>1, <2>4 DEF LaunchedWaits
      <3>3. Working(w)
        BY <3>1 DEF Working, Active
      <3>4. WillWrite(w)
        BY <2>2, <3>1, <3>2, <3>3 DEF WillWrite, Terminal
      <3>5. WillWrite(w)'
        BY <2>1, <3>4 DEF WillWrite, Working, Active
      <3> QED
        BY <3>5
    <2> QED
      BY <2>3, <2>4, KindsApart
  <1>2. CASE \/ \E w \in Runs : \/ StartStep(w) /\ ~CommitStart(w)
                                \/ Send(w)
                                \/ ActivityStep(w)
             \/ UserStep
             \/ UNCHANGED vars
    <2>1. lateCalls = 0 /\ row.present /\ row.status = row'.status
      <3>1. lateCalls' = lateCalls
        BY <1>2 DEF StartStep, Launch, NoteOverlap, Send, ActivityStep, UserStep, vars,
                    marks
      <3>2. CASE \E w \in Runs : \/ StartStep(w) /\ ~CommitStart(w)
                                 \/ Send(w)
                                 \/ ActivityStep(w)
        BY <3>1, <3>2, RunWrites DEF StartStep, Launch, CreateService, CheckGenerate,
           FlushGenerating, AbortStart
      <3>3. CASE UserStep
        <4>1. ASSUME NEW e \in Editors, EditCommits(e)
              PROVE  row'.status = row.status /\ row.present
          BY <1>0, <4>1 DEF EditCommits, Row
        <4>2. \A d \in Removers : ~DeleteCommits(d)
          BY DEF DeleteCommits, NoRow
        <4> QED
          BY <3>1, <3>3, <4>1, <4>2
             DEF UserStep, EditReads, EditAborts, DeleteReads, DeleteAborts
      <3>4. CASE UNCHANGED vars
        BY <3>1, <3>4 DEF vars, coreVars
      <3> QED
        BY <1>2, <3>2, <3>3, <3>4
    <2>2. PICK u \in Runs : WillWrite(u)
      BY <2>1 DEF InProgressHasWriter
    <2>3. pc'[u] \notin NoWork
      <3>1. pc[u] \notin NoWork
        BY <2>2, WorkingMeans DEF WillWrite
      <3>2. ASSUME NEW w \in Runs, Launch(w)
            PROVE  pc'[u] \notin NoWork
        BY <3>1, <3>2, LaunchPc
      <3>3. ASSUME NEW w \in Runs, ActivityStep(w)
            PROVE  pc'[u] \notin NoWork
        BY <3>1, <3>3, ActivityPc DEF TypeOK
      <3>4. CASE pc' = pc
        BY <3>1, <3>4
      <3> QED
        BY <1>2, <3>2, <3>3, <3>4, QuietSteps DEF Send, runVars
    <2>4. \A c \in calls' : c \in calls \/ c.phase = "sent"
      <3>1. ASSUME NEW w \in Runs, Send(w)
            PROVE  \A c \in calls' : c \in calls \/ c.phase = "sent"
        BY <3>1, SendAdds
      <3>2. CASE calls' = calls
        BY <3>2
      <3> QED
        BY <1>2, <3>1, <3>2, QuietSteps DEF Launch, ActivityStep, coreVars
    <2>5. WillWrite(u)'
      BY <2>2, <2>3, <2>4 DEF WillWrite, Working, Active, NoWork
    <2> QED
      BY <2>5
  <1>3. ASSUME NEW c \in calls, CallStep(c)
        PROVE  \E w \in Runs : WillWrite(w)'
    BY <1>3, WriterAfterCall
  <1> QED
    BY <1>1, <1>2, <1>3 DEF Next

-----------------------------------------------------------------------------
(* The theorems.                                                           *)

LEMMA InitIInv == Init => IInv
  <1> SUFFICES ASSUME Init
               PROVE  IInv
    OBVIOUS
  <1> USE DEF Init, CoreInit, RunInit
  <1>1. NoRow \in Row
    BY DEF NoRow, Row, Statuses
  <1>2. CoreTypeOK
    BY <1>1 DEF CoreTypeOK, StartPhases, IdleEdit, IdleRemoval
  <1>3. RunTypeOK
    <2>1. \A w \in Runs : "unborn" \in StepsOf(Kind[w]) /\ Kind[w] \in Kinds
      BY KindOfRun DEF StepsOf, ExtraSteps
    <2>2. 1 \in Attempts
      BY DEF Attempts
    <2> QED
      BY <2>1, <2>2 DEF RunTypeOK, Kinds
  <1>4. TypeOK
    <2>1. lateCalls \in 0..MaxLate
      BY MaxLateAssumption
    <2>2. lostAnswers \in 0..MaxLost
      BY MaxLostAssumption
    <2>3. raced \in BOOLEAN /\ overwritten \in BOOLEAN
      OBVIOUS
    <2> QED
      BY <1>2, <1>3, <2>1, <2>2, <2>3 DEF TypeOK
  <1>5. ~row.present
    BY DEF NoRow
  <1> QED
    BY <1>4, <1>5 DEF IInv, LiveCalls, StartOrder, LockHeld, LaunchedWaits, GraphKept,
       GraphBeforeGeneration, NoOrphanArtifact, InProgressHasWriter

LEMMA NextIInv == IInv /\ [Next]_vars => IInv'
  BY NextType, LiveCallsStep, StartOrderStep, LockHeldStep, LaunchedWaitsStep,
     GraphKeptStep, NoOrphanArtifactStep, InProgressHasWriterStep DEF IInv

LEMMA IInvAlways == Spec => []IInv
  BY InitIInv, NextIInv, PTL DEF Spec

\* Every variable keeps its type: in particular every step that a workflow
\* reaches is one of its own, and no activity is attempted more than three
\* times.
THEOREM TypeCorrect == Spec => []TypeOK
  BY IInvAlways, PTL DEF IInv

\* However many start requests, edits, deletes and failures interleave, a
\* service shows an in-progress status only while some run still works on it,
\* unless a request of the worker outlived the activity that sent it.
THEOREM InProgressHasWorkerAlways == Spec => []InProgressHasWorker
  <1>1. IInv => InProgressHasWorker
    BY DEF IInv, InProgressHasWriter, InProgressHasWorker, WillWrite
  <1> QED
    BY <1>1, IInvAlways, PTL

\* A service that is offered for generation, being generated or complete has the
\* routes of its parse, in whatever order its parse's, its users' and its runs'
\* requests commit; only an auth-config request that had read the service before
\* the routes were stored can have erased them.
THEOREM GraphBeforeGenerationAlways == Spec => []GraphBeforeGeneration
  <1>1. IInv => GraphBeforeGeneration
    BY DEF IInv, GraphKept
  <1> QED
    BY <1>1, IInvAlways, PTL

\* A deleted service leaves no artifact, also when an upload or a second
\* delete ran beside its deletion.
THEOREM NoOrphanArtifactAlways == Spec => []NoOrphanArtifact
  <1>1. IInv => NoOrphanArtifact
    BY DEF IInv
  <1> QED
    BY <1>1, IInvAlways, PTL

-----------------------------------------------------------------------------
(***************************************************************************)
(* What the row of a service tells its users, for any number of start      *)
(* requests and users: its status follows the run that works on it, its    *)
(* artifact is the one that was uploaded last, and what was saved is lost  *)
(* to stale reads only.                                                    *)
(***************************************************************************)

-----------------------------------------------------------------------------
(* The inductive invariant, on top of IInv.                                *)

\* No request outlived its activity, and no two runs overlapped, so far.
Orderly == lateCalls = 0 /\ ~raced

\* The statuses that nothing writes once the service is committed.
NeverShown == {"pending", "timed_out"}

\* What the row may say while a run is at one of its steps: that of the step
\* before, or what the step posts when the answer to it was lost.
Before ==
    [cloning           |-> {"cloning"},
     clone_repo        |-> {"cloning"},
     downloading       |-> {"downloading"},
     fetch_pypi_sdist  |-> {"downloading"},
     parsing           |-> {"cloning", "downloading", "parsing"},
     parse_routes      |-> {"parsing"},
     detect_auth       |-> {"parsing"},
     parsed            |-> {"parsing", "parsed"},
     generating        |-> {"parsed", "complete", "failed", "generating"},
     generate_packages |-> {"generating"},
     packaging         |-> {"generating", "packaging"},
     package_zip       |-> {"packaging"},
     upload_artifact   |-> {"packaging"},
     publishing        |-> {"generating", "publishing"},
     publish_to_pypi   |-> {"publishing"},
     complete          |-> {"packaging", "publishing", "complete"},
     failed            |-> Statuses \ NeverShown]

SoleWorker ==
    Orderly => \A v, w \in Runs : (Working(v) /\ Working(w)) => v = w

\* The row says what the run that works on it expects it to say, and only what
\* something writes.
StatusFits ==
    /\ row.present => row.status \notin NeverShown
    /\ (Orderly /\ row.present)
         => \A w \in Runs : Working(w) => row.status \in Before[pc[w]]

\* A status request that will not write the status finds it there.
SeenFits ==
    (Orderly /\ row.present)
      => \A c \in calls : (c.phase = "read" /\ IsStatus(c) /\ c.seen.status = c.post)
                            => row.status = c.post

\* The artifact that a run reports is that of the row, and an upload that has
\* read the artifacts has read all there are.
ArtifactFits ==
    /\ ArtifactIntact
    /\ \A c \in calls : c.art # None => c.post = "complete"
    /\ (Orderly /\ row.present)
         => /\ \A w \in Runs : (pc[w] = "complete" /\ Kind[w] = "generate")
                                  => result[w] = row.art
            /\ \A c \in calls :
                  /\ c.art \in {None, row.art}
                  /\ (c.phase = "read" /\ ~IsStatus(c)) => artifacts \subseteq c.seenArts

SInv == IInv /\ SoleWorker /\ StatusFits /\ SeenFits /\ ArtifactFits

-----------------------------------------------------------------------------
(* Who writes the row.                                                     *)

\* The start requests but for their COMMIT, and the runs themselves, write
\* nothing to the row or to the artifacts; a COMMIT creates the row or sets
\* the two columns of a generation.
LEMMA StartStepRow ==
    ASSUME IInv, NEW w \in Runs, StartStep(w)
    PROVE  /\ artifacts' = artifacts /\ calls' = calls
           /\ \/ row' = row
              \/ /\ CommitStart(w) /\ ~Launch(w) /\ start[w] = "launched"
                 /\ UNCHANGED <<runVars, lateCalls, raced>>
                 /\ \/ /\ Parsing(w) /\ ~row.present
                       /\ row'.status = FirstStep[Kind[w]]
                       /\ row'.art = None
                    \/ /\ Generating(w)
                       /\ row' = [row EXCEPT !.status = "generating", !.genwf = w]
  <1> USE DEF IInv
  <1>1. CASE CommitStart(w)
    <2>1. start[w] = "launched" /\ ~Launch(w)
      BY <1>1, StartMovesOne DEF CommitStart, Launch, StartMoves
    <2>2. UNCHANGED <<runVars, lateCalls, raced>>
      BY <2>1 DEF StartStep, marks
    <2>3. CASE Parsing(w)
      <3>1. ~row.present
        BY <2>1, <2>3 DEF StartOrder
      <3>2. row' = [NoRow EXCEPT !.present = TRUE,
                                 !.status = IF Kind[w] = "github"
                                              THEN "cloning" ELSE "downloading"]
        BY <1>1, <2>3 DEF CommitStart, Parsing
      <3>3. row'.status = IF Kind[w] = "github" THEN "cloning" ELSE "downloading"
        BY <3>2 DEF NoRow
      <3>4. row'.status = FirstStep[Kind[w]]
        BY <2>3, <3>3 DEF Parsing, ParseKinds, FirstStep
      <3>5. row'.art = None
        BY <3>2 DEF NoRow
      <3> QED
        BY <1>1, <2>1, <2>2, <2>3, <3>1, <3>4, <3>5 DEF CommitStart
    <2>4. CASE Generating(w)
      BY <1>1, <2>1, <2>2, <2>4, KindsApart DEF CommitStart, Parsing
    <2> QED
      BY <2>3, <2>4, KindsApart
  <1>2. CASE ~CommitStart(w)
    BY <1>2 DEF StartStep, Launch, CreateService, CheckGenerate, FlushGenerating,
                AbortStart
  <1> QED
    BY <1>1, <1>2

-----------------------------------------------------------------------------
(* Lost updates.                                                           *)

\* The action of LostOnlyToStaleReads.
LossesExplained ==
    (row.present /\ row'.present) =>
         \A part \in (row.graph \ row'.graph) \cup (row.meta \ row'.meta) :
            \/ \E e \in Editors :
                  /\ edit[e].phase = "read" /\ edit'[e].phase = "idle"
                  /\ part \notin edit[e].graph \cup edit[e].meta
            \/ \E c \in calls \ calls' :
                  \/ part = "login" /\ c.post = "parsed"
                  \/ part \in MetaKeys \ c.seen.meta

LEMMA LossesStep ==
    ASSUME IInv, [Next]_vars
    PROVE  LossesExplained
  <1> SUFFICES ASSUME row.present, row'.present,
                      NEW part \in (row.graph \ row'.graph) \cup (row.meta \ row'.meta)
               PROVE  \/ \E e \in Editors :
                            /\ edit[e].phase = "read" /\ edit'[e].phase = "idle"
                            /\ part \notin edit[e].graph \cup edit[e].meta
                      \/ \E c \in calls \ calls' :
                            \/ part = "login" /\ c.post = "parsed"
                            \/ part \in MetaKeys \ c.seen.meta
    BY DEF LossesExplained
  <1>0. row \in Row /\ TypeOK
    BY DEF IInv, TypeOK, CoreTypeOK
  <1>1. row' # row
    OBVIOUS
  <1>2. ASSUME NEW w \in Runs, StartStep(w)
        PROVE  FALSE
    <2>1. row' = [row EXCEPT !.status = "generating", !.genwf = w]
      BY <1>1, <1>2, StartStepRow
    <2> QED
      BY <1>0, <2>1 DEF Row
  <1>3. ASSUME NEW c \in calls, CallStep(c)
        PROVE  \E b \in calls \ calls' :
                  \/ part = "login" /\ b.post = "parsed"
                  \/ part \in MetaKeys \ b.seen.meta
    <2>1. ~(row' = [row EXCEPT !.art = <<c.run, c.attempt>>])
      BY <1>0 DEF Row
    <2>2. (StatusAnswered(c) \/ StatusAnswerLost(c)) /\ row' = WithStatus(row, c)
      BY <1>0, <1>1, <1>3, <2>1, CallStepRow
    <2>3. c \in calls \ calls'
      BY <2>2 DEF StatusAnswered, StatusAnswerLost, CommitStatus
    <2>4. row'.graph = IF c.post = "parsed" THEN {"routes"} ELSE row.graph
      BY <1>0, <2>2, WithStatusFields
    <2>5. row'.meta = row.meta \/ c.seen.meta \subseteq row'.meta
      BY <1>0, <2>2 DEF WithStatus, Row
    <2>6. CASE part \in row.graph \ row'.graph
      BY <1>0, <2>3, <2>4, <2>6 DEF Row, GraphParts
    <2>7. CASE part \in row.meta \ row'.meta
      BY <1>0, <2>3, <2>5, <2>7 DEF Row
    <2> QED
      BY <2>6, <2>7
  <1>4. ASSUME NEW e \in Editors, EditCommits(e)
        PROVE  /\ edit[e].phase = "read" /\ edit'[e].phase = "idle"
               /\ part \notin edit[e].graph \cup edit[e].meta
    <2>1. edit[e].phase = "read" /\ edit'[e] = IdleEdit
      BY <1>0, <1>4 DEF EditCommits, TypeOK, CoreTypeOK
    <2>2. /\ row'.graph = edit[e].graph \cup {"login"}
          /\ row'.meta = edit[e].meta \cup {"auth_config"}
      BY <1>0, <1>4 DEF EditCommits, Row
    <2>3. /\ edit[e].graph \subseteq GraphParts /\ edit[e].meta \subseteq MetaKeys
          /\ row.graph \subseteq GraphParts /\ row.meta \subseteq MetaKeys
      BY <1>0 DEF TypeOK, CoreTypeOK, Row
    <2>4. GraphParts \cap MetaKeys = {}
      BY DEF GraphParts, MetaKeys
    <2> QED
      BY <2>1, <2>2, <2>3, <2>4 DEF IdleEdit
  <1>5. CASE UserStep
    <2>1. ASSUME NEW d \in Removers, DeleteCommits(d)
          PROVE  FALSE
      BY <2>1 DEF DeleteCommits, NoRow
    <2> QED
      BY <1>1, <1>4, <1>5, <2>1
         DEF UserStep, EditReads, EditAborts, DeleteReads, DeleteAborts
  <1>6. CASE \/ \E w \in Runs : Send(w) \/ ActivityStep(w)
             \/ UNCHANGED vars
    BY <1>1, <1>6, RunWrites DEF vars, coreVars
  <1> QED
    BY <1>2, <1>3, <1>5, <1>6 DEF Next

\* Whatever edits, parses and status posts interleave, a part of the route graph
\* or a key of the metadata is overwritten in one way only: by a request that
\* read the service before the part was saved, or by a new parse.
THEOREM LossesAreStaleReads == Spec => LostOnlyToStaleReads
  <1>1. IInv /\ [Next]_vars => [LossesExplained]_vars
    BY LossesStep
  <1> QED
    BY <1>1, IInvAlways, PTL DEF Spec, LostOnlyToStaleReads, LossesExplained
-----------------------------------------------------------------------------
(* The workflow tables, read against what the row says.                    *)

\* A step that succeeds leaves the row as the next step expects it: an activity
\* does not touch it, a status request has put its own status there.
LEMMA StepsBefore ==
    \A k \in Kinds : \A s \in DOMAIN Steps[k] : Steps[k][s] \notin NoWork =>
        /\ s \notin Posts => Before[s] \subseteq Before[Steps[k][s]]
        /\ s \in Statuses => s \in Before[Steps[k][s]]
        /\ s = "upload_artifact" => Before[s] \subseteq Before[Steps[k][s]]
  BY DEF Kinds, ParseKinds, GenerateKinds, Steps, NoWork, Posts, Statuses, Before, Terminal,
         ParseSteps, PyPIParseSteps, GenerateSteps, PublishSteps

\* A generate run completes after its upload only.
LEMMA StepsToComplete ==
    \A k \in Kinds : \A s \in DOMAIN Steps[k] :
        /\ (k = "generate" /\ Steps[k][s] = "complete") => s = "upload_artifact"
        /\ Steps[k][s] = "complete" => s \notin Statuses
  BY DEF Kinds, ParseKinds, GenerateKinds, Steps, Statuses,
         ParseSteps, PyPIParseSteps, GenerateSteps, PublishSteps

LEMMA StepsHaveBefore ==
    \A k \in Kinds : \A s \in StepsOf(k) :
        s \notin NoWork => s \in DOMAIN Before /\ s \notin NeverShown
  BY DEF Kinds, ParseKinds, GenerateKinds, Steps, StepsOf, ExtraSteps, NoWork, Before,
         NeverShown, ParseSteps, PyPIParseSteps, GenerateSteps, PublishSteps

\* A step at which a run works expects only statuses that are shown.
LEMMA BeforeFailed ==
    \A s \in DOMAIN Before : Before[s] \subseteq Before["failed"]
  BY DEF Before, NeverShown, Statuses

\* Following(w), for a run that goes on working.
LEMMA FollowingBefore ==
    ASSUME RunTypeOK, NEW w \in Runs, pc[w] \notin {"unborn", "done", "error"}
    PROVE  /\ Following(w) \notin NoWork =>
                /\ pc[w] \notin Posts => Before[pc[w]] \subseteq Before[Following(w)]
                /\ pc[w] \in Statuses => pc[w] \in Before[Following(w)]
                /\ pc[w] = "upload_artifact" => Before[pc[w]] \subseteq Before[Following(w)]
                /\ pc[w] \notin NoWork
           /\ (Kind[w] = "generate" /\ Following(w) = "complete") => pc[w] = "upload_artifact"
           /\ Following(w) = "complete" => pc[w] \notin Statuses
  <1>1. CASE pc[w] \in {"failed", "cleanup_after_failure"}
    BY <1>1 DEF Following, NoWork
  <1>2. CASE pc[w] \notin {"failed", "cleanup_after_failure"}
    <2>1. Kind[w] \in Kinds /\ pc[w] \in DOMAIN Steps[Kind[w]]
      BY <1>2, KindOfRun DEF RunTypeOK, StepsOf, ExtraSteps
    <2>2. Following(w) = Steps[Kind[w]][pc[w]]
      BY <1>2 DEF Following
    <2>3. \A k \in Kinds : \A s \in DOMAIN Steps[k] :
             Steps[k][s] \notin NoWork => s \notin NoWork
      BY DEF Kinds, ParseKinds, GenerateKinds, Steps, NoWork,
             ParseSteps, PyPIParseSteps, GenerateSteps, PublishSteps
    <2> QED
      BY <2>1, <2>2, <2>3, StepsBefore, StepsToComplete
  <1> QED
    BY <1>1, <1>2

\* What an activity of the run's own does, read against the row: it goes to a
\* step that expects what the step before it did.
LEMMA ActivityBefore ==
    ASSUME RunTypeOK, NEW w \in Runs, ActivityStep(w), pc'[w] \notin NoWork
    PROVE  /\ pc[w] \in NoWork => pc'[w] = "failed"
           /\ pc[w] \notin NoWork => Before[pc[w]] \subseteq Before[pc'[w]]
           /\ Kind[w] = "generate" => pc'[w] # "complete"
  <1>1. pc[w] \notin Posts \cup {"unborn", "done", "error"}
    BY ActivityPc
  <1>2. CASE FetchReturns(w) \/ PlainReturns(w) \/ CleanupReturns(w)
    <2>1. GoTo(w, Following(w))
      BY <1>2 DEF FetchReturns, PlainReturns, CleanupReturns, StepReturns
    <2>2. pc'[w] = Following(w)
      BY <2>1, GoToPc
    <2> QED
      BY <1>1, <2>2, FollowingBefore DEF Posts
  <1>3. CASE ActivityFails(w)
    <2>1. pc'[w] \in {pc[w], AfterFailure(w)}
      BY <1>3, AttemptFailsPc DEF ActivityFails
    <2>2. AfterFailure(w) \in {"parsed", "failed", "error"}
            /\ (pc[w] = "detect_auth" <=> AfterFailure(w) = "parsed")
      BY DEF AfterFailure
    <2>3. pc[w] \in StepsOf(Kind[w]) /\ Kind[w] \in Kinds
      BY KindOfRun DEF RunTypeOK
    <2>4. CASE pc'[w] = pc[w]
      BY <1>1, <2>4 DEF Posts, Statuses
    <2>5. CASE pc'[w] = "failed"
      BY <2>3, <2>5, StepsHaveBefore, BeforeFailed
    <2>6. CASE pc'[w] = "parsed"
      <3>1. pc[w] = "detect_auth"
        BY <1>1, <2>1, <2>2, <2>6 DEF Posts, Statuses
      <3> QED
        BY <2>6, <3>1 DEF Before, NoWork
    <2> QED
      BY <2>1, <2>2, <2>4, <2>5, <2>6 DEF NoWork
  <1> QED
    BY <1>2, <1>3 DEF ActivityStep

-----------------------------------------------------------------------------
(* One run at a time.                                                      *)

LEMMA OrderlyBefore ==
    ASSUME IInv, [Next]_vars, Orderly'
    PROVE  Orderly
  <1>1. lateCalls \in Nat
    BY MaxLateAssumption DEF IInv, TypeOK
  <1>2. lateCalls' = lateCalls \/ lateCalls' = lateCalls + 1
    BY DEF Next, StartStep, Launch, Send, ActivityStep, CallStep, CallIsRead,
    StatusAnswered,
           UploadAnswered, StatusRejected, StatusAnswerLost, UploadAnswerLost,
           LoseAnswer, UploadFails, GiveUp, LateCallLost, UserStep, vars,
           NoteOverlap, marks
  <1>3. raced => raced'
    BY DEF Next, StartStep, Launch, Send, ActivityStep, CallStep, CallIsRead,
    StatusAnswered,
           UploadAnswered, StatusRejected, StatusAnswerLost, UploadAnswerLost,
           LoseAnswer, UploadFails, GiveUp, LateCallLost, UserStep, vars,
           NoteOverlap, marks
  <1> QED
    BY <1>1, <1>2, <1>3 DEF Orderly

\* In an orderly execution the requests in flight are those of running steps.
LEMMA OrderlyCalls ==
    ASSUME IInv, Orderly, NEW c \in calls
    PROVE  /\ c \in Call /\ c.run \in Runs /\ c.late = 0
           /\ pc[c.run] = c.post /\ Working(c.run)
           /\ SoleWorker => \A b \in calls : b = c
  <1>1. \A b \in calls : b \in Call /\ b.run \in Runs /\ b.late = 0
                           /\ pc[b.run] = b.post /\ Working(b.run)
    BY LiveCallIsActive
       DEF IInv, Orderly, LiveCalls, TypeOK, CoreTypeOK, Call, Posts, Statuses, Working
  <1> QED
    BY <1>1 DEF SoleWorker, IInv, LiveCalls

\* The step of a request makes no run work that did not.
LEMMA CallStepWorking ==
    ASSUME IInv, Orderly, NEW c \in calls, CallStep(c), NEW w \in Runs, pc'[w] \notin NoWork
    PROVE  Working(w)
  <1>1. pc'[w] = pc[w] \/ w = c.run
    BY CallStepPc DEF IInv
  <1> QED
    BY <1>1, OrderlyCalls, WorkingMeans

LEMMA SoleWorkerStep ==
    ASSUME IInv, SoleWorker, [Next]_vars
    PROVE  SoleWorker'
  <1> SUFFICES ASSUME Orderly',
                      NEW v \in Runs, NEW w \in Runs, Working(v)', Working(w)'
               PROVE  v = w
    BY DEF SoleWorker
  <1>0. Orderly
    BY OrderlyBefore
  <1>1. pc'[v] \notin NoWork /\ pc'[w] \notin NoWork
    BY DEF Working, Active, NoWork
  <1>2. CASE NoteOverlap
    BY <1>2 DEF NoteOverlap, Orderly
  <1>3. ASSUME NEW c \in calls, CallStep(c)
        PROVE  v = w
    BY <1>0, <1>1, <1>3, CallStepWorking DEF SoleWorker
  <1>4. CASE pc' = pc
    BY <1>0, <1>1, <1>4, WorkingMeans DEF SoleWorker
  <1>5. CASE \/ \E u \in Runs : (StartStep(u) /\ ~Launch(u)) \/ Send(u)
             \/ UserStep \/ UNCHANGED vars
    BY <1>4, <1>5, QuietSteps DEF Send, runVars
  <1> QED
    BY <1>2, <1>3, <1>5 DEF Next, Launch, ActivityStep
-----------------------------------------------------------------------------
(* The status.                                                             *)

\* What an answered status request leaves: its own status on the row, and the
\* run that waited for the answer at its next step.
LEMMA AnsweredStatus ==
    ASSUME IInv, SeenFits, Orderly, NEW c \in calls, StatusAnswered(c), row'.present
    PROVE  /\ row.present
           /\ row'.status = c.post /\ c.post \in Statuses
           /\ row' = row \/ row' = WithStatus(row, c)
           /\ GoTo(c.run, Following(c.run)) /\ result' = result
           /\ artifacts' = artifacts /\ calls' = calls \ {c}
  <1>0. TypeOK /\ c \in Call /\ c.run \in Runs /\ c.late = 0 /\ row \in Row
    BY OrderlyCalls DEF IInv, TypeOK, CoreTypeOK
  <1>1. c.phase = "read" /\ c.post \in Statuses
    BY DEF StatusAnswered, CommitStatus, IsStatus
  <1>2. StepReturns(c.run) /\ artifacts' = artifacts /\ calls' = calls \ {c}
    BY <1>0 DEF StatusAnswered, CommitStatus
  <1>3. row.present
    BY <1>0, RowWrites DEF CallStep
  <1>4. CASE row' = WithStatus(row, c)
    BY <1>0, <1>1, <1>2, <1>3, <1>4, WithStatusFields DEF SeenFits, StepReturns, IsStatus
  <1>5. CASE ~EmitsUpdate(c) /\ row' = row
    BY <1>0, <1>1, <1>2, <1>3, <1>5 DEF EmitsUpdate, SeenFits, StepReturns, IsStatus
  <1> QED
    BY <1>4, <1>5 DEF StatusAnswered, CommitStatus

\* The same when the answer is lost, but that the run stays at its step.
LEMMA LostStatus ==
    ASSUME IInv, SeenFits, Orderly, NEW c \in calls, StatusAnswerLost(c), row'.present
    PROVE  /\ row.present
           /\ row'.status = c.post /\ c.post \in Statuses
           /\ row' = row \/ row' = WithStatus(row, c)
           /\ UNCHANGED runVars
           /\ artifacts' = artifacts /\ calls' = calls \ {c}
  <1>0. TypeOK /\ row \in Row
    BY DEF IInv, TypeOK, CoreTypeOK
  <1>1. CommitStatus(c) /\ c.phase = "read" /\ c.post \in Statuses /\ UNCHANGED runVars
    BY DEF StatusAnswerLost, CommitStatus, IsStatus
  <1>2. row.present
    BY <1>0, RowWrites DEF CallStep
  <1>3. CASE row' = WithStatus(row, c)
    BY <1>0, <1>1, <1>2, <1>3, WithStatusFields DEF SeenFits, CommitStatus, IsStatus
  <1>4. CASE ~EmitsUpdate(c) /\ row' = row
    BY <1>1, <1>2, <1>4 DEF EmitsUpdate, SeenFits, CommitStatus, IsStatus
  <1> QED
    BY <1>1, <1>3, <1>4 DEF CommitStatus

\* What a step posts, it expects to find when it has to post it again.
LEMMA PostsFitThemselves ==
    \A k \in Kinds : \A s \in StepsOf(k) :
        (s \in Statuses /\ s \notin NoWork) => s \in Before[s]
  BY DEF Kinds, ParseKinds, GenerateKinds, Steps, StepsOf, ExtraSteps, NoWork, Before,
         Statuses, NeverShown, ParseSteps, PyPIParseSteps, GenerateSteps, PublishSteps

\* The other steps of a request leave the status as it is.
LEMMA OtherCallStatus ==
    ASSUME IInv, NEW c \in calls, CallStep(c), ~StatusAnswered(c), ~StatusAnswerLost(c)
    PROVE  row'.status = row.status /\ row'.present = row.present
  <1>1. row \in Row /\ TypeOK
    BY DEF IInv, TypeOK, CoreTypeOK
  <1> QED
    BY <1>1, CallStepRow DEF Row

\* A user's step leaves the status of a service that stays as it is.
LEMMA UserStepRow ==
    ASSUME IInv, UserStep, row'.present
    PROVE  /\ row.present /\ row'.status = row.status /\ row'.art = row.art
           /\ artifacts' = artifacts
           /\ UNCHANGED <<runVars, calls, lateCalls, raced>>
  <1>1. row \in Row
    BY DEF IInv, TypeOK, CoreTypeOK
  <1>2. \A d \in Removers : ~DeleteCommits(d)
    BY DEF DeleteCommits, NoRow
  <1> QED
    BY <1>1, <1>2 DEF UserStep, EditReads, EditCommits, EditAborts, DeleteReads,
                      DeleteAborts,
                      Row

LEMMA StatusFitsStep ==
    ASSUME SInv, [Next]_vars
    PROVE  StatusFits'
  <1> USE DEF SInv
  <1>0. TypeOK /\ RunTypeOK /\ \A w \in Runs : pc[w] \in StepsOf(Kind[w]) /\ Kind[w] \in Kinds
    BY KindOfRun DEF IInv, TypeOK, RunTypeOK
  <1>1. ASSUME row'.present
        PROVE  row'.status \notin NeverShown
    <2>1. ASSUME NEW w \in Runs, StartStep(w)
          PROVE  row'.status \notin NeverShown
      <3>1. Parsing(w) => FirstStep[Kind[w]] \notin NeverShown
        BY DEF Parsing, ParseKinds, FirstStep, NeverShown
      <3>2. row \in Row
        BY <1>0 DEF TypeOK, CoreTypeOK
      <3>3. CASE row' = [row EXCEPT !.status = "generating", !.genwf = w]
        BY <3>2, <3>3 DEF Row, NeverShown
      <3>4. CASE row' = row \/ (Parsing(w) /\ row'.status = FirstStep[Kind[w]])
        BY <1>1, <3>1, <3>4 DEF StatusFits
      <3> QED
        BY <2>1, <3>3, <3>4, StartStepRow
    <2>2. ASSUME NEW c \in calls, StatusAnswered(c) \/ StatusAnswerLost(c)
          PROVE  row'.status \notin NeverShown
      <3>1. row.present
        BY <1>0, <1>1, <2>2, RowWrites DEF CallStep
      <3>2. row'.status \in {row.status, c.post}
        BY <1>0, <2>2, WithStatusFields DEF StatusAnswered, StatusAnswerLost, CommitStatus
      <3>3. c.post \notin NeverShown
        <4>1. c.run \in Runs /\ c.post \in StepsOf(Kind[c.run])
          BY DEF IInv, LiveCalls, TypeOK, CoreTypeOK, Call
        <4>2. NeverShown \cap NoWork = {}
          BY DEF NoWork, NeverShown
        <4> QED
          BY <1>0, <4>1, <4>2, StepsHaveBefore
      <3> QED
        BY <3>1, <3>2, <3>3 DEF StatusFits
    <2>3. ASSUME NEW c \in calls, CallStep(c), ~StatusAnswered(c), ~StatusAnswerLost(c)
          PROVE  row'.status \notin NeverShown
      BY <1>1, <2>3, OtherCallStatus DEF StatusFits
    <2>4. CASE UserStep
      BY <1>1, <2>4, UserStepRow DEF StatusFits
    <2>5. CASE (\E w \in Runs : Send(w) \/ ActivityStep(w)) \/ UNCHANGED vars
      BY <1>1, <2>5, RunWrites DEF StatusFits, vars, coreVars
    <2> QED
      BY <2>1, <2>2, <2>3, <2>4, <2>5 DEF Next
  <1>2. ASSUME Orderly', row'.present, NEW w \in Runs, Working(w)'
        PROVE  row'.status \in Before[pc'[w]]
    <2>0. Orderly /\ pc'[w] \notin NoWork
      BY <1>2, OrderlyBefore DEF Working, Active, NoWork
    <2>1. ASSUME NEW u \in Runs, Launch(u)
          PROVE  row'.status \in Before[pc'[w]]
      <3>1. row' = row /\ pc[u] = "unborn" /\ pc'[u] = FirstStep[Kind[u]]
              /\ pc'[u] \notin NoWork /\ start[u] = "flushed"
        BY <2>1, LaunchPc DEF IInv, Launch
      <3>2. w = u
        BY <1>2, <2>1, <3>1 DEF Launch, NoteOverlap, Orderly, Working, Active, NoWork
      <3>3. ~Parsing(u)
        BY <1>2, <3>1 DEF IInv, StartOrder
      <3>4. row.status \in Terminal \ NeverShown
        <4>1. SUFFICES ASSUME row.status \in InProgress
                       PROVE  FALSE
          BY <1>0, <1>2, <3>1 DEF InProgress, StatusFits, TypeOK, CoreTypeOK, Row
        <4>2. PICK v \in Runs : Working(v)
          BY <1>2, <2>0, <3>1, <4>1 DEF IInv, InProgressHasWriter, WillWrite, Orderly
        <4>3. v # u
          BY <3>1, <4>2 DEF Working, Active
        <4>4. Working(v)'
          BY <1>0, <2>1, <4>2, <4>3, LaunchPc DEF IInv, Working, Active
        <4> QED
          BY <1>2, <2>1, <3>2, <4>3, <4>4 DEF Launch, NoteOverlap, Orderly
      <3>5. pc'[u] = "generating"
        BY <3>1, <3>3, KindsApart DEF Generating, GenerateKinds, FirstStep
      <3> QED
        BY <3>1, <3>2, <3>4, <3>5 DEF Before, Terminal, NeverShown
    <2>2. ASSUME NEW u \in Runs, StartStep(u), ~Launch(u)
          PROVE  row'.status \in Before[pc'[w]]
      <3>1. pc' = pc /\ Working(w)
        BY <2>0, <2>2, QuietSteps, WorkingMeans DEF runVars
      <3>2. CASE row' = row
        BY <1>2, <2>0, <3>1, <3>2 DEF StatusFits
      <3>3. CASE /\ start[u] = "launched" /\ Parsing(u)
                 /\ row'.status = FirstStep[Kind[u]]
        <4>1. pc[u] = FirstStep[Kind[u]]
          BY <3>3 DEF IInv, LaunchedWaits
        <4>2. Working(u)
          BY <1>0, <4>1, FirstStepTable, WorkingMeans
        <4>3. w = u
          BY <2>0, <3>1, <4>2 DEF SoleWorker
        <4> QED
          BY <3>1, <3>3, <4>1, <4>3 DEF Parsing, ParseKinds, FirstStep, Before
      <3>4. CASE /\ start[u] = "launched" /\ Generating(u)
                 /\ row' = [row EXCEPT !.status = "generating", !.genwf = u]
        <4>1. row'.status = "generating" /\ row.present
          BY <1>0, <3>4, LaunchedAlone DEF IInv, TypeOK, CoreTypeOK, Row
        <4>2. \/ pc[u] = "generating"
              \/ /\ row.status = "generating"
                 /\ pc[u] \in {"generate_packages", "packaging", "publishing", "failed"}
          BY <3>4 DEF IInv, LaunchedWaits
        <4>3. w = u
          BY <2>0, <3>1, <4>2 DEF SoleWorker, Working, Active
        <4> QED
          BY <3>1, <4>1, <4>2, <4>3 DEF Before, Statuses, NeverShown
      <3> QED
        BY <2>2, <3>2, <3>3, <3>4, StartStepRow
    <2>3. ASSUME NEW u \in Runs, ActivityStep(u)
          PROVE  row'.status \in Before[pc'[w]]
      <3>1. row' = row
        BY <2>3, RunWrites
      <3>2. CASE w # u
        <4>1. pc'[w] = pc[w]
          BY <1>0, <2>3, <3>2, ActivityPc
        <4> QED
          BY <1>2, <2>0, <3>1, <4>1, WorkingMeans DEF StatusFits
      <3>3. CASE w = u /\ pc[u] \in NoWork
        <4>1. pc'[w] = "failed"
          BY <1>0, <2>0, <2>3, <3>3, ActivityBefore
        <4>2. row.status \in Statuses \ NeverShown
          BY <1>0, <1>2, <3>1 DEF StatusFits, TypeOK, CoreTypeOK, Row
        <4> QED
          BY <3>1, <4>1, <4>2 DEF Before, NeverShown
      <3>4. CASE w = u /\ pc[u] \notin NoWork
        <4>1. Before[pc[u]] \subseteq Before[pc'[u]]
          BY <1>0, <2>0, <2>3, <3>4, ActivityBefore
        <4> QED
          BY <1>2, <2>0, <3>1, <3>4, <4>1, WorkingMeans DEF StatusFits
      <3> QED
        BY <3>2, <3>3, <3>4
    <2>4. ASSUME NEW c \in calls, CallStep(c)
          PROVE  row'.status \in Before[pc'[w]]
      <3>0. /\ c \in Call /\ c.run \in Runs /\ c.late = 0 /\ pc[c.run] = c.post
            /\ Working(c.run) /\ Working(w) /\ w = c.run
        BY <2>0, <2>4, OrderlyCalls, CallStepWorking DEF SoleWorker
      <3>1. CASE StatusAnswered(c)
        <4>1. row'.status = c.post /\ c.post \in Statuses /\ GoTo(w, Following(w))
          BY <1>2, <2>0, <3>0, <3>1, AnsweredStatus
        <4>2. pc'[w] = Following(w)
          BY <1>0, <4>1, GoToPc
        <4> QED
          BY <1>0, <2>0, <3>0, <4>1, <4>2, FollowingBefore DEF Working, Active
      <3>2. CASE StatusAnswerLost(c)
        <4>1. row'.status = c.post /\ c.post \in Statuses /\ pc' = pc
          BY <1>2, <2>0, <3>0, <3>2, LostStatus DEF runVars
        <4>2. /\ Kind[w] \in Kinds /\ c.post \in StepsOf(Kind[w])
              /\ c.post \notin NoWork
          BY <1>0, <3>0, WorkingMeans
        <4>3. c.post \in Before[c.post]
          BY <4>1, <4>2, PostsFitThemselves
        <4> QED
          BY <3>0, <4>1, <4>3
      <3>3. CASE ~StatusAnswered(c) /\ ~StatusAnswerLost(c)
        <4>1. row.present /\ row'.status = row.status /\ row.status \in Before[pc[w]]
          BY <1>2, <2>0, <2>4, <3>0, <3>3, OtherCallStatus DEF StatusFits
        <4>2. CASE UploadAnswered(c)
          <5>1. GoTo(w, Following(w)) /\ ~IsStatus(c)
            BY <3>0, <4>2 DEF UploadAnswered, UploadReturns, CommitUpload
          <5>2. pc'[w] = Following(w) /\ pc[w] = "upload_artifact"
            BY <1>0, <3>0, <5>1, GoToPc DEF Call, Posts, IsStatus
          <5> QED
            BY <1>0, <2>0, <3>0, <4>1, <5>2, FollowingBefore DEF Working, Active
        <4>3. CASE UploadFails(c) \/ UploadAnswerLost(c) \/ (GiveUp(c) /\ ~IsStatus(c))
          <5>1. AttemptFails(w) /\ pc[w] = "upload_artifact"
            BY <3>0, <4>3 DEF UploadFails, UploadAnswerLost, CommitUpload, GiveUp, Call,
                              Posts, IsStatus
          <5>2. pc'[w] \in {pc[w], "failed"}
            BY <1>0, <5>1, AttemptFailsPc, AfterFailureTable
          <5> QED
            BY <4>1, <5>1, <5>2 DEF Before, Statuses, NeverShown
        <4>4. CASE pc' = pc
          BY <4>1, <4>4
        <4> QED
          BY <2>4, <3>3, <4>2, <4>3, <4>4
             DEF CallStep, CallIsRead, StatusRejected, StatusAnswerLost,
                 UploadAnswerLost, LoseAnswer, GiveUp, LateCallLost, runVars
      <3> QED
        BY <3>1, <3>2, <3>3
    <2>5. CASE UserStep
      <3>1. row.present /\ row'.status = row.status /\ pc' = pc
        BY <1>2, <2>5, UserStepRow DEF runVars
      <3> QED
        BY <2>0, <3>1, WorkingMeans DEF StatusFits
    <2>6. CASE (\E u \in Runs : Send(u)) \/ UNCHANGED vars
      <3>1. row' = row /\ pc' = pc
        BY <2>6, RunWrites DEF Send, runVars, vars, coreVars
      <3> QED
        BY <1>2, <2>0, <3>1, WorkingMeans DEF StatusFits
    <2> QED
      BY <2>1, <2>2, <2>3, <2>4, <2>5, <2>6 DEF Next
  <1> QED
    BY <1>1, <1>2 DEF StatusFits
\* A request on its way through Core in an orderly execution: read, or gone.
LEMMA OrderlyCallStep ==
    ASSUME IInv, SoleWorker, Orderly, lateCalls' = 0, NEW c \in calls, CallStep(c),
           NEW b \in calls'
    PROVE  /\ row' = row /\ artifacts' = artifacts /\ UNCHANGED runVars
           /\ b.run = c.run /\ b.post = c.post /\ b.art = c.art
           /\ IsStatus(c) => b.seen = ViewOf(row)
           /\ ~IsStatus(c) => b.seenArts = artifacts
  <1>0. /\ c \in Call /\ c.late = 0 /\ \A a \in calls : a = c
        /\ lateCalls = 0
    BY OrderlyCalls DEF Orderly
  <1>1. CallIsRead(c)
    <2>1. SUFFICES ASSUME ~CallIsRead(c)
                   PROVE  FALSE
      OBVIOUS
    <2>2. ~GiveUp(c)
      BY <1>0 DEF GiveUp
    <2>3. calls' = calls \ {c}
      BY <2>1, <2>2 DEF CallStep, StatusAnswered, CommitStatus, UploadAnswered,
                        CommitUpload,
                        StatusRejected, StatusAnswerLost, UploadAnswerLost,
                        RejectStatus, UploadFails, LateCallLost, LoseCall
    <2> QED
      BY <1>0, <2>3
  <1>2. CASE ReadService(c)
    <2> DEFINE d == [c EXCEPT !.phase = "read", !.seen = ViewOf(row)]
    <2>1. d.run = c.run /\ d.post = c.post /\ d.art = c.art /\ d.seen = ViewOf(row)
      BY <1>0 DEF Call
    <2>2. calls' = (calls \ {c}) \cup {d}
      BY <1>2 DEF ReadService
    <2>3. b = d
      BY <1>0, <2>2
    <2> QED
      BY <1>1, <1>2, <2>1, <2>3 DEF CallIsRead, ReadService
  <1>3. CASE ReadArtifacts(c)
    <2> DEFINE d == [c EXCEPT !.phase = "read", !.seenArts = artifacts]
    <2>1. d.run = c.run /\ d.post = c.post /\ d.art = c.art /\ d.seenArts = artifacts
      BY <1>0 DEF Call
    <2>2. calls' = (calls \ {c}) \cup {d}
      BY <1>3 DEF ReadArtifacts
    <2>3. b = d
      BY <1>0, <2>2
    <2> QED
      BY <1>1, <1>3, <2>1, <2>3 DEF CallIsRead, ReadArtifacts
  <1> QED
    BY <1>1, <1>2, <1>3 DEF CallIsRead

\* The COMMIT of a start finds no request of another run in flight, and those of
\* its own run as LaunchedWaits says.
LEMMA CommitFindsOwn ==
    ASSUME IInv, SoleWorker, Orderly, NEW w \in Runs, start[w] = "launched",
           NEW c \in calls
    PROVE  /\ c.run = w /\ IsStatus(c) /\ Working(w)
           /\ Parsing(w) => c.phase = "sent" /\ c.post = FirstStep[Kind[w]]
           /\ Generating(w) => c.post = "generating" \/ row.status = "generating"
  <1>0. c \in Call /\ c.run \in Runs /\ c.late = 0 /\ pc[c.run] = c.post /\ Working(c.run)
    BY OrderlyCalls
  <1>1. CASE Parsing(w)
    <2>1. pc[w] = FirstStep[Kind[w]] /\ Kind[w] \in Kinds
      BY <1>1, KindOfRun DEF IInv, LaunchedWaits
    <2>2. Working(w) /\ c.run = w
      BY <1>0, <2>1, FirstStepTable, WorkingMeans DEF SoleWorker
    <2>3. IsStatus(c)
      BY <1>0, <1>1, <2>1, <2>2 DEF IsStatus, Parsing, ParseKinds, FirstStep, Statuses
    <2> QED
      BY <1>0, <1>1, <2>1, <2>2, <2>3, KindsApart DEF IInv, LaunchedWaits
  <1>2. CASE Generating(w)
    <2>1. \/ pc[w] = "generating"
          \/ /\ row.status = "generating"
             /\ pc[w] \in {"generate_packages", "packaging", "publishing", "failed"}
      BY <1>2 DEF IInv, LaunchedWaits
    <2>2. Working(w) /\ c.run = w
      BY <1>0, <2>1 DEF SoleWorker, Working, Active
    <2> QED
      BY <1>0, <1>2, <2>1, <2>2, KindsApart DEF IInv, LaunchedWaits
  <1> QED
    BY <1>1, <1>2, KindsApart

LEMMA SeenFitsStep ==
    ASSUME SInv, [Next]_vars
    PROVE  SeenFits'
  <1> USE DEF SInv
  <1> SUFFICES ASSUME Orderly', row'.present, NEW c \in calls', c.phase = "read",
                      c.post \in Statuses, c.seen.status = c.post
               PROVE  row'.status = c.post
    BY DEF SeenFits, IsStatus
  <1>0. Orderly /\ row \in Row /\ TypeOK
    BY OrderlyBefore DEF IInv, TypeOK, CoreTypeOK
  <1>1. ASSUME row.present, c \in calls, row'.status = row.status
        PROVE  row'.status = c.post
    BY <1>0, <1>1 DEF SeenFits, IsStatus
  <1>2. ASSUME NEW w \in Runs, StartStep(w)
        PROVE  row'.status = c.post
    <2>1. CASE row' = row
      BY <1>1, <1>2, <2>1, StartStepRow
    <2>2. CASE Parsing(w) /\ start[w] = "launched"
      BY <1>0, <1>2, <2>2, StartStepRow, CommitFindsOwn
    <2>3. CASE /\ Generating(w) /\ start[w] = "launched"
               /\ row' = [row EXCEPT !.status = "generating", !.genwf = w]
      <3>1. row'.status = "generating" /\ row.present /\ c \in calls
        BY <1>0, <1>2, <2>3, LaunchedAlone, StartStepRow DEF IInv, Row
      <3>2. c.post = "generating" \/ row.status = "generating"
        BY <1>0, <2>3, <3>1, CommitFindsOwn
      <3> QED
        BY <1>0, <3>1, <3>2 DEF SeenFits, IsStatus
    <2> QED
      BY <1>2, <2>1, <2>2, <2>3, StartStepRow
  <1>3. ASSUME NEW w \in Runs, Send(w)
        PROVE  row'.status = c.post
    <2>1. row' = row /\ c \in calls
      BY <1>3, RunWrites, SendAdds
    <2> QED
      BY <1>1, <2>1
  <1>4. ASSUME NEW w \in Runs, ActivityStep(w)
        PROVE  row'.status = c.post
    BY <1>1, <1>4, RunWrites DEF ActivityStep, coreVars
  <1>5. ASSUME NEW d \in calls, CallStep(d)
        PROVE  row'.status = c.post
    <2>1. row' = row /\ (IsStatus(d) => c.seen = ViewOf(row)) /\ c.post = d.post
      BY <1>0, <1>5, OrderlyCallStep DEF Orderly
    <2> QED
      BY <2>1 DEF IsStatus, ViewOf
  <1>6. CASE UserStep
    BY <1>1, <1>6, UserStepRow
  <1>7. CASE UNCHANGED vars
    BY <1>1, <1>7 DEF vars, coreVars
  <1> QED
    BY <1>2, <1>3, <1>4, <1>5, <1>6, <1>7 DEF Next

-----------------------------------------------------------------------------
(* The artifact.                                                           *)

\* A request that reports an artifact is that of the step "complete".
CallArt == \A c \in calls : c.art # None => c.post = "complete"

\* What the row and the runs say of the artifact.
ArtHeld ==
    /\ artifacts = IF row.art = None THEN {} ELSE {row.art}
    /\ \A w \in Runs : (pc[w] = "complete" /\ Kind[w] = "generate") => result[w] = row.art

\* What the requests in flight say of it.
ArtSeen ==
    \A c \in calls :
       /\ c.art \in {None, row.art}
       /\ (c.phase = "read" /\ ~IsStatus(c)) => artifacts \subseteq c.seenArts

LEMMA ArtifactFitsParts ==
    ArtifactFits <=> CallArt /\ ((Orderly /\ row.present) => (ArtHeld /\ ArtSeen))
  BY DEF ArtifactFits, CallArt, ArtHeld, ArtSeen, ArtifactIntact, Orderly

LEMMA SendCall ==
    ASSUME NEW w \in Runs, Send(w)
    PROVE  \E d : /\ calls' = calls \cup {d} /\ d.phase = "sent" /\ d.post = pc[w]
                  /\ d.art = IF pc[w] = "complete" /\ Kind[w] = "generate"
                               THEN result[w] ELSE None
  <1> DEFINE art == IF pc[w] = "complete" /\ Kind[w] = "generate"
                      THEN result[w] ELSE None
             d == [run |-> w, post |-> pc[w], attempt |-> attempt[w],
                   art |-> art, late |-> 0, phase |-> "sent", seen |-> NoView,
                   seenArts |-> {}]
  <1>1. calls' = calls \cup {d}
    BY DEF Send
  <1>2. d.phase = "sent" /\ d.post = pc[w] /\ d.art = art
    OBVIOUS
  <1> QED
    BY <1>1, <1>2

LEMMA CallArtStep ==
    ASSUME IInv, CallArt, [Next]_vars
    PROVE  CallArt'
  <1>1. ASSUME NEW w \in Runs, Send(w)
        PROVE  CallArt'
    BY <1>1, SendCall DEF CallArt
  <1>2. ASSUME NEW c \in calls, CallStep(c)
        PROVE  CallArt'
    <2>1. c \in Call
      BY DEF IInv, TypeOK, CoreTypeOK
    <2>2. \/ calls' = calls \ {c}
          \/ \E d : /\ calls' = (calls \ {c}) \cup {d}
                    /\ \/ d = [c EXCEPT !.phase = "read", !.seen = ViewOf(row)]
                       \/ d = [c EXCEPT !.phase = "read", !.seenArts = artifacts]
                       \/ d = [c EXCEPT !.late = lateCalls + 1]
      BY <1>2
         DEF CallStep, CallIsRead, ReadService, ReadArtifacts, StatusAnswered, CommitStatus,
             UploadAnswered, CommitUpload, StatusRejected, StatusAnswerLost,
             UploadAnswerLost, LoseAnswer, RejectStatus, UploadFails,
             LoseCall, GiveUp, LateCallLost
    <2>3. \A d : \/ d = [c EXCEPT !.phase = "read", !.seen = ViewOf(row)]
                 \/ d = [c EXCEPT !.phase = "read", !.seenArts = artifacts]
                 \/ d = [c EXCEPT !.late = lateCalls + 1]
            => d.art = c.art /\ d.post = c.post
      BY <2>1 DEF Call
    <2>4. \A b \in calls' : b \in calls \/ (b.art = c.art /\ b.post = c.post)
      BY <2>2, <2>3
    <2> QED
      BY <2>4 DEF CallArt
  <1>3. ASSUME NEW w \in Runs, StartStep(w)
        PROVE  CallArt'
    BY <1>3, StartStepRow DEF CallArt
  <1>4. CASE \/ \E w \in Runs : ActivityStep(w)
             \/ UserStep \/ UNCHANGED vars
    BY <1>4, QuietSteps DEF CallArt, ActivityStep, coreVars
  <1> QED
    BY <1>1, <1>2, <1>3, <1>4 DEF Next
LEMMA ArtStartStep ==
    ASSUME SInv, NEW w \in Runs, StartStep(w), Orderly, row'.present
    PROVE  ArtHeld' /\ ArtSeen'
  <1> USE DEF SInv
  <1>0. TypeOK /\ row \in Row /\ artifacts' = artifacts /\ calls' = calls
    BY StartStepRow DEF IInv, TypeOK, CoreTypeOK
  <1>1. result' = result
    BY DEF StartStep, Launch, LaunchRun, runVars
  <1>2. \A v \in Runs : pc'[v] = "complete" => pc[v] = "complete"
    <2>1. CASE Launch(w)
      <3>1. \A k \in Kinds : FirstStep[k] # "complete"
        BY DEF Kinds, ParseKinds, GenerateKinds, FirstStep
      <3> QED
        BY <2>1, <3>1, LaunchPc, KindOfRun, <1>0 DEF IInv
    <2>2. CASE ~Launch(w)
      BY <2>2, QuietSteps DEF runVars
    <2> QED
      BY <2>1, <2>2
  <1>3. ASSUME row.present, row'.art = row.art
        PROVE  ArtHeld' /\ ArtSeen'
    <2>1. ArtHeld /\ ArtSeen
      BY <1>3, ArtifactFitsParts
    <2> QED
      BY <1>0, <1>1, <1>2, <1>3, <2>1 DEF ArtHeld, ArtSeen, IsStatus
  <1>4. CASE row' = row
    BY <1>3, <1>4
  <1>5. CASE /\ start[w] = "launched" /\ Parsing(w) /\ ~row.present /\ row'.art = None
    <2>1. artifacts = {}
      BY <1>5 DEF IInv, NoOrphanArtifact
    <2>2. pc[w] = FirstStep[Kind[w]] /\ Kind[w] \in Kinds /\ Kind[w] # "generate"
      BY <1>5, KindOfRun DEF IInv, LaunchedWaits, Parsing, ParseKinds
    <2>3. Working(w)
      BY <2>2, FirstStepTable, WorkingMeans
    <2>4. \A v \in Runs : ~(pc[v] = "complete" /\ Kind[v] = "generate")
      BY <2>2, <2>3 DEF SoleWorker, Working, Active
    <2>5. ASSUME NEW c \in calls
          PROVE  c.art = None /\ IsStatus(c)
      <3>1. IsStatus(c) /\ c.post = FirstStep[Kind[w]]
        BY <1>5, CommitFindsOwn
      <3>2. c.post # "complete"
        BY <1>5, <3>1 DEF Parsing, ParseKinds, FirstStep
      <3> QED
        BY <3>1, <3>2, ArtifactFitsParts DEF CallArt
    <2> QED
      BY <1>0, <1>2, <1>5, <2>1, <2>4, <2>5 DEF ArtHeld, ArtSeen, IsStatus
  <1>6. CASE /\ start[w] = "launched" /\ Generating(w)
             /\ row' = [row EXCEPT !.status = "generating", !.genwf = w]
    <2>1. row.present /\ row'.art = row.art
      BY <1>0, <1>6, LaunchedAlone DEF IInv, Row
    <2> QED
      BY <1>3, <2>1
  <1> QED
    BY <1>4, <1>5, <1>6, StartStepRow

LEMMA ArtCallStep ==
    ASSUME SInv, Orderly, Orderly', row'.present, NEW c \in calls, CallStep(c)
    PROVE  ArtHeld' /\ ArtSeen'
  <1> USE DEF SInv
  <1>0. /\ TypeOK /\ RunTypeOK /\ row \in Row /\ c \in Call /\ c.run \in Runs /\ c.late = 0
        /\ pc[c.run] = c.post /\ Working(c.run) /\ \A a \in calls : a = c
    BY OrderlyCalls DEF IInv, TypeOK, CoreTypeOK
  <1>1. row.present /\ ArtHeld /\ ArtSeen
    BY <1>0, RowWrites, ArtifactFitsParts
  <1>2. \A v \in Runs \ {c.run} : pc[v] # "complete"
    BY <1>0 DEF SoleWorker, Working, Active
  <1>3. CASE CallIsRead(c)
    <2>1. row' = row /\ artifacts' = artifacts /\ UNCHANGED runVars
      BY <1>3 DEF CallIsRead, ReadService, ReadArtifacts
    <2>2. \A b \in calls' : /\ b.post = c.post /\ b.art = c.art
                            /\ ~IsStatus(c) => b.seenArts = artifacts
      BY <1>0, OrderlyCallStep DEF Orderly
    <2> QED
      BY <1>1, <2>1, <2>2 DEF ArtHeld, ArtSeen, IsStatus, runVars
  <1>4. CASE StatusAnswered(c)
    <2>1. /\ row' = row \/ row' = WithStatus(row, c)
          /\ GoTo(c.run, Following(c.run)) /\ result' = result
          /\ artifacts' = artifacts /\ calls' = calls \ {c} /\ c.post \in Statuses
      BY <1>4, AnsweredStatus
    <2>2. row'.art = row.art
      <3>1. CASE row' = WithStatus(row, c)
        BY <1>0, <1>1, <3>1 DEF WithStatus, Row, ArtSeen
      <3> QED
        BY <2>1, <3>1
    <2>3. calls' = {}
      BY <1>0, <2>1
    <2>4. \A v \in Runs : pc'[v] # "complete"
      BY <1>0, <1>2, <2>1, GoToPc, FollowingBefore DEF Working, Active
    <2> QED
      BY <1>1, <2>1, <2>2, <2>3, <2>4 DEF ArtHeld, ArtSeen
  <1>5. CASE UploadAnswered(c)
    <2>1. /\ artifacts' = (artifacts \ c.seenArts) \cup {<<c.run, c.attempt>>}
          /\ row' = [row EXCEPT !.art = <<c.run, c.attempt>>]
          /\ calls' = calls \ {c} /\ c.phase = "read" /\ ~IsStatus(c)
          /\ GoTo(c.run, Following(c.run))
          /\ result' = [result EXCEPT ![c.run] = <<c.run, c.attempt>>]
      BY <1>0, <1>5 DEF UploadAnswered, CommitUpload, UploadReturns
    <2>2. artifacts' = {<<c.run, c.attempt>>} /\ row'.art = <<c.run, c.attempt>>
      BY <1>0, <1>1, <2>1 DEF ArtSeen, Row
    <2>3. calls' = {} /\ result'[c.run] = <<c.run, c.attempt>>
      BY <1>0, <2>1 DEF RunTypeOK
    <2>4. \A v \in Runs \ {c.run} : pc'[v] # "complete"
      BY <1>0, <1>2, <2>1, GoToPc
    <2>5. row'.art # None
      BY <1>0, <2>2, NoneAssumption DEF Call, Ticket
    <2> QED
      BY <2>2, <2>3, <2>4, <2>5 DEF ArtHeld, ArtSeen
  <1>6. CASE StatusAnswerLost(c)
    <2>1. /\ row' = row \/ row' = WithStatus(row, c)
          /\ UNCHANGED runVars /\ artifacts' = artifacts /\ calls' = calls \ {c}
      BY <1>6, LostStatus
    <2>2. row'.art = row.art
      <3>1. CASE row' = WithStatus(row, c)
        BY <1>0, <1>1, <3>1 DEF WithStatus, Row, ArtSeen
      <3> QED
        BY <2>1, <3>1
    <2>3. calls' = {}
      BY <1>0, <2>1
    <2> QED
      BY <1>1, <2>1, <2>2, <2>3 DEF ArtHeld, ArtSeen, runVars
  <1>7. CASE UploadAnswerLost(c)
    <2>1. /\ artifacts' = (artifacts \ c.seenArts) \cup {<<c.run, c.attempt>>}
          /\ row' = [row EXCEPT !.art = <<c.run, c.attempt>>]
          /\ calls' = calls \ {c} /\ c.phase = "read" /\ ~IsStatus(c)
          /\ AttemptFails(c.run)
      BY <1>7 DEF UploadAnswerLost, CommitUpload
    <2>2. artifacts' = {<<c.run, c.attempt>>} /\ row'.art = <<c.run, c.attempt>>
      BY <1>0, <1>1, <2>1 DEF ArtSeen, Row
    <2>3. calls' = {}
      BY <1>0, <2>1
    <2>4. \A v \in Runs : pc'[v] # "complete"
      BY <1>0, <1>2, <2>1, AttemptFailsPc, AfterFailureTable DEF Call, Posts, IsStatus
    <2>5. row'.art # None
      BY <1>0, <2>2, NoneAssumption DEF Call, Ticket
    <2> QED
      BY <2>2, <2>3, <2>4, <2>5 DEF ArtHeld, ArtSeen
  <1>8. CASE /\ ~CallIsRead(c) /\ ~StatusAnswered(c) /\ ~UploadAnswered(c)
             /\ ~StatusAnswerLost(c) /\ ~UploadAnswerLost(c)
    <2>1. UploadFails(c)
      <3>1. ~GiveUp(c) /\ ~StatusRejected(c) /\ ~LateCallLost(c)
        BY <1>0, <1>1 DEF GiveUp, Orderly, StatusRejected, RejectStatus, LateCallLost,
                          TypeOK
      <3> QED
        BY <1>8, <3>1 DEF CallStep
    <2>2. /\ AttemptFails(c.run) /\ result' = result /\ row' = row /\ artifacts' = artifacts
          /\ calls' = calls \ {c} /\ ~IsStatus(c)
      BY <2>1 DEF UploadFails, LoseCall
    <2>3. pc'[c.run] # "complete"
      BY <1>0, <2>2, AttemptFailsPc, AfterFailureTable DEF Call, Posts, IsStatus
    <2>4. \A v \in Runs : pc'[v] # "complete"
      BY <1>0, <1>2, <2>2, <2>3, AttemptFailsPc
    <2> QED
      BY <1>0, <1>1, <2>2, <2>4 DEF ArtHeld, ArtSeen
  <1> QED
    BY <1>3, <1>4, <1>5, <1>6, <1>7, <1>8

LEMMA ArtifactFitsStep ==
    ASSUME SInv, [Next]_vars
    PROVE  ArtifactFits'
  <1> USE DEF SInv
  <1>1. CallArt'
    BY CallArtStep, ArtifactFitsParts
  <1>2. ASSUME Orderly', row'.present
        PROVE  ArtHeld' /\ ArtSeen'
    <2>0. Orderly /\ TypeOK /\ RunTypeOK
      BY <1>2, OrderlyBefore DEF IInv, TypeOK
    <2>1. ASSUME row.present, row'.art = row.art, artifacts' = artifacts, calls' = calls,
                 result' = result,
                 \A v \in Runs : (pc'[v] = "complete" /\ Kind[v] = "generate")
                                   => pc[v] = "complete"
          PROVE  ArtHeld' /\ ArtSeen'
      BY <2>0, <2>1, ArtifactFitsParts DEF ArtHeld, ArtSeen, IsStatus
    <2>2. ASSUME NEW w \in Runs, StartStep(w)
          PROVE  ArtHeld' /\ ArtSeen'
      BY <1>2, <2>0, <2>2, ArtStartStep
    <2>3. ASSUME NEW w \in Runs, Send(w)
          PROVE  ArtHeld' /\ ArtSeen'
      <3>1. UNCHANGED <<row, artifacts, runVars>>
        BY <2>3 DEF Send
      <3>2. ArtHeld /\ ArtSeen
        BY <1>2, <2>0, <3>1, ArtifactFitsParts
      <3>3. PICK d : /\ calls' = calls \cup {d} /\ d.phase = "sent"
                     /\ d.art = IF pc[w] = "complete" /\ Kind[w] = "generate"
                                  THEN result[w] ELSE None
        BY <2>3, SendCall
      <3>4. d.art \in {None, row.art}
        BY <3>2, <3>3 DEF ArtHeld
      <3> QED
        BY <3>1, <3>2, <3>3, <3>4 DEF ArtHeld, ArtSeen, IsStatus, runVars
    <2>4. ASSUME NEW w \in Runs, ActivityStep(w)
          PROVE  ArtHeld' /\ ArtSeen'
      <3>1. row' = row /\ artifacts' = artifacts /\ calls' = calls
        BY <2>4, RunWrites DEF ActivityStep, coreVars
      <3>2. result' = result
        BY <2>4 DEF ActivityStep, FetchReturns, PlainReturns, StepReturns, CleanupReturns,
                    ActivityFails
      <3>3. \A v \in Runs : (pc'[v] = "complete" /\ Kind[v] = "generate")
                              => pc[v] = "complete"
        BY <2>0, <2>4, ActivityPc, ActivityBefore DEF NoWork
      <3> QED
        BY <1>2, <2>1, <3>1, <3>2, <3>3
    <2>5. ASSUME NEW c \in calls, CallStep(c)
          PROVE  ArtHeld' /\ ArtSeen'
      BY <1>2, <2>0, <2>5, ArtCallStep
    <2>6. CASE UserStep
      BY <1>2, <2>1, <2>6, UserStepRow DEF runVars
    <2>7. CASE UNCHANGED vars
      BY <1>2, <2>1, <2>7 DEF vars, coreVars, runVars
    <2> QED
      BY <2>2, <2>3, <2>4, <2>5, <2>6, <2>7 DEF Next
  <1>3. ArtifactFits' <=> CallArt' /\ ((Orderly' /\ row'.present) => (ArtHeld' /\ ArtSeen'))
    BY DEF ArtifactFits, CallArt, ArtHeld, ArtSeen, ArtifactIntact, Orderly
  <1> QED
    BY <1>1, <1>2, <1>3

-----------------------------------------------------------------------------
(* The theorems about the row.                                             *)

LEMMA SInvAlways == Spec => []SInv
  <1>1. Init => SInv
    <2> SUFFICES ASSUME Init
                 PROVE  SInv
      OBVIOUS
    <2>1. IInv
      BY InitIInv
    <2>2. ~row.present /\ calls = {} /\ \A w \in Runs : ~Working(w)
      BY DEF Init, CoreInit, RunInit, NoRow, Working, Active
    <2> QED
      BY <2>1, <2>2 DEF SInv, SoleWorker, StatusFits, SeenFits, ArtifactFits, ArtifactIntact
  <1>2. SInv /\ [Next]_vars => SInv'
    <2> SUFFICES ASSUME SInv, [Next]_vars
                 PROVE  SInv'
      OBVIOUS
    <2>1. IInv' /\ SoleWorker'
      BY NextIInv, SoleWorkerStep DEF SInv
    <2> QED
      BY <2>1, StatusFitsStep, SeenFitsStep, ArtifactFitsStep DEF SInv
  <1> QED
    BY <1>1, <1>2, PTL DEF Spec

\* While runs take turns and no request is late, the status shows the activity
\* that is executing, whoever starts, edits or deletes meanwhile.
THEOREM StatusTracksRunAlways == Spec => []StatusTracksRun
  <1>1. SInv => StatusTracksRun
    <2> SUFFICES ASSUME SInv, Orderly, row.present,
                        NEW w \in Runs, pc[w] \in DOMAIN ShownDuring
                 PROVE  row.status = ShownDuring[pc[w]]
      BY DEF StatusTracksRun, Orderly
    <2>1. pc[w] \notin NoWork /\ Before[pc[w]] = {ShownDuring[pc[w]]}
      BY DEF ShownDuring, Before, NoWork
    <2>2. row.status \in Before[pc[w]]
      BY <2>1, WorkingMeans DEF SInv, StatusFits
    <2> QED
      BY <2>1, <2>2
  <1> QED
    BY <1>1, SInvAlways, PTL

\* While runs take turns and no request is late, a service has the one artifact
\* its row names, or none, through every upload, retry and report.
THEOREM ArtifactIntactAlways == Spec => []ArtifactIntact
  <1>1. SInv => ArtifactIntact
    BY DEF SInv, ArtifactFits
  <1> QED
    BY <1>1, SInvAlways, PTL

\* What a run may post, the state machine allows, but for the two late failures.
LEMMA BeforeMoves ==
    \A s \in DOMAIN Before : \A t \in Before[s] :
       (s \in Statuses /\ s # t /\ ~(t = "complete" /\ s = "failed")
          /\ ~(t = "failed" /\ s = "generating"))
         => s \in Moves[t]
  <1>1. ASSUME NEW s \in DOMAIN Before \ {"failed"}, NEW t \in Before[s],
               s \in Statuses, s # t, ~(t = "failed" /\ s = "generating")
        PROVE  s \in Moves[t]
    BY <1>1 DEF Before, Moves, Statuses, NeverShown
  <1>2. ASSUME NEW t \in Before["failed"] \ {"failed", "complete"}
        PROVE  "failed" \in Moves[t]
    BY <1>2 DEF Before, Moves, Statuses, NeverShown
  <1> QED
    BY <1>1, <1>2

\* The action of StatusMoves.
MovesRight ==
    (lateCalls = 0 /\ ~raced /\ StatusChanges) => (DocumentedMove \/ UndocumentedMove)

LEMMA MovesStep ==
    ASSUME SInv, [Next]_vars
    PROVE  MovesRight
  <1> USE DEF SInv
  <1> SUFFICES ASSUME Orderly, row.present, row'.present, row'.status # row.status
               PROVE  DocumentedMove \/ UndocumentedMove
    BY DEF MovesRight, Orderly, StatusChanges
  <1>0. row \in Row /\ TypeOK
    BY DEF IInv, TypeOK, CoreTypeOK
  <1>1. ASSUME NEW w \in Runs, StartStep(w)
        PROVE  DocumentedMove \/ UndocumentedMove
    <2>1. /\ Generating(w) /\ start[w] = "launched"
          /\ row' = [row EXCEPT !.status = "generating", !.genwf = w]
      BY <1>1, StartStepRow
    <2>2. row'.status = "generating"
      BY <1>0, <2>1 DEF Row
    <2>3. pc[w] = "generating"
      BY <2>1, <2>2 DEF IInv, LaunchedWaits
    <2>4. row.status \in Before["generating"]
      BY <2>3, WorkingMeans DEF StatusFits, NoWork
    <2>5. "generating" \in DOMAIN Before /\ "generating" \in Statuses
      BY DEF Before, Statuses
    <2> QED
      BY <2>2, <2>4, <2>5, BeforeMoves DEF DocumentedMove, UndocumentedMove
  <1>2. ASSUME NEW c \in calls, CallStep(c)
        PROVE  DocumentedMove \/ UndocumentedMove
    <2>1. StatusAnswered(c) \/ StatusAnswerLost(c)
      BY <1>2, OtherCallStatus
    <2>2. row'.status = c.post /\ c.post \in Statuses
      BY <2>1, AnsweredStatus, LostStatus
    <2>3. c.run \in Runs /\ pc[c.run] = c.post /\ Working(c.run)
      BY OrderlyCalls
    <2>4. row.status \in Before[c.post]
      BY <2>3 DEF StatusFits
    <2>5. c.post \in DOMAIN Before
      BY <1>0, <2>3, StepsHaveBefore, KindOfRun, WorkingMeans DEF TypeOK, RunTypeOK
    <2> QED
      BY <2>2, <2>4, <2>5, BeforeMoves DEF DocumentedMove, UndocumentedMove
  <1>3. CASE \/ UserStep
             \/ \E w \in Runs : Send(w) \/ ActivityStep(w)
             \/ UNCHANGED vars
    BY <1>3, UserStepRow, RunWrites DEF vars, coreVars
  <1> QED
    BY <1>1, <1>2, <1>3 DEF Next

\* While runs take turns and no request is late, the status leaves the documented
\* state machine in two ways only: a failed clean-up of a parse shows a complete
\* service as failed, and a generation that was checked before a failure starts
\* after it.
THEOREM StatusMovesAlways == Spec => StatusMoves
  <1>1. SInv /\ [Next]_vars => [MovesRight]_vars
    BY MovesStep
  <1> QED
    BY <1>1, SInvAlways, PTL DEF Spec, StatusMoves, MovesRight
=============================================================================
