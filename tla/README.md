# A TLA+ model of genalphacli

genalphacli turns the HTTP API of a Python code base into a command-line client
and an MCP server. A user names a GitHub repository or a PyPI package; a
workflow fetches it and extracts its routes; further workflows generate
packages from the routes, and offer them for download or publish them to PyPI.

This directory models the part of the program whose correctness is hard to
test, model-checks it with TLC and proves its most important invariants with
TLAPS. Paths below are relative to the repository.

    tlc -workers 2 -config OverlappingRuns.cfg MCServiceLifecycle.tla
    tlapm ServiceLifecycleProofs.tla

The runs of `Accounts.cfg`, `Publication.cfg` and `Parsing.cfg` take their modules
from `MCAccounts`, `MCPublication` and `MCParsing`.

## 1. The system

| Component | Where | State it keeps | Operations | Talks to |
|---|---|---|---|---|
| Core, service lifecycle | `services/core` (`routes/v1`, `services`, `repositories`, `clients/temporal_client.py`) | `core_services`, `core_artifacts`, `core_projects` | start parse / generate / publish, status and artifact callbacks, auth-config, delete, download | Temporal (starts workflows), TPS, worker (is called back), web client (is polled) |
| Worker | `worker/` | workflow and activity state (in Temporal), clone and output directories | `ParseWorkflow`, `PyPIParseWorkflow`, `GenerateWorkflow`, `PublishWorkflow` and their activities | Core's `/internal` routes, TPS, GitHub, PyPI |
| Core, accounts | `services/core/services/auth_service.py`, `repositories/session_repo.py`, `auth/magic_link.py`, `deps.py` | users, workspaces, sessions | magic link, verify and log in, extend, log out, sweep | e-mail |
| Core, OAuth state | `services/core/oauth_state.py` | none: the state travels encrypted in a URL | encode, decode with expiry | TPS |
| TPS | `services/tps` | `tps_integrations` (encrypted tokens) | connect, exchange, get token (refreshing it), revoke | GitHub, PyPI |
| Parsing pipeline | `src/genalphacli/pipeline.py`, `parsers/` | none | layers of parsers, merging, command graph | called by the worker and the command line |
| Sources of code | `src/genalphacli/github.py`, `pypi.py` | temporary directories | clone, download, extract, detect framework | git, PyPI |
| Generators | `src/genalphacli/generators` | none | packages from templates; the generated client keeps `auth.json` | - |
| Command line | `src/genalphacli/cli.py` | none | sequential front end | - |
| Web client | `web/` | query cache | polls a service until its status is terminal | Core |

`services/core/routes/*.py` outside `v1`, `services/core/auth/routes.py`,
`auth/session.py`, `tps_client.py` and `temporal_client.py` are left over from an
earlier structure; `main.py` mounts none of them.

### What is hard, and what correctness means

* **Service lifecycle (Core and worker).** Core, Temporal and the worker share one
  row per service, and nothing but row locks of uncommitted UPDATEs orders them.
  A workflow is started *inside* the database transaction that creates or
  updates the row; the worker reports by HTTP requests that are retried, may be
  applied although the worker gave up on them, and are read-modify-write on the
  server. Users delete and edit services while runs work on them. Correct means:
  the status tells the truth (work in progress has a worker, polling ends, the
  status moves along the state machine), a service has the artifact it points
  to, nothing is generated without the routes of the parse, nothing that was
  reported or configured is lost except by the known stale reads, runs end.
* **TPS.** Reading a token takes `SELECT ... FOR UPDATE`; connecting and revoking do
  not. Correct means: a revoked integration holds no token and gives none out, and
  there is one active integration per user and app.
* **Accounts.** Concurrent first logins of one e-mail, extensions of a session that
  overlap each other and a logout, links that can be used again until they expire,
  a process that stops anywhere. Correct means: one user per e-mail with exactly one
  workspace, a session that belongs to the owner of the link, that does not run out
  under its user, and that never comes back once it is logged out.
* **OAuth installations.** The callback asks for no session, the state it brings is
  stored nowhere and may come twice, late or from another browser. Correct means:
  tokens are stored only for someone who had logged in and asked for it.
* **PyPI publication.** An attempt uploads several files, a retry meets the ones
  already there, a timed-out attempt goes on next to its successor, and packages are
  told apart by their names. Correct means: what a service shows as published is
  there, is its own, and one fault by itself does not fail a publication.
* **Parsing.** The prefix of a route is in another file than the route; includes may
  be cyclic; the same route is found twice under different names; parameters are
  renamed on their way into the client. Correct means: the parser finds the routes
  the framework serves, the merge keeps one of each, and the generated command sends
  the request the route wants.
* **Generated client.** Several processes share one `auth.json` (not modelled).

The hazards, each with its source line and the properties that cover it, are
listed in `PROJECT.json`.

## 2. The modules

    CoreService  <-EXTENDS-  WorkflowRuns  <-EXTENDS-  ServiceLifecycle
                                                         |           |
                                           MCServiceLifecycle   ServiceLifecycleProofs

    TokenVault  <-INSTANCE-  Integrations  <-EXTENDS-  IntegrationsProofs

    Accounts  <-EXTENDS-  OAuthInstall  <-EXTENDS-  MCAccounts, AccountsProofs

    Publication  <-EXTENDS-  MCPublication, PublicationProofs

    Routes  <-EXTENDS-  Repository  <-EXTENDS-  FastApi, Django, OpenApi, ConfigDetector
    Routes  <-EXTENDS-  Client
    FastApi, Django, OpenApi, ConfigDetector, Client  <-EXTENDS-  Pipeline  <-EXTENDS-  MCParsing
    Routes  <-EXTENDS-  SequenceFacts
    Pipeline, SequenceFacts  <-EXTENDS-  ParserProofs  <-EXTENDS-  PipelineProofs, DjangoProofs

**`CoreService`**: Core's tables and handlers for *one* service. `row` is the
committed row of `core_services`, `artifacts` the committed `core_artifacts` rows of
the service, `lock` the start request whose UPDATE is uncommitted, `calls` the
worker's HTTP requests in flight. A handler runs in one READ COMMITTED
transaction, so it is modelled as its read and its commit, with what other
transactions do in between:

| Code | Actions |
|---|---|
| `ParseService.start_github_parse`, `start_pypi_parse` | `CreateService`, `Launch` (in `ServiceLifecycle`), `CommitStart` / `AbortStart` |
| `GenerateService.start_generate`, `start_publish` | `CheckGenerate`, `FlushGenerating`, `Launch`, `CommitStart` / `AbortStart` |
| `internal.update_service_status` | `ReadService`, `CommitStatus` / `RejectStatus` |
| `internal.upload_artifact`, `ArtifactRepository.upsert_for_service` | `ReadArtifacts`, `CommitUpload` / `LoseCall` |
| `services.set_auth_config` | `EditReads`, `EditCommits` / `EditAborts` |
| `services.delete_service`, `ProjectService.delete_project` | `DeleteReads`, `DeleteCommits` / `DeleteAborts` |

What SQLAlchemy and PostgreSQL do with a handler is part of it: only changed
columns are written (`WithStatus` keeps `status` when the request's status is the one
it read), JSON columns are written whole (`flag_modified`), an UPDATE waits for an
uncommitted one, an UPDATE of a deleted row raises `StaleDataError`, the foreign
key of an artifact refuses an insert without its service and the delete of a
service with an artifact that the cascade did not load.

Data is abstracted to what the properties tell apart: `route_graph` is the set of
its parts (the routes of the parse, the login endpoints of auth-config), NULL and
`{}` being the empty set; `metadata_json` is the set of its keys, grouped by writer;
an artifact is named by the run and the attempt that uploads it. `framework`,
`error_message` and the names of things are left out.

**`WorkflowRuns`**: the Temporal side. `pc[w]` is the activity run `w` executes, a
status name standing for `update_service_status` with that status; `attempt[w]` counts
its attempts. Each workflow is a table from a step to the step that follows
(`ParseSteps`, `PyPIParseSteps`, `GenerateSteps`, `PublishSteps`); `AfterFailure` and
`Following` are the except branches. `MaxAttempts` holds the retry policies;
`update_service_status` has none, so Temporal retries it without end. `dirs` are the
clone and extraction directories on the worker's disk, `holders` the runs whose local
`clone_dir` is set. Directories whose path no workflow learns stay: those of failed
clone attempts, and the download directory an sdist is extracted in. The loop of
`PublishWorkflow` over `output_types` (never empty: the schema requires one entry) is
one step, since Core sees nothing between its activities; `Publication` models the
uploads inside.

**`ServiceLifecycle`** joins them by the worker's requests: `Send`, the two answers
(`StatusAnswered`, `UploadAnswered`), the two errors (`StatusRejected`, `UploadFails`), the
answers that do not arrive although Core has committed (`StatusAnswerLost`,
`UploadAnswerLost`: the post is repeated, the upload is an attempt that failed), and
`GiveUp`: the activity timed out while its request was in flight. Such a *late* call
stays in `calls`, concurrent with the next attempt and with later steps, until Core
applies it or it is lost. The module also holds the properties and the inductive
invariant. Two history variables: `raced`, some two runs worked at the same time, and
`overwritten`, an auth-config request that had read the service before its routes were
stored was saved after them (`SavesStale`).

**`MCServiceLifecycle`** defines the instances; **`ServiceLifecycleProofs`** holds the
proofs.

**`Integrations`**: the `tps_integrations` rows of one user and one app.
`create_integration` is `ConnectReads` and `ConnectInserts` / `ConnectUpdates` /
`ConnectAborts`; `delete_integration`, which awaits the provider in between, is
`DisconnectReads` and `DisconnectCommits` / `DisconnectAborts`; `get_token` with
`get_or_refresh` is `GetToken`. A token is named by the request that brought it.
`ConnectUpdates` leaves the status alone: the code assigns "active" to an attribute that
was read as "active", which SQLAlchemy does not write. The refresh is left out: GitHub's
tokens do not expire and the other registered apps are not OAuth, so it is never due.

**`TokenVault`** is the abstract specification: per integration one token, which a
reconnect replaces and a disconnect removes for good. `Integrations` implements it
under the mapping `VaultOf`, which hides what a revoked row may still hold.

**`Accounts`**: Core's users, workspaces and sessions. A request is one READ COMMITTED
transaction; what it has flushed is in its own record until it commits.

| Code | Actions |
|---|---|
| `AuthService.request_magic_link` | `RequestLink` |
| `AuthService.verify_and_login` | `RejectLink`, `VerifyLink` (the SELECT), `InsertUser` (the flush, which waits for a concurrent insert of the same e-mail and fails if that one commits), `FindWorkspace`, `CommitLogin` |
| `deps.get_current_user`, `SessionRepository.find_valid` | `DenyUse`, `BeginUse` (the SELECT and the change in memory), `EndUse` (the UPDATE and the commit, or `StaleDataError`) |
| `AuthService.logout`, `SessionRepository.delete` | `BeginLogout`, `EndLogout` |
| the process stops | `Restart`: every open transaction rolls back |

IDs are drawn afresh, so rows are named by the login that creates them. A link is its
e-mail and its time of issue: signed, stored nowhere, usable until it expires.
`clock` moves by `Tick`, but not while a guarded request is more than `Slow` behind:
`Slow` stands for the longest a request is in flight, which the code does not bound
itself. `lastUse` is a history variable.

**`OAuthInstall`** adds Core's half of an installation: `StartInstall` seals user and app
in a state, `RejectState` / `BeginCallback` / `EndCallback` are the callback. `EndCallback`
leaves open what TPS did and what the browser is told: `TpsHttpClient` raises for 5xx
answers only, and after a timeout the tokens may have been stored.

**`Publication`**: several publish runs side by side. `phase`, `next` and `try` are the
workflow's place (`GenerateFails`, `GenerateReturns`, `PublishReturns`, `PublishRaises`,
`TimesOut`), `job` has the thread of every attempt of the publish activity (`Build`,
`Upload`, `Break`), and `pypi` the files PyPI has, which nobody can replace. For a file
that is already there PyPI's answer is a choice: 409 or 200, which the code takes for
done (`Skip`), or 400, which makes the activity raise (`Refuse`). `TimesOut` leaves the
thread of the attempt running: an upload may take 120 s and sends no heartbeat, the
heartbeat timeout is 30 s. A package name is its stem with the number of `_mcp` at its
end, all that the choice of the directory looks at. `faults` is a history variable: the
attempts of the current activity that were hit by a failure or a timeout, as opposed to
those the code itself made fail.

**`Pipeline`**: `run_pipeline` over one repository, then the generation of a client. Each
of its parts has a module:

| Module | Code | Steps |
|---|---|---|
| `Routes` | `models.py`, `merge_routes`, `normalize_path`, `build_command_graph` | pure |
| `Repository` | `index_files` and the imports of a file, as the parsers see them | none |
| `FastApi` | `FastApiParser` | one file of the prefix pass (`ReadPrefixes`), one file of the route pass (`ExtractRoutes`) |
| `Django` | `DjangoParser`, `_UrlPatternCollector` | open a file (`StartFile`, `FollowInclude`), list one pattern (`ListRoutes`), return (`CloseFile`) |
| `OpenApi` | `parse_spec_file` | one document (`ReadDocument`) |
| `ConfigDetector` | `detect_config`, `merge_config` | pure |
| `Client` | `pip_generator.py` and the shape of `cli.py.j2` | pure |

A name is the sequence of its tokens and a path the sequence of its segments, so that
`-` against `_`, slashes and placeholders can be told apart without spelling texts. A
file is the sequence of the statements the parsers look at. The collectors' recursion
in Django is a stack; the FastAPI visitors are folds over a file's statements. `Filter`,
`Updated` and `Put` of `Routes` (a list comprehension with a condition, `dict.update`, an
assignment to a key) are defined there by functions, since the provers cannot look into
the operators of the standard modules that do the same. `ReposAssumption` says what a
repository is: finite lists of files, documents and `.env` lines, each of the shape that
`ast.parse`, `yaml.safe_load` and the reading of lines give it (`IsFile`, `IsDocument`,
`IsItem`, `IsLine`), and a choice whether the client gets login commands; TLC evaluates it
for the 10,151 repositories of the run.

Operators introduced by a comment "Mutation of ..." are never used by the
specification. Each is a plausible bug (a missing lock, a dropped delete, an
attempt too many) put in the place of the definition it follows to make sure that
a property would notice.

## 3. The runs

The configurations of the lifecycle set `CHECK_DEADLOCK FALSE`: a state in which all start
requests have been made and all runs have ended is a legitimate end.

| Run | Instance | Checks | Shows |
|---|---|---|---|
| `LateRequests` | PyPI parse, generation, 1 delete, 1 late request, 1 lost answer | `TypeOK`, `NoOrphanArtifact` | with requests applied after their time or twice and a delete between any two steps, no artifact outlives its service |
| `OverlappingRuns` | parse and two generations, 1 lost answer | `InProgressHasWorker`, `ArtifactIntact`, `StatusTracksRun`, `StatusMoves` | however runs overlap, fail or are orphaned, work in progress has a worker; as long as none overlap, the status shows the step, leaves the documented state machine by two named moves only, and the artifact is the one pointed to |
| `EditAndDelete` | parse, publication, 1 auth-config, 1 delete; `FairSpec` | `GraphBeforeGeneration`, `LostOnlyToStaleReads`, `Settles`, `RunsEnd` | data is lost only to a request that read before it was written, and nothing is generated without the parsed routes but for such a request; polling ends; runs end while their service exists |
| `Integrations` | 3 rows, 3 connects, 2 disconnects | `TypeOK`, `OneActive`, `ImplementsVault` | one active integration unless connects overlap; whoever reads tokens sees the abstract vault |
| `Accounts` | 2 logins, 2 uses, 1 logout, 1 installation | `InstallTypeOK`, `OneAccountPerEmail`, `SessionForLinkOwner`, `UseKeepsSession`, `LogoutSticks`, `GrantTracesToLogin` | first logins side by side, a stop of the process, extensions against a logout and callbacks without a session leave no half account, no revived session and no grant without a login |
| `Publication` | 2 runs, 3 pairs of requests; fair | `TypeOK`, `PublishedIsThere`, `PublishedIsOwn`, `FaultTolerated`, `PublicationEnds` | retries and attempts that overlap neither lose nor mix up a package, and a publication fails only after two faults or over a file PyPI already has |
| `Parsing` | 10,151 repositories | `TypeOK`, `FastApiServed`, `PatternsOnce`, `MountedRight`, `MergedRight`, `ConfigDetected`, `ClientReaches`, `ParsingAdvances` | the parsers find what the frameworks serve, the merge and the names lose nothing silently but what is listed below, every parse ends |
| `UndocumentedMove` | parse and generation | `DocumentedMoves` **violated** | the clean-up of a parse fails after "parsed" was posted, and a generation checked before goes on from "failed" |
| `EndlessRun` | parse, 1 delete; `FairSpec` | `EveryRunEnds` **violated** | a run without its service posts for ever |
| `WipedCredentials` | 1 row, 2 connects, 1 disconnect | `RevokedIsWiped` **violated** | a reconnect overtaken by a disconnect stores its token in the revoked row |
| `LostPrefix` | the FastAPI repositories | `PrefixesTracked` **violated** | `include_router(name)` of a router imported by its name loses the prefix |
| `ScanOrder` | the Django repositories | `RootsFirst` **violated** | a `urls.py` that is included and includes another, scanned before the root, is taken for a root |

The five violations are disagreements with documents or comments of the repository;
`PROJECT.json` quotes them. `Moves` is the documented state machine and nothing else;
`UndocumentedMove` names the two moves the code makes beside it. `complete -> failed`: the
removal of the clone runs after "parsed" was posted and inside the same `try`, so
its failure posts "failed" over whatever is there. `failed -> generating`: a start
request looks at the status before it waits for the row, and not again.
`StatusMoves` says that there is no third one.

Two exemptions occur in the properties and name the two hazards the code does
nothing about. `lateCalls = 0`: a late status request may put an old status back, and
nobody moves it on. `~raced`: two clicks start two generations (the workflows'
IDs contain the time), which then post over each other and may leave two artifacts.
`InProgressHasWorker` needs only the first, `NoOrphanArtifact`,
`GraphBeforeGeneration` and `LostOnlyToStaleReads` neither. `GraphBeforeGeneration` has an
exemption of its own: an auth-config request that read the service before its routes
were stored and is saved after them puts the graph back as it was, and the service is
offered for generation with the login endpoints alone. These three, and the clone
directories that failed attempts leave on the worker's disk, are known faults that no
property is about.

`Publication` and `Parsing` state their limits as predicates, each of which names input
the code treats wrongly or not at all:

* `Alone` (in `PublishedIsOwn`): two services with one project name on PyPI; the version
  is always 0.1.0 and a file that exists counts as published.
* `Unpickable`: both types of a name that ends in `_mcp`; "pick the right one" finds no
  CLI package, and the publication fails without any fault.
* `Taken` (in `FaultTolerated`): whether a retry survives meeting the files of the attempt
  before it depends on PyPI's answer; the code counts on 409.
* `Readable` (in `FastApiServed` and `PrefixesTracked`): a router included twice or by a
  router that is itself included gets the wrong prefix, and so does one whose module is
  imported under another name (`import a.b as c`), imported twice or after the call; a
  path parameter with a converter or with the name of a dependency is lost. Prefixes
  that end in a slash are excluded because FastAPI refuses them.
* `ByModule` (in `FastApiServed` only): every router is included as `module.router`. For
  `include_router(name)` of an imported router, which the parser's comment gives as an
  example, see the run `LostPrefix`.
* `Project` (in `MountedRight` and `RootsFirst`): a file included twice; a route with
  two slashes in a row (the parser makes one of them, Django does not); a view function
  imported by its bare name, whose route is dropped; and (`ClearView`) a function or
  method of the URLconf's own file with the name of a view that is taken from another
  module, which the parser prefers. `ServedUrls` speaks of the methods a client can use:
  a view that answers HEAD or OPTIONS is not listed for it. What the names of modules
  and views stand for is said as Python's imports do (`Finds`, `ViewFunctions`), not by
  the parser's own searches.
* `RootScannedFirst` (in `MountedRight` only): the root is the first file with an
  `include()` call in scan order. Of any order the code promises the same; see the run
  `ScanOrder`.
* `Expressible`, `Distinct`, `Apart`, `NotHidden` (in `ClientReaches`): header
  parameters and query parameters of a POST are sent elsewhere, a parameter named like a
  variable of the template is sent under its new name, two parameters of one Python name
  make a client no command of which runs (`ast.parse` accepts what the compiler
  refuses), a command whose function is called `app`, `typer`, `json` or `api_call`
  takes that name from the template's code and from every command, a parameter called
  `api_call` from its own, and of two commands with one name the last is kept. A
  parameter the path names is sent in the path wherever it was declared, and `Wanted`
  asks for no more.

The references these properties compare with (`Served`, `ServedUrls`, `ConfigRight`,
`Wanted`) are written from what the frameworks and the API ask for, without the passes,
the visited set, the scan and the renaming of the code.

### Bounds

* One service: no handler touches two, and runs of different services share
  nothing that is modelled.
* At most three start requests (`Runs`): one parse, without which there is no service,
  and two that generate or publish. Two are needed for an overlap.
* `MaxLate` (0 or 1) bounds the late requests and `MaxLost` (0 or 1) the lost answers: one
  suffices to be applied before or after each later step, or to have a request repeated.
  The proofs leave both arbitrary.
* One editor or one remover, each able to act any number of times; two requests of
  the same kind would have to overlap to matter, which the theorems cover.
* Three connects and rows, two disconnects: two connects may overlap while a third and
  a disconnect follow; disconnects can be repeated.
* Accounts: two e-mails, two logins and two guarded requests (two of each can overlap),
  one logout, one installation with one callback; clock 0..3 with `MaxAge = 2`,
  `Slow = 1` and the other ages 0, so that links, states and sessions can all run out
  within it. 3.7 million states up to symmetry; the theorems hold for all values.
* Publication: two runs and at most two types each; the plans make them share a project,
  share none, and meet a name with `_mcp` at its end.
* Parsing: the families of repositories in `MCParsing`: a main file and a router in both
  orders with every combination of prefixes; three `urls.py` files with every subset of
  six includes (cycles and self-includes among them) in four orders, two of them with
  views of one name in modules beside them, the third broken or with an `include()` outside
  its patterns or neither; routers included by module and by name; pairs of views of
  every kind; names that differ in `-`, `_` and case; triples of `.env` lines.
* `Attempts == 1..3`, the largest `maximum_attempts` in the code.

### Fairness

`FairSpec` adds weak fairness of `RunStep(w)`, the worker's side of each run with Core's
answers to the request it waits for (Temporal persists workflows, and its tasks
are delivered until they are answered or their attempts are used up), and of
`StartEnds(w)`, the end of a start request that has flushed its UPDATE (a transaction
ends in COMMIT or ROLLBACK; if Core dies the database rolls back). Nothing makes a
user act, a request late, a late request be applied, or a particular outcome
happen: an activity may always fail, a status request may fail any number of times
(`Send` repeats). What fairness excludes is a run that is left alone for ever.

`Publication` assumes weak fairness of `RunStep(r)` only, the workflow's side: Temporal's
timeouts end every attempt (`TimesOut` is one of its disjuncts), so nothing is asked of
the threads that build and upload. `PublicationEnds` therefore holds even if they hang.

`Pipeline` is sequential and needs no fairness: that each parse ends is `ParsingAdvances`
(each step ends its stage or leaves less to do in it) together with the deadlock check.

## 4. The proofs

`ServiceLifecycleProofs` proves for all values of the constants (any set of start
requests and kinds, editors, removers, any `MaxLate`), from the assumptions
`KindAssumption`, `NoneAssumption`, `MaxLateAssumption` and `MaxLostAssumption` only:

* `TypeCorrect`: `Spec => []TypeOK`
* `NoOrphanArtifactAlways`: `Spec => []NoOrphanArtifact`
* `GraphBeforeGenerationAlways`: `Spec => []GraphBeforeGeneration`
* `InProgressHasWorkerAlways`: `Spec => []InProgressHasWorker`

None of the last three is inductive. Why not, and what `IInv` adds:

* A service could be `generating` with its only run about to end. What rules it out:
  the row is locked from the flush to the end of the start request (`LockHeld`), so
  until then nobody, not even its own run, can change the row (`LaunchedWaits`), and
  a run that is still working will write the row again unless a request of its own is
  about to commit a terminal status that it believes is there already
  (`WillWrite`, `InProgressHasWriter`).
* A request that lost its place must not be mistaken for the awaited one: each run
  awaits at most one request, the one of its step (`LiveCalls`).
* Runs exist only after they are launched, and nobody finds a service before its
  only creator committed (`StartOrder`).
* Once a generation has passed its check, the service has the routes as long as it
  exists: a late or repeated post of "parsed" stores them anew, and only an auth-config
  request that read before them takes them away (`GraphKept`).

`InitIInv` and `NextIInv` are the two halves; there is one lemma per conjunct of `IInv`
and group of actions, and one step per action below it. TLC checked `IInv` on the
three passing instances before it was proved.

The second part of the module adds, from the same assumptions, what the row tells its
users:

* `StatusTracksRunAlways`: `Spec => []StatusTracksRun`
* `ArtifactIntactAlways`: `Spec => []ArtifactIntact`
* `StatusMovesAlways`: `Spec => StatusMoves`, that is, `DocumentedMove` or
  `UndocumentedMove`
* `LossesAreStaleReads`: `Spec => LostOnlyToStaleReads`

The last needs `IInv` only. The others speak of times in which no request outlived its
activity and no two runs overlapped (`Orderly`), and need `SInv`, which is `IInv` with

* `SoleWorker`: in such times one run at most is working. `raced` is set where
  a run starts to work, and no other step makes a second one work.
* `StatusFits`: while a run is at a step, the row has one of the statuses that `Before`
  lists for the step. Without the table nothing connects the step after a status
  post with the post, since the run only learns that it was answered.
* `SeenFits`: a status request writes nothing when it read its own status, so what it
  read must still be there when it commits.
* `ArtifactFits`: the artifact a run reports is the one in the row, and an upload that has
  read the table has read all of it, so that it deletes every older artifact.

`IntegrationsProofs` proves, from `NoneAssumption` and `TokenAssumption` of `Integrations`:
`TypeCorrect`, `OneActiveAlways` (`Spec => []OneActive`) and `VaultImplemented`
(`Spec => ImplementsVault`). The invariant behind them: as long as no connects
overlapped, at most one is between its SELECT and its COMMIT, and if it found no
row there is no active one (`LoneConnect`); active rows hold a token
(`ActiveHoldsToken`); a disconnect works on a row that exists (`DisconnectsRow`). Every
step then maps to a step of the vault or to a stutter (`VaultStep`).

`AccountsProofs` proves, from `TimesAssumption`, `NoLoginIsNone` and `StateAgeAssumption`,
for any clock, ages, debounce and number of requests: `InstallTypeCorrect`,
`AccountsAreUnique`, `SessionsAreOwned`, `SessionsOutliveTheirUse`, `LogoutIsFinal` and
`GrantsTraceToLogins`. The first five are proved for `Accounts` and carried over to the
composition, every step of which is a step of `Accounts` or leaves it unchanged
(`InstallImplementsAccounts`). The invariant `AllInv` consists of

* `TablesInv`, how committed rows hang together: users, owners of workspaces and live
  sessions all come from logins that have committed.
* `LoginInv`, about logins in flight. `OneCreator`: of two open logins of one e-mail at most
  one holds an inserted row, because the insert waits; `CreatesItself`: it creates only
  the row of its own name, and while it is open no such user is committed;
  `FoundUser`: a user that was found is committed; `SpaceWithUser`: a login makes a
  workspace exactly when it makes the user.
* `SessionInv`: a live session expires `MaxAge` after its last activity, and that
  activity is at most `Slack` behind the last use, `Slack` being the debounce or `Slow`,
  whichever is longer: an extension written late carries the clock of its read, and no
  request writes more than `Slow` after it read.

`InstallInv` adds that every state names the owner of a session that had authenticated
a request (`StatesInv`) and that a callback in flight goes by a state that was not
expired when it began (`CallbacksInv`).

`PublicationProofs` proves, from `RequestsAssumption`, for any runs, names and lists of
output types: `TypeCorrect`, `PublishedIsThereAlways`, `PublishedIsOwnAlways` and
`OneFaultIsTolerated`: a publication that failed had two faults, an `Unpickable` name,
or a file that was `Taken`. The invariant `PInv` behind them: a thread, one that was
given up included, only ever works on a directory it may pick, and what it has counted
as done is on PyPI (`UploadsAreThere`); whatever is on PyPI came from a run with a
project of that name (`Owned`); an attempt that was not started finds an idle thread
(`LateIsIdle`), so that faults can be counted: they are the attempts that are over,
unless the name is `Unpickable` or PyPI has a file of the package (`FaultCount`).
`RightDir` is the lemma about "pick the right one": of a name that can be picked, the
directory of the type and no other.

`ParserProofs`, `DjangoProofs` and `PipelineProofs` prove about the parsing pipeline,
for any set of repositories and from `ReposAssumption` only:

* `PatternsOnceAlways`: `Spec => []PatternsOnce`
* `FastApiServedAlways`: `Spec => []FastApiServed`
* `MountedRightAlways`: `Spec => []MountedRight`
* `TypeOKAlways`: `Spec => []TypeOK`
* `MergedRightAlways`: `Spec => []MergedRight`
* `ConfigDetectedAlways`: `Spec => []ConfigDetected`
* `ClientReachesAlways`: `Spec => []ClientReaches`
* `ParsingAdvancesAlways`: `Spec => ParsingAdvances`

The walk of the Django parser is a stack of collectors over a graph of files that may be
cyclic. `WalkInv` says of it that no two collectors have one file (`OneCollector`), that a
pattern was handled once and in a file that was entered (`HandledOnce`), that a collector
has handled the patterns before its place and no others (`ActiveHandled`), that a file which
was entered and has no collector any more is finished or does not parse (`LeftHandled`),
and that each `urls.py` was entered or is still to be started from (`NoneForgotten`). The
first four depend on each other: a file is not entered again because it is in the
visited set, so the collector that returns to an include finds its place where it was.

`PipeInv` adds three parts. `Places` is the types of the counters. `Findings` says that
the lists handed over hold routes (a known method, a path that is not empty), through all
the ways in which they are made: documents, decorated functions, view classes,
viewsets with their actions, router registrations, includes; and that the settings are
right from their detection on. `Merging` says that what is still to be merged is the end of
what was offered and that the result is right for the part before it (`Merges`);
`MergeOneMore` is the step of the loop: a route that replaces an entry keeps the entry's
place, and the keys stay distinct.

`FastApiServed` compares two passes over all files, each a loop over statements that keeps
its own dictionaries, with what FastAPI serves, which is stated by quantifiers over the
repository: no order, no state. Under `ByModule` each call is resolved to the file it
includes (`CallResolves`: what the imports read so far say is what all imports of the file
say), the constants collected before a statement are those defined before it (`Agree`),
so a file maps what its calls give (`PrefixesInRight`) and yields what it serves
(`RoutesInRight`). `FastInv` puts the files together: during the first pass the map holds
the calls of the files read, whichever files they include (`CallMap`); during the second
it is complete, so that each file gets its prefix (`MapRight`), and what was found is
what the files read so far serve (`FoundUpTo`).

`MountedRight` compares the walk, which carries one prefix along and enters each file
once, with `Mounts`, which knows neither order nor visits: the texts before a file's
patterns along all chains of includes, and finds modules and views as Python does; in a
`Project` the parser's own searches come to the same (`ClearView`). There the invariant
`MountInv` adds four parts to `WalkInv`: every open collector's prefix is the one text
its file is mounted under, less a slash (`Mounted`); what was found is what Django
serves at the patterns handled so far (`Listed`); the target of an include that was
handled was entered (`Followed`); and the root is the first of the files to start from
that is entered (`RootFirst`). The last two are there for one step: a file that is
started from, not entered by an include, gets the empty prefix, which is right for the
root only. Were it another file, it would be included, by a file not entered either, and
so on: files that only include each other are mounted nowhere (`MountOfUnreached`),
which a `Project` has none of; so the first start is the root (`StartIsRoot`), by
`RootScannedFirst`, which the code does not see to (`RootsFirst`).

`ClientReaches` follows one route through the naming of its command, parameters and path
to the request the command sends. That `PythonName` may be applied to its own result
(`SnakeStays`, `PythonNameFacts`) and that a name is not taken for another in the
template (`OneNameMore`, `TemplateFacts`) need `Distinct` and the lengths of the names
the code makes up; that the function's arguments are not mixed up needs that the lists
of path parameters and of other parameters are picked from one list (`NoTwicePicked`,
`ArgumentsDiffer`). Then the path sent is the route's (`SentPath`), the rest goes where
it is read (`RestFacts`), and the command found under the name is the route's own unless
a later one has it too (`InvokedFacts`, `NotHidden`). No command runs into a name of the
template's (`ClientApart`). `MadeOfMerged` is the invariant: graph and client are those
of the merged routes.

`ParsingAdvances` needs a bound on the work ahead: each handled pattern is a place in a
file, no place occurs twice, so there are at most as many as places (`PlacesCounted`,
`HandledAreFew`), and a collector is only opened by handling a pattern or by taking a
file from the list of starts.

The functions of these modules are defined by recursion over lists of any length.
`SequenceFacts` gets at them without the library's induction theorems, which take an
operator as a parameter: `NatInduct` states induction over a set of numbers, applied to
the set of lengths for which a function satisfying the equation exists, so that the
function chosen by a definition such as `Picked`, `FlattenSeq` or `FoldLeft` is known to
satisfy it (`PicksExist`, `FlattensExist`, `FoldExists`); the facts follow from the
equation.

Every safety property of the passing runs is thus proved, as are the refinement and the
action properties. Only model-checked are the liveness properties `Settles`, `RunsEnd`
and `PublicationEnds`, since TLAPS does not reason about fairness, and the five
violations, which are counterexamples.

## 5. Not modelled

The command line, the unmounted routes, the deployment and the pages of the web client
have no module: they hold no state of their own or are never run. Within the components:

* Lifecycle: reads (list, download), project names, `error_message` and `framework`, the
  output directories of `generate_packages_activity` (nothing ever removes them),
  time (a timeout may strike at any moment), the contents of graphs and packages.
* TPS: the refresh of tokens, the provider calls, the form checks.
* Accounts: the cookie in the browser (its `max_age` is not renewed with the session),
  `email_verified`, names, the sending of e-mail; `AuthService.get_session` and
  `cleanup_expired`, which nothing calls.
* OAuth: the encryption (a state is a value nobody can forge) and the redirect's path.
* Publication: hashes and contents, the token request as more than a cause of failure.
* Parsing: types, defaults and descriptions of parameters, response formats and
  `model_extractor.py`, warnings, modules found only on disk and not in the index,
  `urlpatterns` written as several `+` of lists.
* Sources of code: parsing of GitHub URLs, framework detection, the choice and
  extraction of an sdist.
* Generated packages: the MCP server's tools, `extract_token`, and the `auth.json`
  store, whose temporary file two processes share.

## 6. Plan

1. *Done.* `CoreService`, `WorkflowRuns`, `ServiceLifecycle`, their runs and first proofs.
2. *Done.* `TokenVault` and `Integrations`, the refinement and its proof.
3. *Done.* `Accounts` and `OAuthInstall`, their run and proofs.
4. *Done.* `Publication`, its run and the proofs of its safety properties.
5. *Done* but for the sdist choice, `extract_token` and the names of the MCP tools: the
   parsing pipeline and the commands of a generated client.
6. `AuthStore`: processes of a generated client and the shared `auth.json`.
7. Abstract specification of the service lifecycle (a service is created, worked on,
   settled, deleted) and a refinement from `ServiceLifecycle`.
8. *Done.* Proofs of `StatusTracksRun`, `StatusMoves`, `ArtifactIntact` and
   `LostOnlyToStaleReads`, of the walk, the merge, the settings, the progress of a parse
   and of FastAPI's routes.
9. *Done.* Proofs of `MountedRight` and `ClientReaches`.
