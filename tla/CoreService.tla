----------------------------- MODULE CoreService -----------------------------
(***************************************************************************)
(* Core's tables and HTTP handlers for ONE service: its row in             *)
(* core_services, its rows in core_artifacts, the requests that users and  *)
(* the worker have in flight, and the row lock of an uncommitted UPDATE.   *)
(*                                                                         *)
(* Every handler runs in one READ COMMITTED transaction: plain SELECTs     *)
(* take no lock, an UPDATE or DELETE waits while another transaction holds *)
(* the row, and nothing is visible before COMMIT.  A handler is therefore  *)
(* a read step and a commit step, with whatever it awaits in between.      *)
(* SQLAlchemy writes only the columns whose value differs from the one     *)
(* read (JSON columns are always written: flag_modified), so a commit      *)
(* merges columns into the row as it is THEN, not as it was read.          *)
(***************************************************************************)
EXTENDS Naturals

CONSTANTS
    Runs,      \* the start requests of this service; each starts <= 1 workflow
    Kind,      \* Kind[w]: the workflow the request w starts
    Editors,   \* the POST .../auth-config requests
    Removers,  \* the DELETE requests on the service or on its project
    None       \* "no value"

ParseKinds    == {"github", "pypi"}
GenerateKinds == {"generate", "publish"}

\* Run w's k-th attempt names what that attempt creates: the artifact row of
\* an upload (a fresh generate_id()), or the temp directory of a clone.
Attempts == 1..3
Ticket   == Runs \X Attempts

ASSUME KindAssumption == Kind \in [Runs -> ParseKinds \cup GenerateKinds]
ASSUME NoneAssumption == None \notin Runs /\ None \notin Ticket

Statuses == {"pending", "cloning", "downloading", "parsing", "parsed",
             "generating", "packaging", "publishing", "complete", "failed",
             "timed_out"}   \* nothing in the code ever writes timed_out

\* route_graph: which parts the JSON holds; {} is NULL (or {}: both falsy).
GraphParts == {"routes", "login"}
\* metadata_json: the keys the handlers look at or write, grouped by writer.
MetaKeys == {"parse", "artifact", "published", "auth_config"}

Row == [present : BOOLEAN,            \* the row is committed and not deleted
        status  : Statuses,
        graph   : SUBSET GraphParts,
        meta    : SUBSET MetaKeys,
        art     : Ticket \cup {None}, \* artifact_id
        genwf   : Runs \cup {None}]   \* generate_workflow_id

NoRow == [present |-> FALSE, status |-> "pending", graph |-> {}, meta |-> {},
          art |-> None, genwf |-> None]

\* The columns of the row that a status handler compares or merges with.
View == [status : Statuses, meta : SUBSET MetaKeys, art : Ticket \cup {None}]
NoView == [status |-> "pending", meta |-> {}, art |-> None]
ViewOf(r) == [status |-> r.status, meta |-> r.meta, art |-> r.art]

\* One HTTP request of the worker, as Core sees it.
Posts == Statuses \cup {"upload_artifact"}
Call == [run      : Runs,
         post     : Posts,               \* the status posted, or an upload
         attempt  : Attempts,
         art      : Ticket \cup {None},  \* metadata["artifact_id"]
         late     : Nat,                 \* 0: awaited; n: n-th one given up on
         phase    : {"sent", "read"},
         seen     : View,                \* the service as the handler read it
         seenArts : SUBSET Ticket]       \* the artifacts the handler read

StartPhases == {"none", "checked", "flushed", "launched", "committed", "aborted"}

VARIABLES
    row,        \* the committed core_services row
    artifacts,  \* the committed core_artifacts rows of the service
    lock,       \* the start request whose UPDATE of the row is uncommitted
    calls,      \* the worker's requests in flight
    start,      \* start[w]: how far the start request w is
    edit,       \* edit[e]: what auth-config request e has read
    removal     \* removal[d]: the artifacts DELETE request d has loaded

coreVars == <<row, artifacts, lock, calls, start, edit, removal>>

IdleEdit    == [phase |-> "idle", graph |-> {}, meta |-> {}]
IdleRemoval == [phase |-> "idle", arts |-> {}]

CoreTypeOK ==
    /\ row \in Row
    /\ artifacts \in SUBSET Ticket
    /\ lock \in Runs \cup {None}
    /\ calls \in SUBSET Call
    /\ start \in [Runs -> StartPhases]
    /\ edit \in [Editors -> [phase : {"idle", "read"},
                             graph : SUBSET GraphParts, meta : SUBSET MetaKeys]]
    /\ removal \in [Removers -> [phase : {"idle", "read"}, arts : SUBSET Ticket]]

CoreInit ==
    /\ row = NoRow
    /\ artifacts = {}
    /\ lock = None
    /\ calls = {}
    /\ start = [w \in Runs |-> "none"]
    /\ edit = [e \in Editors |-> IdleEdit]
    /\ removal = [d \in Removers |-> IdleRemoval]

-----------------------------------------------------------------------------
(* Start requests: POST /parse, /parse/pypi, /generate, /publish.          *)

StartMoves(w, from, to) ==
    /\ start[w] \in from
    /\ start' = [start EXCEPT ![w] = to]

\* start_github_parse / start_pypi_parse up to the flushed INSERT: the row is
\* not visible to any other transaction yet.
CreateService(w) ==
    /\ Kind[w] \in ParseKinds
    /\ \A v \in Runs : Kind[v] \in ParseKinds => start[v] = "none"
    /\ StartMoves(w, {"none"}, "flushed")
    /\ UNCHANGED <<row, artifacts, lock, calls, edit, removal>>

\* start_generate / start_publish: the ownership read and the two checks on
\* what it returned.  No lock is taken.
CheckGenerate(w) ==
    /\ Kind[w] \in GenerateKinds
    /\ row.present
    /\ row.status \in {"parsed", "complete"}
    /\ row.graph # {}
    /\ StartMoves(w, {"none"}, "checked")
    /\ UNCHANGED <<row, artifacts, lock, calls, edit, removal>>

\* Mutation of FlushGenerating: the UPDATE leaves the row unlocked.
FlushUnlocked(w) ==
    /\ lock = None
    /\ row.present
    /\ StartMoves(w, {"checked"}, "flushed")
    /\ UNCHANGED <<row, artifacts, lock, calls, edit, removal>>

\* ... the flushed UPDATE status = "generating": waits for the row, then
\* keeps it locked until the request's COMMIT or ROLLBACK.
FlushGenerating(w) ==
    /\ lock = None
    /\ row.present
    /\ StartMoves(w, {"checked"}, "flushed")
    /\ lock' = w
    /\ UNCHANGED <<row, artifacts, calls, edit, removal>>

\* ... the COMMIT, after start_workflow returned and its ID was stored.
CommitStart(w) ==
    /\ StartMoves(w, {"launched"}, "committed")
    /\ row' = IF Kind[w] \in ParseKinds
                THEN [NoRow EXCEPT !.present = TRUE,
                                   !.status = IF Kind[w] = "github"
                                                THEN "cloning" ELSE "downloading"]
                ELSE [row EXCEPT !.status = "generating", !.genwf = w]
    /\ lock' = IF lock = w THEN None ELSE lock
    /\ UNCHANGED <<artifacts, calls, edit, removal>>

\* ... or a ROLLBACK: TPS or Temporal raised, the row is gone (StaleDataError),
\* the client went away, or Core crashed.  A launched workflow keeps running.
AbortStart(w) ==
    /\ StartMoves(w, {"checked", "flushed", "launched"}, "aborted")
    /\ lock' = IF lock = w THEN None ELSE lock
    /\ UNCHANGED <<row, artifacts, calls, edit, removal>>
-----------------------------------------------------------------------------
(* POST /internal/services/{id}/status                                     *)

IsStatus(c) == c.post \in Statuses

\* The keys the request merges into metadata_json.
PostedMeta(c) ==
    {k \in MetaKeys :
        \/ k = "parse"     /\ c.post = "parsed"
        \/ k = "artifact"  /\ c.post = "complete" /\ Kind[c.run] = "generate"
        \/ k = "published" /\ c.post = "complete" /\ Kind[c.run] = "publish"}

\* The row r after the columns that request c changes are written to it.
WithStatus(r, c) ==
    [r EXCEPT
        !.status = IF c.post = c.seen.status THEN @ ELSE c.post,
        !.graph  = IF c.post = "parsed" THEN {"routes"} ELSE @,
        !.meta   = IF PostedMeta(c) = {} THEN @ ELSE c.seen.meta \cup PostedMeta(c),
        !.art    = IF c.art \in {None, c.seen.art} THEN @ ELSE c.art]

\* Without a changed column and without a JSON column no UPDATE is sent.  (The
\* columns not modelled, framework and error_message, change only with "parsed"
\* and with "failed".)
EmitsUpdate(c) == c.post # c.seen.status \/ PostedMeta(c) # {}

ReadService(c) ==
    /\ c.phase = "sent" /\ IsStatus(c)
    /\ row.present
    /\ calls' = (calls \ {c}) \cup {[c EXCEPT !.phase = "read", !.seen = ViewOf(row)]}
    /\ UNCHANGED <<row, artifacts, lock, start, edit, removal>>

CommitStatus(c) ==
    /\ c.phase = "read" /\ IsStatus(c)
    /\ \/ /\ EmitsUpdate(c)
          /\ lock = None
          /\ row.present
          /\ row' = WithStatus(row, c)
       \/ /\ ~EmitsUpdate(c)
          /\ UNCHANGED row
    /\ calls' = calls \ {c}
    /\ UNCHANGED <<artifacts, lock, start, edit, removal>>

\* 404 at the read, or StaleDataError at the UPDATE: the service is not there
\* (not committed yet, or deleted).  A second "failed" may bring a new
\* error_message, hence an UPDATE.
RejectStatus(c) ==
    /\ IsStatus(c)
    /\ ~row.present
    /\ c.phase = "read" => (EmitsUpdate(c) \/ c.post = "failed")
    /\ calls' = calls \ {c}
    /\ UNCHANGED <<row, artifacts, lock, start, edit, removal>>
-----------------------------------------------------------------------------
(* POST /internal/services/{id}/artifacts                                  *)

\* upsert_for_service's SELECT of the artifacts it is about to delete.
ReadArtifacts(c) ==
    /\ c.phase = "sent" /\ ~IsStatus(c)
    /\ calls' = (calls \ {c})
                  \cup {[c EXCEPT !.phase = "read", !.seenArts = artifacts]}
    /\ UNCHANGED <<row, artifacts, lock, start, edit, removal>>

\* Mutation of CommitUpload: the old artifacts are not deleted.
CommitUploadBeside(c) ==
    /\ c.phase = "read" /\ ~IsStatus(c)
    /\ lock = None
    /\ row.present
    /\ artifacts' = artifacts \cup {<<c.run, c.attempt>>}
    /\ row' = [row EXCEPT !.art = <<c.run, c.attempt>>]
    /\ calls' = calls \ {c}
    /\ UNCHANGED <<lock, start, edit, removal>>

\* Its INSERT and DELETEs, the UPDATE of artifact_id, and the COMMIT.
CommitUpload(c) ==
    /\ c.phase = "read" /\ ~IsStatus(c)
    /\ lock = None
    /\ row.present
    /\ artifacts' = (artifacts \ c.seenArts) \cup {<<c.run, c.attempt>>}
    /\ row' = [row EXCEPT !.art = <<c.run, c.attempt>>]
    /\ calls' = calls \ {c}
    /\ UNCHANGED <<lock, start, edit, removal>>

\* The request leaves no trace: the INSERT breaks the foreign key, the file is
\* too large, the transaction is the victim of a deadlock, or Core crashes.
LoseCall(c) ==
    /\ calls' = calls \ {c}
    /\ UNCHANGED <<row, artifacts, lock, start, edit, removal>>
-----------------------------------------------------------------------------
(* POST /services/{id}/auth-config                                         *)

EditReads(e) ==
    /\ edit[e].phase = "idle"
    /\ row.present
    /\ edit' = [edit EXCEPT ![e] = [phase |-> "read", graph |-> row.graph,
                                    meta |-> row.meta]]
    /\ UNCHANGED <<row, artifacts, lock, calls, start, removal>>

\* Mutation of EditCommits: the graph is replaced instead of merged into.
EditReplaces(e) ==
    /\ edit[e].phase = "read"
    /\ lock = None
    /\ row.present
    /\ row' = [row EXCEPT !.graph = {"login"},
                          !.meta  = edit[e].meta \cup {"auth_config"}]
    /\ edit' = [edit EXCEPT ![e] = IdleEdit]
    /\ UNCHANGED <<artifacts, lock, calls, start, removal>>

\* Both JSON columns are written whole, from the values read.
EditCommits(e) ==
    /\ edit[e].phase = "read"
    /\ lock = None
    /\ row.present
    /\ row' = [row EXCEPT !.graph = edit[e].graph \cup {"login"},
                          !.meta  = edit[e].meta \cup {"auth_config"}]
    /\ edit' = [edit EXCEPT ![e] = IdleEdit]
    /\ UNCHANGED <<artifacts, lock, calls, start, removal>>

EditAborts(e) ==
    /\ edit[e].phase = "read"
    /\ edit' = [edit EXCEPT ![e] = IdleEdit]
    /\ UNCHANGED <<row, artifacts, lock, calls, start, removal>>
-----------------------------------------------------------------------------
(* DELETE /services/{id}, and DELETE /projects/{id}, which cascades        *)

\* session.delete() loads the artifacts it will cascade to.
DeleteReads(d) ==
    /\ removal[d].phase = "idle"
    /\ row.present
    /\ removal' = [removal EXCEPT ![d] = [phase |-> "read", arts |-> artifacts]]
    /\ UNCHANGED <<row, artifacts, lock, calls, start, edit>>

\* Mutation of DeleteCommits: no foreign key guards the artifacts not loaded.
DeleteUnguarded(d) ==
    /\ removal[d].phase = "read"
    /\ lock = None
    /\ row.present
    /\ row' = NoRow
    /\ artifacts' = artifacts \ removal[d].arts
    /\ removal' = [removal EXCEPT ![d] = IdleRemoval]
    /\ UNCHANGED <<lock, calls, start, edit>>

\* The cascade deletes the artifacts it loaded; one it did not load still
\* references the service, and the foreign key then refuses the DELETE.
DeleteCommits(d) ==
    /\ removal[d].phase = "read"
    /\ lock = None
    /\ row.present
    /\ artifacts \subseteq removal[d].arts
    /\ row' = NoRow
    /\ artifacts' = artifacts \ removal[d].arts
    /\ removal' = [removal EXCEPT ![d] = IdleRemoval]
    /\ UNCHANGED <<lock, calls, start, edit>>

DeleteAborts(d) ==
    /\ removal[d].phase = "read"
    /\ removal' = [removal EXCEPT ![d] = IdleRemoval]
    /\ UNCHANGED <<row, artifacts, lock, calls, start, edit>>
=============================================================================
