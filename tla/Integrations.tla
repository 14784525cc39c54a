---------------------------- MODULE Integrations ----------------------------
(***************************************************************************)
(* TPS: the tps_integrations rows of one user and one app, and the         *)
(* requests that connect, disconnect and read tokens, each one READ        *)
(* COMMITTED transaction.  Connecting reads the active row and commits     *)
(* after encrypting; disconnecting reads a row, awaits the provider, and   *)
(* commits.  As in Core, an UPDATE writes the columns that differ from     *)
(* those read.  No row is ever deleted.                                    *)
(***************************************************************************)
CONSTANTS
    Ids,          \* integration ids: the rows there can be
    Connects,     \* POST .../connect and .../exchange; each brings its token
    Disconnects,  \* DELETE .../{integration_id}
    None          \* no token, no row

ASSUME NoneAssumption == None \notin Ids \cup Connects \cup {"absent"}
ASSUME TokenAssumption == "absent" \notin Connects

VARIABLES
    rows,        \* rows[i]: status ("absent": not inserted) and token stored
    connect,     \* connect[c]: the row that request c found active
    disconnect,  \* disconnect[d]: the row that request d is about to revoke
    reply,       \* the answer to the last GET .../{integration_id}/token
    overlapped   \* history: two connects worked at the same time

vars == <<rows, connect, disconnect, reply, overlapped>>

TypeOK ==
    /\ rows \in [Ids -> [status : {"absent", "active", "revoked"},
                         token  : Connects \cup {None}]]
    /\ connect \in [Connects -> [phase : {"idle", "read", "done"},
                                 found : Ids \cup {None}]]
    /\ disconnect \in [Disconnects -> Ids \cup {None}]
    /\ reply \in Connects \cup {None}
    /\ overlapped \in BOOLEAN

Init ==
    /\ rows = [i \in Ids |-> [status |-> "absent", token |-> None]]
    /\ connect = [c \in Connects |-> [phase |-> "idle", found |-> None]]
    /\ disconnect = [d \in Disconnects |-> None]
    /\ reply = None
    /\ overlapped = FALSE

ActiveIds == {i \in Ids : rows[i].status = "active"}

-----------------------------------------------------------------------------
(* create_integration, after the provider accepted the code or the         *)
(* credentials.                                                            *)

ConnectMoves(c, phase, found) ==
    connect' = [connect EXCEPT ![c] = [phase |-> phase, found |-> found]]

NoteOverlap(c) ==
    overlapped' = (overlapped \/ \E b \in Connects \ {c} : connect[b].phase = "read")

\* Mutation of ConnectReads: the row of the app is not looked for.
ConnectReadsNothing(c) ==
    /\ connect[c].phase = "idle"
    /\ ConnectMoves(c, "read", None)
    /\ NoteOverlap(c)
    /\ UNCHANGED <<rows, disconnect, reply>>

\* The SELECT of the user's active row for the app: any of them, if several.
ConnectReads(c) ==
    /\ connect[c].phase = "idle"
    /\ \/ ActiveIds = {} /\ ConnectMoves(c, "read", None)
       \/ \E i \in ActiveIds : ConnectMoves(c, "read", i)
    /\ NoteOverlap(c)
    /\ UNCHANGED <<rows, disconnect, reply>>

ConnectInserts(c) ==
    /\ connect[c].phase = "read" /\ connect[c].found = None
    /\ \E i \in Ids :
          /\ rows[i].status = "absent"
          /\ rows' = [rows EXCEPT ![i] = [status |-> "active", token |-> c]]
    /\ ConnectMoves(c, "done", None)
    /\ UNCHANGED <<disconnect, reply, overlapped>>

\* Mutation of ConnectUpdates: the row is made active again.
ConnectReactivates(c) ==
    /\ connect[c].phase = "read" /\ connect[c].found # None
    /\ rows' = [rows EXCEPT ![connect[c].found] = [status |-> "active", token |-> c]]
    /\ ConnectMoves(c, "done", None)
    /\ UNCHANGED <<disconnect, reply, overlapped>>

\* The status column is set to the value it was read with: not written.
ConnectUpdates(c) ==
    /\ connect[c].phase = "read" /\ connect[c].found # None
    /\ rows' = [rows EXCEPT ![connect[c].found].token = c]
    /\ ConnectMoves(c, "done", None)
    /\ UNCHANGED <<disconnect, reply, overlapped>>

\* The transaction fails, or TPS crashes; Core does not repeat the request.
ConnectAborts(c) ==
    /\ connect[c].phase = "read"
    /\ ConnectMoves(c, "done", None)
    /\ UNCHANGED <<rows, disconnect, reply, overlapped>>

-----------------------------------------------------------------------------
(* delete_integration                                                      *)

\* A row of any status will do.
DisconnectReads(d) ==
    /\ disconnect[d] = None
    /\ \E i \in Ids :
          /\ rows[i].status # "absent"
          /\ disconnect' = [disconnect EXCEPT ![d] = i]
    /\ UNCHANGED <<rows, connect, reply, overlapped>>

DisconnectEnds(d) ==
    /\ disconnect[d] # None
    /\ disconnect' = [disconnect EXCEPT ![d] = None]

\* Mutation of DisconnectCommits: a status the other handlers do not know.
DisconnectExpires(d) ==
    /\ DisconnectEnds(d)
    /\ rows' = [rows EXCEPT ![disconnect[d]] = [status |-> "expired", token |-> None]]
    /\ UNCHANGED <<connect, reply, overlapped>>

\* After the provider's answer, whatever it was.
DisconnectCommits(d) ==
    /\ DisconnectEnds(d)
    /\ rows' = [rows EXCEPT ![disconnect[d]] = [status |-> "revoked", token |-> None]]
    /\ UNCHANGED <<connect, reply, overlapped>>

DisconnectAborts(d) ==
    /\ DisconnectEnds(d)
    /\ UNCHANGED <<rows, connect, reply, overlapped>>

-----------------------------------------------------------------------------

\* get_token: get_or_refresh locks the row and answers in the same step.  No
\* app has tokens that expire, so the refresh is never due.
GetToken(i) ==
    /\ reply' = IF i \in ActiveIds THEN rows[i].token ELSE None
    /\ UNCHANGED <<rows, connect, disconnect, overlapped>>

Next ==
    \/ \E c \in Connects :
          \/ ConnectReads(c) \/ ConnectInserts(c) \/ ConnectUpdates(c)
          \/ ConnectAborts(c)
    \/ \E d \in Disconnects :
          DisconnectReads(d) \/ DisconnectCommits(d) \/ DisconnectAborts(d)
    \/ \E i \in Ids : GetToken(i)

Spec == Init /\ [][Next]_vars

-----------------------------------------------------------------------------

\* The user's app has one active integration, whichever requests fail or are
\* repeated, unless two connects were between their SELECT and their COMMIT.
OneActive ==
    overlapped \/ \A i, j \in ActiveIds : i = j

\* The vault the rows stand for: what a revoked row still holds is not seen.
VaultOf(r) ==
    CASE r.status = "active"  -> r.token
      [] r.status = "absent"  -> "absent"
      [] r.status = "revoked" -> None

Vault == INSTANCE TokenVault WITH
            Token <- Connects, Absent <- "absent", Gone <- None,
            vault <- [i \in Ids |-> VaultOf(rows[i])]

\* Nobody who asks for tokens can tell TPS from the vault: although connects
\* and disconnects overlap and write different columns of the row that each
\* read, no token of a disconnected integration is given out again.
ImplementsVault == Vault!Spec

\* What the proofs carry: while no two connects overlapped, one at most is
\* between SELECT and COMMIT, and one that found no row is about to insert the
\* only one; a disconnect works on a row that is there; active rows hold a token.
LoneConnect ==
    overlapped \/
        /\ \A b, c \in Connects :
              (connect[b].phase = "read" /\ connect[c].phase = "read") => b = c
        /\ \A c \in Connects :
              (connect[c].phase = "read" /\ connect[c].found = None) => ActiveIds = {}

DisconnectsRow ==
    \A d \in Disconnects :
        disconnect[d] # None => rows[disconnect[d]].status # "absent"

ActiveHoldsToken == \A i \in ActiveIds : rows[i].token # None

IInv == TypeOK /\ OneActive /\ LoneConnect /\ DisconnectsRow /\ ActiveHoldsToken

\* "Revoke an integration - wipes credentials": a revoked row holds none.
RevokedIsWiped ==
    \A i \in Ids : rows[i].status = "revoked" => rows[i].token = None
=============================================================================
