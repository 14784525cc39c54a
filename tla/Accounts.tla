------------------------------- MODULE Accounts -------------------------------
(***************************************************************************)
(* Core's accounts: magic links, the first login that creates a user with  *)
(* a workspace and a project, sessions with a debounced extension, logout. *)
(*                                                                         *)
(* Each request runs in one READ COMMITTED transaction.  What it has       *)
(* flushed but not committed is kept in the request's record; a second     *)
(* INSERT of the same unique e-mail waits for the first transaction to     *)
(* end.  Rows are named by the login that creates them: every user,        *)
(* workspace and session id is freshly drawn, so login l can only create   *)
(* user l, workspace l and session l.                                      *)
(***************************************************************************)
EXTENDS Naturals, FiniteSets

CONSTANTS
    Emails,
    Logins,    \* GET /auth/verify requests
    Uses,      \* requests guarded by get_current_user
    Logouts,   \* POST /auth/logout requests
    MaxAge,    \* session_max_age
    Debounce,  \* session_debounce_seconds
    LinkAge,   \* magic_link_max_age
    Slow,      \* the longest a request is in flight (an assumption)
    Horizon,   \* bound on the clock
    MaxLinks,  \* bound on the links sent
    None

ASSUME TimesAssumption ==
    /\ MaxAge \in Nat /\ Debounce \in Nat /\ LinkAge \in Nat
    /\ Slow \in Nat /\ Horizon \in Nat /\ MaxLinks \in Nat
ASSUME NoLoginIsNone == None \notin Logins

Now     == 0..Horizon
User    == [id : Logins, email : Emails]
\* A workspace with the owner's membership and its default project: one flush.
Space   == [id : Logins, owner : Logins]
Session == [live : BOOLEAN, user : Logins \cup {None}, active : Now,
            expires : 0..(Horizon + MaxAge)]
Link    == [email : Emails, issued : Now]

VARIABLES
    clock,
    mail,      \* the links sent: signed, stored nowhere
    users,     \* core_users
    spaces,    \* core_workspaces with core_workspace_members, core_projects
    sessions,  \* core_sessions
    login, use, logout,   \* the requests
    lastUse    \* history: when session s last authenticated a request

vars == <<clock, mail, users, spaces, sessions, login, use, logout, lastUse>>

\* A login's transaction: the e-mail of its link, the user it found or
\* inserted, and whether its user and workspace rows are its own.
LoginState == [pc : {"idle", "verified", "known", "ready", "done", "failed"},
               email : Emails \cup {None}, user : Logins \cup {None},
               newUser : BOOLEAN, newSpace : BOOLEAN]
UseState   == [pc : {"idle", "read", "ok", "denied", "error"},
               sid : Logins \cup {None}, at : Now, extend : BOOLEAN]
OutState   == [pc : {"idle", "read", "done", "error"}, sid : Logins \cup {None}]

LoginOpen(l) == login[l].pc \in {"verified", "known", "ready"}

TypeOK ==
    /\ clock \in Now
    /\ mail \subseteq Link
    /\ users \subseteq User
    /\ spaces \subseteq Space
    /\ sessions \in [Logins -> Session]
    /\ login \in [Logins -> LoginState]
    /\ use \in [Uses -> UseState]
    /\ logout \in [Logouts -> OutState]
    /\ lastUse \in [Logins -> Now]

NoSession == [live |-> FALSE, user |-> None, active |-> 0, expires |-> 0]
IdleLogin == [pc |-> "idle", email |-> None, user |-> None,
              newUser |-> FALSE, newSpace |-> FALSE]

Init ==
    /\ clock = 0
    /\ mail = {}
    /\ users = {}
    /\ spaces = {}
    /\ sessions = [l \in Logins |-> NoSession]
    /\ login = [l \in Logins |-> IdleLogin]
    /\ use = [t \in Uses |-> [pc |-> "idle", sid |-> None, at |-> 0,
                              extend |-> FALSE]]
    /\ logout = [o \in Logouts |-> [pc |-> "idle", sid |-> None]]
    /\ lastUse = [l \in Logins |-> 0]

-----------------------------------------------------------------------------
(* Magic links and logins.                                                 *)

\* POST /auth/magic-link: the answer is the same whatever the e-mail.
RequestLink(e) ==
    /\ Cardinality(mail) < MaxLinks
    /\ mail' = mail \cup {[email |-> e, issued |-> clock]}
    /\ UNCHANGED <<clock, users, spaces, sessions, login, use, logout, lastUse>>

LinkExpired(m) == clock - m.issued > LinkAge

\* verify_magic_token fails: 401.
RejectLink(l, m) ==
    /\ login[l].pc = "idle"
    /\ LinkExpired(m)
    /\ login' = [login EXCEPT ![l].pc = "failed"]
    /\ UNCHANGED <<clock, mail, users, spaces, sessions, use, logout, lastUse>>

\* Mutation of UsersOf: the SELECT does not ask for the e-mail.
AnyUser(e) == users

\* The committed rows a SELECT on the e-mail returns.
UsersOf(e) == {u \in users : u.email = e}

\* The token is good and find_by_email returns the user, or nothing.
VerifyLink(l, m) ==
    /\ login[l].pc = "idle"
    /\ ~LinkExpired(m)
    /\ \/ /\ UsersOf(m.email) = {}
          /\ login' = [login EXCEPT ![l].pc = "verified", ![l].email = m.email]
       \/ \E u \in UsersOf(m.email) :
            login' = [login EXCEPT ![l].pc = "known", ![l].email = m.email,
                                   ![l].user = u.id]
    /\ UNCHANGED <<clock, mail, users, spaces, sessions, use, logout, lastUse>>

\* Another transaction holds an uncommitted user row with this e-mail.
Inserting(e) ==
    \E k \in Logins : login[k].newUser /\ LoginOpen(k) /\ login[k].email = e

\* Mutation of EmailTaken: there is no unique index.
NeverTaken(e) == FALSE

\* The unique index on core_users.email, when it is decided.
EmailTaken(e) == UsersOf(e) # {}

\* users.create: the flushed INSERT waits for a concurrent INSERT of the same
\* e-mail to commit or roll back, and fails (500, rollback) when it committed.
InsertUser(l) ==
    /\ login[l].pc = "verified"
    /\ ~Inserting(login[l].email)
    /\ \/ /\ ~EmailTaken(login[l].email)
          /\ login' = [login EXCEPT ![l].pc = "known", ![l].user = l,
                                    ![l].newUser = TRUE]
       \/ /\ EmailTaken(login[l].email)
          /\ login' = [login EXCEPT ![l].pc = "failed"]
    /\ UNCHANGED <<clock, mail, users, spaces, sessions, use, logout, lastUse>>

\* find_first_for_user, and create_with_member with the default project when
\* it returns nothing; the slug ends in the user's id, so it is never taken.
FindWorkspace(l) ==
    /\ login[l].pc = "known"
    /\ login' = [login EXCEPT ![l].pc = "ready",
                    ![l].newSpace = ~\E w \in spaces : w.owner = login[l].user]
    /\ UNCHANGED <<clock, mail, users, spaces, sessions, use, logout, lastUse>>

\* Mutation of NewSession: its expiry is not set.
Unlimited(u) == [live |-> TRUE, user |-> u, active |-> clock, expires |-> None]

NewSession(u) == [live |-> TRUE, user |-> u, active |-> clock,
                  expires |-> clock + MaxAge]

\* sessions.create and the single commit.
CommitLogin(l) ==
    /\ login[l].pc = "ready"
    /\ users' = users \cup {u \in {[id |-> l, email |-> login[l].email]} :
                              login[l].newUser}
    /\ spaces' = spaces \cup {w \in {[id |-> l, owner |-> login[l].user]} :
                                login[l].newSpace}
    /\ sessions' = [sessions EXCEPT ![l] = NewSession(login[l].user)]
    /\ login' = [login EXCEPT ![l].pc = "done"]
    /\ lastUse' = [lastUse EXCEPT ![l] = clock]
    /\ UNCHANGED <<clock, mail, use, logout>>

-----------------------------------------------------------------------------
(* Guarded requests and logouts.  A session id is known to the client that *)
(* received it, and stays in its other tabs after a logout.                *)

Valid(s) == sessions[s].live /\ sessions[s].expires >= clock

\* get_current_user: find_valid returns None (401).
DenyUse(t, s) ==
    /\ use[t].pc = "idle"
    /\ login[s].pc = "done"
    /\ ~Valid(s)
    /\ use' = [use EXCEPT ![t].pc = "denied", ![t].sid = s]
    /\ UNCHANGED <<clock, mail, users, spaces, sessions, login, logout, lastUse>>

\* find_valid returns the row, changed in memory when it is stale.
BeginUse(t, s) ==
    /\ use[t].pc = "idle"
    /\ login[s].pc = "done"
    /\ Valid(s)
    /\ use' = [use EXCEPT ![t] = [pc |-> "read", sid |-> s, at |-> clock,
                            extend |-> clock - sessions[s].active > Debounce]]
    /\ UNCHANGED <<clock, mail, users, spaces, sessions, login, logout, lastUse>>

\* Mutation of Extended: only last_active_at moves.
Touched(row, now) == [row EXCEPT !.active = now]

Extended(row, now) == [live |-> row.live, user |-> row.user, active |-> now,
                       expires |-> now + MaxAge]

\* Mutation of EndUse: the extended session is written whether or not it is there.
UpsertUse(t) ==
    LET s == use[t].sid IN
    /\ use[t].pc = "read"
    /\ use' = [use EXCEPT ![t].pc = "ok"]
    /\ sessions' = IF use[t].extend
                   THEN [sessions EXCEPT ![s] = [Extended(@, use[t].at) EXCEPT !.live = TRUE]]
                   ELSE sessions
    /\ lastUse' = [lastUse EXCEPT ![s] = IF @ > use[t].at THEN @ ELSE use[t].at]
    /\ UNCHANGED <<clock, mail, users, spaces, login, logout>>

\* The UPDATE of an extended session and the commit.  An UPDATE that matches
\* no row raises StaleDataError; without an extension nothing is written.
EndUse(t) ==
    LET s == use[t].sid IN
    /\ use[t].pc = "read"
    /\ \/ /\ use[t].extend /\ ~sessions[s].live
          /\ use' = [use EXCEPT ![t].pc = "error"]
          /\ UNCHANGED <<sessions, lastUse>>
       \/ /\ use[t].extend => sessions[s].live
          /\ use' = [use EXCEPT ![t].pc = "ok"]
          /\ sessions' = IF use[t].extend
                         THEN [sessions EXCEPT ![s] = Extended(@, use[t].at)]
                         ELSE sessions
          /\ lastUse' = [lastUse EXCEPT ![s] = IF @ > use[t].at THEN @
                                               ELSE use[t].at]
    /\ UNCHANGED <<clock, mail, users, spaces, login, logout>>

\* SessionRepository.delete: the SELECT.
BeginLogout(o, s) ==
    /\ logout[o].pc = "idle"
    /\ login[s].pc = "done"
    /\ logout' = [logout EXCEPT ![o] =
                    [pc |-> IF sessions[s].live THEN "read" ELSE "done",
                     sid |-> s]]
    /\ UNCHANGED <<clock, mail, users, spaces, sessions, login, use, lastUse>>

\* The DELETE and the commit; a row that is already gone only logs a warning.
EndLogout(o) ==
    /\ logout[o].pc = "read"
    /\ logout' = [logout EXCEPT ![o].pc = "done"]
    /\ sessions' = [sessions EXCEPT ![logout[o].sid].live = FALSE]
    /\ UNCHANGED <<clock, mail, users, spaces, login, use, lastUse>>

-----------------------------------------------------------------------------
(* The process stops: every open transaction rolls back.                   *)
Restart ==
    /\ login' = [l \in Logins |-> IF LoginOpen(l)
                                  THEN [login[l] EXCEPT !.pc = "failed"]
                                  ELSE login[l]]
    /\ use' = [t \in Uses |-> IF use[t].pc = "read"
                              THEN [use[t] EXCEPT !.pc = "error"] ELSE use[t]]
    /\ logout' = [o \in Logouts |-> IF logout[o].pc = "read"
                                    THEN [logout[o] EXCEPT !.pc = "error"]
                                    ELSE logout[o]]
    /\ UNCHANGED <<clock, mail, users, spaces, sessions, lastUse>>

\* Time passes, but never more than Slow while a guarded request is running.
Tick ==
    /\ clock < Horizon
    /\ \A t \in Uses : use[t].pc = "read" => clock < use[t].at + Slow
    /\ clock' = clock + 1
    /\ UNCHANGED <<mail, users, spaces, sessions, login, use, logout, lastUse>>

Next ==
    \/ \E e \in Emails : RequestLink(e)
    \/ \E l \in Logins : \E m \in mail : RejectLink(l, m) \/ VerifyLink(l, m)
    \/ \E l \in Logins : InsertUser(l) \/ FindWorkspace(l) \/ CommitLogin(l)
    \/ \E t \in Uses : EndUse(t) \/ \E s \in Logins : DenyUse(t, s) \/ BeginUse(t, s)
    \/ \E o \in Logouts : EndLogout(o) \/ \E s \in Logins : BeginLogout(o, s)
    \/ Restart
    \/ Tick

Spec == Init /\ [][Next]_vars

-----------------------------------------------------------------------------
(* Properties.                                                             *)

\* One e-mail never has two users, and a committed user has exactly one
\* workspace (with its membership and project): not none after a crash between
\* the inserts, not two after two first logins side by side
\* (AuthService.verify_and_login, one commit for the whole operation).
OneAccountPerEmail ==
    /\ \A u, v \in users : u.email = v.email => u = v
    /\ \A u \in users : \E w \in spaces :
         w.owner = u.id /\ \A x \in spaces : x.owner = u.id => x = w

\* A session lets in the owner of the e-mail its link was sent to, and no
\* session names a user that was rolled back (verify_and_login).
SessionForLinkOwner ==
    \A l \in Logins : sessions[l].live =>
        /\ [id |-> sessions[l].user, email |-> login[l].email] \in users
        /\ \E m \in mail : m.email = login[l].email

\* A session that was deleted stays deleted: a request that read it before
\* the logout, and extends it after, does not bring it back (find_valid's
\* UPDATE against SessionRepository.delete).
LogoutSticks ==
    [][\A l \in Logins : login[l].pc = "done" /\ ~sessions[l].live
                           => ~sessions'[l].live]_vars

\* A session that authenticates requests does not run out under its user:
\* concurrent requests may write an older extension over a newer one, but it
\* outlives its last use by MaxAge, less the debounce or the longest request.
UseKeepsSession ==
    \A l \in Logins : sessions[l].live =>
        sessions[l].expires + (IF Debounce > Slow THEN Debounce ELSE Slow)
            >= lastUse[l] + MaxAge
=============================================================================
