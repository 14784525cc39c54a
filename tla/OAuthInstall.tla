----------------------------- MODULE OAuthInstall -----------------------------
(***************************************************************************)
(* Core's half of an OAuth installation, on top of Accounts: a guarded     *)
(* request seals who installs what in an encrypted state, the provider     *)
(* sends the browser back with it, and the callback, which asks for no     *)
(* session, has TPS exchange the code for the user named in the state.     *)
(***************************************************************************)
EXTENDS Accounts

CONSTANTS
    Apps,
    Callbacks,   \* GET /oauth/callback requests
    StateAge     \* STATE_MAX_AGE_SECONDS

ASSUME StateAgeAssumption == StateAge \in Nat

State == [user : Logins, app : Apps, issued : Now, by : Uses]
Grant == [user : Logins, app : Apps, at : Now]

VARIABLES
    states,   \* the sealed states handed out; nothing marks one as used
    grants,   \* history: the exchanges TPS carried out
    callback  \* the callback requests and what they tell the browser

oauthVars   == <<states, grants, callback>>
installVars == <<vars, oauthVars>>

Unsealed == [user : Logins \cup {None}, app : Apps \cup {None}]
CallbackState == [pc : {"idle", "sent", "connected", "failed"}, to : Unsealed,
                  at : Now]

InstallTypeOK ==
    /\ TypeOK
    /\ states \subseteq State
    /\ grants \subseteq Grant
    /\ callback \in [Callbacks -> CallbackState]

InstallInit ==
    /\ Init
    /\ states = {}
    /\ grants = {}
    /\ callback = [c \in Callbacks |->
                     [pc |-> "idle", to |-> [user |-> None, app |-> None],
                      at |-> 0]]

\* POST /integrations/{app}/install after the two guards: the state names the
\* owner of the workspace the session's user belongs to.  (TPS only builds the
\* provider's URL; when that call fails the browser gets no state.)
StartInstall(t, app) ==
    /\ use[t].pc = "ok"
    /\ \A b \in states : b.by # t
    /\ \E w \in spaces :
         /\ w.owner = sessions[use[t].sid].user
         /\ states' = states \cup {[user |-> w.owner, app |-> app,
                                    issued |-> clock, by |-> t]}
    /\ UNCHANGED <<vars, grants, callback>>

\* Mutation of StateExpired: the age is not checked.
NeverExpires(b) == FALSE

StateExpired(b) == clock - b.issued > StateAge

\* decode_state raises: the redirect says oauth_failed.
RejectState(c, b) ==
    /\ callback[c].pc = "idle"
    /\ StateExpired(b)
    /\ callback' = [callback EXCEPT ![c].pc = "failed"]
    /\ UNCHANGED <<vars, states, grants>>

\* decode_state, and the exchange sent to TPS.
BeginCallback(c, b) ==
    /\ callback[c].pc = "idle"
    /\ ~StateExpired(b)
    /\ callback' = [callback EXCEPT ![c] =
                      [pc |-> "sent", to |-> [user |-> b.user, app |-> b.app],
                       at |-> clock]]
    /\ UNCHANGED <<vars, states, grants>>

\* TPS stores the tokens (200), refuses the code (a 4xx answer, which
\* TpsHttpClient does not raise) or fails (5xx, timeout: raised, and a timeout
\* leaves open whether the tokens were stored).
EndCallback(c) ==
    /\ callback[c].pc = "sent"
    /\ \E stored \in BOOLEAN, said \in {"connected", "failed"} :
         /\ callback' = [callback EXCEPT ![c].pc = said]
         /\ grants' = grants \cup {g \in {[user |-> callback[c].to.user,
                                           app  |-> callback[c].to.app,
                                           at   |-> clock]} : stored}
    /\ UNCHANGED <<vars, states>>

\* Accounts moves; time does not run away from a callback in flight either.
AccountsStep ==
    /\ Next
    /\ \A c \in Callbacks :
         callback[c].pc = "sent" => clock' <= callback[c].at + Slow
    /\ UNCHANGED oauthVars

InstallNext ==
    \/ AccountsStep
    \/ \E t \in Uses, a \in Apps : StartInstall(t, a)
    \/ \E c \in Callbacks, b \in states : RejectState(c, b) \/ BeginCallback(c, b)
    \/ \E c \in Callbacks : EndCallback(c)

InstallSpec == InstallInit /\ [][InstallNext]_installVars

\* A grant traces back to a login: its user owns an account, and a session of
\* that user had started the installation of that app at most StateAge (and
\* one slow exchange) before, whoever's browser brought the state back and
\* even if the session has been deleted since (IntegrationService.start_install
\* and handle_oauth_callback).
GrantTracesToLogin ==
    \A g \in grants : \E b \in states :
        /\ b.user = g.user /\ b.app = g.app
        /\ b.issued <= g.at /\ g.at <= b.issued + StateAge + Slow
        /\ use[b.by].pc = "ok"
        /\ sessions[use[b.by].sid].user = g.user
        /\ \E u \in users : u.id = g.user
=============================================================================
