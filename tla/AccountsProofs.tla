---------------------------- MODULE AccountsProofs ----------------------------
(***************************************************************************)
(* Theorems of Accounts and OAuthInstall, for any number of e-mails,       *)
(* requests and apps and for all ages.                                     *)
(***************************************************************************)
EXTENDS OAuthInstall, TLAPS

\* The logins that hold an uncommitted user row.
Creating(l) == login[l].pc \in {"known", "ready"} /\ login[l].newUser

\* How the tables hang together.
TablesInv ==
    /\ \A u \in users : login[u.id].pc = "done"
    /\ \A w \in spaces : \E u \in users : u.id = w.owner
    /\ \A l \in Logins : sessions[l].live => login[l].pc = "done"

\* What an open login knows of the tables, and they of it.
NotYetCreating ==
    \A l \in Logins : login[l].pc \in {"idle", "verified"} => ~login[l].newUser
LinkKnown ==
    \A l \in Logins : LoginOpen(l) => \E m \in mail : m.email = login[l].email
CreatesItself ==
    \A l \in Logins : Creating(l) =>
        login[l].user = l /\ UsersOf(login[l].email) = {}
OneCreator ==
    \A k, l \in Logins : Creating(k) /\ Creating(l)
                           /\ login[k].email = login[l].email => k = l
FoundUser ==
    \A l \in Logins : login[l].pc \in {"known", "ready"} /\ ~login[l].newUser =>
        [id |-> login[l].user, email |-> login[l].email] \in users
SpaceWithUser ==
    \A l \in Logins : login[l].pc = "ready" => (login[l].newSpace <=> login[l].newUser)

LoginInv == /\ NotYetCreating /\ LinkKnown /\ CreatesItself
            /\ OneCreator /\ FoundUser /\ SpaceWithUser

AccountsInv == TablesInv /\ LoginInv /\ OneAccountPerEmail /\ SessionForLinkOwner

\* An extension in flight is no older than the longest request, and a request
\* that found its session fresh is still covered by what the session says.
Slack == IF Debounce > Slow THEN Debounce ELSE Slow
SessionInv ==
    /\ \A l \in Logins : sessions[l].live =>
         /\ sessions[l].expires = sessions[l].active + MaxAge
         /\ sessions[l].active + Slack >= lastUse[l]
    /\ \A l \in Logins : lastUse[l] <= clock
    /\ \A t \in Uses : use[t].pc = "read" =>
         /\ login[use[t].sid].pc = "done"
         /\ use[t].sid \in Logins
         /\ use[t].at <= clock /\ clock <= use[t].at + Slow
         /\ ~use[t].extend /\ sessions[use[t].sid].live =>
              sessions[use[t].sid].active + Slack >= use[t].at

-----------------------------------------------------------------------------
(* Types.                                                                  *)

LEMMA InitTypes == Init => TypeOK
  BY TimesAssumption
     DEF Init, TypeOK, IdleLogin, LoginState, UseState, OutState, Now, Session, NoSession

LEMMA LoginTypes ==
    ASSUME TypeOK, NEW l \in Logins, NEW m \in mail,
           RejectLink(l, m) \/ VerifyLink(l, m)
    PROVE  TypeOK'
  <1>1. m \in Link
    BY DEF TypeOK
  <1>2. \A u \in UsersOf(m.email) : u.id \in Logins
    BY DEF TypeOK, UsersOf, User
  <1>3. login' \in [Logins -> LoginState]
    <2>1. CASE RejectLink(l, m)
      BY <2>1 DEF RejectLink, TypeOK, LoginState
    <2>2. CASE VerifyLink(l, m)
      BY <1>1, <1>2, <2>2 DEF VerifyLink, TypeOK, LoginState, Link
    <2> QED
      BY <2>1, <2>2
  <1> QED
    BY <1>3 DEF RejectLink, VerifyLink, TypeOK

LEMMA StepTypes ==
    ASSUME TypeOK, NEW l \in Logins, InsertUser(l) \/ FindWorkspace(l)
    PROVE  TypeOK'
  BY DEF InsertUser, FindWorkspace, TypeOK, LoginState

LEMMA CommitTypes ==
    ASSUME TypeOK, AccountsInv, NEW l \in Logins, CommitLogin(l)
    PROVE  TypeOK'
  <1>1. login[l] \in LoginState /\ login[l].user \in Logins \cup {None}
    BY DEF TypeOK, LoginState
  <1>2. login[l].pc = "ready" /\ LoginOpen(l)
    BY DEF CommitLogin, LoginOpen
  <1>3. login[l].email \in Emails
    BY <1>2 DEF AccountsInv, LoginInv, LinkKnown, TypeOK, Link
  <1>4. login[l].user \in Logins
    BY <1>2 DEF AccountsInv, LoginInv, CreatesItself, FoundUser, Creating, TypeOK, User
  <1>5. users' \subseteq User /\ spaces' \subseteq Space
    BY <1>3, <1>4 DEF CommitLogin, TypeOK, User, Space
  <1>6. sessions' \in [Logins -> Session]
    BY <1>4, TimesAssumption DEF CommitLogin, TypeOK, NewSession, Session, Now
  <1>7. login' \in [Logins -> LoginState] /\ lastUse' \in [Logins -> Now]
    BY DEF CommitLogin, TypeOK, LoginState
  <1> QED
    BY <1>5, <1>6, <1>7 DEF CommitLogin, TypeOK

LEMMA GuardTypes ==
    ASSUME TypeOK, NEW t \in Uses, NEW s \in Logins, DenyUse(t, s) \/ BeginUse(t, s)
    PROVE  TypeOK'
  <1>1. use' \in [Uses -> UseState]
    <2>1. CASE DenyUse(t, s)
      <3>1. use[t] \in UseState /\ use \in [Uses -> UseState]
        BY DEF TypeOK
      <3>2. [use[t] EXCEPT !.pc = "denied", !.sid = s] \in UseState
        BY <3>1 DEF UseState
      <3>3. use' = [use EXCEPT ![t] = [use[t] EXCEPT !.pc = "denied", !.sid = s]]
        BY <2>1, <3>1 DEF DenyUse, UseState
      <3> QED
        BY <3>1, <3>2, <3>3
    <2>2. CASE BeginUse(t, s)
      <3>1. (clock - sessions[s].active > Debounce) \in BOOLEAN
        OBVIOUS
      <3> QED
        BY <2>2, <3>1 DEF BeginUse, TypeOK, UseState
    <2> QED
      BY <2>1, <2>2
  <1> QED
    BY <1>1 DEF DenyUse, BeginUse, TypeOK

LEMMA EndUseTypes ==
    ASSUME TypeOK, SessionInv, NEW t \in Uses, EndUse(t)
    PROVE  TypeOK'
  <1> DEFINE s == use[t].sid
  <1>1. s \in Logins /\ use[t].at \in Now
    BY DEF EndUse, SessionInv, TypeOK, UseState
  <1>2. Extended(sessions[s], use[t].at) \in Session
    <2>1. sessions[s] \in Session
      BY <1>1 DEF TypeOK
    <2>2. use[t].at + MaxAge \in 0..(Horizon + MaxAge)
      BY <1>1, TimesAssumption DEF Now
    <2> QED
      BY <1>1, <2>1, <2>2 DEF Extended, Session
  <1>3. sessions' \in [Logins -> Session]
    BY <1>1, <1>2 DEF EndUse, TypeOK
  <1>4. use' \in [Uses -> UseState] /\ lastUse' \in [Logins -> Now]
    BY <1>1 DEF EndUse, TypeOK, UseState
  <1> QED
    BY <1>3, <1>4 DEF EndUse, TypeOK

LEMMA LogoutTypes ==
    ASSUME TypeOK, NEW o \in Logouts,
           EndLogout(o) \/ \E s \in Logins : BeginLogout(o, s)
    PROVE  TypeOK'
  <1>1. CASE EndLogout(o)
    <2>1. logout' \in [Logouts -> OutState]
      BY <1>1 DEF EndLogout, TypeOK, OutState
    <2>2. sessions' \in [Logins -> Session]
      BY <1>1 DEF EndLogout, TypeOK, Session
    <2> QED
      BY <1>1, <2>1, <2>2 DEF EndLogout, TypeOK
  <1>2. CASE \E s \in Logins : BeginLogout(o, s)
    BY <1>2 DEF BeginLogout, TypeOK, OutState
  <1> QED
    BY <1>1, <1>2

LEMMA RestartTypes == TypeOK /\ Restart => TypeOK'
  <1> SUFFICES ASSUME TypeOK, Restart PROVE TypeOK'
    OBVIOUS
  <1>1. login' \in [Logins -> LoginState]
    BY DEF Restart, TypeOK, LoginState
  <1>2. use' \in [Uses -> UseState]
    BY DEF Restart, TypeOK, UseState
  <1>3. logout' \in [Logouts -> OutState]
    BY DEF Restart, TypeOK, OutState
  <1> QED
    BY <1>1, <1>2, <1>3 DEF Restart, TypeOK

LEMMA NextTypes == TypeOK /\ AccountsInv /\ SessionInv /\ Next => TypeOK'
  <1> SUFFICES ASSUME TypeOK, AccountsInv, SessionInv, Next PROVE TypeOK'
    OBVIOUS
  <1>1. ASSUME NEW e \in Emails, RequestLink(e) PROVE TypeOK'
    BY <1>1 DEF RequestLink, TypeOK, Link
  <1>2. CASE Tick
    BY <1>2, TimesAssumption DEF Tick, TypeOK, Now
  <1> QED
    BY <1>1, <1>2, LoginTypes, StepTypes, CommitTypes, GuardTypes, EndUseTypes,
       LogoutTypes, RestartTypes DEF Next

-----------------------------------------------------------------------------
(* The invariants hold at first and are preserved.                         *)

LEMMA InitInv == Init => AccountsInv /\ SessionInv
  BY TimesAssumption
     DEF Init, IdleLogin, NoSession, AccountsInv, TablesInv, LoginInv, SessionInv,
         OneAccountPerEmail, SessionForLinkOwner, Creating, LoginOpen, Slack,
         NotYetCreating, LinkKnown, CreatesItself, OneCreator, FoundUser, SpaceWithUser

\* The actions that only move a login forward before its commit.
LEMMA RejectKeeps ==
    ASSUME TypeOK, AccountsInv, NEW l \in Logins, NEW m \in mail, RejectLink(l, m)
    PROVE  AccountsInv'
  <1>1. TablesInv'
    BY DEF RejectLink, AccountsInv, TablesInv, TypeOK, User, LoginState
  <1>2. LoginInv'
    BY DEF RejectLink, AccountsInv, TypeOK, LoginState, LoginOpen, Creating, UsersOf,
           LoginInv, NotYetCreating, LinkKnown, CreatesItself, OneCreator,
           FoundUser, SpaceWithUser
  <1>3. OneAccountPerEmail' /\ SessionForLinkOwner'
    BY DEF RejectLink, AccountsInv, OneAccountPerEmail, SessionForLinkOwner,
           TablesInv, TypeOK, LoginState
  <1> QED
    BY <1>1, <1>2, <1>3 DEF AccountsInv

LEMMA VerifyKeeps ==
    ASSUME TypeOK, AccountsInv, NEW l \in Logins, NEW m \in mail, VerifyLink(l, m)
    PROVE  AccountsInv'
  <1>1. TablesInv'
    BY DEF VerifyLink, AccountsInv, TablesInv, TypeOK, User, LoginState
  <1>2. LoginInv'
    <2>1. \A u \in UsersOf(m.email) : [id |-> u.id, email |-> m.email] \in users
      BY DEF UsersOf, TypeOK, User
    <2>2. \A k \in Logins : k # l => login'[k] = login[k]
      BY DEF VerifyLink, TypeOK
    <2>3. /\ login'[l].newUser = login[l].newUser
          /\ login'[l].pc \in {"verified", "known"}
          /\ login'[l].email = m.email
          /\ login'[l].pc = "known" =>
               [id |-> login'[l].user, email |-> m.email] \in users
      <3>1. CASE UsersOf(m.email) = {} /\ login' = [login EXCEPT ![l].pc = "verified", ![l].email = m.email]
        BY <3>1 DEF TypeOK, LoginState
      <3>2. ASSUME NEW u \in UsersOf(m.email),
                   login' = [login EXCEPT ![l].pc = "known", ![l].email = m.email,
                                          ![l].user = u.id]
            PROVE  <2>3
        BY <2>1, <3>2 DEF TypeOK, LoginState
      <3> QED
        BY <3>1, <3>2 DEF VerifyLink
    <2>4. ~login[l].newUser
      BY DEF VerifyLink, AccountsInv, LoginInv, NotYetCreating
    <2>5. NotYetCreating' /\ LinkKnown'
      BY <2>2, <2>3, <2>4 DEF VerifyLink, AccountsInv, LoginInv, NotYetCreating,
         LinkKnown, LoginOpen
    <2>6. CreatesItself' /\ OneCreator'
      BY <2>2, <2>3, <2>4 DEF VerifyLink, AccountsInv, LoginInv, CreatesItself,
         OneCreator, Creating, UsersOf
    <2>7. FoundUser' /\ SpaceWithUser'
      BY <2>2, <2>3 DEF VerifyLink, AccountsInv, LoginInv, FoundUser, SpaceWithUser
    <2> QED
      BY <2>5, <2>6, <2>7 DEF LoginInv
  <1>3. OneAccountPerEmail' /\ SessionForLinkOwner'
    BY DEF VerifyLink, AccountsInv, OneAccountPerEmail, SessionForLinkOwner,
           TablesInv, TypeOK, LoginState
  <1> QED
    BY <1>1, <1>2, <1>3 DEF AccountsInv

LEMMA InsertKeeps ==
    ASSUME TypeOK, AccountsInv, NEW l \in Logins, InsertUser(l)
    PROVE  AccountsInv'
  <1>1. TablesInv'
    BY DEF InsertUser, AccountsInv, TablesInv, TypeOK, User, LoginState
  <1>2. LoginInv'
    <2>1. \A k \in Logins : k # l => login'[k] = login[k]
      BY DEF InsertUser, TypeOK
    <2>2. /\ login'[l].email = login[l].email
          /\ \/ /\ login'[l].pc = "known" /\ login'[l].newUser
                /\ login'[l].user = l /\ UsersOf(login[l].email) = {}
             \/ login'[l].pc = "failed"
      BY DEF InsertUser, TypeOK, LoginState, EmailTaken
    <2>3. \A k \in Logins : Creating(k) => login[k].email # login[l].email
      BY DEF InsertUser, Inserting, Creating, LoginOpen
    <2>4. NotYetCreating' /\ LinkKnown'
      BY <2>1, <2>2 DEF InsertUser, AccountsInv, LoginInv, NotYetCreating,
         LinkKnown, LoginOpen
    <2>5. CreatesItself'
      BY <2>1, <2>2 DEF InsertUser, AccountsInv, LoginInv, CreatesItself, Creating,
         UsersOf
    <2>6. OneCreator'
      BY <2>1, <2>2, <2>3 DEF AccountsInv, LoginInv, OneCreator, Creating
    <2>7. FoundUser' /\ SpaceWithUser'
      BY <2>1, <2>2 DEF InsertUser, AccountsInv, LoginInv, FoundUser, SpaceWithUser
    <2> QED
      BY <2>4, <2>5, <2>6, <2>7 DEF LoginInv
  <1>3. OneAccountPerEmail' /\ SessionForLinkOwner'
    BY DEF InsertUser, AccountsInv, OneAccountPerEmail, SessionForLinkOwner,
           TablesInv, TypeOK, LoginState
  <1> QED
    BY <1>1, <1>2, <1>3 DEF AccountsInv

\* A user that is committed has a workspace; one that is not has none.
LEMMA WorkspaceKeeps ==
    ASSUME TypeOK, AccountsInv, NEW l \in Logins, FindWorkspace(l)
    PROVE  AccountsInv'
  <1>1. TablesInv'
    BY DEF FindWorkspace, AccountsInv, TablesInv, TypeOK, User, LoginState
  <1>2. (\E w \in spaces : w.owner = login[l].user) <=> ~login[l].newUser
    <2>1. CASE login[l].newUser
      <3>1. login[l].user = l /\ login[l].pc = "known"
        BY <2>1 DEF FindWorkspace, AccountsInv, LoginInv, CreatesItself, Creating
      <3>2. ~\E w \in spaces : w.owner = l
        BY <3>1 DEF AccountsInv, TablesInv
      <3> QED
        BY <2>1, <3>1, <3>2
    <2>2. CASE ~login[l].newUser
      <3>1. [id |-> login[l].user, email |-> login[l].email] \in users
        BY <2>2 DEF FindWorkspace, AccountsInv, LoginInv, FoundUser
      <3>2. PICK u \in users : u.id = login[l].user
        BY <3>1
      <3>3. \E w \in spaces : w.owner = u.id
        BY DEF AccountsInv, OneAccountPerEmail
      <3> QED
        BY <2>2, <3>2, <3>3
    <2> QED
      BY <2>1, <2>2 DEF TypeOK, LoginState
  <1>3. LoginInv'
    <2>1. \A k \in Logins : k # l => login'[k] = login[k]
      BY DEF FindWorkspace, TypeOK
    <2>2. /\ login[l].pc = "known" /\ login'[l].pc = "ready"
          /\ login'[l].email = login[l].email /\ login'[l].user = login[l].user
      BY DEF FindWorkspace, TypeOK, LoginState
    <2>3. login'[l].newUser <=> login[l].newUser
      BY DEF FindWorkspace, TypeOK, LoginState
    <2>4. login'[l].newSpace <=> login'[l].newUser
      <3>1. login'[l].newSpace <=> ~\E w \in spaces : w.owner = login[l].user
        BY DEF FindWorkspace, TypeOK, LoginState
      <3> QED
        BY <1>2, <2>3, <3>1
    <2>5. NotYetCreating' /\ LinkKnown'
      BY <2>1, <2>2 DEF FindWorkspace, AccountsInv, LoginInv, NotYetCreating,
         LinkKnown, LoginOpen
    <2>6. ASSUME NEW k \in Logins
          PROVE  /\ Creating(k)' <=> Creating(k)
                 /\ login'[k].email = login[k].email
                 /\ login'[k].user = login[k].user
      <3>1. CASE k = l
        BY <2>2, <2>3, <3>1 DEF Creating
      <3>2. CASE k # l
        BY <2>1, <3>2 DEF Creating
      <3> QED
        BY <3>1, <3>2
    <2>7. CreatesItself'
      <3> SUFFICES ASSUME NEW k \in Logins, Creating(k)'
                   PROVE  login'[k].user = k /\ UsersOf(login[k].email)' = {}
        BY DEF CreatesItself
      <3>1. Creating(k)
        BY <2>6
      <3>2. login[k].user = k /\ UsersOf(login[k].email) = {}
        BY <3>1 DEF AccountsInv, LoginInv, CreatesItself
      <3>3. users' = users
        BY DEF FindWorkspace
      <3> QED
        BY <2>6, <3>2, <3>3 DEF UsersOf
    <2>8. OneCreator'
      <3> SUFFICES ASSUME NEW k \in Logins, NEW j \in Logins, Creating(k)', Creating(j)',
                          login'[k].email = login'[j].email
                   PROVE  k = j
        BY DEF OneCreator
      <3> QED
        BY <2>6 DEF AccountsInv, LoginInv, OneCreator
    <2>9. FoundUser'
      <3> SUFFICES ASSUME NEW k \in Logins, login'[k].pc \in {"known", "ready"},
                          ~login'[k].newUser
                   PROVE  [id |-> login'[k].user, email |-> login'[k].email] \in users'
        BY DEF FoundUser
      <3>1. login[k].pc \in {"known", "ready"} /\ ~login[k].newUser
        BY <2>1, <2>2, <2>3
      <3>2. [id |-> login[k].user, email |-> login[k].email] \in users
        BY <3>1 DEF AccountsInv, LoginInv, FoundUser
      <3>3. users' = users
        BY DEF FindWorkspace
      <3>4. login'[k].email = login[k].email /\ login'[k].user = login[k].user
        BY <2>6
      <3> QED
        BY <3>2, <3>3, <3>4
    <2>10. SpaceWithUser'
      BY <2>1, <2>4 DEF AccountsInv, LoginInv, SpaceWithUser
    <2> QED
      BY <2>5, <2>7, <2>8, <2>9, <2>10 DEF LoginInv
  <1>4. OneAccountPerEmail' /\ SessionForLinkOwner'
    BY DEF FindWorkspace, AccountsInv, OneAccountPerEmail, SessionForLinkOwner,
           TablesInv, TypeOK, LoginState
  <1> QED
    BY <1>1, <1>3, <1>4 DEF AccountsInv

\* The commit: what the transaction held becomes the tables'.
LEMMA CommitKeeps ==
    ASSUME TypeOK, AccountsInv, NEW l \in Logins, CommitLogin(l)
    PROVE  AccountsInv'
  <1> DEFINE e   == login[l].email
             row == [id |-> l, email |-> e]
             own == [id |-> l, owner |-> l]
  <1>1. login[l].pc = "ready" /\ LoginOpen(l)
    BY DEF CommitLogin, LoginOpen
  <1>2. login[l].newSpace <=> login[l].newUser
    BY <1>1 DEF AccountsInv, LoginInv, SpaceWithUser
  <1>3. \/ /\ login[l].newUser /\ login[l].user = l /\ UsersOf(e) = {}
           /\ users' = users \cup {row} /\ spaces' = spaces \cup {own}
        \/ /\ ~login[l].newUser /\ users' = users /\ spaces' = spaces
           /\ [id |-> login[l].user, email |-> e] \in users
    <2>1. CASE login[l].newUser
      <3>1. login[l].user = l /\ UsersOf(e) = {}
        BY <1>1, <2>1 DEF AccountsInv, LoginInv, CreatesItself, Creating
      <3>2. {u \in {row} : login[l].newUser} = {row}
        BY <2>1
      <3>3. {w \in {[id |-> l, owner |-> login[l].user]} : login[l].newSpace} = {own}
        BY <1>2, <2>1, <3>1
      <3>4. users' = users \cup {row} /\ spaces' = spaces \cup {own}
        BY <3>2, <3>3 DEF CommitLogin
      <3> QED
        BY <2>1, <3>1, <3>4
    <2>2. CASE ~login[l].newUser
      <3>1. [id |-> login[l].user, email |-> e] \in users
        BY <1>1, <2>2 DEF AccountsInv, LoginInv, FoundUser
      <3>2. {u \in {row} : login[l].newUser} = {}
        BY <2>2
      <3>3. {w \in {[id |-> l, owner |-> login[l].user]} : login[l].newSpace} = {}
        BY <1>2, <2>2
      <3>4. users' = users /\ spaces' = spaces
        BY <3>2, <3>3 DEF CommitLogin
      <3> QED
        BY <2>2, <3>1, <3>4
    <2> QED
      BY <2>1, <2>2
  <1>4. /\ \A k \in Logins : k # l => login'[k] = login[k] /\ sessions'[k] = sessions[k]
        /\ login'[l].pc = "done" /\ login'[l].email = e
        /\ sessions'[l].user = login[l].user
        /\ mail' = mail
    BY DEF CommitLogin, TypeOK, LoginState, NewSession
  <1>5. \A u \in users : u.id \in Logins /\ u.id # l /\ login[u.id].pc = "done"
    BY <1>1 DEF AccountsInv, TablesInv, TypeOK, User
  <1>6. \A w \in spaces : w.owner # l
    BY <1>5 DEF AccountsInv, TablesInv
  <1>7. TablesInv'
    <2>1. \A u \in users' : login'[u.id].pc = "done"
      BY <1>3, <1>4, <1>5
    <2>2. \A w \in spaces' : \E u \in users' : u.id = w.owner
      BY <1>3 DEF AccountsInv, TablesInv
    <2>3. \A k \in Logins : sessions'[k].live => login'[k].pc = "done"
      BY <1>4 DEF AccountsInv, TablesInv
    <2> QED
      BY <2>1, <2>2, <2>3 DEF TablesInv
  <1>8. OneAccountPerEmail'
    <2>1. \A u, v \in users' : u.email = v.email => u = v
      BY <1>3 DEF AccountsInv, OneAccountPerEmail, UsersOf
    <2>2. ASSUME NEW u \in users'
          PROVE  \E w \in spaces' : w.owner = u.id
                                    /\ \A x \in spaces' : x.owner = u.id => x = w
      <3>1. CASE u \in users
        <4>1. PICK w \in spaces : w.owner = u.id
                                  /\ \A x \in spaces : x.owner = u.id => x = w
          BY <3>1 DEF AccountsInv, OneAccountPerEmail
        <4>2. u.id # l
          BY <1>5, <3>1
        <4> QED
          BY <1>3, <4>1, <4>2
      <3>2. CASE u \notin users
        <4>1. u = row /\ spaces' = spaces \cup {own}
          BY <1>3, <3>2
        <4>2. own \in spaces' /\ own.owner = u.id
          BY <4>1
        <4>3. \A x \in spaces' : x.owner = u.id => x = own
          BY <1>6, <4>1
        <4> QED
          BY <4>2, <4>3
      <3> QED
        BY <3>1, <3>2
    <2> QED
      BY <2>1, <2>2 DEF OneAccountPerEmail
  <1>9. SessionForLinkOwner'
    <2>1. [id |-> login[l].user, email |-> e] \in users'
      BY <1>3
    <2>2. \E m \in mail : m.email = e
      BY <1>1 DEF AccountsInv, LoginInv, LinkKnown
    <2>3. users \subseteq users'
      BY <1>3
    <2>4. ASSUME NEW k \in Logins, sessions'[k].live
          PROVE  /\ [id |-> sessions'[k].user, email |-> login'[k].email] \in users'
                 /\ \E m \in mail' : m.email = login'[k].email
      <3>1. CASE k = l
        <4>1. sessions'[k].user = login[l].user /\ login'[k].email = e /\ mail' = mail
          BY <1>4, <3>1
        <4> QED
          BY <2>1, <2>2, <4>1
      <3>2. CASE k # l
        BY <1>4, <2>3, <2>4, <3>2 DEF AccountsInv, SessionForLinkOwner
      <3> QED
        BY <3>1, <3>2
    <2> QED
      BY <2>4 DEF SessionForLinkOwner
  <1>10. NotYetCreating' /\ SpaceWithUser'
    BY <1>4 DEF AccountsInv, LoginInv, NotYetCreating, SpaceWithUser
  <1>11. LinkKnown'
    BY <1>4 DEF AccountsInv, LoginInv, LinkKnown, LoginOpen
  <1>12. \A k \in Logins : Creating(k)' => k # l /\ Creating(k) /\ login'[k] = login[k]
    BY <1>4 DEF Creating
  <1>13. CreatesItself'
    <2> SUFFICES ASSUME NEW k \in Logins, Creating(k)'
                 PROVE  login'[k].user = k /\ UsersOf(login[k].email)' = {}
      BY DEF CreatesItself
    <2>1. k # l /\ Creating(k) /\ login'[k] = login[k]
      BY <1>12
    <2>2. login[k].user = k /\ UsersOf(login[k].email) = {}
      BY <2>1 DEF AccountsInv, LoginInv, CreatesItself
    <2>3. \A u \in users' : u.email # login[k].email
      <3>1. CASE users' = users \cup {row} /\ login[l].newUser
        <4>1. Creating(l)
          BY <1>1, <3>1 DEF Creating
        <4>2. login[k].email # e
          BY <2>1, <4>1 DEF AccountsInv, LoginInv, OneCreator
        <4> QED
          BY <2>2, <3>1, <4>2 DEF UsersOf
      <3>2. CASE users' = users
        BY <2>2, <3>2 DEF UsersOf
      <3> QED
        BY <1>3, <3>1, <3>2
    <2> QED
      BY <2>1, <2>2, <2>3 DEF UsersOf
  <1>14. OneCreator'
    BY <1>12 DEF AccountsInv, LoginInv, OneCreator
  <1>15. FoundUser'
    <2>1. users \subseteq users'
      BY <1>3
    <2> QED
      BY <1>4, <2>1 DEF AccountsInv, LoginInv, FoundUser
  <1> QED
    BY <1>7, <1>8, <1>9, <1>10, <1>11, <1>13, <1>14, <1>15 DEF AccountsInv, LoginInv

\* Steps that leave the logins and the accounts alone, and wake no session.
LEMMA OthersKeep ==
    ASSUME AccountsInv, users' = users, spaces' = spaces, login' = login,
           mail \subseteq mail',
           \A l \in Logins : sessions'[l].live =>
               sessions[l].live /\ sessions'[l].user = sessions[l].user
    PROVE  AccountsInv'
  <1>1. TablesInv' /\ OneAccountPerEmail'
    BY DEF AccountsInv, TablesInv, OneAccountPerEmail
  <1>2. SessionForLinkOwner'
    BY DEF AccountsInv, SessionForLinkOwner
  <1>3. NotYetCreating' /\ FoundUser' /\ SpaceWithUser'
    BY DEF AccountsInv, LoginInv, NotYetCreating, FoundUser, SpaceWithUser
  <1>4. LinkKnown'
    BY DEF AccountsInv, LoginInv, LinkKnown, LoginOpen
  <1>5. CreatesItself' /\ OneCreator'
    BY DEF AccountsInv, LoginInv, CreatesItself, OneCreator, Creating, UsersOf
  <1> QED
    BY <1>1, <1>2, <1>3, <1>4, <1>5 DEF AccountsInv, LoginInv

LEMMA EndUseKeeps ==
    ASSUME TypeOK, AccountsInv, NEW t \in Uses, EndUse(t)
    PROVE  AccountsInv'
  <1>1. \A l \in Logins : sessions'[l].live =>
            sessions[l].live /\ sessions'[l].user = sessions[l].user
    BY DEF EndUse, Extended, TypeOK
  <1> QED
    BY <1>1, OthersKeep DEF EndUse

LEMMA EndLogoutKeeps ==
    ASSUME TypeOK, AccountsInv, NEW o \in Logouts, EndLogout(o)
    PROVE  AccountsInv'
  <1>1. \A l \in Logins : sessions'[l].live =>
            sessions[l].live /\ sessions'[l].user = sessions[l].user
    BY DEF EndLogout, TypeOK, Session
  <1> QED
    BY <1>1, OthersKeep DEF EndLogout

LEMMA RestartKeeps == TypeOK /\ AccountsInv /\ Restart => AccountsInv'
  <1> SUFFICES ASSUME TypeOK, AccountsInv, Restart PROVE AccountsInv'
    OBVIOUS
  <1>1. \A l \in Logins : /\ LoginOpen(l) => login'[l].pc = "failed"
                          /\ ~LoginOpen(l) => login'[l] = login[l]
                          /\ login'[l].email = login[l].email
    BY DEF Restart, TypeOK, LoginState
  <1>2. \A l \in Logins : /\ login'[l].pc \notin {"verified", "known", "ready"}
                          /\ login'[l].pc = "done" <=> login[l].pc = "done"
                          /\ login'[l].pc = "idle" => login'[l] = login[l]
    BY <1>1 DEF LoginOpen
  <1>3. TablesInv' /\ OneAccountPerEmail' /\ SessionForLinkOwner'
    BY <1>1, <1>2 DEF Restart, AccountsInv, TablesInv, OneAccountPerEmail,
       SessionForLinkOwner, TypeOK, User
  <1>4. LoginInv'
    BY <1>2 DEF AccountsInv, LoginInv, NotYetCreating, LinkKnown, LoginOpen,
       CreatesItself, OneCreator, Creating, FoundUser, SpaceWithUser
  <1> QED
    BY <1>3, <1>4 DEF AccountsInv

LEMMA NextAccounts == TypeOK /\ AccountsInv /\ Next => AccountsInv'
  <1> SUFFICES ASSUME TypeOK, AccountsInv, Next PROVE AccountsInv'
    OBVIOUS
  <1>1. ASSUME NEW e \in Emails, RequestLink(e) PROVE AccountsInv'
    BY <1>1, OthersKeep DEF RequestLink
  <1>2. ASSUME NEW t \in Uses, NEW s \in Logins, DenyUse(t, s) \/ BeginUse(t, s)
        PROVE  AccountsInv'
    BY <1>2, OthersKeep DEF DenyUse, BeginUse
  <1>3. ASSUME NEW o \in Logouts, NEW s \in Logins, BeginLogout(o, s)
        PROVE  AccountsInv'
    BY <1>3, OthersKeep DEF BeginLogout
  <1>4. CASE Tick
    BY <1>4, OthersKeep DEF Tick
  <1> QED
    BY <1>1, <1>2, <1>3, <1>4, RejectKeeps, VerifyKeeps, InsertKeeps, WorkspaceKeeps,
       CommitKeeps, EndUseKeeps, EndLogoutKeeps, RestartKeeps DEF Next

\* The same for what the sessions say of their last use.
LEMMA SessionsUntouched ==
    ASSUME TypeOK, SessionInv, sessions' = sessions, lastUse' = lastUse,
           clock' = clock,
           \A l \in Logins : login[l].pc = "done" => login'[l].pc = "done",
           \A t \in Uses : use'[t].pc = "read" => use'[t] = use[t]
    PROVE  SessionInv'
  <1>1. ASSUME NEW t \in Uses, use'[t].pc = "read"
        PROVE  /\ login'[use'[t].sid].pc = "done"
               /\ use'[t].sid \in Logins
               /\ use'[t].at <= clock' /\ clock' <= use'[t].at + Slow
               /\ ~use'[t].extend /\ sessions'[use'[t].sid].live =>
                    sessions'[use'[t].sid].active + Slack >= use'[t].at
    <2>1. use'[t] = use[t] /\ use[t].pc = "read"
      BY <1>1
    <2> QED
      BY <2>1 DEF SessionInv
  <1> QED
    BY <1>1 DEF SessionInv

LEMMA CommitSession ==
    ASSUME TypeOK, AccountsInv, SessionInv, NEW l \in Logins, CommitLogin(l)
    PROVE  SessionInv'
  <1>1. \A t \in Uses : use[t].pc = "read" => use[t].sid # l
    BY DEF CommitLogin, SessionInv
  <1>2. \A k \in Logins : k # l => /\ sessions'[k] = sessions[k]
                                   /\ lastUse'[k] = lastUse[k]
                                   /\ login'[k] = login[k]
    BY DEF CommitLogin, TypeOK
  <1>3. /\ sessions'[l].expires = sessions'[l].active + MaxAge
        /\ sessions'[l].active = clock /\ lastUse'[l] = clock
    BY DEF CommitLogin, TypeOK, NewSession
  <1>4. clock' = clock /\ use' = use /\ clock \in Nat /\ Slack \in Nat
    BY TimesAssumption DEF CommitLogin, TypeOK, Now, Slack
  <1>5. ASSUME NEW k \in Logins
        PROVE  /\ sessions'[k].live =>
                    /\ sessions'[k].expires = sessions'[k].active + MaxAge
                    /\ sessions'[k].active + Slack >= lastUse'[k]
               /\ lastUse'[k] <= clock'
    <2>1. CASE k = l
      BY <1>3, <1>4, <2>1
    <2>2. CASE k # l
      BY <1>2, <1>4, <2>2 DEF SessionInv
    <2> QED
      BY <2>1, <2>2
  <1>6. ASSUME NEW t \in Uses, use[t].pc = "read"
        PROVE  /\ login'[use[t].sid].pc = "done"
               /\ sessions'[use[t].sid] = sessions[use[t].sid]
    BY <1>1, <1>2, <1>6 DEF SessionInv
  <1> QED
    BY <1>4, <1>5, <1>6 DEF SessionInv, Slack

LEMMA BeginUseSession ==
    ASSUME TypeOK, SessionInv, NEW t \in Uses, NEW s \in Logins, BeginUse(t, s)
    PROVE  SessionInv'
  <1>1. clock \in Nat /\ sessions[s].active \in Nat /\ Slack \in Nat /\ Debounce <= Slack
    BY TimesAssumption DEF TypeOK, Session, Now, Slack
  <1>2. \A k \in Uses : k # t => use'[k] = use[k]
    BY DEF BeginUse, TypeOK
  <1>3. /\ use'[t].sid = s /\ use'[t].at = clock
        /\ use'[t].extend <=> clock - sessions[s].active > Debounce
    BY DEF BeginUse, TypeOK
  <1>4. ~use'[t].extend => sessions[s].active + Slack >= clock
    BY <1>1, <1>3, TimesAssumption
  <1>5. ASSUME NEW k \in Uses, use'[k].pc = "read"
        PROVE  /\ login[use'[k].sid].pc = "done"
               /\ use'[k].sid \in Logins
               /\ use'[k].at <= clock /\ clock <= use'[k].at + Slow
               /\ ~use'[k].extend /\ sessions[use'[k].sid].live =>
                    sessions[use'[k].sid].active + Slack >= use'[k].at
    <2>1. CASE k = t
      <3>1. login[s].pc = "done"
        BY DEF BeginUse
      <3> QED
        BY <1>1, <1>3, <1>4, <2>1, <3>1, TimesAssumption
    <2>2. CASE k # t
      BY <1>2, <1>5, <2>2 DEF SessionInv
    <2> QED
      BY <2>1, <2>2
  <1>6. UNCHANGED <<clock, sessions, login, lastUse>>
    BY DEF BeginUse
  <1> QED
    BY <1>5, <1>6 DEF SessionInv, Slack

LEMMA EndUseSession ==
    ASSUME TypeOK, SessionInv, NEW t \in Uses, EndUse(t)
    PROVE  SessionInv'
  <1> DEFINE s == use[t].sid
  <1>1. /\ s \in Logins /\ use[t].at \in Nat /\ clock \in Nat /\ Slack \in Nat
        /\ Slow <= Slack /\ use[t].at <= clock /\ clock <= use[t].at + Slow
    BY TimesAssumption DEF EndUse, SessionInv, TypeOK, UseState, Now, Slack
  <1>2. \A k \in Uses : use'[k].pc = "read" => k # t /\ use'[k] = use[k]
    BY DEF EndUse, TypeOK, UseState
  <1>3. CASE UNCHANGED <<sessions, lastUse>>
    <2>1. clock' = clock /\ login' = login
      BY DEF EndUse
    <2> QED
      BY <1>2, <1>3, <2>1, SessionsUntouched
  <1>4. CASE /\ use[t].extend => sessions[s].live
             /\ sessions' = IF use[t].extend
                            THEN [sessions EXCEPT ![s] = Extended(@, use[t].at)]
                            ELSE sessions
             /\ lastUse' = [lastUse EXCEPT ![s] = IF @ > use[t].at THEN @
                                                  ELSE use[t].at]
    <2>1. \A l \in Logins : l # s => sessions'[l] = sessions[l] /\ lastUse'[l] = lastUse[l]
      BY <1>4 DEF TypeOK
    <2>2. /\ lastUse'[s] = IF lastUse[s] > use[t].at THEN lastUse[s] ELSE use[t].at
          /\ lastUse[s] \in Nat /\ lastUse[s] <= clock
      BY <1>1, <1>4 DEF TypeOK, Now, SessionInv
    <2>3. lastUse'[s] <= clock
      BY <1>1, <2>2
    <2>4. /\ sessions[s].active \in Nat
          /\ sessions[s].live => sessions[s].expires = sessions[s].active + MaxAge
          /\ sessions[s].live => sessions[s].active + Slack >= lastUse[s]
      BY <1>1 DEF SessionInv, TypeOK, Session, Now
    <2>5. CASE use[t].extend
      <3>1. sessions'[s] = Extended(sessions[s], use[t].at)
        BY <1>1, <1>4, <2>5 DEF TypeOK
      <3>2. /\ sessions'[s].active = use[t].at
            /\ sessions'[s].expires = sessions'[s].active + MaxAge
        BY <3>1 DEF Extended
      <3>3. sessions'[s].active + Slack >= clock
        BY <1>1, <3>2, TimesAssumption
      <3>4. ASSUME NEW l \in Logins, sessions'[l].live
            PROVE  /\ sessions'[l].expires = sessions'[l].active + MaxAge
                   /\ sessions'[l].active + Slack >= lastUse'[l]
        <4>1. CASE l = s
          <5>1. lastUse'[s] \in Nat
            BY <1>1, <2>2
          <5>2. sessions'[s].active \in Nat
            BY <1>1, <3>2
          <5> QED
            BY <1>1, <2>3, <3>2, <3>3, <4>1, <5>1, <5>2
        <4>2. CASE l # s
          BY <2>1, <3>4, <4>2 DEF SessionInv
        <4> QED
          BY <4>1, <4>2
      <3>5. ASSUME NEW k \in Uses, use'[k].pc = "read", sessions'[use[k].sid].live,
                   ~use[k].extend
            PROVE  sessions'[use[k].sid].active + Slack >= use[k].at
        <4>1. use[k].pc = "read" /\ use[k].at <= clock /\ use[k].sid \in Logins
              /\ use[k].at \in Nat
          BY <1>2, <3>5 DEF SessionInv, TypeOK, UseState, Now
        <4>2. CASE use[k].sid = s
          BY <1>1, <3>2, <3>3, <4>1, <4>2
        <4>3. CASE use[k].sid # s
          BY <2>1, <3>5, <4>1, <4>3 DEF SessionInv
        <4> QED
          BY <4>2, <4>3
      <3>6. \A l \in Logins : lastUse'[l] <= clock
        BY <2>1, <2>3 DEF SessionInv
      <3>7. \A k \in Uses : use'[k].pc = "read" =>
               /\ use'[k] = use[k]
               /\ login[use[k].sid].pc = "done" /\ use[k].sid \in Logins
               /\ use[k].at <= clock /\ clock <= use[k].at + Slow
        BY <1>2 DEF SessionInv
      <3>8. clock' = clock /\ login' = login
        BY DEF EndUse
      <3> QED
        BY <3>4, <3>5, <3>6, <3>7, <3>8 DEF SessionInv, Slack
    <2>6. CASE ~use[t].extend
      <3>1. sessions' = sessions
        BY <1>4, <2>6
      <3>2. sessions[s].live => sessions[s].active + Slack >= use[t].at
        BY <2>6 DEF EndUse, SessionInv
      <3>3. \A l \in Logins : sessions[l].live =>
               /\ sessions[l].expires = sessions[l].active + MaxAge
               /\ sessions[l].active + Slack >= lastUse'[l]
        BY <2>1, <2>2, <2>4, <3>2 DEF SessionInv
      <3>4. \A l \in Logins : lastUse'[l] <= clock
        BY <2>1, <2>3 DEF SessionInv
      <3>5. \A k \in Uses : use'[k].pc = "read" =>
               /\ use'[k] = use[k]
               /\ login[use[k].sid].pc = "done" /\ use[k].sid \in Logins
               /\ use[k].at <= clock /\ clock <= use[k].at + Slow
               /\ ~use[k].extend /\ sessions[use[k].sid].live =>
                    sessions[use[k].sid].active + Slack >= use[k].at
        BY <1>2 DEF SessionInv
      <3>6. clock' = clock /\ login' = login
        BY DEF EndUse
      <3> QED
        BY <3>1, <3>3, <3>4, <3>5, <3>6 DEF SessionInv, Slack
    <2> QED
      BY <2>5, <2>6
  <1> QED
    BY <1>3, <1>4 DEF EndUse

LEMMA EndLogoutSession ==
    ASSUME TypeOK, SessionInv, NEW o \in Logouts, EndLogout(o)
    PROVE  SessionInv'
  <1>1. \A l \in Logins : /\ sessions'[l].live => sessions[l].live
                          /\ sessions'[l].active = sessions[l].active
                          /\ sessions'[l].expires = sessions[l].expires
    BY DEF EndLogout, TypeOK, Session
  <1>2. UNCHANGED <<clock, login, use, lastUse>>
    BY DEF EndLogout
  <1> QED
    BY <1>1, <1>2 DEF SessionInv, Slack

LEMMA TickSession == TypeOK /\ SessionInv /\ Tick => SessionInv'
  <1> SUFFICES ASSUME TypeOK, SessionInv, Tick PROVE SessionInv'
    OBVIOUS
  <1>1. UNCHANGED <<sessions, login, use, lastUse>> /\ clock' = clock + 1
    BY DEF Tick
  <1>2. clock \in Nat /\ \A l \in Logins : lastUse[l] \in Nat
    BY DEF TypeOK, Now
  <1>3. \A l \in Logins : lastUse[l] <= clock + 1
    BY <1>2 DEF SessionInv
  <1>4. ASSUME NEW t \in Uses, use[t].pc = "read"
        PROVE  use[t].at <= clock + 1 /\ clock + 1 <= use[t].at + Slow
    <2>1. use[t].at \in Nat
      BY DEF TypeOK, UseState, Now
    <2>2. clock < use[t].at + Slow /\ use[t].at <= clock
      BY <1>4 DEF Tick, SessionInv
    <2> QED
      BY <1>2, <2>1, <2>2, TimesAssumption
  <1> QED
    BY <1>1, <1>3, <1>4 DEF SessionInv, Slack

LEMMA NextSession == TypeOK /\ AccountsInv /\ SessionInv /\ Next => SessionInv'
  <1> SUFFICES ASSUME TypeOK, AccountsInv, SessionInv, Next PROVE SessionInv'
    OBVIOUS
  <1>1. ASSUME NEW e \in Emails, RequestLink(e) PROVE SessionInv'
    BY <1>1, SessionsUntouched DEF RequestLink
  <1>2. ASSUME NEW l \in Logins, NEW m \in mail, RejectLink(l, m) \/ VerifyLink(l, m)
        PROVE  SessionInv'
    <2>1. \A k \in Logins : login[k].pc = "done" => login'[k].pc = "done"
      BY <1>2 DEF RejectLink, VerifyLink, TypeOK
    <2>2. UNCHANGED <<sessions, lastUse, clock, use>>
      BY <1>2 DEF RejectLink, VerifyLink
    <2> QED
      BY <2>1, <2>2, SessionsUntouched
  <1>3. ASSUME NEW l \in Logins, InsertUser(l) \/ FindWorkspace(l)
        PROVE  SessionInv'
    <2>1. \A k \in Logins : login[k].pc = "done" => login'[k].pc = "done"
      BY <1>3 DEF InsertUser, FindWorkspace, TypeOK
    <2>2. UNCHANGED <<sessions, lastUse, clock, use>>
      BY <1>3 DEF InsertUser, FindWorkspace
    <2> QED
      BY <2>1, <2>2, SessionsUntouched
  <1>4. ASSUME NEW t \in Uses, NEW s \in Logins, DenyUse(t, s) PROVE SessionInv'
    <2>1. \A k \in Uses : use'[k].pc = "read" => use'[k] = use[k]
      BY <1>4 DEF DenyUse, TypeOK, UseState
    <2> QED
      BY <1>4, <2>1, SessionsUntouched DEF DenyUse
  <1>5. ASSUME NEW o \in Logouts, NEW s \in Logins, BeginLogout(o, s) PROVE SessionInv'
    BY <1>5, SessionsUntouched DEF BeginLogout
  <1>6. CASE Restart
    <2>1. \A k \in Logins : login[k].pc = "done" => login'[k].pc = "done"
      BY <1>6 DEF Restart, LoginOpen
    <2>2. \A t \in Uses : use'[t].pc = "read" => use'[t] = use[t]
      BY <1>6 DEF Restart, TypeOK, UseState
    <2> QED
      BY <1>6, <2>1, <2>2, SessionsUntouched DEF Restart
  <1> QED
    BY <1>1, <1>2, <1>3, <1>4, <1>5, <1>6, CommitSession, BeginUseSession,
       EndUseSession, EndLogoutSession, TickSession DEF Next

-----------------------------------------------------------------------------
(* Theorems of Accounts.                                                   *)

AllInv == TypeOK /\ AccountsInv /\ SessionInv

LEMMA StutterInv == AllInv /\ UNCHANGED vars => AllInv'
  <1> SUFFICES ASSUME AllInv, UNCHANGED vars PROVE AllInv'
    OBVIOUS
  <1>1. TypeOK'
    BY DEF AllInv, TypeOK, vars
  <1>2. AccountsInv'
    BY OthersKeep DEF AllInv, vars
  <1>3. SessionInv'
    BY SessionsUntouched DEF AllInv, vars
  <1> QED
    BY <1>1, <1>2, <1>3 DEF AllInv

LEMMA StepInv == AllInv /\ [Next]_vars => AllInv'
  BY NextTypes, NextAccounts, NextSession, StutterInv DEF AllInv

LEMMA Invariance == Spec => []AllInv
  <1>1. Init => AllInv
    BY InitTypes, InitInv DEF AllInv
  <1> QED
    BY <1>1, StepInv, PTL DEF Spec

LEMMA KeepsSession == AllInv => UseKeepsSession
  <1> SUFFICES ASSUME AllInv, NEW l \in Logins, sessions[l].live
               PROVE  sessions[l].expires + Slack >= lastUse[l] + MaxAge
    BY DEF UseKeepsSession, Slack
  <1>1. /\ sessions[l].active \in Nat /\ lastUse[l] \in Nat
        /\ sessions[l].expires = sessions[l].active + MaxAge
        /\ sessions[l].active + Slack >= lastUse[l]
    BY DEF AllInv, TypeOK, Session, Now, SessionInv
  <1>2. Slack \in Nat
    BY TimesAssumption DEF Slack
  <1> QED
    BY <1>1, <1>2, TimesAssumption

LEMMA StaysDeleted ==
    ASSUME AllInv, Next, NEW l \in Logins, login[l].pc = "done", ~sessions[l].live
    PROVE  ~sessions'[l].live
  <1>1. ASSUME NEW k \in Logins, CommitLogin(k) PROVE ~sessions'[l].live
    BY <1>1 DEF CommitLogin, AllInv, TypeOK
  <1>2. ASSUME NEW t \in Uses, EndUse(t) PROVE ~sessions'[l].live
    <2>1. use[t].sid \in Logins
      BY <1>2 DEF EndUse, AllInv, SessionInv
    <2> QED
      BY <1>2, <2>1 DEF EndUse, Extended, AllInv, TypeOK
  <1>3. ASSUME NEW o \in Logouts, EndLogout(o) PROVE ~sessions'[l].live
    BY <1>3 DEF EndLogout, AllInv, TypeOK, Session
  <1>4. CASE UNCHANGED sessions
    BY <1>4
  <1> QED
    BY <1>1, <1>2, <1>3, <1>4
       DEF Next, RequestLink, RejectLink, VerifyLink, InsertUser, FindWorkspace,
           DenyUse, BeginUse, BeginLogout, Restart, Tick

\* The accounts' records are well typed in every reachable state.
THEOREM AccountsTypeCorrect == Spec => []TypeOK
  BY Invariance, PTL DEF AllInv

\* However first logins and crashes interleave, an e-mail has one user and a
\* user one workspace.
THEOREM AccountsAreUnique == Spec => []OneAccountPerEmail
  <1>1. AllInv => OneAccountPerEmail
    BY DEF AllInv, AccountsInv
  <1> QED
    BY <1>1, Invariance, PTL

\* A live session belongs to the owner of the e-mail its link went to.
THEOREM SessionsAreOwned == Spec => []SessionForLinkOwner
  <1>1. AllInv => SessionForLinkOwner
    BY DEF AllInv, AccountsInv
  <1> QED
    BY <1>1, Invariance, PTL

\* A session outlives its last use by MaxAge, less the larger of the debounce
\* and the longest request, whatever extensions overtake each other.
THEOREM SessionsOutliveTheirUse == Spec => []UseKeepsSession
  BY Invariance, KeepsSession, PTL

\* No request brings a deleted session back.
THEOREM LogoutIsFinal == Spec => LogoutSticks
  <1>1. AllInv /\ [Next]_vars =>
          [\A l \in Logins : login[l].pc = "done" /\ ~sessions[l].live
                               => ~sessions'[l].live]_vars
    BY StaysDeleted
  <1> QED
    BY <1>1, Invariance, PTL DEF Spec, LogoutSticks

-----------------------------------------------------------------------------
(* OAuthInstall only adds to Accounts, so they hold there too.             *)

LEMMA InstallImplementsAccounts == InstallSpec => Spec
  <1>1. InstallInit => Init
    BY DEF InstallInit
  <1>2. [InstallNext]_installVars => [Next]_vars
    BY DEF InstallNext, installVars, AccountsStep, StartInstall, RejectState,
           BeginCallback, EndCallback
  <1> QED
    BY <1>1, <1>2, PTL DEF InstallSpec, Spec

\* Where a sealed state comes from, and what a callback in flight goes by.
UsesInv ==
    \A t \in Uses : use[t].pc = "ok" =>
        use[t].sid \in Logins /\ login[use[t].sid].pc = "done"
StatesInv ==
    \A b \in states :
        /\ b.issued <= clock
        /\ use[b.by].pc = "ok"
        /\ sessions[use[b.by].sid].user = b.user
        /\ \E u \in users : u.id = b.user
CallbacksInv ==
    \A c \in Callbacks : callback[c].pc = "sent" =>
        /\ callback[c].at <= clock /\ clock <= callback[c].at + Slow
        /\ \E b \in states :
             /\ b.user = callback[c].to.user /\ b.app = callback[c].to.app
             /\ b.issued <= callback[c].at
             /\ callback[c].at <= b.issued + StateAge
InstallInv == /\ AllInv /\ InstallTypeOK /\ UsesInv /\ StatesInv /\ CallbacksInv
              /\ GrantTracesToLogin

LEMMA AccountsGrow ==
    ASSUME AllInv, UsesInv, Next
    PROVE  /\ \A t \in Uses : use[t].pc = "ok" => use'[t] = use[t]
           /\ \A l \in Logins : login[l].pc = "done" =>
                login'[l].pc = "done" /\ sessions'[l].user = sessions[l].user
           /\ users \subseteq users'
           /\ clock <= clock'
           /\ UsesInv'
  <1>1. \A t \in Uses : use[t].pc = "ok" => use'[t] = use[t]
    <2>1. ASSUME NEW t \in Uses, EndUse(t) \/ \E s \in Logins : DenyUse(t, s) \/ BeginUse(t, s)
          PROVE  <1>1
      <3>1. use[t].pc \in {"read", "idle"} /\ \A k \in Uses : k # t => use'[k] = use[k]
        BY <2>1 DEF EndUse, DenyUse, BeginUse, AllInv, TypeOK
      <3> QED
        BY <3>1
    <2>2. CASE Restart
      BY <2>2 DEF Restart
    <2>3. CASE UNCHANGED use
      BY <2>3
    <2> QED
      BY <2>1, <2>2, <2>3 DEF Next, RequestLink, RejectLink, VerifyLink, InsertUser,
         FindWorkspace, CommitLogin, EndLogout, BeginLogout, Tick
  <1>2. \A l \in Logins : login[l].pc = "done" => login'[l].pc = "done"
    BY DEF Next, RequestLink, RejectLink, VerifyLink, InsertUser, FindWorkspace,
       CommitLogin, EndUse, DenyUse, BeginUse, EndLogout, BeginLogout, Tick, Restart,
       LoginOpen, AllInv, TypeOK
  <1>3. \A l \in Logins : login[l].pc = "done" => sessions'[l].user = sessions[l].user
    <2>1. ASSUME NEW k \in Logins, CommitLogin(k) PROVE <1>3
      BY <2>1 DEF CommitLogin, AllInv, TypeOK
    <2>2. ASSUME NEW t \in Uses, EndUse(t) PROVE <1>3
      BY <2>2 DEF EndUse, Extended, AllInv, TypeOK
    <2>3. ASSUME NEW o \in Logouts, EndLogout(o) PROVE <1>3
      BY <2>3 DEF EndLogout, AllInv, TypeOK, Session
    <2>4. CASE UNCHANGED sessions
      BY <2>4
    <2> QED
      BY <2>1, <2>2, <2>3, <2>4 DEF Next, RequestLink, RejectLink, VerifyLink,
         InsertUser, FindWorkspace, DenyUse, BeginUse, BeginLogout, Tick, Restart
  <1>4. users \subseteq users'
    BY DEF Next, RequestLink, RejectLink, VerifyLink, InsertUser, FindWorkspace,
       CommitLogin, EndUse, DenyUse, BeginUse, EndLogout, BeginLogout, Tick, Restart
  <1>5. clock <= clock'
    <2>1. clock \in Nat
      BY DEF AllInv, TypeOK, Now
    <2>2. clock' = clock \/ clock' = clock + 1
      BY DEF Next, RequestLink, RejectLink, VerifyLink, InsertUser, FindWorkspace,
         CommitLogin, EndUse, DenyUse, BeginUse, EndLogout, BeginLogout, Tick, Restart
    <2> QED
      BY <2>1, <2>2
  <1>6. UsesInv'
    <2>1. ASSUME NEW t \in Uses, use'[t].pc = "ok"
          PROVE  use'[t].sid \in Logins /\ login[use'[t].sid].pc = "done"
      <3>1. use[t].pc = "ok" \/ (use[t].pc = "read" /\ use'[t].sid = use[t].sid)
        <4>1. ASSUME NEW k \in Uses, EndUse(k) PROVE <3>1
          BY <2>1, <4>1 DEF EndUse, AllInv, TypeOK, UseState
        <4>2. ASSUME NEW k \in Uses, NEW s \in Logins, DenyUse(k, s) \/ BeginUse(k, s)
              PROVE  <3>1
          BY <2>1, <4>2 DEF DenyUse, BeginUse, AllInv, TypeOK, UseState
        <4>3. CASE Restart
          BY <2>1, <4>3 DEF Restart, AllInv, TypeOK, UseState
        <4>4. CASE UNCHANGED use
          BY <2>1, <4>4
        <4> QED
          BY <4>1, <4>2, <4>3, <4>4 DEF Next, RequestLink, RejectLink, VerifyLink,
             InsertUser, FindWorkspace, CommitLogin, EndLogout, BeginLogout, Tick
      <3>2. CASE use[t].pc = "ok"
        BY <1>1, <3>2 DEF UsesInv
      <3>3. CASE use[t].pc = "read" /\ use'[t].sid = use[t].sid
        BY <3>3 DEF AllInv, SessionInv
      <3> QED
        BY <3>1, <3>2, <3>3
    <2> QED
      BY <1>2, <2>1 DEF UsesInv
  <1> QED
    BY <1>1, <1>2, <1>3, <1>4, <1>5, <1>6

LEMMA TracesGrow ==
    ASSUME InstallInv, AccountsStep
    PROVE  InstallInv'
  <1>1. /\ \A t \in Uses : use[t].pc = "ok" => use'[t] = use[t]
        /\ \A l \in Logins : login[l].pc = "done" =>
             login'[l].pc = "done" /\ sessions'[l].user = sessions[l].user
        /\ users \subseteq users'
        /\ clock <= clock'
        /\ UsesInv'
    BY AccountsGrow DEF InstallInv, AccountsStep
  <1>2. UNCHANGED <<states, grants, callback>>
    BY DEF AccountsStep, oauthVars
  <1>3. AllInv'
    BY StepInv DEF InstallInv, AccountsStep
  <1>4. InstallTypeOK'
    BY <1>2, <1>3 DEF InstallInv, InstallTypeOK, AllInv
  <1>5. clock \in Nat /\ clock' \in Nat /\ \A b \in states : b.issued \in Nat /\ b.by \in Uses
    BY <1>3 DEF InstallInv, InstallTypeOK, State, AllInv, TypeOK, Now
  <1>6. \A b \in states : /\ use'[b.by] = use[b.by]
                          /\ sessions'[use[b.by].sid].user = sessions[use[b.by].sid].user
    BY <1>1, <1>5 DEF InstallInv, StatesInv, UsesInv
  <1>7. StatesInv'
    <2>1. \A b \in states : b.issued <= clock'
      BY <1>1, <1>5 DEF InstallInv, StatesInv
    <2> QED
      BY <1>1, <1>2, <1>6, <2>1 DEF InstallInv, StatesInv
  <1>8. CallbacksInv'
    <2>1. ASSUME NEW c \in Callbacks, callback[c].pc = "sent"
          PROVE  callback[c].at <= clock' /\ clock' <= callback[c].at + Slow
      <3>1. callback[c].at \in Nat /\ callback[c].at <= clock
        BY <2>1 DEF InstallInv, InstallTypeOK, CallbackState, CallbacksInv, Now
      <3>2. clock' <= callback[c].at + Slow
        BY <2>1 DEF AccountsStep
      <3> QED
        BY <1>1, <1>5, <3>1, <3>2
    <2> QED
      BY <1>2, <2>1 DEF InstallInv, CallbacksInv
  <1>9. GrantTracesToLogin'
    BY <1>1, <1>2, <1>6 DEF InstallInv, GrantTracesToLogin
  <1> QED
    BY <1>1, <1>3, <1>4, <1>7, <1>8, <1>9 DEF InstallInv

LEMMA StartKeeps ==
    ASSUME InstallInv, NEW t \in Uses, NEW a \in Apps, StartInstall(t, a)
    PROVE  InstallInv'
  <1>1. UNCHANGED <<vars, grants, callback>>
    BY DEF StartInstall
  <1>2. AllInv' /\ UsesInv'
    BY <1>1, StutterInv DEF InstallInv, UsesInv, vars
  <1>3. PICK w \in spaces :
          /\ w.owner = sessions[use[t].sid].user
          /\ states' = states \cup {[user |-> w.owner, app |-> a,
                                     issued |-> clock, by |-> t]}
    BY DEF StartInstall
  <1>4. w.owner \in Logins /\ clock \in Now /\ \E u \in users : u.id = w.owner
    BY DEF InstallInv, AllInv, TypeOK, Space, AccountsInv, TablesInv
  <1>5. InstallTypeOK'
    BY <1>1, <1>2, <1>3, <1>4 DEF InstallInv, InstallTypeOK, AllInv, State
  <1>6. StatesInv'
    <2>1. ASSUME NEW b \in states'
          PROVE  /\ b.issued <= clock /\ use[b.by].pc = "ok"
                 /\ sessions[use[b.by].sid].user = b.user
                 /\ \E u \in users : u.id = b.user
      <3>1. CASE b \in states
        BY <3>1 DEF InstallInv, StatesInv
      <3>2. CASE b = [user |-> w.owner, app |-> a, issued |-> clock, by |-> t]
        <4>1. clock <= clock /\ use[t].pc = "ok"
          BY <1>4 DEF StartInstall, Now
        <4> QED
          BY <1>3, <1>4, <3>2, <4>1
      <3> QED
        BY <1>3, <3>1, <3>2
    <2> QED
      BY <1>1, <2>1 DEF StatesInv, vars
  <1>7. states \subseteq states'
    BY <1>3
  <1>8. CallbacksInv' /\ GrantTracesToLogin'
    BY <1>1, <1>7 DEF InstallInv, CallbacksInv, GrantTracesToLogin, vars
  <1> QED
    BY <1>2, <1>5, <1>6, <1>8 DEF InstallInv

LEMMA CallbackKeeps ==
    ASSUME InstallInv, NEW c \in Callbacks, NEW b \in states,
           RejectState(c, b) \/ BeginCallback(c, b)
    PROVE  InstallInv'
  <1>1. UNCHANGED <<vars, states, grants>>
    BY DEF RejectState, BeginCallback
  <1>2. AllInv' /\ UsesInv' /\ StatesInv' /\ GrantTracesToLogin'
    BY <1>1, StutterInv DEF InstallInv, UsesInv, StatesInv, GrantTracesToLogin, vars
  <1>3. b \in State /\ clock \in Now /\ b.issued <= clock
    BY DEF InstallInv, InstallTypeOK, StatesInv, AllInv, TypeOK
  <1>4. \A k \in Callbacks : k # c => callback'[k] = callback[k]
    BY DEF RejectState, BeginCallback, InstallInv, InstallTypeOK
  <1>5. CASE RejectState(c, b)
    <2>1. callback' \in [Callbacks -> CallbackState]
      BY <1>5 DEF RejectState, InstallInv, InstallTypeOK, CallbackState
    <2>2. callback'[c].pc # "sent"
      BY <1>5 DEF RejectState, InstallInv, InstallTypeOK
    <2>3. CallbacksInv'
      BY <1>1, <1>4, <2>2 DEF InstallInv, CallbacksInv, vars
    <2> QED
      BY <1>1, <1>2, <2>1, <2>3 DEF InstallInv, InstallTypeOK, AllInv
  <1>6. CASE BeginCallback(c, b)
    <2>1. callback'[c] = [pc |-> "sent", to |-> [user |-> b.user, app |-> b.app], at |-> clock]
      BY <1>6 DEF BeginCallback, InstallInv, InstallTypeOK
    <2>2. callback' \in [Callbacks -> CallbackState]
      BY <1>3, <1>6 DEF BeginCallback, InstallInv, InstallTypeOK, CallbackState,
         Unsealed, State
    <2>3. clock <= b.issued + StateAge /\ clock <= clock + Slow /\ clock <= clock
      BY <1>3, <1>6, StateAgeAssumption, TimesAssumption
         DEF BeginCallback, StateExpired, State, Now
    <2>4. CallbacksInv'
      BY <1>1, <1>3, <1>4, <2>1, <2>3 DEF InstallInv, CallbacksInv, vars
    <2> QED
      BY <1>1, <1>2, <2>2, <2>4 DEF InstallInv, InstallTypeOK, AllInv
  <1> QED
    BY <1>5, <1>6

LEMMA ExchangeKeeps ==
    ASSUME InstallInv, NEW c \in Callbacks, EndCallback(c)
    PROVE  InstallInv'
  <1>1. UNCHANGED <<vars, states>>
    BY DEF EndCallback
  <1>2. AllInv' /\ UsesInv' /\ StatesInv'
    BY <1>1, StutterInv DEF InstallInv, UsesInv, StatesInv, vars
  <1>3. PICK stored \in BOOLEAN, said \in {"connected", "failed"} :
          /\ callback' = [callback EXCEPT ![c].pc = said]
          /\ grants' = grants \cup {g \in {[user |-> callback[c].to.user,
                                            app  |-> callback[c].to.app,
                                            at   |-> clock]} : stored}
    BY DEF EndCallback
  <1>4. PICK b \in states :
          /\ b.user = callback[c].to.user /\ b.app = callback[c].to.app
          /\ b.issued <= callback[c].at /\ callback[c].at <= b.issued + StateAge
          /\ callback[c].at <= clock /\ clock <= callback[c].at + Slow
    BY DEF EndCallback, InstallInv, CallbacksInv
  <1>5. b \in State /\ clock \in Now /\ callback[c].at \in Nat
    BY DEF InstallInv, InstallTypeOK, CallbackState, AllInv, TypeOK, Now
  <1>6. b.issued <= clock /\ clock <= b.issued + StateAge + Slow
    BY <1>4, <1>5, StateAgeAssumption, TimesAssumption DEF State, Now
  <1>7. callback' \in [Callbacks -> CallbackState]
    BY <1>3 DEF InstallInv, InstallTypeOK, CallbackState
  <1>8. \A k \in Callbacks : callback'[k].pc = "sent" => callback'[k] = callback[k]
    BY <1>3 DEF InstallInv, InstallTypeOK, CallbackState
  <1>9. \A g \in grants' : g \in grants \/ g = [user |-> b.user, app |-> b.app, at |-> clock]
    BY <1>3, <1>4
  <1>10. InstallTypeOK'
    BY <1>1, <1>2, <1>5, <1>7, <1>9 DEF InstallInv, InstallTypeOK, AllInv, Grant, State
  <1>11. CallbacksInv'
    BY <1>1, <1>8 DEF InstallInv, CallbacksInv, vars
  <1>12. GrantTracesToLogin'
    <2>1. ASSUME NEW g \in grants'
          PROVE  \E d \in states :
                    /\ d.user = g.user /\ d.app = g.app
                    /\ d.issued <= g.at /\ g.at <= d.issued + StateAge + Slow
                    /\ use[d.by].pc = "ok"
                    /\ sessions[use[d.by].sid].user = g.user
                    /\ \E u \in users : u.id = g.user
      <3>1. CASE g \in grants
        BY <3>1 DEF InstallInv, GrantTracesToLogin
      <3>2. CASE g = [user |-> b.user, app |-> b.app, at |-> clock]
        BY <1>6, <3>2 DEF InstallInv, StatesInv
      <3> QED
        BY <1>9, <3>1, <3>2
    <2> QED
      BY <1>1, <2>1 DEF GrantTracesToLogin, vars
  <1> QED
    BY <1>2, <1>10, <1>11, <1>12 DEF InstallInv

LEMMA InstallInvariance == InstallSpec => []InstallInv
  <1>1. InstallInit => InstallInv
    <2> SUFFICES ASSUME InstallInit PROVE InstallInv
      OBVIOUS
    <2>1. AllInv
      BY InitTypes, InitInv DEF InstallInit, AllInv
    <2>2. callback \in [Callbacks -> CallbackState]
      BY TimesAssumption DEF InstallInit, CallbackState, Unsealed, Now
    <2>3. UsesInv /\ StatesInv /\ CallbacksInv /\ GrantTracesToLogin
      BY DEF InstallInit, Init, UsesInv, StatesInv, CallbacksInv, GrantTracesToLogin
    <2> QED
      BY <2>1, <2>2, <2>3 DEF InstallInit, InstallInv, InstallTypeOK, AllInv
  <1>2. InstallInv /\ UNCHANGED installVars => InstallInv'
    <2> SUFFICES ASSUME InstallInv, UNCHANGED installVars PROVE InstallInv'
      OBVIOUS
    <2>1. UNCHANGED <<vars, states, grants, callback>>
      BY DEF installVars, oauthVars
    <2>2. AllInv'
      BY <2>1, StutterInv DEF InstallInv
    <2> QED
      BY <2>1, <2>2 DEF InstallInv, InstallTypeOK, AllInv, UsesInv, StatesInv,
         CallbacksInv, GrantTracesToLogin, vars
  <1>3. InstallInv /\ [InstallNext]_installVars => InstallInv'
    BY <1>2, TracesGrow, StartKeeps, CallbackKeeps, ExchangeKeeps DEF InstallNext
  <1> QED
    BY <1>1, <1>3, PTL DEF InstallSpec

\* The records of an installation are well typed: the sealed user is always an
\* account's.
THEOREM InstallTypeCorrect == InstallSpec => []InstallTypeOK
  <1>1. InstallInv => InstallTypeOK
    BY DEF InstallInv
  <1> QED
    BY <1>1, InstallInvariance, PTL

\* Every grant traces back to a logged-in user's own, recent request.
THEOREM GrantsTraceToLogins == InstallSpec => []GrantTracesToLogin
  <1>1. InstallInv => GrantTracesToLogin
    BY DEF InstallInv
  <1> QED
    BY <1>1, InstallInvariance, PTL

\* What Accounts promises holds while installations run.
THEOREM AccountsHoldDuringInstalls ==
    InstallSpec => /\ [](OneAccountPerEmail /\ SessionForLinkOwner /\ UseKeepsSession)
                   /\ LogoutSticks
  BY InstallImplementsAccounts, AccountsAreUnique, SessionsAreOwned,
     SessionsOutliveTheirUse, LogoutIsFinal, PTL

=============================================================================
