SPECIFICATION InstallSpec
CONSTANTS
  None = None
  Emails = {e1, e2}
  Logins = {l1, l2}
  Uses = {t1, t2}
  Logouts = {o1}
  Apps = {a1}
  Callbacks = {c1}
  MaxAge = 2
  Debounce = 0
  LinkAge = 0
  Slow = 1
  StateAge = 0
  Horizon = 3
  MaxLinks = 2
INVARIANT InstallTypeOK
INVARIANT OneAccountPerEmail
INVARIANT SessionForLinkOwner
INVARIANT UseKeepsSession
INVARIANT GrantTracesToLogin
PROPERTY LogoutSticks
CHECK_DEADLOCK FALSE
SYMMETRY Symmetry
