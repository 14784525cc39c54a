------------------------------ MODULE MCAccounts ------------------------------
(***************************************************************************)
(* Instance of OAuthInstall with its Accounts: the requests of one kind    *)
(* and the e-mails are interchangeable.                                    *)
(***************************************************************************)
EXTENDS OAuthInstall, TLC

Symmetry == Permutations(Logins) \cup Permutations(Uses) \cup Permutations(Emails)
=============================================================================
