----------------------------- MODULE TokenVault -----------------------------
(***************************************************************************)
(* What TPS promises to those who ask it for tokens: an integration holds  *)
(* one token, which a reconnect may replace; once it is disconnected, no   *)
(* token is ever given out for it again.                                   *)
(***************************************************************************)
CONSTANTS Ids, Token, Absent, Gone

VARIABLES
    vault,  \* vault[i]: the token of integration i, Absent or Gone
    reply   \* what the last request for a token got: a token, or Gone

Init ==
    /\ vault = [i \in Ids |-> Absent]
    /\ reply = Gone

Connect(i, t) ==
    /\ vault[i] # Gone
    /\ vault' = [vault EXCEPT ![i] = t]
    /\ UNCHANGED reply

Disconnect(i) ==
    /\ vault[i] # Absent
    /\ vault' = [vault EXCEPT ![i] = Gone]
    /\ UNCHANGED reply

Get(i) ==
    /\ reply' = IF vault[i] \in Token THEN vault[i] ELSE Gone
    /\ UNCHANGED vault

Next == \E i \in Ids : (\E t \in Token : Connect(i, t)) \/ Disconnect(i) \/ Get(i)

Spec == Init /\ [][Next]_<<vault, reply>>
=============================================================================
