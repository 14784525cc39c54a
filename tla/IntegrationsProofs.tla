------------------------- MODULE IntegrationsProofs -------------------------
(***************************************************************************)
(* Integrations keeps its types, has one active row unless connects        *)
(* overlapped, and implements TokenVault: for every set of ids and of      *)
(* requests.                                                               *)
(***************************************************************************)
EXTENDS Integrations, TLAPS

\* Nothing has been connected: every part of the invariant holds.
LEMMA InitIInv == Init => IInv
<1> SUFFICES ASSUME Init PROVE IInv
    OBVIOUS
<1>1. TypeOK
    BY DEF Init, TypeOK
<1>2. ActiveIds = {}
    BY DEF Init, ActiveIds
<1>3. QED
    BY <1>1, <1>2 
       DEF Init, IInv, OneActive, LoneConnect, DisconnectsRow, ActiveHoldsToken

\* A step of a request changes nothing but its own entry and one row.
LEMMA NextTypeOK == TypeOK /\ [Next]_vars => TypeOK'
<1> SUFFICES ASSUME TypeOK, [Next]_vars PROVE TypeOK'
    OBVIOUS
<1> USE DEF TypeOK
<1>1. ASSUME NEW c \in Connects, ConnectReads(c) PROVE TypeOK'
    BY <1>1 DEF ConnectReads, ConnectMoves, NoteOverlap, ActiveIds
<1>2. ASSUME NEW c \in Connects, ConnectInserts(c) PROVE TypeOK'
    BY <1>2 DEF ConnectInserts, ConnectMoves
<1>3. ASSUME NEW c \in Connects, ConnectUpdates(c) PROVE TypeOK'
    BY <1>3 DEF ConnectUpdates, ConnectMoves
<1>4. ASSUME NEW c \in Connects, ConnectAborts(c) PROVE TypeOK'
    BY <1>4 DEF ConnectAborts, ConnectMoves
<1>5. ASSUME NEW d \in Disconnects, DisconnectReads(d) PROVE TypeOK'
    BY <1>5 DEF DisconnectReads
<1>6. ASSUME NEW d \in Disconnects, DisconnectCommits(d) PROVE TypeOK'
    BY <1>6 DEF DisconnectCommits, DisconnectEnds
<1>7. ASSUME NEW d \in Disconnects, DisconnectAborts(d) PROVE TypeOK'
    BY <1>7 DEF DisconnectAborts, DisconnectEnds
<1>8. ASSUME NEW i \in Ids, GetToken(i) PROVE TypeOK'
    BY <1>8 DEF GetToken, ActiveIds
<1>9. CASE UNCHANGED vars
    BY <1>9 DEF vars
<1>10. QED
    BY <1>1, <1>2, <1>3, <1>4, <1>5, <1>6, <1>7, <1>8, <1>9 DEF Next

\* What a request does to the active rows decides the rest.
LEMMA NextActive ==
    IInv /\ [Next]_vars => (OneActive /\ LoneConnect /\ DisconnectsRow)'
<1> SUFFICES ASSUME IInv, [Next]_vars
             PROVE (OneActive /\ LoneConnect /\ DisconnectsRow)'
    OBVIOUS
<1> USE NoneAssumption DEF IInv, TypeOK
<1>1. ASSUME NEW c \in Connects, ConnectReads(c)
      PROVE (OneActive /\ LoneConnect /\ DisconnectsRow)'
    <2>1. rows' = rows /\ disconnect' = disconnect /\ ActiveIds' = ActiveIds
        BY <1>1 DEF ConnectReads, ActiveIds
    <2>2. ~overlapped' => (~overlapped /\ \A b \in Connects \ {c} : connect[b].phase # "read")
        BY <1>1 DEF ConnectReads, NoteOverlap
    <2>3. connect'[c].phase = "read" /\ (connect'[c].found = None => ActiveIds = {})
        BY <1>1 DEF ConnectReads, ConnectMoves, ActiveIds
    <2>4. \A b \in Connects \ {c} : connect'[b] = connect[b]
        BY <1>1 DEF ConnectReads, ConnectMoves
    <2>5. OneActive' /\ DisconnectsRow'
        BY <2>1, <2>2 DEF OneActive, DisconnectsRow
    <2>6. LoneConnect'
        BY <2>1, <2>2, <2>3, <2>4 DEF LoneConnect
    <2>7. QED
        BY <2>5, <2>6
<1>2. ASSUME NEW c \in Connects, ConnectInserts(c)
      PROVE (OneActive /\ LoneConnect /\ DisconnectsRow)'
    <2>1. PICK i \in Ids :
             /\ rows[i].status = "absent"
             /\ rows' = [rows EXCEPT ![i] = [status |-> "active", token |-> c]]
        BY <1>2 DEF ConnectInserts
    <2>2. ActiveIds' = ActiveIds \cup {i}
        BY <2>1 DEF ActiveIds
    <2>3. connect[c].phase = "read" /\ connect[c].found = None
        BY <1>2 DEF ConnectInserts
    <2>4. ~overlapped => (ActiveIds = {} /\ \A b \in Connects \ {c} : connect[b].phase # "read")
        BY <2>3 DEF LoneConnect
    <2>5. /\ overlapped' = overlapped /\ disconnect' = disconnect
          /\ connect'[c].phase = "done"
          /\ \A b \in Connects \ {c} : connect'[b] = connect[b]
        BY <1>2 DEF ConnectInserts, ConnectMoves
    <2>6. OneActive'
        BY <2>2, <2>4, <2>5 DEF OneActive
    <2>7. LoneConnect'
        BY <2>4, <2>5 DEF LoneConnect
    <2>8. DisconnectsRow'
        BY <2>1, <2>5 DEF DisconnectsRow
    <2>9. QED
        BY <2>6, <2>7, <2>8
<1>3. ASSUME NEW c \in Connects, ConnectUpdates(c) \/ ConnectAborts(c)
      PROVE (OneActive /\ LoneConnect /\ DisconnectsRow)'
    <2>1. \A i \in Ids : rows'[i].status = rows[i].status
        BY <1>3 DEF ConnectUpdates, ConnectAborts
    <2>2. ActiveIds' = ActiveIds
        BY <2>1 DEF ActiveIds
    <2>3. /\ overlapped' = overlapped /\ disconnect' = disconnect
          /\ connect'[c].phase = "done"
          /\ \A b \in Connects \ {c} : connect'[b] = connect[b]
        BY <1>3 DEF ConnectUpdates, ConnectAborts, ConnectMoves
    <2>4. QED
        BY <2>1, <2>2, <2>3 DEF OneActive, LoneConnect, DisconnectsRow
<1>4. ASSUME NEW d \in Disconnects, DisconnectReads(d)
      PROVE (OneActive /\ LoneConnect /\ DisconnectsRow)'
    <2>1. ActiveIds' = ActiveIds
        BY <1>4 DEF DisconnectReads, ActiveIds
    <2>2. QED
        BY <1>4, <2>1 DEF DisconnectReads, OneActive, LoneConnect, DisconnectsRow
<1>5. ASSUME NEW d \in Disconnects, DisconnectCommits(d)
      PROVE (OneActive /\ LoneConnect /\ DisconnectsRow)'
    <2>1. ActiveIds' \subseteq ActiveIds
        BY <1>5 DEF DisconnectCommits, DisconnectEnds, ActiveIds
    <2>2. OneActive' /\ LoneConnect'
        BY <1>5, <2>1 DEF DisconnectCommits, OneActive, LoneConnect
    <2>3. DisconnectsRow'
        BY <1>5 DEF DisconnectCommits, DisconnectEnds, DisconnectsRow
    <2>4. QED
        BY <2>2, <2>3
<1>6. ASSUME NEW d \in Disconnects, DisconnectAborts(d)
      PROVE (OneActive /\ LoneConnect /\ DisconnectsRow)'
    <2>1. ActiveIds' = ActiveIds
        BY <1>6 DEF DisconnectAborts, ActiveIds
    <2>2. QED
        BY <1>6, <2>1
        DEF DisconnectAborts, DisconnectEnds, OneActive, LoneConnect, DisconnectsRow
<1>7. CASE (\E i \in Ids : GetToken(i)) \/ UNCHANGED vars
    <2>1. UNCHANGED <<rows, connect, disconnect, overlapped>>
        BY <1>7 DEF GetToken, vars
    <2>2. ActiveIds' = ActiveIds
        BY <2>1 DEF ActiveIds
    <2>3. QED
        BY <2>1, <2>2 DEF OneActive, LoneConnect, DisconnectsRow
<1>8. QED
    BY <1>1, <1>2, <1>3, <1>4, <1>5, <1>6, <1>7 DEF Next

\* Tokens are written when a row is inserted or updated, and wiped only together
\* with the status.
LEMMA NextActiveHoldsToken == IInv /\ [Next]_vars => ActiveHoldsToken'
<1> SUFFICES ASSUME IInv, [Next]_vars,
                    NEW i \in Ids, rows'[i].status = "active"
             PROVE  rows'[i].token # None
    BY DEF ActiveHoldsToken, ActiveIds
<1> USE NoneAssumption DEF IInv, TypeOK
<1>1. rows[i].status = "active" => rows[i].token # None
    BY DEF ActiveHoldsToken, ActiveIds
<1>2. CASE rows' = rows
    BY <1>1, <1>2
<1>3. ASSUME NEW c \in Connects, ConnectInserts(c) \/ ConnectUpdates(c)
      PROVE rows'[i].token # None
    <2>1. c # None
        OBVIOUS
    <2>2. ASSUME NEW j \in Ids, rows' = [rows EXCEPT ![j].token = c]
          PROVE rows'[i].token # None
        BY <1>1, <2>1, <2>2
    <2>3. ASSUME NEW j \in Ids,
                 rows' = [rows EXCEPT ![j] = [status |-> "active", token |-> c]]
          PROVE rows'[i].token # None
        BY <1>1, <2>1, <2>3
    <2>4. CASE ConnectInserts(c)
        BY <2>3, <2>4 DEF ConnectInserts
    <2>5. CASE ConnectUpdates(c)
        BY <2>2, <2>5 DEF ConnectUpdates
    <2>6. QED
        BY <1>3, <2>4, <2>5
<1>4. ASSUME NEW d \in Disconnects, DisconnectCommits(d)
      PROVE rows'[i].token # None
    BY <1>1, <1>4 DEF DisconnectCommits, DisconnectEnds
<1>5. QED
    BY <1>2, <1>3, <1>4
    DEF Next, vars, ConnectReads, ConnectAborts, DisconnectReads,
        DisconnectAborts, GetToken

LEMMA IInvAlways == Spec => []IInv
<1>1. IInv /\ [Next]_vars => IInv'
    BY NextTypeOK, NextActive, NextActiveHoldsToken DEF IInv
<1>2. QED
    BY <1>1, InitIInv, PTL DEF Spec

\* The tables and requests of TPS keep their types.
THEOREM TypeCorrect == Spec => []TypeOK
<1>1. IInv => TypeOK
    BY DEF IInv
<1>2. QED
    BY <1>1, IInvAlways, PTL

\* One active integration, as long as no two connects overlap.
THEOREM OneActiveAlways == Spec => []OneActive
<1>1. IInv => OneActive
    BY DEF IInv
<1>2. QED
    BY <1>1, IInvAlways, PTL

-----------------------------------------------------------------------------
(* The refinement.                                                         *)

\* What the vault holds for integration i.
Held(i) == VaultOf(rows[i])

LEMMA VaultStep ==
    ASSUME IInv, [Next]_vars
    PROVE  \/ Vault!Next
           \/ UNCHANGED <<[i \in Ids |-> Held(i)], reply>>
<1> USE NoneAssumption, TokenAssumption DEF IInv, TypeOK
<1> DEFINE Same == UNCHANGED <<[i \in Ids |-> Held(i)], reply>>
<1>1. ASSUME rows' = rows, reply' = reply PROVE Same
    BY <1>1 DEF Held
<1>2. ASSUME NEW c \in Connects, NEW i \in Ids, reply' = reply,
             rows[i].status # "revoked",
             rows' = [rows EXCEPT ![i] = [status |-> "active", token |-> c]]
      PROVE Vault!Next
    <2>1. VaultOf(rows[i]) # None
        BY <1>2 DEF VaultOf, ActiveHoldsToken, ActiveIds
    <2>2. [j \in Ids |-> VaultOf(rows'[j])]
              = [[j \in Ids |-> VaultOf(rows[j])] EXCEPT ![i] = c]
        BY <1>2 DEF VaultOf
    <2>3. Vault!Connect(i, c)
        BY <1>2, <2>1, <2>2 DEF Vault!Connect
    <2>4. QED
        BY <2>3 DEF Vault!Next
<1>3. ASSUME NEW c \in Connects, ConnectUpdates(c) PROVE Vault!Next \/ Same
    <2> DEFINE i == connect[c].found
    <2>1. i \in Ids /\ reply' = reply /\ rows' = [rows EXCEPT ![i].token = c]
        BY <1>3 DEF ConnectUpdates
    <2>2. CASE rows[i].status = "active"
        <3>1. [rows[i] EXCEPT !.token = c] = [status |-> "active", token |-> c]
            BY <2>1, <2>2
        <3>2. rows' = [rows EXCEPT ![i] = [status |-> "active", token |-> c]]
            BY <2>1, <3>1
        <3>3. QED
            BY <1>2, <2>1, <2>2, <3>2
    <2>3. CASE rows[i].status # "active"
        <3>1. \A j \in Ids : VaultOf(rows'[j]) = VaultOf(rows[j])
            BY <2>1, <2>3 DEF VaultOf
        <3>2. QED
            BY <2>1, <3>1 DEF Held
    <2>4. QED
        BY <2>2, <2>3
<1>4. ASSUME NEW d \in Disconnects, DisconnectCommits(d) PROVE Vault!Next
    <2> DEFINE i == disconnect[d]
    <2>1. /\ i \in Ids /\ reply' = reply
          /\ rows' = [rows EXCEPT ![i] = [status |-> "revoked", token |-> None]]
        BY <1>4 DEF DisconnectCommits, DisconnectEnds
    <2>2. rows[i].status # "absent"
        BY <1>4 DEF DisconnectCommits, DisconnectEnds, DisconnectsRow
    <2>3. rows[i].token \in Connects \cup {None}
        BY <2>1
    <2>4. VaultOf(rows[i]) # "absent"
        BY <2>2, <2>3, <2>1 DEF VaultOf
    <2>5. [j \in Ids |-> VaultOf(rows'[j])]
              = [[j \in Ids |-> VaultOf(rows[j])] EXCEPT ![i] = None]
        BY <2>1 DEF VaultOf
    <2>6. Vault!Disconnect(i)
        BY <2>1, <2>4, <2>5 DEF Vault!Disconnect
    <2>7. QED
        BY <2>1, <2>6 DEF Vault!Next
<1>5. ASSUME NEW i \in Ids, GetToken(i) PROVE Vault!Next
    <2>1. rows[i].token \in Connects \cup {None}
        OBVIOUS
    <2>2. reply' = IF VaultOf(rows[i]) \in Connects THEN VaultOf(rows[i]) ELSE None
        BY <1>5, <2>1 DEF GetToken, ActiveIds, VaultOf
    <2>3. Vault!Get(i)
        BY <1>5, <2>2 DEF GetToken, Vault!Get
    <2>4. QED
        BY <2>3 DEF Vault!Next
<1>6. ASSUME NEW c \in Connects, ConnectInserts(c) PROVE Vault!Next
    <2>1. PICK i \in Ids :
             /\ rows[i].status = "absent"
             /\ rows' = [rows EXCEPT ![i] = [status |-> "active", token |-> c]]
        BY <1>6 DEF ConnectInserts
    <2>2. QED
        BY <1>2, <1>6, <2>1 DEF ConnectInserts
<1>7. ASSUME NEW c \in Connects, ConnectReads(c) \/ ConnectAborts(c) PROVE Same
    BY <1>1, <1>7 DEF ConnectReads, ConnectAborts
<1>8. ASSUME NEW d \in Disconnects, DisconnectReads(d) \/ DisconnectAborts(d) PROVE Same
    BY <1>1, <1>8 DEF DisconnectReads, DisconnectAborts
<1>9. CASE UNCHANGED vars
    BY <1>1, <1>9 DEF vars
<1>10. QED
    BY <1>3, <1>4, <1>5, <1>6, <1>7, <1>8, <1>9 DEF Next, Held

\* To those who ask for tokens TPS behaves like the vault: a disconnected
\* integration never gives out a token again, whatever overlaps.
THEOREM VaultImplemented == Spec => ImplementsVault
<1>1. Init => Vault!Init
    BY DEF Init, Vault!Init, VaultOf
<1>2. IInv /\ [Next]_vars => [Vault!Next]_<<[i \in Ids |-> VaultOf(rows[i])], reply>>
    BY VaultStep DEF Held
<1>3. QED
    BY <1>1, <1>2, IInvAlways, PTL DEF Spec, ImplementsVault, Vault!Spec
=============================================================================
