---------------------------- MODULE BeaconProofs ----------------------------
(***************************************************************************)
(* What the beacon promises of credentials, for any number of accounts,    *)
(* clients, browsers, codes, tokens and sessions: those of MCP clients     *)
(* (McpGrants.tla) and those of browsers (SignIn.tla).                     *)
(*                                                                         *)
(* Each part states the types, the inductive invariant, what steps of the  *)
(* same kind keep, one lemma for each action, and the theorem.             *)
(***************************************************************************)
EXTENDS McpGrants, SignIn, TLAPS, FiniteSetTheorems

(***************************************************************************)
(* The credentials of MCP clients.                                         *)
(***************************************************************************)

(* The types of the authorization server.                                  *)
Client == [row : BOOLEAN, made : BOOLEAN, old : BOOLEAN]
Consented == [made : BOOLEAN, row : BOOLEAN, account : Owners \cup {"none"},
              client : Clients \cup {"none"}, period : Nat, expired : BOOLEAN]
Token == [row : BOOLEAN, grant : {0} \cup CodeIds, kind : {"none", "access", "refresh"},
          used : BOOLEAN, expired : BOOLEAN]
McpCall == [pc : {"idle", "upload", "remote"}, token : {0} \cup TokenIds,
            grant : {0} \cup CodeIds]
OwnerTypes ==
  /\ owner \in Owners \cup {"none"} /\ period \in Nat /\ accounts \subseteq Owners
  /\ consent \in Clients \cup {"none"}
  /\ cleanup \in [pc : {"idle", "picked", "locked"}, picked : SUBSET Clients]
RowTypes ==
  /\ codes \in [CodeIds -> Consented] /\ grants \in [CodeIds -> Consented]
  /\ tokens \in [TokenIds -> Token]
McpTypes ==
  /\ OwnerTypes /\ RowTypes
  /\ clients \in [Clients -> Client] /\ mcpCalls \in [McpCalls -> McpCall]

(* Every row of a code or grant is of the current ownership, so that none  *)
(* is left when the installation is claimed again.                         *)
OfThisPeriod(x) == x.made /\ owner # "none" /\ x.account = owner /\ x.period = period
RowsOwned ==
  \A n \in CodeIds : /\ codes[n].row => OfThisPeriod(codes[n])
                     /\ grants[n].row => OfThisPeriod(grants[n])
CodesHaveClients == \A n \in CodeIds : codes[n].row => codes[n].client \in Clients

(* Tokens are given out in order, each to a grant that was made.           *)
TokensInOrder ==
  /\ \A t \in TokenIds : tokens[t].row => tokens[t].grant # 0
  /\ \A t \in TokenIds : tokens[t].grant # 0 => grants[tokens[t].grant].made
  /\ \A t, u \in TokenIds : u < t /\ tokens[t].grant # 0 => tokens[u].grant # 0

(* What a replay is recognised by.                                         *)
Fresh(t) == tokens[t].row /\ ~tokens[t].used
ReplaySound ==
  \A n \in CodeIds : grants[n].row /\ grants[n].client # "none" =>
    /\ codes[n].row
    /\ \A t \in Refreshes(n) : tokens[t].expired \/ tokens[t].row
    /\ \A t, u \in Refreshes(n) : Fresh(t) /\ Fresh(u) => t = u

(* The requests under way of a grant are finitely many, within its slots.  *)
SlotsKept == \A n \in CodeIds : IsFiniteSet(InFlight(n)) /\ Cardinality(InFlight(n)) <= GrantSlots

(* The inductive invariant.                                                *)
McpInv ==
  /\ McpTypes /\ RowsOwned /\ CodesHaveClients /\ TokensInOrder /\ ReplaySound
  /\ ConsentKeepsClient /\ SlotsKept

(* A set whose members are all equal has one member at most.               *)
LEMMA AtMostOne ==
  ASSUME NEW S, \A x, y \in S : x = y
  PROVE  Cardinality(S) <= 1
<1>1. CASE S = {}
  BY <1>1, FS_EmptySet
<1>2. CASE S # {}
  <2>1. PICK x \in S : TRUE
    BY <1>2
  <2>2. S = {x}
    BY <2>1
  <2> QED BY <2>2, FS_Singleton
<1> QED BY <1>1, <1>2

(* The indices are numbers.                                                *)
LEMMA Indices ==
  /\ CodeIds \subseteq Nat \ {0} /\ TokenIds \subseteq Nat \ {0}
  /\ \A t \in Nat : t \in TokenIds <=> 1 <= t /\ t <= MaxTokens
  BY McpAssumption DEF CodeIds, TokenIds

(* The invariant gives the property.                                       *)
LEMMA McpInvBounds == McpInv => McpCredentialsBounded
<1> SUFFICES ASSUME McpInv PROVE McpCredentialsBounded
  OBVIOUS
<1> USE DEF McpInv
<1>1. \A t \in TokenIds : tokens[t].row => tokens[t].grant \in CodeIds
  BY DEF McpTypes, RowTypes, Token, TokensInOrder
<1>2. ReclaimRestoresNothing
  BY <1>1 DEF ReclaimRestoresNothing, Redeemable, Authorizes, Refreshable, Owned, RowsOwned,
              OfThisPeriod
<1>3. ReplayDetectable
  <2> SUFFICES ASSUME NEW n \in CodeIds, grants[n].row, grants[n].client # "none"
               PROVE  Cardinality({t \in Refreshes(n) : tokens[t].row /\ ~tokens[t].used}) <= 1
    BY DEF ReplayDetectable, ReplaySound
  <2>1. \A t, u \in {x \in Refreshes(n) : tokens[x].row /\ ~tokens[x].used} : t = u
    BY DEF ReplaySound, Fresh
  <2> QED BY <2>1, AtMostOne
<1>4. GrantBounded
  BY DEF GrantBounded, SlotsKept
<1> QED BY <1>2, <1>3, <1>4 DEF McpCredentialsBounded

(* The requests are the only part of the invariant that reads them.        *)
LEMMA SameRequests ==
  ASSUME McpInv, UNCHANGED mcpCalls
  PROVE  SlotsKept' /\ mcpCalls' \in [McpCalls -> McpCall]
  BY DEF McpInv, McpTypes, SlotsKept, InFlight

(* Rows end: a code, a grant or a token loses its row and nothing else.    *)
Ends(x, y) == x = y \/ x = [y EXCEPT !.row = FALSE]
RowsEnd ==
  /\ RowTypes'
  /\ \A n \in CodeIds : Ends(codes'[n], codes[n]) /\ Ends(grants'[n], grants[n])
  /\ \A t \in TokenIds : Ends(tokens'[t], tokens[t])
  /\ \A n \in CodeIds : grants'[n].row /\ codes[n].row => codes'[n].row
  /\ \A t \in TokenIds : tokens[t].grant # 0 /\ grants'[tokens[t].grant].row /\ tokens[t].row
                           => tokens'[t].row \/ tokens[t].expired

(* Rows that end keep the invariant, also when the ownership ends with all *)
(* of them.                                                                *)
LEMMA RowsEndKeeps ==
  ASSUME McpInv, RowsEnd, UNCHANGED <<clients, mcpCalls>>, OwnerTypes',
         \/ UNCHANGED <<owner, period>>
         \/ \A n \in CodeIds : ~codes'[n].row /\ ~grants'[n].row
  PROVE  McpInv'
<1> USE DEF McpInv
<1>1. McpTypes' /\ SlotsKept'
  BY SameRequests DEF McpTypes, RowsEnd
<1>2. \A n \in CodeIds :
        /\ codes'[n].row => codes'[n] = codes[n]
        /\ grants'[n].row => grants'[n] = grants[n]
        /\ codes'[n].client = codes[n].client /\ grants'[n].client = grants[n].client
        /\ codes'[n].made = codes[n].made /\ grants'[n].made = grants[n].made
  BY DEF RowsEnd, Ends, McpTypes, RowTypes, Consented
<1>3. \A t \in TokenIds :
        /\ tokens'[t].row => tokens'[t] = tokens[t]
        /\ tokens'[t].grant = tokens[t].grant /\ tokens'[t].kind = tokens[t].kind
        /\ tokens'[t].used = tokens[t].used /\ tokens'[t].expired = tokens[t].expired
        /\ tokens[t].grant \in {0} \cup CodeIds
  BY DEF RowsEnd, Ends, McpTypes, RowTypes, Token
<1>4. RowsOwned' /\ CodesHaveClients' /\ ConsentKeepsClient'
  BY <1>2 DEF RowsOwned, OfThisPeriod, CodesHaveClients, ConsentKeepsClient
<1>5. TokensInOrder'
  BY <1>2, <1>3 DEF TokensInOrder
<1>6. ReplaySound'
  <2> SUFFICES ASSUME NEW n \in CodeIds, grants'[n].row, grants'[n].client # "none"
               PROVE  /\ codes'[n].row
                      /\ \A t \in Refreshes(n)' : tokens'[t].expired \/ tokens'[t].row
                      /\ \A t, u \in Refreshes(n)' : Fresh(t)' /\ Fresh(u)' => t = u
    BY DEF ReplaySound
  <2>1. grants[n].row /\ grants[n].client # "none"
    BY <1>2
  <2>2. codes'[n].row
    BY <2>1 DEF ReplaySound, RowsEnd
  <2>3. \A t \in Refreshes(n)' : t \in Refreshes(n) /\ t \in TokenIds /\ tokens[t].grant = n
    BY <1>3 DEF Refreshes, TokensOf
  <2>4. \A t \in Refreshes(n)' : tokens'[t].expired \/ tokens'[t].row
    BY <1>3, <2>1, <2>3, Indices, ZenonT(40) DEF ReplaySound, RowsEnd
  <2>5. \A t \in Refreshes(n)' : Fresh(t)' => Fresh(t)
    BY <1>3, <2>3 DEF Fresh
  <2> QED BY <2>1, <2>2, <2>3, <2>4, <2>5 DEF ReplaySound
<1> QED BY <1>1, <1>4, <1>5, <1>6

(* The grants of a set end with their tokens and codes.                    *)
LEMMA EndGrantsEndsRows ==
  ASSUME McpInv, NEW gone \in SUBSET CodeIds, NEW lost \in SUBSET CodeIds,
         Without(gone), CodesWithout(lost), \A n \in lost : grants[n].row => n \in gone
  PROVE  RowsEnd
<1> USE DEF McpInv, McpTypes
<1>1. \A x \in Consented : [x EXCEPT !.row = FALSE] \in Consented
                           /\ [x EXCEPT !.row = FALSE].row = FALSE
  BY DEF Consented
<1>2. \A x \in Token : [x EXCEPT !.row = FALSE] \in Token
  BY DEF Token
<1>3. \A n \in CodeIds :
        /\ codes'[n] = IF n \in lost THEN [codes[n] EXCEPT !.row = FALSE] ELSE codes[n]
        /\ grants'[n] = IF n \in gone THEN [grants[n] EXCEPT !.row = FALSE] ELSE grants[n]
        /\ codes[n] \in Consented /\ grants[n] \in Consented
  BY DEF Without, CodesWithout, RowTypes
<1>4. \A t \in TokenIds :
        /\ tokens[t] \in Token
        /\ tokens'[t] = IF tokens[t].grant \in gone
                        THEN [tokens[t] EXCEPT !.row = FALSE] ELSE tokens[t]
  BY DEF Without, RowTypes
<1>5. RowTypes'
  BY <1>1, <1>2, <1>3, <1>4 DEF Without, CodesWithout, RowTypes
<1>6. \A n \in gone : ~grants'[n].row
  BY <1>1, <1>3
<1> QED BY <1>1, <1>3, <1>4, <1>5, <1>6 DEF RowsEnd, Ends

(* What ends a grant: its owner, a replay, its client.                     *)
LEMMA EndGrantsKeeps ==
  ASSUME McpInv, NEW n \in CodeIds, EndGrants({n}),
         UNCHANGED <<owner, period, accounts, clients, consent, cleanup, mcpCalls>>
  PROVE  McpInv'
<1>1. RowsEnd
  BY EndGrantsEndsRows DEF EndGrants
<1>2. OwnerTypes'
  BY DEF McpInv, McpTypes, OwnerTypes
<1> QED BY <1>1, <1>2, RowsEndKeeps

(* The ownership ends with every row.                                      *)
LEMMA DetachRowsEnds ==
  ASSUME McpInv, DetachRows
  PROVE  RowsEnd /\ \A n \in CodeIds : ~codes'[n].row /\ ~grants'[n].row
<1>1. RowsEnd
  <2>1. {n \in CodeIds : grants[n].row} \in SUBSET CodeIds /\ CodeIds \in SUBSET CodeIds
    OBVIOUS
  <2> QED BY <2>1, EndGrantsEndsRows DEF DetachRows
<1>2. \A n \in CodeIds : codes[n] \in Consented /\ grants[n] \in Consented
  BY DEF McpInv, McpTypes, RowTypes
<1> QED BY <1>1, <1>2 DEF DetachRows, Without, CodesWithout, Consented

(* The machine is detached from its account.                               *)
LEMMA DetachKeeps == ASSUME McpInv, Detach PROVE McpInv'
<1>1. OwnerTypes'
  BY DEF McpInv, McpTypes, OwnerTypes, Detach
<1> QED BY <1>1, DetachRowsEnds, RowsEndKeeps DEF Detach

(* An account is deleted, and detaches the machine it owned.               *)
LEMMA DeleteAccountRowsKeeps == ASSUME McpInv, NEW a \in Owners, DeleteAccount(a) PROVE McpInv'
<1>1. OwnerTypes'
  BY DEF McpInv, McpTypes, OwnerTypes, DeleteAccount
<1>2. CASE owner = a
  BY <1>1, <1>2, DetachRowsEnds, RowsEndKeeps DEF DeleteAccount
<1>3. CASE owner # a
  <2>1. RowsEnd
    BY <1>3 DEF DeleteAccount, RowsEnd, Ends, McpInv, McpTypes, RowTypes
  <2> QED BY <1>1, <1>3, <2>1, RowsEndKeeps DEF DeleteAccount
<1> QED BY <1>2, <1>3

(* Nobody owns the installation, so nothing of the past is left.           *)
LEMMA ReclaimKeeps == ASSUME McpInv, NEW a \in Owners, Reclaim(a) PROVE McpInv'
<1>1. OwnerTypes'
  BY DEF McpInv, McpTypes, OwnerTypes, Reclaim
<1>2. RowsEnd /\ \A n \in CodeIds : ~codes'[n].row /\ ~grants'[n].row
  BY DEF Reclaim, RowsEnd, Ends, McpInv, McpTypes, RowTypes, RowsOwned, OfThisPeriod
<1> QED BY <1>1, <1>2, RowsEndKeeps DEF Reclaim

(* A grant ends because its owner revokes it, its code or a refresh token  *)
(* is used again, or its client revokes a token of it.                     *)
LEMMA RevokeGrantKeeps == ASSUME McpInv, NEW n \in CodeIds, RevokeGrant(n) PROVE McpInv'
  BY EndGrantsKeeps DEF RevokeGrant

(* A consumed code that is presented again ends its grant.                 *)
LEMMA RedeemAgainKeeps == ASSUME McpInv, NEW n \in CodeIds, RedeemAgain(n) PROVE McpInv'
  BY EndGrantsKeeps DEF RedeemAgain

(* A client that revokes a token ends its grant.                           *)
LEMMA RevokeTokenKeeps == ASSUME McpInv, NEW t \in TokenIds, RevokeToken(t) PROVE McpInv'
<1>1. tokens[t].grant \in CodeIds
  BY DEF RevokeToken, McpInv, McpTypes, RowTypes, Token, TokensInOrder
<1> QED BY <1>1, EndGrantsKeeps DEF RevokeToken

(* Maintenance drops what nothing needs any more: codes that were never    *)
(* redeemed, lapsed grants, and tokens that expired.                       *)
LEMMA CleanupExpiredKeeps == ASSUME McpInv, CleanupExpired PROVE McpInv'
<1> USE DEF McpInv, McpTypes
<1>1. OwnerTypes'
  BY DEF OwnerTypes, CleanupExpired
<1> DEFINE lapsed == {n \in CodeIds : grants[n].row /\ grants[n].expired}
<1>2. \A x \in Consented : [x EXCEPT !.row = FALSE] \in Consented
                           /\ [x EXCEPT !.row = FALSE].row = FALSE
  BY DEF Consented
<1>3. \A x \in Token : [x EXCEPT !.row = FALSE] \in Token
  BY DEF Token
<1>4. /\ grants' = [n \in CodeIds |-> IF n \in lapsed THEN [grants[n] EXCEPT !.row = FALSE]
                                      ELSE grants[n]]
      /\ tokens' = [t \in TokenIds |-> IF tokens[t].grant # 0 /\ tokens[t].expired
                                       THEN [tokens[t] EXCEPT !.row = FALSE] ELSE tokens[t]]
      /\ codes' = [n \in CodeIds |-> IF n \in StaleCodes \cup lapsed
                                     THEN [codes[n] EXCEPT !.row = FALSE] ELSE codes[n]]
  BY Zenon DEF CleanupExpired, CodesWithout
<1>5. \A n \in CodeIds : codes[n] \in Consented /\ grants[n] \in Consented
  BY DEF RowTypes
<1>6. \A t \in TokenIds : tokens[t] \in Token
  BY DEF RowTypes
<1>7. RowTypes'
  BY <1>2, <1>3, <1>4, <1>5, <1>6 DEF RowTypes
<1>8. \A n \in CodeIds : Ends(codes'[n], codes[n]) /\ Ends(grants'[n], grants[n])
  BY <1>4 DEF Ends
<1>9. \A t \in TokenIds : Ends(tokens'[t], tokens[t])
  BY <1>4 DEF Ends
<1>10. \A n \in CodeIds : codes[n].row /\ grants'[n].row => codes'[n].row
  <2> SUFFICES ASSUME NEW n \in CodeIds, codes[n].row, grants'[n].row PROVE codes'[n].row
    OBVIOUS
  <2>1. n \notin lapsed /\ grants[n].row
    BY <1>2, <1>4, <1>5
  <2>2. n \notin StaleCodes
    BY <2>1 DEF StaleCodes, RowsOwned, OfThisPeriod
  <2> QED BY <1>4, <2>1, <2>2
<1>11. \A t \in TokenIds : tokens[t].row => tokens'[t].row \/ tokens[t].expired
  BY <1>4
<1>12. RowsEnd
  BY <1>7, <1>8, <1>9, <1>10, <1>11 DEF RowsEnd
<1> QED BY <1>1, <1>12, RowsEndKeeps DEF CleanupExpired

(* The clients maintenance picked wait for their locks.                    *)
LEMMA LockClientsKeeps == ASSUME McpInv, LockClients PROVE McpInv'
<1>1. OwnerTypes'
  BY DEF McpInv, McpTypes, OwnerTypes, LockClients
<1>2. RowsEnd
  BY DEF LockClients, RowsEnd, Ends, McpInv, McpTypes, RowTypes
<1> QED BY <1>1, <1>2, RowsEndKeeps DEF LockClients

(* A consent reads its client first.                                       *)
LEMMA ReadClientKeeps == ASSUME McpInv, NEW c \in Clients, ReadClient(c) PROVE McpInv'
<1>1. OwnerTypes'
  BY DEF McpInv, McpTypes, OwnerTypes, ReadClient
<1>2. RowsEnd
  BY DEF ReadClient, RowsEnd, Ends, McpInv, McpTypes, RowTypes
<1> QED BY <1>1, <1>2, RowsEndKeeps DEF ReadClient

(* The rows stay as they are; clients change, none in use loses its row.   *)
LEMMA ClientsKeep ==
  ASSUME McpInv, OwnerTypes', clients' \in [Clients -> Client],
         UNCHANGED <<owner, period, codes, grants, tokens, mcpCalls>>,
         \A c \in Clients : clients[c].row /\ Referenced(c) => clients'[c].row
  PROVE  McpInv'
<1> USE DEF McpInv
<1>1. McpTypes' /\ SlotsKept'
  BY SameRequests DEF McpTypes, RowTypes
<1>2. RowsOwned' /\ CodesHaveClients' /\ TokensInOrder'
  BY DEF RowsOwned, OfThisPeriod, CodesHaveClients, TokensInOrder
<1>3. ReplaySound'
  BY DEF ReplaySound, Refreshes, TokensOf, Fresh
<1>4. ConsentKeepsClient'
  <2> SUFFICES ASSUME NEW n \in CodeIds
               PROVE  /\ codes[n].row => clients'[codes[n].client].row
                      /\ grants[n].row /\ grants[n].client # "none"
                           => clients'[grants[n].client].row
    BY DEF ConsentKeepsClient
  <2>1. codes[n].row => codes[n].client \in Clients
    BY DEF CodesHaveClients
  <2>2. grants[n].client # "none" => grants[n].client \in Clients
    BY DEF McpTypes, RowTypes, Consented
  <2> QED BY <2>1, <2>2 DEF ConsentKeepsClient, Referenced
<1> QED BY <1>1, <1>2, <1>3, <1>4

(* A client registers.                                                     *)
LEMMA RegisterClientKeeps == ASSUME McpInv, NEW c \in Clients, RegisterClient(c) PROVE McpInv'
<1> USE DEF McpInv, McpTypes
<1>1. [row |-> TRUE, made |-> TRUE, old |-> FALSE] \in Client
  BY DEF Client
<1>2. clients' \in [Clients -> Client]
  BY <1>1 DEF RegisterClient
<1>3. \A d \in Clients : clients[d].row => clients'[d].row
  BY DEF RegisterClient
<1>4. OwnerTypes'
  BY DEF OwnerTypes, RegisterClient
<1> QED BY <1>2, <1>3, <1>4, ClientsKeep DEF RegisterClient

(* A registration gets old enough to be collected.                         *)
LEMMA ClientAgesKeeps == ASSUME McpInv, NEW c \in Clients, ClientAges(c) PROVE McpInv'
<1> USE DEF McpInv, McpTypes
<1>1. \A d \in Clients : clients[d] \in Client
  OBVIOUS
<1>2. clients' \in [Clients -> Client]
  BY <1>1 DEF ClientAges, Client
<1>3. \A d \in Clients : clients[d].row => clients'[d].row
  BY <1>1 DEF ClientAges, Client
<1>4. OwnerTypes'
  BY DEF OwnerTypes, ClientAges
<1> QED BY <1>2, <1>3, <1>4, ClientsKeep DEF ClientAges

(* Maintenance asks again, under the locks, what each client is used for.  *)
LEMMA DeleteClientsKeeps == ASSUME McpInv, DeleteClients PROVE McpInv'
<1> USE DEF McpInv, McpTypes
<1>1. \A d \in Clients : clients[d] \in Client
  OBVIOUS
<1>2. clients' \in [Clients -> Client]
  BY <1>1 DEF DeleteClients, Client
<1>3. \A d \in Clients : clients[d].row /\ Referenced(d) => clients'[d].row
  BY <1>1 DEF DeleteClients, Client, Unused
<1>4. OwnerTypes'
  BY DEF OwnerTypes, DeleteClients
<1> QED BY <1>2, <1>3, <1>4, ClientsKeep DEF DeleteClients

(* Credentials lapse: a code, a grant or a token expires and nothing else. *)
Lapses(x, y) == x = y \/ x = [y EXCEPT !.expired = TRUE]

(* What lapses is not used any more; nothing else depends on it.           *)
LEMMA LapsesKeeps ==
  ASSUME McpInv, RowTypes',
         UNCHANGED <<owner, period, accounts, clients, consent, cleanup, mcpCalls>>,
         \A n \in CodeIds : Lapses(codes'[n], codes[n]) /\ Lapses(grants'[n], grants[n]),
         \A t \in TokenIds : Lapses(tokens'[t], tokens[t])
  PROVE  McpInv'
<1> USE DEF McpInv
<1>1. McpTypes' /\ SlotsKept'
  BY SameRequests DEF McpTypes, OwnerTypes
<1>2. \A n \in CodeIds :
        /\ codes'[n].row = codes[n].row /\ codes'[n].made = codes[n].made
        /\ codes'[n].account = codes[n].account /\ codes'[n].client = codes[n].client
        /\ codes'[n].period = codes[n].period
  BY DEF Lapses, McpTypes, RowTypes, Consented
<1>3. \A n \in CodeIds :
        /\ grants'[n].row = grants[n].row /\ grants'[n].made = grants[n].made
        /\ grants'[n].account = grants[n].account /\ grants'[n].client = grants[n].client
        /\ grants'[n].period = grants[n].period
  BY DEF Lapses, McpTypes, RowTypes, Consented
<1>4. \A t \in TokenIds :
        /\ tokens'[t].row = tokens[t].row /\ tokens'[t].grant = tokens[t].grant
        /\ tokens'[t].kind = tokens[t].kind /\ tokens'[t].used = tokens[t].used
        /\ tokens[t].expired => tokens'[t].expired
        /\ tokens[t].grant \in {0} \cup CodeIds
  BY DEF Lapses, McpTypes, RowTypes, Token
<1>5. RowsOwned' /\ CodesHaveClients' /\ ConsentKeepsClient'
  BY <1>2, <1>3 DEF RowsOwned, OfThisPeriod, CodesHaveClients, ConsentKeepsClient
<1>6. TokensInOrder'
  BY <1>3, <1>4 DEF TokensInOrder
<1>7. ReplaySound'
  <2>1. \A n \in CodeIds : \A t \in Refreshes(n)' : t \in Refreshes(n) /\ t \in TokenIds
    BY <1>4 DEF Refreshes, TokensOf
  <2>2. \A t \in TokenIds : Fresh(t)' => Fresh(t)
    BY <1>4 DEF Fresh
  <2> QED BY <1>2, <1>3, <1>4, <2>1, <2>2 DEF ReplaySound
<1> QED BY <1>1, <1>5, <1>6, <1>7

(* A code expires.                                                         *)
LEMMA CodeLapsesKeeps == ASSUME McpInv, NEW n \in CodeIds, CodeLapses(n) PROVE McpInv'
<1> USE DEF McpInv, McpTypes, RowTypes
<1>1. \A m \in CodeIds : codes[m] \in Consented
  OBVIOUS
<1>2. codes' \in [CodeIds -> Consented]
  BY <1>1, ZenonT(40) DEF CodeLapses, Consented
<1>3. \A m \in CodeIds : Lapses(codes'[m], codes[m])
  BY DEF CodeLapses, Lapses
<1> QED BY <1>2, <1>3, LapsesKeeps DEF CodeLapses, Lapses

(* A token expires.                                                        *)
LEMMA TokenLapsesKeeps == ASSUME McpInv, NEW t \in TokenIds, TokenLapses(t) PROVE McpInv'
<1> USE DEF McpInv, McpTypes, RowTypes
<1>1. \A u \in TokenIds : tokens[u] \in Token
  OBVIOUS
<1>2. tokens' \in [TokenIds -> Token]
  BY <1>1 DEF TokenLapses, Token
<1>3. \A u \in TokenIds : Lapses(tokens'[u], tokens[u])
  BY DEF TokenLapses, Lapses
<1> QED BY <1>2, <1>3, LapsesKeeps DEF TokenLapses, Lapses

(* A grant expires, and its tokens with it.                                *)
LEMMA GrantLapsesKeeps == ASSUME McpInv, NEW n \in CodeIds, GrantLapses(n) PROVE McpInv'
<1> USE DEF McpInv, McpTypes, RowTypes
<1>1. /\ \A u \in TokenIds : tokens[u] \in Token
      /\ \A m \in CodeIds : grants[m] \in Consented
  OBVIOUS
<1>2. tokens' \in [TokenIds -> Token]
  BY <1>1, ZenonT(40) DEF GrantLapses, Token
<1>3. grants' \in [CodeIds -> Consented]
  BY <1>1, ZenonT(40) DEF GrantLapses, Consented
<1>4. \A u \in TokenIds : Lapses(tokens'[u], tokens[u])
  BY DEF GrantLapses, Lapses
<1>5. \A m \in CodeIds : Lapses(grants'[m], grants[m])
  BY DEF GrantLapses, Lapses
<1> QED BY <1>2, <1>3, <1>4, <1>5, LapsesKeeps DEF GrantLapses, Lapses

(* Requests change nothing but the allowance of their grant.               *)
LEMMA CallsKeep ==
  ASSUME McpInv, mcpCalls' \in [McpCalls -> McpCall], SlotsKept',
         UNCHANGED <<owner, period, accounts, clients, codes, grants, tokens, consent, cleanup>>
  PROVE  McpInv'
<1> USE DEF McpInv
<1>1. McpTypes'
  BY DEF McpTypes, OwnerTypes, RowTypes
<1>2. RowsOwned' /\ CodesHaveClients' /\ TokensInOrder' /\ ConsentKeepsClient'
  BY DEF RowsOwned, OfThisPeriod, CodesHaveClients, TokensInOrder, ConsentKeepsClient
<1>3. ReplaySound'
  BY DEF ReplaySound, Refreshes, TokensOf, Fresh
<1> QED BY <1>1, <1>2, <1>3

(* A request is let in only while its grant has a slot.                    *)
LEMMA HandleKeeps ==
  ASSUME McpInv, NEW r \in McpCalls, NEW t \in TokenIds, Handle(r, t)
  PROVE  McpInv'
<1> USE DEF McpInv, McpTypes
<1> DEFINE g == tokens[t].grant
<1>1. g \in CodeIds
  BY DEF Handle, Authorizes, RowTypes, Token, TokensInOrder
<1>2. /\ mcpCalls[r].pc = "idle" /\ HasSlot(t)
      /\ mcpCalls' = [mcpCalls EXCEPT ![r] = [pc |-> "upload", token |-> t, grant |-> g]]
  BY DEF Handle, SetCall
<1>3. mcpCalls' \in [McpCalls -> McpCall]
  BY <1>1, <1>2 DEF McpCall
<1>4. ASSUME NEW n \in CodeIds
      PROVE  IsFiniteSet(InFlight(n)') /\ Cardinality(InFlight(n)') <= GrantSlots
  <2>1. IsFiniteSet(InFlight(n)) /\ Cardinality(InFlight(n)) <= GrantSlots
    BY <1>4 DEF SlotsKept
  <2>2. CASE n = g
    <3>1. InFlight(n)' = InFlight(n) \cup {r}
      BY <1>2, <2>2 DEF InFlight
    <3>2. r \notin InFlight(n) /\ Cardinality(InFlight(n)) < GrantSlots
      BY <1>2, <2>2 DEF InFlight, HasSlot
    <3>3. Cardinality(InFlight(n)) \in Nat
      BY <2>1, FS_CardinalityType
    <3>4. IsFiniteSet(InFlight(n)') /\ Cardinality(InFlight(n)') = Cardinality(InFlight(n)) + 1
      BY <2>1, <3>1, <3>2, FS_AddElement
    <3> QED BY <3>2, <3>3, <3>4, McpAssumption
  <2>3. CASE n # g
    <3>1. InFlight(n)' = InFlight(n)
      BY <1>2, <2>3 DEF InFlight
    <3> QED BY <2>1, <3>1
  <2> QED BY <2>2, <2>3
<1>5. SlotsKept'
  BY <1>4 DEF SlotsKept
<1> QED BY <1>3, <1>5, CallsKeep DEF Handle

(* A request stays with its grant until it is over.                        *)
LEMMA FewerInFlight ==
  ASSUME McpInv, \A n \in CodeIds : InFlight(n)' \subseteq InFlight(n)
  PROVE  SlotsKept'
<1> SUFFICES ASSUME NEW n \in CodeIds
             PROVE  IsFiniteSet(InFlight(n)') /\ Cardinality(InFlight(n)') <= GrantSlots
  BY DEF SlotsKept
<1>1. IsFiniteSet(InFlight(n)) /\ Cardinality(InFlight(n)) <= GrantSlots
  BY DEF McpInv, SlotsKept
<1>2. IsFiniteSet(InFlight(n)') /\ Cardinality(InFlight(n)') <= Cardinality(InFlight(n))
  BY <1>1, FS_Subset
<1>3. Cardinality(InFlight(n)) \in Nat /\ Cardinality(InFlight(n)') \in Nat
  BY <1>1, <1>2, FS_CardinalityType
<1> QED BY <1>1, <1>2, <1>3, McpAssumption

(* The body of a request is complete, or the request is refused.           *)
LEMMA UploadedKeeps == ASSUME McpInv, NEW r \in McpCalls, Uploaded(r) PROVE McpInv'
<1>1. \A s \in McpCalls : mcpCalls[s] \in McpCall
  BY DEF McpInv, McpTypes
<1>2. mcpCalls' \in [McpCalls -> McpCall]
  BY <1>1 DEF McpInv, McpTypes, Uploaded, SetCall, McpCall, NoMcpCall
<1>3. \A s \in McpCalls : mcpCalls'[s].pc # "idle" =>
        mcpCalls[s].pc # "idle" /\ mcpCalls'[s].grant = mcpCalls[s].grant
  BY <1>1 DEF McpInv, McpTypes, Uploaded, SetCall, McpCall, NoMcpCall
<1>4. SlotsKept'
  BY <1>3, FewerInFlight DEF InFlight
<1> QED BY <1>2, <1>4, CallsKeep DEF Uploaded

(* A request is answered and gives its slot back.                          *)
LEMMA McpAnsweredKeeps == ASSUME McpInv, NEW r \in McpCalls, McpAnswered(r) PROVE McpInv'
<1>1. mcpCalls' \in [McpCalls -> McpCall]
  BY DEF McpInv, McpTypes, McpAnswered, SetCall, McpCall, NoMcpCall
<1>2. \A s \in McpCalls : mcpCalls'[s].pc # "idle" => mcpCalls'[s] = mcpCalls[s]
  BY DEF McpInv, McpTypes, McpAnswered, SetCall, NoMcpCall
<1>3. SlotsKept'
  BY <1>2, FewerInFlight DEF InFlight
<1> QED BY <1>1, <1>3, CallsKeep DEF McpAnswered

(* A consent makes the next code, for a client that is registered and that *)
(* maintenance does not hold, and drops expired codes nobody redeemed.     *)
LEMMA ConsentKeeps == ASSUME McpInv, Consent PROVE McpInv'
<1> USE DEF McpInv
<1>1. OwnerTypes'
  BY DEF McpTypes, OwnerTypes, Consent
<1>2. CASE codes' = codes
  <2>1. RowsEnd
    BY <1>2 DEF Consent, RowsEnd, Ends, McpTypes, RowTypes
  <2> QED BY <1>1, <1>2, <2>1, RowsEndKeeps DEF Consent
<1>3. CASE codes' # codes
  <2>1. owner \in accounts /\ consent # "none" /\ clients[consent].row
    BY <1>3 DEF Consent
  <2>2. PICK n \in NextCode :
          codes' = [m \in CodeIds |->
              IF m = n THEN [made |-> TRUE, row |-> TRUE, account |-> owner,
                             client |-> consent, period |-> period, expired |-> FALSE]
              ELSE IF codes[m].expired /\ ~grants[m].made
                   THEN [codes[m] EXCEPT !.row = FALSE] ELSE codes[m]]
    BY <1>3, Zenon DEF Consent
  <2>3. n \in CodeIds /\ ~grants[n].made
    BY DEF NextCode
  <2>4. owner \in Owners /\ owner # "none" /\ consent \in Clients
    BY <2>1, McpAssumption DEF McpTypes, OwnerTypes
  <2>5. \A m \in CodeIds : codes[m] \in Consented
    BY DEF McpTypes, RowTypes
  <2>6. \A x \in Consented : [x EXCEPT !.row = FALSE] \in Consented
                             /\ [x EXCEPT !.row = FALSE].row = FALSE
    BY DEF Consented
  <2>7. [made |-> TRUE, row |-> TRUE, account |-> owner, client |-> consent,
         period |-> period, expired |-> FALSE] \in Consented
    BY <2>4 DEF Consented, McpTypes, OwnerTypes
  <2>8. codes' \in [CodeIds -> Consented]
    BY <2>2, <2>5, <2>6, <2>7
  <2>9. McpTypes' /\ SlotsKept'
    BY <1>1, <2>8, SameRequests DEF Consent, McpTypes, RowTypes
  <2>10. \A m \in CodeIds : m # n /\ codes'[m].row => codes'[m] = codes[m]
    BY <2>2, <2>5, <2>6
  <2>11. codes'[n] = [made |-> TRUE, row |-> TRUE, account |-> owner, client |-> consent,
                      period |-> period, expired |-> FALSE]
    BY <2>2, <2>3
  <2>12. \A m \in CodeIds : grants[m].row => m # n /\ codes'[m] = codes[m]
    BY <2>2, <2>3 DEF RowsOwned, OfThisPeriod
  <2>13. RowsOwned'
    BY <2>4, <2>10, <2>11 DEF RowsOwned, OfThisPeriod, Consent
  <2>14. CodesHaveClients'
    BY <2>4, <2>10, <2>11 DEF CodesHaveClients, Consent
  <2>15. ConsentKeepsClient'
    BY <2>1, <2>10, <2>11 DEF ConsentKeepsClient, Consent
  <2>16. TokensInOrder'
    BY DEF TokensInOrder, Consent
  <2>17. ReplaySound'
    BY <2>12 DEF ReplaySound, Refreshes, TokensOf, Fresh, Consent
  <2> QED BY <2>9, <2>13, <2>14, <2>15, <2>16, <2>17
<1> QED BY <1>2, <1>3

(* An exchange adds the next token, and the refresh token after it.        *)
Added(t, g, kinds, used) ==
  /\ \A u \in TokenIds : u < t => tokens[u].grant # 0
  /\ "refresh" \in kinds => t + 1 \in TokenIds /\ tokens[t + 1].grant = 0
  /\ tokens[t].grant = 0
  /\ tokens' = [u \in TokenIds |->
       IF u = t THEN NewToken(g, "access")
       ELSE IF u = t + 1 /\ "refresh" \in kinds THEN NewToken(g, "refresh")
       ELSE IF u \in used THEN [tokens[u] EXCEPT !.used = TRUE] ELSE tokens[u]]

(* AddTokens is such an exchange: both tokens fit in the order.            *)
LEMMA TokensAdded ==
  ASSUME McpInv, NEW g \in CodeIds, NEW kinds \in {{"access"}, {"access", "refresh"}},
         NEW used, AddTokens(g, kinds, used)
  PROVE  \E t \in TokenIds : Added(t, g, kinds, used)
<1>1. PICK t \in NextToken :
        /\ t + Cardinality(kinds) - 1 <= MaxTokens
        /\ tokens' = [u \in TokenIds |->
              IF u = t THEN NewToken(g, "access")
              ELSE IF u = t + 1 /\ "refresh" \in kinds THEN NewToken(g, "refresh")
              ELSE IF u \in used THEN [tokens[u] EXCEPT !.used = TRUE] ELSE tokens[u]]
  BY Zenon DEF AddTokens
<1>2. t \in TokenIds /\ t \in Nat /\ tokens[t].grant = 0
  BY Indices DEF NextToken
<1>3. \A u \in TokenIds : u < t => u \in 1..(t - 1)
  BY <1>2, Indices
<1>4. \A u \in TokenIds : u < t => tokens[u].grant # 0
  BY <1>3 DEF NextToken
<1>6. ASSUME "refresh" \in kinds PROVE t + 1 \in TokenIds /\ tokens[t + 1].grant = 0
  <2>1. kinds = {"access"} \cup {"refresh"}
    BY <1>6
  <2>2. IsFiniteSet({"access"}) /\ Cardinality({"access"}) = 1 /\ "refresh" \notin {"access"}
    BY FS_Singleton
  <2>5. Cardinality({"access"} \cup {"refresh"}) = 2
    <3>1. Cardinality({"access"} \cup {"refresh"}) = Cardinality({"access"}) + 1
      BY <2>2, FS_AddElement, Zenon
    <3> QED BY <2>2, <3>1
  <2>3. t + 1 \in TokenIds
    BY <1>1, <1>2, <2>1, <2>5, Indices, McpAssumption
  <2>4. t < t + 1
    BY <1>2
  <2> QED BY <1>2, <2>3, <2>4 DEF McpInv, TokensInOrder
<1> QED BY <1>1, <1>2, <1>4, <1>6, Zenon DEF Added

(* Whatever an exchange does for a grant is sound when the refresh tokens  *)
(* the grant had are all used by then.                                     *)
LEMMA AddTokensKeeps ==
  ASSUME McpInv, NEW g \in CodeIds, NEW kinds \in {{"access"}, {"access", "refresh"}},
         NEW used, AddTokens(g, kinds, used),
         UNCHANGED <<owner, period, accounts, clients, codes, consent, cleanup, mcpCalls>>,
         grants' \in [CodeIds -> Consented], RowsOwned', ConsentKeepsClient',
         \A n \in CodeIds : n # g => grants'[n] = grants[n],
         grants'[g].made,
         grants'[g].row /\ grants'[g].client # "none" =>
           /\ codes[g].row
           /\ \A u \in Refreshes(g) : /\ tokens[u].expired \/ tokens[u].row
                                      /\ Fresh(u) => u \in used
  PROVE  McpInv'
<1>0. PICK t \in TokenIds : Added(t, g, kinds, used)
  BY TokensAdded
<1> USE DEF McpInv
<1>1. /\ \A u \in TokenIds : u < t => tokens[u].grant # 0
      /\ "refresh" \in kinds => t + 1 \in TokenIds /\ tokens[t + 1].grant = 0
      /\ tokens[t].grant = 0
      /\ tokens' = [u \in TokenIds |->
           IF u = t THEN NewToken(g, "access")
           ELSE IF u = t + 1 /\ "refresh" \in kinds THEN NewToken(g, "refresh")
           ELSE IF u \in used THEN [tokens[u] EXCEPT !.used = TRUE] ELSE tokens[u]]
  BY <1>0, Zenon DEF Added
<1>2. /\ g # 0 /\ t \in Nat /\ t + 1 # t
      /\ \A u \in TokenIds : u \in Nat /\ (u < t + 1 => u < t \/ u = t)
  BY Indices
<1>3. \A u \in TokenIds : tokens[u] \in Token
  BY DEF McpTypes, RowTypes
<1>4. \A x \in Token : [x EXCEPT !.used = TRUE] \in Token
  BY DEF Token
<1>5. NewToken(g, "access") \in Token /\ NewToken(g, "refresh") \in Token
  BY DEF Token, NewToken
<1>6. tokens' \in [TokenIds -> Token]
  BY <1>1, <1>3, <1>4, <1>5
<1>7. McpTypes' /\ SlotsKept'
  BY <1>6, SameRequests DEF McpTypes, RowTypes, OwnerTypes
<1>8. CodesHaveClients'
  BY DEF CodesHaveClients
<1>9. \A u \in TokenIds : \/ tokens'[u] = NewToken(g, "access") /\ u = t
                          \/ tokens'[u] = NewToken(g, "refresh") /\ u = t + 1
                          \/ /\ u # t
                             /\ tokens'[u].row = tokens[u].row
                             /\ tokens'[u].grant = tokens[u].grant
                             /\ tokens'[u].kind = tokens[u].kind
                             /\ tokens'[u].expired = tokens[u].expired
                             /\ ~tokens'[u].used => ~tokens[u].used /\ u \notin used
  BY <1>1, <1>2, <1>3 DEF Token
<1>10. \A u \in TokenIds : tokens[u].grant # 0 => tokens'[u].grant = tokens[u].grant
  BY <1>1, <1>3 DEF Token
<1>11. \A u \in TokenIds : tokens'[u].row => tokens'[u].grant # 0
  BY <1>2, <1>9 DEF TokensInOrder, NewToken
<1>12. \A u \in TokenIds : tokens'[u].grant # 0 => grants'[tokens'[u].grant].made
  <2> SUFFICES ASSUME NEW u \in TokenIds, tokens'[u].grant # 0
               PROVE  grants'[tokens'[u].grant].made
    OBVIOUS
  <2>1. CASE tokens'[u].grant = g
    BY <2>1
  <2>2. CASE tokens'[u].grant # g
    <3>1. tokens'[u].grant = tokens[u].grant
      BY <1>9, <2>2 DEF NewToken
    <3>2. tokens[u].grant \in CodeIds
      BY <1>3, <3>1 DEF Token
    <3> QED BY <2>2, <3>1, <3>2 DEF TokensInOrder
  <2> QED BY <2>1, <2>2
<1>13. \A v, u \in TokenIds : u < v /\ tokens'[v].grant # 0 => tokens'[u].grant # 0
  <2> SUFFICES ASSUME NEW v \in TokenIds, NEW u \in TokenIds, u < v, tokens'[v].grant # 0
               PROVE  tokens'[u].grant # 0
    OBVIOUS
  <2>1. CASE u = t
    BY <1>1, <1>2, <2>1 DEF NewToken
  <2>2. CASE u # t /\ tokens[v].grant = 0
    <3>1. v = t \/ v = t + 1
      BY <1>9, <2>2
    <3>2. u < t
      BY <1>2, <2>2, <3>1
    <3> QED BY <1>1, <1>10, <3>2
  <2>3. CASE tokens[v].grant # 0
    BY <1>10, <2>3 DEF TokensInOrder
  <2> QED BY <2>1, <2>2, <2>3
<1>14. TokensInOrder'
  BY <1>11, <1>12, <1>13 DEF TokensInOrder
<1>15. ReplaySound'
  <2> SUFFICES ASSUME NEW n \in CodeIds, grants'[n].row, grants'[n].client # "none"
               PROVE  /\ codes'[n].row
                      /\ \A u \in Refreshes(n)' : tokens'[u].expired \/ tokens'[u].row
                      /\ \A v, u \in Refreshes(n)' : Fresh(v)' /\ Fresh(u)' => v = u
    BY DEF ReplaySound
  <2>1. CASE n # g
    <3>1. grants[n].row /\ grants[n].client # "none"
      BY <2>1
    <3>2. \A u \in Refreshes(n)' : u \in Refreshes(n) /\ tokens'[u].row = tokens[u].row
            /\ tokens'[u].expired = tokens[u].expired /\ (Fresh(u)' => Fresh(u))
      BY <1>9, <2>1 DEF Refreshes, TokensOf, Fresh, NewToken
    <3> QED BY <3>1, <3>2 DEF ReplaySound
  <2>2. CASE n = g
    <3>1. \A u \in Refreshes(g)' :
            \/ u = t + 1 /\ tokens'[u].row
            \/ u \in Refreshes(g) /\ tokens'[u].row = tokens[u].row
               /\ tokens'[u].expired = tokens[u].expired /\ (Fresh(u)' => Fresh(u) /\ u \notin used)
      BY <1>9 DEF Refreshes, TokensOf, Fresh, NewToken
    <3>2. \A u \in Refreshes(g) : /\ tokens[u].expired \/ tokens[u].row
                                  /\ Fresh(u) => u \in used
      BY <2>2
    <3>3. \A u \in Refreshes(g)' : Fresh(u)' => u = t + 1
      BY <3>1, <3>2
    <3> QED BY <2>2, <3>1, <3>2, <3>3
  <2> QED BY <2>1, <2>2
<1> QED BY <1>7, <1>8, <1>14, <1>15

(* The owner's personal token: a grant of its own that is never refreshed. *)
LEMMA PersonalKeeps == ASSUME McpInv, Personal PROVE McpInv'
<1>1. PICK n \in NextCode : Create(n, owner, "none", period) /\ AddTokens(n, {"access"}, {})
  BY DEF Personal
<1>2. n \in CodeIds /\ ~codes[n].made
  BY DEF NextCode
<1>3. owner \in Owners /\ owner # "none" /\ period \in Nat
  BY McpAssumption DEF Personal, McpInv, McpTypes, OwnerTypes
<1> DEFINE new == [made |-> TRUE, row |-> TRUE, account |-> owner, client |-> "none",
                   period |-> period, expired |-> FALSE]
<1>4. grants' = [grants EXCEPT ![n] = new]
  BY <1>1 DEF Create
<1>5. new \in Consented
  BY <1>3 DEF Consented
<1>6. grants \in [CodeIds -> Consented]
  BY DEF McpInv, McpTypes, RowTypes
<1>7. grants' \in [CodeIds -> Consented]
  BY <1>2, <1>4, <1>5, <1>6
<1>8. /\ \A m \in CodeIds : m # n => grants'[m] = grants[m]
      /\ grants'[n] = new
  BY <1>2, <1>4, <1>6
<1>9. RowsOwned'
  BY <1>3, <1>8 DEF McpInv, RowsOwned, OfThisPeriod, Personal
<1>10. ConsentKeepsClient'
  BY <1>8 DEF McpInv, ConsentKeepsClient, Personal
<1> HIDE DEF new
<1>11. grants'[n].made /\ grants'[n].client = "none"
  BY <1>8 DEF new
<1> QED BY <1>1, <1>2, <1>7, <1>8, <1>9, <1>10, <1>11, AddTokensKeeps DEF Personal

(* A code is redeemed once: the grant it makes has no token yet.           *)
LEMMA RedeemKeeps == ASSUME McpInv, NEW n \in CodeIds, Redeem(n) PROVE McpInv'
<1> DEFINE new == [made |-> TRUE, row |-> TRUE, account |-> codes[n].account,
                   client |-> codes[n].client, period |-> codes[n].period, expired |-> FALSE]
<1>1. codes[n].row /\ ~grants[n].made /\ grants' = [grants EXCEPT ![n] = new]
  BY DEF Redeem, Redeemable, Owned, Create
<1>2. codes \in [CodeIds -> Consented] /\ grants \in [CodeIds -> Consented]
  BY DEF McpInv, McpTypes, RowTypes
<1>3. new \in Consented
  BY <1>2 DEF Consented
<1>4. grants' \in [CodeIds -> Consented]
  BY <1>1, <1>2, <1>3
<1>5. /\ \A m \in CodeIds : m # n => grants'[m] = grants[m]
      /\ grants'[n] = new
  BY <1>1, <1>2
<1>6. OfThisPeriod(codes[n]) /\ clients[codes[n].client].row
  BY <1>1 DEF McpInv, RowsOwned, ConsentKeepsClient
<1>7. RowsOwned'
  BY <1>5, <1>6 DEF McpInv, RowsOwned, OfThisPeriod, Redeem
<1>8. ConsentKeepsClient'
  BY <1>5, <1>6 DEF McpInv, ConsentKeepsClient, Redeem
<1>9. Refreshes(n) = {}
  <2>1. \A t \in TokenIds : tokens[t].grant # n
    BY <1>1, Indices DEF McpInv, TokensInOrder
  <2> QED BY <2>1 DEF Refreshes, TokensOf
<1>10. grants'[n].made
  BY <1>5
<1> HIDE DEF new
<1>11. AddTokens(n, {"access", "refresh"}, {})
  BY DEF Redeem
<1> QED BY <1>1, <1>4, <1>5, <1>7, <1>8, <1>9, <1>10, <1>11, AddTokensKeeps DEF Redeem

(* A refresh uses the only refresh token of its grant that was not used.   *)
LEMMA RefreshKeeps == ASSUME McpInv, NEW t \in TokenIds, Refresh(t) PROVE McpInv'
<1> DEFINE g == tokens[t].grant
<1>1. tokens[t].row /\ tokens[t].kind = "refresh" /\ grants[g].row
  BY DEF Refresh, Refreshable, Owned
<1>2. g \in CodeIds /\ t \in Refreshes(g)
  BY <1>1 DEF McpInv, McpTypes, RowTypes, Token, TokensInOrder, Refreshes, TokensOf
<1>3. CASE tokens[t].used
  <2>1. EndGrants({g})
    BY <1>3, Zenon DEF Refresh
  <2> QED BY <1>2, <2>1, EndGrantsKeeps DEF Refresh
<1>4. CASE ~tokens[t].used
  <2>1. AddTokens(g, {"access", "refresh"}, {t}) /\ UNCHANGED <<codes, grants>>
    BY <1>4, Zenon DEF Refresh
  <2>2. grants[g].made
    BY <1>1, <1>2 DEF McpInv, RowsOwned, OfThisPeriod
  <2>3. grants[g].row /\ grants[g].client # "none" =>
          /\ codes[g].row
          /\ \A u \in Refreshes(g) : /\ tokens[u].expired \/ tokens[u].row
                                     /\ Fresh(u) => u \in {t}
    <3>1. Fresh(t)
      BY <1>1, <1>4 DEF Fresh
    <3> QED BY <1>2, <3>1 DEF McpInv, ReplaySound
  <2>4. RowsOwned' /\ ConsentKeepsClient' /\ grants' \in [CodeIds -> Consented]
    BY <2>1 DEF McpInv, McpTypes, RowTypes, RowsOwned, OfThisPeriod, ConsentKeepsClient, Refresh
  <2>5. UNCHANGED <<owner, period, accounts, clients, codes, consent, cleanup, mcpCalls>>
    BY <2>1 DEF Refresh
  <2>6. grants' = grants
    BY <2>1
  <2> HIDE DEF g
  <2> QED BY <1>2, <2>1, <2>2, <2>3, <2>4, <2>5, <2>6, AddTokensKeeps
<1> QED BY <1>3, <1>4

(* Nothing has been given out at first.                                    *)
LEMMA McpInitial == McpInit => McpInv
<1> SUFFICES ASSUME McpInit PROVE McpInv
  OBVIOUS
<1> USE DEF McpInit
<1>1. OwnerTypes
  BY DEF OwnerTypes
<1>2. NoCode \in Consented /\ NoGrant \in Consented
  BY DEF NoCode, NoGrant, Consented
<1>3. NoToken \in Token
  BY DEF NoToken, Token
<1>4. [row |-> FALSE, made |-> FALSE, old |-> FALSE] \in Client
  BY DEF Client
<1>5. NoMcpCall \in McpCall
  BY DEF NoMcpCall, McpCall
<1>6. McpTypes
  BY <1>1, <1>2, <1>3, <1>4, <1>5 DEF McpTypes, RowTypes
<1>7. \A n \in CodeIds : ~codes[n].row /\ ~grants[n].row
  BY DEF NoCode, NoGrant
<1>8. \A t \in TokenIds : ~tokens[t].row /\ tokens[t].grant = 0
  BY DEF NoToken
<1>9. \A n \in CodeIds : InFlight(n) = {}
  BY DEF InFlight, NoMcpCall
<1>10. SlotsKept
  <2>1. IsFiniteSet({}) /\ Cardinality({}) = 0
    BY FS_EmptySet
  <2>2. 0 <= GrantSlots
    BY McpAssumption
  <2> QED BY <1>9, <2>1, <2>2 DEF SlotsKept
<1>11. RowsOwned /\ CodesHaveClients /\ ConsentKeepsClient
  BY <1>7 DEF RowsOwned, CodesHaveClients, ConsentKeepsClient
<1>12. TokensInOrder
  BY <1>8 DEF TokensInOrder
<1>13. ReplaySound
  BY <1>7 DEF ReplaySound
<1> QED BY <1>6, <1>10, <1>11, <1>12, <1>13 DEF McpInv

(* Every step keeps the invariant.                                         *)
LEMMA McpSteps == McpInv /\ [McpNext]_mcpVars => McpInv'
<1> SUFFICES ASSUME McpInv, [McpNext]_mcpVars PROVE McpInv'
  OBVIOUS
<1>1. CASE Personal \/ Consent \/ CleanupExpired
  BY <1>1, PersonalKeeps, ConsentKeeps, CleanupExpiredKeeps
<1>2. CASE LockClients \/ DeleteClients \/ Detach
  BY <1>2, LockClientsKeeps, DeleteClientsKeeps, DetachKeeps
<1>3. ASSUME NEW n \in CodeIds,
             RevokeGrant(n) \/ Redeem(n) \/ RedeemAgain(n) \/ CodeLapses(n) \/ GrantLapses(n)
      PROVE  McpInv'
  BY <1>3, RevokeGrantKeeps, RedeemKeeps, RedeemAgainKeeps, CodeLapsesKeeps, GrantLapsesKeeps
<1>4. ASSUME NEW c \in Clients, ReadClient(c) \/ RegisterClient(c) \/ ClientAges(c)
      PROVE  McpInv'
  BY <1>4, ReadClientKeeps, RegisterClientKeeps, ClientAgesKeeps
<1>5. ASSUME NEW t \in TokenIds, Refresh(t) \/ RevokeToken(t) \/ TokenLapses(t)
      PROVE  McpInv'
  BY <1>5, RefreshKeeps, RevokeTokenKeeps, TokenLapsesKeeps
<1>6. ASSUME NEW r \in McpCalls,
             Uploaded(r) \/ McpAnswered(r) \/ (\E t \in TokenIds : Handle(r, t))
      PROVE  McpInv'
  BY <1>6, UploadedKeeps, McpAnsweredKeeps, HandleKeeps
<1>7. ASSUME NEW a \in Owners, DeleteAccount(a) \/ Reclaim(a) PROVE McpInv'
  BY <1>7, DeleteAccountRowsKeeps, ReclaimKeeps
<1>8. CASE UNCHANGED mcpVars
  <2>1. OwnerTypes' /\ RowsEnd
    BY <1>8 DEF mcpVars, McpInv, McpTypes, OwnerTypes, RowTypes, RowsEnd, Ends
  <2> QED BY <1>8, <2>1, RowsEndKeeps DEF mcpVars
<1> QED BY <1>1, <1>2, <1>3, <1>4, <1>5, <1>6, <1>7, <1>8, Zenon DEF McpNext

(* Credentials of MCP clients end when they should and only then, for any  *)
(* number of accounts, clients, codes, tokens and requests (mcp.rs,        *)
(* lib.rs cleanup_expired, installations.rs detach_on).                    *)
THEOREM McpCredentialsKept == McpInit /\ [][McpNext]_mcpVars => []McpCredentialsBounded
<1>1. McpInit /\ [][McpNext]_mcpVars => []McpInv
  BY McpInitial, McpSteps, PTL
<1> QED BY <1>1, McpInvBounds, PTL

----------------------------------------
(***************************************************************************)
(* Signing in.                                                             *)
(***************************************************************************)

(* The types of the sign-in state.                                         *)
Session == [made : BOOLEAN, row : BOOLEAN, account : Nat, recent : BOOLEAN,
            by : {"none", "email", "oauth", "passkey"}, code : Nat, since : Nat]
Slip == [code : Nat, tries : Nat, pc : {"idle", "address"}, sends : BOOLEAN]
Flow == [pc : {"idle", "asked", "verified", "ready", "registering", "passkey"},
         kind : {"none", "web", "native", "google"}, link : Nat,
         session : {0} \cup SessionIds, ready : Nat]
AccountTypes ==
  /\ who \in Nat /\ born \in Nat \ {0}
  /\ methods \in [Kinds -> {"none", "active", "removed"}]
SessionTypes ==
  /\ websess \in [SessionIds -> Session]
  /\ jar \in [Browsers -> {0} \cup SessionIds]
MailTypes ==
  mail \in [row : BOOLEAN, n : Nat, tries : Nat, expired : BOOLEAN, since : Nat]
FlowTypes ==
  slips \in [Browsers -> Slip] /\ flows \in [Browsers -> Flow]
SignInTypes == AccountTypes /\ SessionTypes /\ MailTypes /\ FlowTypes

(* There is one account at a time, it can be reached, and the sessions are *)
(* its own.                                                                *)
OneAccount ==
  /\ who # 0 => who = born /\ \E k \in Kinds : methods[k] = "active"
  /\ who = 0 => \A k \in Kinds : methods[k] = "none"
SessionsOwned == \A s \in SessionIds : websess[s].row => websess[s].account = who /\ who # 0

(* A code in the mail was sent since the last deletion.                    *)
MailDated == mail.row => mail.n >= 1 /\ mail.since = Deleted

(* A code that signed in is spent; a session that was not created is blank. *)
CodesSpent ==
  \A s \in SessionIds :
    /\ websess[s].by # "email" => websess[s].code = 0
    /\ websess[s].by = "email" => /\ websess[s].code \in 1 .. mail.n
                                  /\ mail.row => websess[s].code # mail.n
    /\ ~websess[s].made => websess[s] = NoSession

(* The inductive invariant.                                                *)
SignInInv ==
  /\ SignInTypes /\ OneAccount /\ SessionsOwned /\ MailDated /\ CodesSpent
  /\ CodesDoNotOutlive

(* What a new session leaves of the invariant.                             *)
LEMMA SessionCreated ==
  ASSUME SignInInv, NEW b \in Browsers, NEW account \in Nat \ {0},
         NEW by \in {"email", "oauth", "passkey"}, NEW code \in Nat, NEW since \in Nat,
         CreateSession(b, account, by, code, since),
         \A s \in SessionIds : websess[s].row => account = websess[s].account,
         by # "email" => code = 0,
         by = "email" => /\ mail.row /\ code = mail.n /\ mail'.n = mail.n /\ ~mail'.row
                         /\ account = since + 1,
         by # "email" => UNCHANGED mail,
         who' = account
  PROVE  SessionTypes' /\ SessionsOwned' /\ CodesSpent' /\ CodesDoNotOutlive'
<1> USE DEF SignInInv, SignInTypes
<1> DEFINE new == [made |-> TRUE, row |-> TRUE, account |-> account, recent |-> by # "oauth",
                   by |-> by, code |-> code, since |-> since]
<1>1. PICK s \in SessionIds :
        /\ ~websess[s].made
        /\ websess' = [websess EXCEPT ![s] = new] /\ jar' = [jar EXCEPT ![b] = s]
  BY DEF CreateSession
<1>2. /\ new \in Session /\ new.row /\ new.account = account /\ new.by = by
      /\ new.code = code /\ new.since = since /\ new.made
  BY DEF Session
<1> HIDE DEF new
<1>3. websess'[s] = new /\ \A u \in SessionIds \ {s} : websess'[u] = websess[u]
  BY <1>1 DEF SessionTypes
<1>4. SessionTypes'
  BY <1>1, <1>2 DEF SessionTypes
<1>5. SessionsOwned'
  BY <1>2, <1>3 DEF SessionsOwned
<1>6. mail.n \in Nat
  BY DEF MailTypes
<1>7. \A u \in SessionIds : websess[u].by = "email" => websess[u].code \in 1 .. mail.n
  BY DEF CodesSpent
<1>8. CodesSpent'
  BY <1>2, <1>3, <1>6 DEF CodesSpent, MailDated
<1>9. \A u \in SessionIds \ {s} :
        /\ by = "email" => websess[u].code # code
        /\ websess[u].by = "email" => websess[u].code # code
  BY <1>6 DEF CodesSpent, MailDated
<1>10. CodesDoNotOutlive'
  BY <1>2, <1>3, <1>9 DEF CodesDoNotOutlive
<1> QED BY <1>4, <1>5, <1>8, <1>10

(* Steps that leave the account, its sessions and its mail alone.          *)
LEMMA FlowsOnly ==
  ASSUME SignInInv, UNCHANGED <<who, born, methods, websess, jar, mail>>, FlowTypes'
  PROVE  SignInInv'
<1>1. AccountTypes' /\ SessionTypes' /\ MailTypes'
  BY DEF SignInInv, SignInTypes, AccountTypes, SessionTypes, MailTypes
<1>2. OneAccount' /\ SessionsOwned' /\ MailDated' /\ CodesSpent' /\ CodesDoNotOutlive'
  BY DEF SignInInv, OneAccount, SessionsOwned, MailDated, Deleted, CodesSpent,
         CodesDoNotOutlive
<1> QED BY <1>1, <1>2 DEF SignInInv, SignInTypes

(* Steps that change the mail only by dropping its code or by dating it.   *)
LEMMA MailOnly ==
  ASSUME SignInInv, UNCHANGED <<who, born, methods, websess, jar>>, FlowTypes', MailTypes',
         mail'.n >= mail.n,
         mail'.row => \/ mail.row /\ mail'.n = mail.n /\ mail'.since = mail.since
                      \/ mail'.n = mail.n + 1 /\ mail'.since = Deleted
  PROVE  SignInInv'
<1>1. AccountTypes' /\ SessionTypes'
  BY DEF SignInInv, SignInTypes, AccountTypes, SessionTypes
<1>2. OneAccount' /\ SessionsOwned' /\ CodesDoNotOutlive'
  BY DEF SignInInv, OneAccount, SessionsOwned, CodesDoNotOutlive
<1>3. mail.n \in Nat /\ mail'.n \in Nat
  BY DEF SignInInv, SignInTypes, MailTypes
<1>4. MailDated'
  BY <1>3 DEF SignInInv, MailDated, Deleted
<1>5. CodesSpent'
  BY <1>3 DEF SignInInv, CodesSpent
<1> QED BY <1>1, <1>2, <1>4, <1>5 DEF SignInInv, SignInTypes

(* One browser's slip, or its flow, is replaced.                           *)
LEMMA SlipSet ==
  ASSUME SignInInv, NEW b \in Browsers, NEW new \in Slip, SetSlip(b, new), UNCHANGED flows
  PROVE  FlowTypes'
  BY DEF SignInInv, SignInTypes, FlowTypes, Slip, SetSlip

(* A flow is replaced by another one of its type.                          *)
LEMMA FlowSet ==
  ASSUME SignInInv, NEW b \in Browsers, NEW new \in Flow, SetFlow(b, new), UNCHANGED slips
  PROVE  FlowTypes'
  BY DEF SignInInv, SignInTypes, FlowTypes, SetFlow

(* Requesting, mailing and expiring a code.                                *)
LEMMA RequestCodeKeeps == ASSUME SignInInv, NEW b \in Browsers, RequestCode(b) PROVE SignInInv'
<1>0. mail.n \in Nat /\ Deleted \in Nat /\ mail.n + 1 >= mail.n
  BY DEF SignInInv, SignInTypes, AccountTypes, MailTypes, Deleted
<1>1. FlowTypes'
  <2>2. [NoSlip EXCEPT !.code = mail.n] \in Slip
    BY <1>0 DEF NoSlip, Slip
  <2>3. PICK new \in Slip : SetSlip(b, new)
    <3>1. PICK next \in Nat : next = mail.n + 1
      BY <1>0
    <3>2. [NoSlip EXCEPT !.code = next, !.sends = TRUE] \in Slip
      BY DEF NoSlip, Slip
    <3> QED BY <2>2, <3>1, <3>2 DEF RequestCode
  <2>4. UNCHANGED flows
    BY DEF RequestCode
  <2> QED BY <2>3, <2>4, SlipSet
<1>2. MailTypes' /\ mail'.n >= mail.n
  <2>1. CASE mail' = mail
    BY <1>0, <2>1 DEF SignInInv, SignInTypes, MailTypes
  <2>2. CASE mail' = [NoMail EXCEPT !.row = TRUE, !.n = mail.n + 1, !.since = Deleted]
    <3>1. mail.n + 1 \in Nat
      BY <1>0
    <3>2. mail' = [row |-> TRUE, n |-> mail.n + 1, tries |-> 0, expired |-> FALSE,
                   since |-> Deleted]
      BY <2>2 DEF NoMail
    <3> QED BY <1>0, <3>1, <3>2 DEF MailTypes
  <2> QED BY <2>1, <2>2 DEF RequestCode
<1>4. mail'.row => \/ mail.row /\ mail'.n = mail.n /\ mail'.since = mail.since
                   \/ mail'.n = mail.n + 1 /\ mail'.since = Deleted
  BY DEF RequestCode, Usable, NoMail
<1> QED BY <1>1, <1>2, <1>4, MailOnly DEF RequestCode

(* A code is mailed.                                                       *)
LEMMA MailCodeKeeps == ASSUME SignInInv, NEW b \in Browsers, MailCode(b) PROVE SignInInv'
<1>1. FlowTypes'
  BY DEF SignInInv, SignInTypes, FlowTypes, Slip, MailCode, SetSlip
<1>2. MailTypes' /\ mail'.n = mail.n /\ (mail'.row => mail' = mail)
  BY DEF SignInInv, SignInTypes, MailTypes, MailCode
<1>3. mail.n \in Nat
  BY DEF SignInInv, SignInTypes, MailTypes
<1> QED BY <1>1, <1>2, <1>3, MailOnly DEF MailCode

(* The mailed code expires.                                                *)
LEMMA CodeExpiresKeeps == ASSUME SignInInv, CodeExpires PROVE SignInInv'
<1>1. FlowTypes'
  BY DEF SignInInv, SignInTypes, FlowTypes, CodeExpires
<1>2. MailTypes' /\ mail'.n = mail.n /\ mail'.row = mail.row /\ mail'.since = mail.since
  BY DEF SignInInv, SignInTypes, MailTypes, CodeExpires
<1>3. mail.n \in Nat
  BY DEF SignInInv, SignInTypes, MailTypes
<1> QED BY <1>1, <1>2, <1>3, MailOnly DEF CodeExpires

(* The address of a code is read before the code is compared.              *)
LEMMA ReadAddressKeeps == ASSUME SignInInv, NEW b \in Browsers, ReadAddress(b) PROVE SignInInv'
<1>1. FlowTypes'
  BY DEF SignInInv, SignInTypes, FlowTypes, Slip, ReadAddress, SetSlip
<1> QED BY <1>1, FlowsOnly DEF ReadAddress

(* The types of a slip that was read.                                      *)
LEMMA SlipRead ==
  ASSUME SignInInv, NEW b \in Browsers, SetSlip(b, Unread(b)), UNCHANGED flows
  PROVE  FlowTypes'
  BY DEF SignInInv, SignInTypes, FlowTypes, Slip, SetSlip, Unread

(* A wrong code is counted.                                                *)
LEMMA WrongCodeKeeps == ASSUME SignInInv, NEW b \in Browsers, WrongCode(b) PROVE SignInInv'
<1>1. FlowTypes'
  <2>1. PICK slip \in Slip : slip = slips[b]
    BY DEF SignInInv, SignInTypes, FlowTypes
  <2>2. PICK read \in Slip : read = Unread(b)
    BY <2>1 DEF Unread, Slip
  <2>3. [read EXCEPT !.tries = @ + 1] \in Slip
    BY DEF Slip
  <2>4. UNCHANGED flows
    BY DEF WrongCode
  <2>5. PICK new \in Slip : SetSlip(b, new)
    BY <2>2, <2>3 DEF WrongCode
  <2> QED BY <2>4, <2>5, SlipSet
<1>2. MailTypes' /\ mail'.n = mail.n /\ mail'.row = mail.row /\ mail'.since = mail.since
  BY DEF SignInInv, SignInTypes, MailTypes, WrongCode
<1>3. mail.n \in Nat
  BY DEF SignInInv, SignInTypes, MailTypes
<1> QED BY <1>1, <1>2, <1>3, MailOnly DEF WrongCode

(* Confirming a session's identity changes nothing the invariant reads.    *)
LEMMA IdentityConfirmed ==
  ASSUME SignInInv, NEW b \in Browsers, ConfirmIdentity(b), UNCHANGED <<who, jar>>,
         mail' = mail \/ mail' = [mail EXCEPT !.row = FALSE]
  PROVE  SessionTypes' /\ SessionsOwned' /\ CodesSpent' /\ CodesDoNotOutlive' /\ MailTypes'
<1> USE DEF SignInInv, SignInTypes
<1>1. jar[b] \in SessionIds
  BY DEF ConfirmIdentity, SignedIn, SessionTypes
<1>2. websess' = [websess EXCEPT ![jar[b]].recent = TRUE]
  BY DEF ConfirmIdentity
<1>3. SessionTypes'
  BY <1>1, <1>2 DEF SessionTypes, Session
<1>4. \A s \in SessionIds :
        /\ websess'[s].row = websess[s].row /\ websess'[s].account = websess[s].account
        /\ websess'[s].by = websess[s].by /\ websess'[s].code = websess[s].code
        /\ websess'[s].since = websess[s].since /\ websess'[s].made = websess[s].made
        /\ s # jar[b] => websess'[s] = websess[s]
  BY <1>1, <1>2 DEF SessionTypes, Session
<1>5. websess[jar[b]].made
  BY <1>1 DEF ConfirmIdentity, SignedIn, CodesSpent, NoSession
<1>6. SessionsOwned' /\ CodesDoNotOutlive'
  BY <1>4 DEF SessionsOwned, CodesDoNotOutlive
<1>7. MailTypes' /\ mail'.n = mail.n /\ (mail'.row => mail.row)
  BY DEF MailTypes
<1>8. CodesSpent'
  BY <1>4, <1>5, <1>7 DEF CodesSpent
<1> QED BY <1>3, <1>6, <1>7, <1>8

(* A session proves itself again with a code.                              *)
LEMMA ReauthenticateKeeps ==
  ASSUME SignInInv, NEW b \in Browsers, ReauthenticateEmail(b) PROVE SignInInv'
<1>1. FlowTypes'
  BY SlipRead DEF ReauthenticateEmail
<1>2. CASE Valid(b)
  <2>1. /\ ConfirmIdentity(b) /\ mail' = [mail EXCEPT !.row = FALSE]
        /\ UNCHANGED <<who, born, methods, jar>>
    BY <1>2 DEF ReauthenticateEmail
  <2>2. SessionTypes' /\ SessionsOwned' /\ CodesSpent' /\ CodesDoNotOutlive' /\ MailTypes'
    BY <2>1, IdentityConfirmed
  <2>3. AccountTypes' /\ OneAccount' /\ ~mail'.row
    BY <2>1 DEF SignInInv, SignInTypes, AccountTypes, OneAccount, MailTypes
  <2> QED BY <1>1, <2>2, <2>3 DEF SignInInv, SignInTypes, MailDated
<1>3. CASE ~Valid(b)
  BY <1>1, <1>3, FlowsOnly DEF ReauthenticateEmail
<1> QED BY <1>2, <1>3

(* A code that is right signs in, creating the account if there is none.   *)
LEMMA VerifyEmailKeeps == ASSUME SignInInv, NEW b \in Browsers, VerifyEmail(b) PROVE SignInInv'
<1>1. FlowTypes'
  BY SlipRead DEF VerifyEmail
<1>2. CASE UNCHANGED <<who, born, methods, websess, jar, mail>>
  BY <1>1, <1>2, FlowsOnly
<1>3. CASE ~UNCHANGED <<who, born, methods, websess, jar, mail>>
  <2>1. /\ Valid(b) /\ mail' = [mail EXCEPT !.row = FALSE]
        /\ born' = (IF who = 0 THEN born + 1 ELSE born)
        /\ who' = (IF who = 0 THEN born + 1 ELSE who)
        /\ methods' = [methods EXCEPT !["email"] = "active"]
        /\ CreateSession(b, who', "email", mail.n, mail.since)
    BY <1>3 DEF VerifyEmail
  <2>2. AccountTypes' /\ OneAccount'
    BY <2>1 DEF SignInInv, SignInTypes, AccountTypes, OneAccount, Kinds
  <2>3. MailTypes' /\ mail'.n = mail.n /\ ~mail'.row /\ mail.n \in Nat /\ mail.since \in Nat
    BY <2>1 DEF SignInInv, SignInTypes, MailTypes
  <2>4. mail.row /\ mail.since = Deleted
    BY <2>1 DEF Valid, SignInInv, MailDated
  <2>5. /\ who' \in Nat \ {0} /\ who' = mail.since + 1
        /\ \A s \in SessionIds : websess[s].row => who' = websess[s].account
    BY <2>1, <2>4 DEF SignInInv, SignInTypes, AccountTypes, OneAccount, SessionsOwned, Deleted
  <2>6. PICK account \in Nat \ {0} : account = who'
    BY <2>5
  <2>7. SessionTypes' /\ SessionsOwned' /\ CodesSpent' /\ CodesDoNotOutlive'
    BY <2>1, <2>3, <2>4, <2>5, <2>6, SessionCreated
  <2> QED BY <1>1, <2>2, <2>3, <2>7 DEF SignInInv, SignInTypes, MailDated
<1> QED BY <1>2, <1>3

(* Starting, answering and ending a flow.                                  *)
LEMMA FlowsTyped ==
  ASSUME SignInInv, NEW b \in Browsers
  PROVE  /\ NoFlow \in Flow /\ flows[b] \in Flow
         /\ [flows[b] EXCEPT !.pc = "verified"] \in Flow
         /\ jar[b] \in {0} \cup SessionIds
         /\ Confirmed(b) => /\ jar[b] \in SessionIds /\ websess[jar[b]].account \in Nat
                            /\ websess[jar[b]].row /\ who # 0
<1>1. flows[b] \in Flow /\ jar[b] \in {0} \cup SessionIds
  BY DEF SignInInv, SignInTypes, FlowTypes, SessionTypes
<1>2. NoFlow \in Flow /\ [flows[b] EXCEPT !.pc = "verified"] \in Flow
  BY <1>1 DEF NoFlow, Flow
<1>3. ASSUME Confirmed(b)
      PROVE  /\ jar[b] \in SessionIds /\ websess[jar[b]].account \in Nat
             /\ websess[jar[b]].row /\ who # 0
  BY <1>1, <1>3 DEF Confirmed, SignedIn, SignInInv, SignInTypes, SessionTypes, Session,
                    SessionsOwned
<1> QED BY <1>1, <1>2, <1>3

(* A browser is sent to an identity provider.                              *)
LEMMA OAuthStartKeeps ==
  ASSUME SignInInv, NEW b \in Browsers, NEW kind \in {"web", "native", "google"},
         OAuthStart(b, kind)
  PROVE  SignInInv'
<1>1. [NoFlow EXCEPT !.pc = "asked", !.kind = kind] \in Flow
  BY DEF NoFlow, Flow
<1>2. ASSUME Confirmed(b)
      PROVE  [NoFlow EXCEPT !.pc = "asked", !.kind = kind,
                            !.link = websess[jar[b]].account, !.session = jar[b]] \in Flow
  BY <1>2, FlowsTyped DEF NoFlow, Flow
<1>3. FlowTypes'
  BY <1>1, <1>2, FlowSet DEF OAuthStart
<1> QED BY <1>3, FlowsOnly DEF OAuthStart

(* The identity provider answers.                                          *)
LEMMA FlowAnsweredKeeps ==
  ASSUME SignInInv, NEW b \in Browsers, Callback(b) \/ GoogleCredential(b) \/ FlowEnds(b)
  PROVE  SignInInv'
<1>1. FlowTypes'
  BY FlowsTyped, FlowSet DEF Callback, GoogleCredential, FlowEnds
<1> QED BY <1>1, FlowsOnly DEF Callback, GoogleCredential, FlowEnds

(* A flow starts without touching accounts, sessions or codes.             *)
LEMMA StartsKeep ==
  ASSUME SignInInv, NEW b \in Browsers, RegisterStart(b) \/ LoginStart(b) PROVE SignInInv'
<1>1. ASSUME Confirmed(b)
      PROVE  [NoFlow EXCEPT !.pc = "registering", !.session = jar[b],
                            !.link = websess[jar[b]].account] \in Flow
  BY <1>1, FlowsTyped DEF NoFlow, Flow
<1>2. [NoFlow EXCEPT !.pc = "passkey", !.ready = who, !.session = jar[b]] \in Flow
  <2>1. who \in Nat /\ jar[b] \in {0} \cup SessionIds
    BY FlowsTyped DEF SignInInv, SignInTypes, AccountTypes
  <2> QED BY <2>1 DEF NoFlow, Flow
<1>3. FlowTypes'
  BY <1>1, <1>2, FlowSet DEF RegisterStart, LoginStart
<1> QED BY <1>3, FlowsOnly DEF RegisterStart, LoginStart

(* An identity of a provider signs in, or waits for the application.       *)
LEMMA CompleteIdentityKeeps ==
  ASSUME SignInInv, NEW b \in Browsers, CompleteIdentity(b) PROVE SignInInv'
<1>1. UNCHANGED <<mail, slips>>
  BY DEF CompleteIdentity
<1>2. MailTypes'
  BY <1>1 DEF SignInInv, SignInTypes, MailTypes
<1>3. CASE SetFlow(b, NoFlow) /\ UNCHANGED <<who, born, methods, websess, jar>>
  BY <1>1, <1>3, FlowsTyped, FlowSet, FlowsOnly
<1>4. ASSUME /\ born' = (IF who = 0 THEN born + 1 ELSE born)
             /\ who' = (IF who = 0 THEN born + 1 ELSE who)
             /\ methods' = [methods EXCEPT !["oauth"] = "active"]
             /\ \/ /\ SetFlow(b, [flows[b] EXCEPT !.pc = "ready", !.ready = who'])
                   /\ UNCHANGED <<websess, jar>>
                \/ CreateSession(b, who', "oauth", 0, 0) /\ SetFlow(b, NoFlow)
      PROVE  SignInInv'
  <2>1. /\ AccountTypes' /\ OneAccount' /\ who' \in Nat \ {0}
        /\ \A s \in SessionIds : websess[s].row => who' = websess[s].account
    BY <1>4 DEF SignInInv, SignInTypes, AccountTypes, OneAccount, SessionsOwned, Kinds
  <2>2. MailDated'
    BY <1>1, <1>4 DEF SignInInv, SignInTypes, AccountTypes, OneAccount, MailDated, Deleted
  <2>3. PICK account \in Nat \ {0} : account = who'
    BY <2>1
  <2>4. CASE /\ SetFlow(b, [flows[b] EXCEPT !.pc = "ready", !.ready = who'])
             /\ UNCHANGED <<websess, jar>>
    <3>1. [flows[b] EXCEPT !.pc = "ready", !.ready = account] \in Flow
      BY FlowsTyped DEF Flow
    <3>2. FlowTypes'
      BY <1>1, <2>3, <2>4, <3>1, FlowSet
    <3>3. SessionTypes' /\ SessionsOwned' /\ CodesSpent' /\ CodesDoNotOutlive'
      BY <1>1, <2>1, <2>4 DEF SignInInv, SignInTypes, SessionTypes, SessionsOwned, CodesSpent,
                              CodesDoNotOutlive
    <3> QED BY <1>2, <2>1, <2>2, <3>2, <3>3 DEF SignInInv, SignInTypes
  <2>5. CASE CreateSession(b, who', "oauth", 0, 0) /\ SetFlow(b, NoFlow)
    <3>1. FlowTypes'
      BY <1>1, <2>5, FlowsTyped, FlowSet
    <3>2. SessionTypes' /\ SessionsOwned' /\ CodesSpent' /\ CodesDoNotOutlive'
      BY <1>1, <2>1, <2>3, <2>5, SessionCreated
    <3> QED BY <1>2, <2>1, <2>2, <3>1, <3>2 DEF SignInInv, SignInTypes
  <2> QED BY <1>4, <2>4, <2>5
<1> QED BY <1>3, <1>4 DEF CompleteIdentity

(* Steps that sign in to the account that exists, or confirm its session.  *)
LEMMA SessionAdded ==
  ASSUME SignInInv, NEW b \in Browsers, NEW by \in {"oauth", "passkey"},
         CreateSession(b, who, by, 0, 0), who # 0, UNCHANGED <<who, born, methods, mail>>,
         FlowTypes'
  PROVE  SignInInv'
<1>1. who \in Nat \ {0} /\ \A s \in SessionIds : websess[s].row => who = websess[s].account
  BY DEF SignInInv, SignInTypes, AccountTypes, SessionsOwned
<1>2. PICK account \in Nat \ {0} : account = who
  BY <1>1
<1>3. SessionTypes' /\ SessionsOwned' /\ CodesSpent' /\ CodesDoNotOutlive'
  BY <1>1, <1>2, SessionCreated
<1>4. AccountTypes' /\ MailTypes' /\ OneAccount' /\ MailDated'
  BY DEF SignInInv, SignInTypes, AccountTypes, MailTypes, OneAccount, MailDated, Deleted
<1> QED BY <1>3, <1>4 DEF SignInInv, SignInTypes

(* A native client finishes its flow.                                      *)
LEMMA NativeFinishKeeps == ASSUME SignInInv, NEW b \in Browsers, NativeFinish(b) PROVE SignInInv'
<1>1. FlowTypes'
  BY FlowsTyped, FlowSet DEF NativeFinish
<1>2. who # 0 /\ flows[b].ready = who
  BY DEF NativeFinish, StillMethod, SignInInv, OneAccount, Kinds
<1> QED BY <1>1, <1>2, SessionAdded DEF NativeFinish

(* A flow ends in a session.                                               *)
LEMMA CompleteLoginKeeps == ASSUME SignInInv, NEW b \in Browsers, CompleteLogin(b) PROVE SignInInv'
<1>1. FlowTypes'
  BY FlowsTyped, FlowSet DEF CompleteLogin
<1>2. CASE UNCHANGED <<websess, jar>>
  BY <1>1, <1>2, FlowsOnly DEF CompleteLogin
<1>3. CASE methods["passkey"] = "active" /\ CreateSession(b, who, "passkey", 0, 0)
  <2>1. who # 0
    BY <1>3 DEF SignInInv, OneAccount, Kinds
  <2> QED BY <1>1, <1>3, <2>1, SessionAdded DEF CompleteLogin
<1>4. CASE ConfirmIdentity(b) /\ UNCHANGED jar
  <2>1. UNCHANGED <<who, born, methods, mail>>
    BY DEF CompleteLogin
  <2>2. SessionTypes' /\ SessionsOwned' /\ CodesSpent' /\ CodesDoNotOutlive' /\ MailTypes'
    BY <1>4, <2>1, IdentityConfirmed
  <2>3. AccountTypes' /\ OneAccount' /\ MailDated'
    BY <2>1 DEF SignInInv, SignInTypes, AccountTypes, OneAccount, MailDated, Deleted
  <2> QED BY <1>1, <2>2, <2>3 DEF SignInInv, SignInTypes
<1> QED BY <1>2, <1>3, <1>4 DEF CompleteLogin

(* The methods change, and one that signs in remains.                      *)
LEMMA MethodsOnly ==
  ASSUME SignInInv, UNCHANGED <<who, born, websess, jar, mail>>, FlowTypes',
         methods' \in [Kinds -> {"none", "active", "removed"}], who # 0,
         \E k \in Kinds : methods'[k] = "active"
  PROVE  SignInInv'
<1>1. AccountTypes' /\ OneAccount'
  BY DEF SignInInv, SignInTypes, AccountTypes, OneAccount
<1>2. SessionTypes' /\ MailTypes' /\ SessionsOwned' /\ MailDated' /\ CodesSpent'
      /\ CodesDoNotOutlive'
  BY DEF SignInInv, SignInTypes, SessionTypes, MailTypes, SessionsOwned, MailDated, Deleted,
         CodesSpent, CodesDoNotOutlive
<1> QED BY <1>1, <1>2 DEF SignInInv, SignInTypes

(* A passkey is registered.                                                *)
LEMMA RegisterFinishKeeps ==
  ASSUME SignInInv, NEW b \in Browsers, RegisterFinish(b) PROVE SignInInv'
<1>1. FlowTypes'
  BY FlowsTyped, FlowSet DEF RegisterFinish
<1>2. CASE methods' = methods
  BY <1>1, <1>2, FlowsOnly DEF RegisterFinish
<1>3. CASE Confirmed(b) /\ methods' = [methods EXCEPT !["passkey"] = "active"]
  <2>1. who # 0
    BY <1>3, FlowsTyped
  <2>2. /\ methods' \in [Kinds -> {"none", "active", "removed"}]
        /\ \E k \in Kinds : methods'[k] = "active"
    BY <1>3 DEF SignInInv, SignInTypes, AccountTypes, Kinds
  <2> QED BY <1>1, <2>1, <2>2, MethodsOnly DEF RegisterFinish
<1> QED BY <1>2, <1>3 DEF RegisterFinish

(* A method of signing in is removed.                                      *)
LEMMA RemoveMethodKeeps ==
  ASSUME SignInInv, NEW b \in Browsers, NEW k \in Kinds, RemoveMethod(b, k) PROVE SignInInv'
<1>1. UNCHANGED <<who, born, websess, jar, mail, slips, flows>>
  BY DEF RemoveMethod
<1>2. who # 0
  BY FlowsTyped DEF RemoveMethod
<1>3. PICK other \in Kinds \ {k} : methods[other] = "active"
  <2>1. k \in Remaining
    BY DEF RemoveMethod, Remaining
  <2>2. Remaining # {k}
    BY FS_Singleton DEF RemoveMethod
  <2> QED BY <2>1, <2>2 DEF Remaining
<1>4. /\ methods' \in [Kinds -> {"none", "active", "removed"}]
      /\ methods'[other] = "active"
  BY <1>3 DEF RemoveMethod, SignInInv, SignInTypes, AccountTypes
<1>5. FlowTypes'
  BY <1>1 DEF SignInInv, SignInTypes, FlowTypes
<1> QED BY <1>1, <1>2, <1>3, <1>4, <1>5, MethodsOnly

(* A session ends, or its proof ages.                                      *)
LEMMA SessionChangesKeep ==
  ASSUME SignInInv, NEW s \in SessionIds, SessionEnds(s) \/ ProofAges(s) PROVE SignInInv'
<1> USE DEF SignInInv, SignInTypes
<1>1. UNCHANGED <<who, born, methods, mail, slips, flows>>
  BY DEF SessionEnds, ProofAges
<1>2. /\ websess[s].row
      /\ \/ websess' = [websess EXCEPT ![s].row = FALSE]
         \/ websess' = [websess EXCEPT ![s].recent = FALSE]
  BY DEF SessionEnds, ProofAges
<1>3. jar' \in [Browsers -> {0} \cup SessionIds]
  <2>1. jar \in [Browsers -> {0} \cup SessionIds]
    BY DEF SessionTypes
  <2>2. [b \in Browsers |-> IF jar[b] = s THEN 0 ELSE jar[b]]
           \in [Browsers -> {0} \cup SessionIds]
    BY <2>1
  <2> QED BY <2>1, <2>2 DEF SessionEnds, ProofAges
<1>4. websess' \in [SessionIds -> Session]
  <2>1. websess \in [SessionIds -> Session]
    BY DEF SessionTypes
  <2>2. /\ [websess[s] EXCEPT !.row = FALSE] \in Session
        /\ [websess[s] EXCEPT !.recent = FALSE] \in Session
    BY <2>1 DEF Session
  <2> QED BY <1>2, <2>1, <2>2
<1>5. \A u \in SessionIds :
        /\ websess'[u].row => websess[u].row
        /\ websess'[u].account = websess[u].account
        /\ websess'[u].by = websess[u].by /\ websess'[u].code = websess[u].code
        /\ websess'[u].since = websess[u].since /\ websess'[u].made = websess[u].made
        /\ u # s => websess'[u] = websess[u]
  BY <1>2 DEF SessionTypes, Session
<1>6. websess[s].made
  BY <1>2 DEF CodesSpent, NoSession
<1>7. SessionsOwned' /\ CodesDoNotOutlive'
  BY <1>1, <1>5 DEF SessionsOwned, CodesDoNotOutlive
<1>8. CodesSpent'
  BY <1>1, <1>5, <1>6 DEF CodesSpent
<1>9. AccountTypes' /\ MailTypes' /\ FlowTypes' /\ OneAccount' /\ MailDated'
  BY <1>1 DEF AccountTypes, MailTypes, FlowTypes, OneAccount, MailDated, Deleted
<1> QED BY <1>3, <1>4, <1>7, <1>8, <1>9 DEF SessionTypes

(* The account is deleted with all its rows.                               *)
LEMMA DeleteAccountKeeps ==
  ASSUME SignInInv, NEW b \in Browsers, DeleteAccountOf(b) PROVE SignInInv'
<1> USE DEF SignInInv, SignInTypes
<1>1. /\ who' = 0 /\ born' = born /\ slips' = slips
      /\ methods' = [k \in Kinds |-> "none"]
      /\ websess' = [s \in SessionIds |-> [websess[s] EXCEPT !.row = FALSE]]
      /\ jar' = [jar EXCEPT ![b] = 0]
      /\ mail' = [mail EXCEPT !.row = FALSE]
  BY DEF DeleteAccountOf
<1>2. AccountTypes' /\ OneAccount'
  BY <1>1 DEF AccountTypes, OneAccount
<1>3. SessionTypes'
  BY <1>1 DEF SessionTypes, Session
<1>4. MailTypes' /\ MailDated' /\ mail'.n = mail.n /\ ~mail'.row
  BY <1>1 DEF MailTypes, MailDated
<1>5. flows' \in [Browsers -> Flow]
  <2>1. \A c \in Browsers : NoFlow \in Flow /\ flows[c] \in Flow
    BY FlowsTyped
  <2> QED BY <2>1 DEF DeleteAccountOf
<1>6. FlowTypes'
  BY <1>1, <1>5 DEF FlowTypes
<1>7. \A s \in SessionIds :
        /\ websess'[s].row = FALSE
        /\ websess'[s].account = websess[s].account
        /\ websess'[s].by = websess[s].by /\ websess'[s].code = websess[s].code
        /\ websess'[s].since = websess[s].since /\ websess'[s].made = websess[s].made
        /\ websess[s] = NoSession => websess'[s] = NoSession
  <2> TAKE s \in SessionIds
  <2>1. websess'[s] = [websess[s] EXCEPT !.row = FALSE] /\ websess[s] \in Session
    BY <1>1 DEF SessionTypes
  <2>2. websess[s] = NoSession => websess'[s] = NoSession
    <3>1. \A x \in Session : x.row = FALSE => [x EXCEPT !.row = FALSE] = x
      BY DEF Session
    <3>2. NoSession.row = FALSE
      BY DEF NoSession
    <3> QED BY <2>1, <3>1, <3>2
  <2> QED BY <2>1, <2>2 DEF Session
<1>8. SessionsOwned' /\ CodesDoNotOutlive'
  BY <1>7 DEF SessionsOwned, CodesDoNotOutlive
<1>9. CodesSpent'
  BY <1>4, <1>7 DEF CodesSpent
<1> QED BY <1>2, <1>3, <1>4, <1>6, <1>8, <1>9

(* The invariant holds initially: one account, no session.                 *)
LEMMA SignInStarts == ASSUME SignInInit PROVE SignInInv
<1> USE DEF SignInInit
<1>1. AccountTypes /\ OneAccount
  BY DEF AccountTypes, OneAccount, Kinds
<1>2. SessionTypes /\ SessionsOwned /\ CodesDoNotOutlive
  BY DEF SessionTypes, Session, SessionsOwned, CodesDoNotOutlive, NoSession
<1>3. MailTypes /\ MailDated
  BY DEF MailTypes, MailDated, NoMail
<1>4. FlowTypes
  BY DEF FlowTypes, Slip, Flow, NoSlip, NoFlow
<1>5. CodesSpent
  BY DEF CodesSpent, NoSession
<1> QED BY <1>1, <1>2, <1>3, <1>4, <1>5 DEF SignInInv, SignInTypes

(* Every step of the beacon keeps the invariant.                           *)
LEMMA SignInStep == ASSUME SignInInv, [SignInNext]_signInVars PROVE SignInInv'
<1>1. CASE UNCHANGED signInVars
  <2>1. FlowTypes'
    BY <1>1 DEF signInVars, SignInInv, SignInTypes, FlowTypes
  <2> QED BY <1>1, <2>1, FlowsOnly DEF signInVars
<1>2. CASE CodeExpires
  BY <1>2, CodeExpiresKeeps
<1>3. ASSUME NEW b \in Browsers,
             \/ RequestCode(b) \/ MailCode(b) \/ ReadAddress(b)
             \/ WrongCode(b) \/ ReauthenticateEmail(b) \/ VerifyEmail(b)
             \/ \E kind \in {"web", "native", "google"} : OAuthStart(b, kind)
             \/ Callback(b) \/ GoogleCredential(b) \/ CompleteIdentity(b)
             \/ NativeFinish(b) \/ FlowEnds(b)
             \/ RegisterStart(b) \/ RegisterFinish(b) \/ LoginStart(b) \/ CompleteLogin(b)
             \/ \E k \in Kinds : RemoveMethod(b, k)
             \/ DeleteAccountOf(b)
      PROVE  SignInInv'
  BY <1>3, RequestCodeKeeps, MailCodeKeeps, ReadAddressKeeps, WrongCodeKeeps,
     ReauthenticateKeeps, VerifyEmailKeeps, OAuthStartKeeps, FlowAnsweredKeeps,
     CompleteIdentityKeeps, NativeFinishKeeps, StartsKeep, RegisterFinishKeeps,
     CompleteLoginKeeps, RemoveMethodKeeps, DeleteAccountKeeps
<1>4. CASE \E s \in SessionIds : SessionEnds(s) \/ ProofAges(s)
  BY <1>4, SessionChangesKeep
<1> QED BY <1>1, <1>2, <1>3, <1>4 DEF SignInNext

(* However codes, flows, removals and deletions cross each other, no code  *)
(* outlives the account it was sent for, and the account keeps a method    *)
(* that signs in.                                                          *)
THEOREM SigningInSound == SignInInit /\ [][SignInNext]_signInVars => []SignInSound
<1>1. SignInInit => SignInInv
  BY SignInStarts
<1>2. SignInInv /\ [SignInNext]_signInVars => SignInInv'
  BY SignInStep
<1>3. SignInInv => SignInSound
  BY DEF SignInInv, SignInSound, AccountReachable, OneAccount, SessionsOwned
<1> QED BY <1>1, <1>2, <1>3, PTL
=============================================================================
