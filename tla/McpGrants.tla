----------------------------- MODULE McpGrants -----------------------------
(***************************************************************************)
(* The beacon's authorization server for MCP clients                       *)
(* (crates/beacon/src/mcp.rs): registration, consent, codes, grants and    *)
(* rotating refresh tokens, with what ends them from outside: maintenance  *)
(* (lib.rs cleanup_expired), detachment (installations.rs detach_on) and   *)
(* account deletion (account.rs delete_access).  Requests that use an      *)
(* access token pass relay.rs mcp, within an allowance per grant.          *)
(*                                                                         *)
(* One installation.  Each transaction takes its row locks before it       *)
(* decides and is one step; what it read before its locks is a step of its *)
(* own.  A client may present again anything it was ever given, which also *)
(* is the retry after a lost answer.  Rows keep their identity after they  *)
(* are deleted (row = FALSE), so that a credential can be followed.        *)
(* Scopes, PKCE and redirect URIs are data.                                *)
(***************************************************************************)
EXTENDS Naturals, FiniteSets

CONSTANTS Owners,       \* accounts that may own the installation
          Clients,      \* registrations of MCP clients
          McpCalls,     \* requests to /mcp
          GrantSlots,   \* MAX_MCP_PER_GRANT
          MaxCodes,     \* bound: codes and personal tokens
          MaxTokens,    \* bound: tokens
          MaxPeriods    \* bound: times the installation is claimed

ASSUME McpAssumption ==
    /\ GrantSlots \in Nat \ {0} /\ {MaxCodes, MaxTokens, MaxPeriods} \subseteq Nat
    /\ "none" \notin Owners \cup Clients

VARIABLES
    owner,      \* installations.owner_id, or "none"
    period,     \* how often the installation has been claimed
    accounts,   \* accounts that exist
    clients,    \* mcp_clients
    codes,      \* mcp_codes, in the order of their creation
    grants,     \* mcp_grants; grant n comes from code n, or is personal
    tokens,     \* mcp_tokens, in the order of their creation
    consent,    \* consents under way: the client each has read
    cleanup,    \* cleanup_expired: the clients it picked
    mcpCalls    \* the requests in flight

mcpVars == <<owner, period, accounts, clients, codes, grants, tokens, consent, cleanup, mcpCalls>>

CodeIds == 1..MaxCodes
TokenIds == 1..MaxTokens

NoCode == [made |-> FALSE, row |-> FALSE, account |-> "none", client |-> "none",
           period |-> 0, expired |-> FALSE]
NoGrant == [made |-> FALSE, row |-> FALSE, account |-> "none", client |-> "none",
            period |-> 0, expired |-> FALSE]
NoToken == [row |-> FALSE, grant |-> 0, kind |-> "none", used |-> FALSE, expired |-> FALSE]
NoMcpCall == [pc |-> "idle", token |-> 0, grant |-> 0]

McpInit ==
    /\ owner \in Owners
    /\ period = 1
    /\ accounts = Owners
    /\ clients = [c \in Clients |-> [row |-> FALSE, made |-> FALSE, old |-> FALSE]]
    /\ codes = [n \in CodeIds |-> NoCode]
    /\ grants = [n \in CodeIds |-> NoGrant]
    /\ tokens = [t \in TokenIds |-> NoToken]
    /\ consent = "none"
    /\ cleanup = [pc |-> "idle", picked |-> {}]
    /\ mcpCalls = [r \in McpCalls |-> NoMcpCall]

Owned(x) == x.row /\ x.account = owner
NextCode == {n \in CodeIds : ~codes[n].made /\ ~grants[n].made
                             /\ \A m \in 1..(n - 1) : codes[m].made \/ grants[m].made}
NextToken == {t \in TokenIds : tokens[t].grant = 0 /\ \A u \in 1..(t - 1) : tokens[u].grant # 0}
TokensOf(g) == {t \in TokenIds : tokens[t].grant = g}
Refreshes(g) == {t \in TokensOf(g) : tokens[t].kind = "refresh"}

\* The queries of access() and of exchange_tokens.
Authorizes(t) == /\ tokens[t].row /\ tokens[t].kind = "access" /\ ~tokens[t].used
                 /\ ~tokens[t].expired
                 /\ Owned(grants[tokens[t].grant]) /\ ~grants[tokens[t].grant].expired
Redeemable(n) == Owned(codes[n]) /\ ~grants[n].made /\ ~codes[n].expired
Refreshable(t) == /\ tokens[t].row /\ tokens[t].kind = "refresh" /\ ~tokens[t].expired
                  /\ Owned(grants[tokens[t].grant]) /\ ~grants[tokens[t].grant].expired

(***************************************************************************)
(* Deleting a grant cascades to its tokens and its consumed code.          *)
(***************************************************************************)
Without(gone) ==
    /\ grants' = [n \in CodeIds |-> IF n \in gone THEN [grants[n] EXCEPT !.row = FALSE] ELSE grants[n]]
    /\ tokens' = [t \in TokenIds |-> IF tokens[t].grant \in gone
                                      THEN [tokens[t] EXCEPT !.row = FALSE] ELSE tokens[t]]

CodesWithout(gone) ==
    codes' = [n \in CodeIds |-> IF n \in gone THEN [codes[n] EXCEPT !.row = FALSE] ELSE codes[n]]

EndGrants(gone) == Without(gone) /\ CodesWithout(gone)

NewToken(g, kind) == [row |-> TRUE, grant |-> g, kind |-> kind, used |-> FALSE, expired |-> FALSE]

\* The pair of tokens every exchange ends with; a personal grant has one.
AddTokens(g, kinds, used) ==
    \E t \in NextToken :
        /\ t + Cardinality(kinds) - 1 <= MaxTokens
        /\ tokens' = [u \in TokenIds |->
              IF u = t THEN NewToken(g, "access")
              ELSE IF u = t + 1 /\ "refresh" \in kinds THEN NewToken(g, "refresh")
              ELSE IF u \in used THEN [tokens[u] EXCEPT !.used = TRUE]
              ELSE tokens[u]]

Create(n, account, client, since) ==
    grants' = [grants EXCEPT ![n] = [made |-> TRUE, row |-> TRUE, account |-> account,
                                     client |-> client, period |-> since, expired |-> FALSE]]

\* FOR UPDATE on a picked client makes a key reference to it wait.
ClientFree(c) == ~(cleanup.pc = "locked" /\ c \in cleanup.picked)

(***************************************************************************)
(* The owner's requests.                                                   *)
(***************************************************************************)
Personal ==
    /\ owner \in accounts
    /\ \E n \in NextCode : Create(n, owner, "none", period) /\ AddTokens(n, {"access"}, {})
    /\ UNCHANGED <<owner, period, accounts, clients, codes, consent, cleanup, mcpCalls>>

RevokeGrant(n) ==
    /\ Owned(grants[n])
    /\ EndGrants({n})
    /\ UNCHANGED <<owner, period, accounts, clients, consent, cleanup, mcpCalls>>

\* authorization() reads the client before consent opens its transaction.
ReadClient(c) ==
    /\ consent = "none" /\ clients[c].row
    /\ consent' = c
    /\ UNCHANGED <<owner, period, accounts, clients, codes, grants, tokens, cleanup, mcpCalls>>

Consent ==
    /\ consent # "none" /\ consent' = "none"
    /\ ClientFree(consent)
    /\ \/ /\ owner \in accounts /\ clients[consent].row
          /\ \E n \in NextCode :
                codes' = [m \in CodeIds |->
                    IF m = n THEN [made |-> TRUE, row |-> TRUE, account |-> owner,
                                   client |-> consent, period |-> period, expired |-> FALSE]
                    ELSE IF codes[m].expired /\ ~grants[m].made
                         THEN [codes[m] EXCEPT !.row = FALSE] ELSE codes[m]]
       \/ codes' = codes     \* refused, denied, or the client is gone
    /\ UNCHANGED <<owner, period, accounts, clients, grants, tokens, cleanup, mcpCalls>>

(***************************************************************************)
(* The client's requests.                                                  *)
(***************************************************************************)
RegisterClient(c) ==
    /\ ~clients[c].made
    /\ clients' = [clients EXCEPT ![c] = [row |-> TRUE, made |-> TRUE, old |-> FALSE]]
    /\ UNCHANGED <<owner, period, accounts, codes, grants, tokens, consent, cleanup, mcpCalls>>

Redeem(n) ==
    /\ Redeemable(n) /\ ClientFree(codes[n].client)
    /\ Create(n, codes[n].account, codes[n].client, codes[n].period)
    /\ AddTokens(n, {"access", "refresh"}, {})
    /\ UNCHANGED <<owner, period, accounts, clients, codes, consent, cleanup, mcpCalls>>

RedeemAgain(n) ==
    /\ Owned(codes[n]) /\ grants[n].row
    /\ EndGrants({n})
    /\ UNCHANGED <<owner, period, accounts, clients, consent, cleanup, mcpCalls>>

Refresh(t) ==
    /\ Refreshable(t)
    /\ LET g == tokens[t].grant IN
       IF tokens[t].used THEN EndGrants({g})
       ELSE AddTokens(g, {"access", "refresh"}, {t}) /\ UNCHANGED <<codes, grants>>
    /\ UNCHANGED <<owner, period, accounts, clients, consent, cleanup, mcpCalls>>

RevokeToken(t) ==
    /\ tokens[t].row /\ grants[tokens[t].grant].client # "none"
    /\ EndGrants({tokens[t].grant})
    /\ UNCHANGED <<owner, period, accounts, clients, consent, cleanup, mcpCalls>>

(***************************************************************************)
(* Requests with an access token.  The permit belongs to the grant and is  *)
(* held through the upload and the remote work.                            *)
(***************************************************************************)
InFlight(g) == {r \in McpCalls : mcpCalls[r].pc # "idle" /\ mcpCalls[r].grant = g}

HasSlot(t) == Cardinality(InFlight(tokens[t].grant)) < GrantSlots

SetCall(r, new) == mcpCalls' = [mcpCalls EXCEPT ![r] = new]

Handle(r, t) ==
    /\ mcpCalls[r].pc = "idle" /\ Authorizes(t) /\ HasSlot(t)
    /\ SetCall(r, [pc |-> "upload", token |-> t, grant |-> tokens[t].grant])
    /\ UNCHANGED <<owner, period, accounts, clients, codes, grants, tokens, consent, cleanup>>

\* The body is complete (or took too long); the credential is checked again.
Uploaded(r) ==
    /\ mcpCalls[r].pc = "upload"
    /\ \/ Authorizes(mcpCalls[r].token) /\ SetCall(r, [mcpCalls[r] EXCEPT !.pc = "remote"])
       \/ SetCall(r, NoMcpCall)
    /\ UNCHANGED <<owner, period, accounts, clients, codes, grants, tokens, consent, cleanup>>

McpAnswered(r) ==
    /\ mcpCalls[r].pc = "remote"
    /\ SetCall(r, NoMcpCall)
    /\ UNCHANGED <<owner, period, accounts, clients, codes, grants, tokens, consent, cleanup>>

(***************************************************************************)
(* Time, in the order of the intervals: a code and an access token lapse   *)
(* first; the newest refresh token lapses with its grant, whose expiry     *)
(* each refresh renews.                                                    *)
(***************************************************************************)
Newest(t) == \A u \in Refreshes(tokens[t].grant) : u <= t

CodeLapses(n) ==
    /\ codes[n].row /\ ~codes[n].expired
    /\ codes' = [codes EXCEPT ![n].expired = TRUE]
    /\ UNCHANGED <<owner, period, accounts, clients, grants, tokens, consent, cleanup, mcpCalls>>

TokenLapses(t) ==
    /\ tokens[t].row /\ ~tokens[t].expired
    /\ grants[tokens[t].grant].client # "none"
    /\ tokens[t].kind = "refresh" => ~Newest(t)
    /\ tokens' = [tokens EXCEPT ![t].expired = TRUE]
    /\ UNCHANGED <<owner, period, accounts, clients, codes, grants, consent, cleanup, mcpCalls>>

GrantLapses(n) ==
    /\ grants[n].row /\ ~grants[n].expired
    /\ grants' = [grants EXCEPT ![n].expired = TRUE]
    /\ tokens' = [t \in TokenIds |-> IF tokens[t].grant = n
                                      THEN [tokens[t] EXCEPT !.expired = TRUE] ELSE tokens[t]]
    /\ UNCHANGED <<owner, period, accounts, clients, codes, consent, cleanup, mcpCalls>>

ClientAges(c) ==
    /\ clients[c].row /\ ~clients[c].old
    /\ clients' = [clients EXCEPT ![c].old = TRUE]
    /\ UNCHANGED <<owner, period, accounts, codes, grants, tokens, consent, cleanup, mcpCalls>>

(***************************************************************************)
(* Maintenance.  The candidates are read, then locked, then deleted: a     *)
(* consent may commit between the first two.                               *)
(***************************************************************************)
Referenced(c) == \/ \E n \in CodeIds : codes[n].row /\ codes[n].client = c
                 \/ \E n \in CodeIds : grants[n].row /\ grants[n].client = c

\* As if maintenance dropped every expired code, consumed or not.
StaleCodesAll == {n \in CodeIds : codes[n].row /\ codes[n].expired}

StaleCodes == {n \in CodeIds : codes[n].row /\ codes[n].expired /\ ~grants[n].made}

CleanupExpired ==
    /\ cleanup.pc = "idle"
    /\ LET lapsed == {n \in CodeIds : grants[n].row /\ grants[n].expired}
           codeRows == StaleCodes \cup lapsed IN
       /\ grants' = [n \in CodeIds |-> IF n \in lapsed THEN [grants[n] EXCEPT !.row = FALSE] ELSE grants[n]]
       /\ tokens' = [t \in TokenIds |-> IF tokens[t].grant # 0 /\ tokens[t].expired
                                         THEN [tokens[t] EXCEPT !.row = FALSE] ELSE tokens[t]]
       /\ CodesWithout(codeRows)
    /\ cleanup' = [pc |-> "picked", picked |->
          {c \in Clients : /\ clients[c].row /\ clients[c].old
                           /\ ~\E n \in CodeIds : codes'[n].row /\ codes'[n].client = c
                           /\ ~\E n \in CodeIds : grants'[n].row /\ grants'[n].client = c}]
    /\ UNCHANGED <<owner, period, accounts, clients, consent, mcpCalls>>

LockClients ==
    /\ cleanup.pc = "picked"
    /\ cleanup' = [cleanup EXCEPT !.pc = "locked"]
    /\ UNCHANGED <<owner, period, accounts, clients, codes, grants, tokens, consent, mcpCalls>>

Unused == {c \in cleanup.picked : ~Referenced(c)}

DeleteClients ==
    /\ cleanup.pc = "locked"
    /\ clients' = [c \in Clients |-> IF c \in Unused THEN [clients[c] EXCEPT !.row = FALSE] ELSE clients[c]]
    /\ cleanup' = [pc |-> "idle", picked |-> {}]
    /\ UNCHANGED <<owner, period, accounts, codes, grants, tokens, consent, mcpCalls>>

(***************************************************************************)
(* Ownership.                                                              *)
(***************************************************************************)
DetachRows == /\ Without({n \in CodeIds : grants[n].row})
              /\ CodesWithout(CodeIds)

Detach ==
    /\ owner # "none"
    /\ owner' = "none"
    /\ DetachRows
    /\ UNCHANGED <<period, accounts, clients, consent, cleanup, mcpCalls>>

DeleteAccount(a) ==
    /\ a \in accounts /\ accounts' = accounts \ {a}
    /\ IF owner = a THEN owner' = "none" /\ DetachRows
       ELSE UNCHANGED <<owner, codes, grants, tokens>>
    /\ UNCHANGED <<period, clients, consent, cleanup, mcpCalls>>

Reclaim(a) ==
    /\ owner = "none" /\ a \in accounts /\ period < MaxPeriods
    /\ owner' = a /\ period' = period + 1
    /\ UNCHANGED <<accounts, clients, codes, grants, tokens, consent, cleanup, mcpCalls>>

McpNext ==
    \/ Personal \/ Consent \/ CleanupExpired \/ LockClients \/ DeleteClients \/ Detach
    \/ \E n \in CodeIds : \/ RevokeGrant(n) \/ Redeem(n) \/ RedeemAgain(n)
                          \/ CodeLapses(n) \/ GrantLapses(n)
    \/ \E c \in Clients : ReadClient(c) \/ RegisterClient(c) \/ ClientAges(c)
    \/ \E t \in TokenIds : Refresh(t) \/ RevokeToken(t) \/ TokenLapses(t)
    \/ \E r \in McpCalls : \/ Uploaded(r) \/ McpAnswered(r)
                           \/ \E t \in TokenIds : Handle(r, t)
    \/ \E a \in Owners : DeleteAccount(a) \/ Reclaim(a)

(***************************************************************************)
(* Properties.                                                             *)
(***************************************************************************)

\* Nothing of a former ownership is accepted any more, also when the same
\* account claims the machine again: every code, access token and refresh
\* token the beacon would take was consented to since the last claim
\* (docs/INSTALLATION-RELAY.md: "reclaiming the same machine never restores
\* its previous MCP credentials").
ReclaimRestoresNothing ==
    /\ \A n \in CodeIds : Redeemable(n) => codes[n].period = period
    /\ \A t \in TokenIds : Authorizes(t) \/ Refreshable(t) => grants[tokens[t].grant].period = period

\* A stolen code or refresh token is noticed: while a grant lives, its
\* consumed code and its unexpired refresh tokens stay recorded, whatever
\* maintenance removes, and never are two of its refresh tokens unused
\* (lib.rs: "must survive maintenance to detect replays").
ReplayDetectable ==
    \A n \in CodeIds : grants[n].row /\ grants[n].client # "none" =>
        /\ codes[n].row
        /\ \A t \in Refreshes(n) : tokens[t].expired \/ tokens[t].row
        /\ Cardinality({t \in Refreshes(n) : tokens[t].row /\ ~tokens[t].used}) <= 1

\* A consent that was given can be used: maintenance never takes the client
\* from under a code or a grant, although it picks its candidates before it
\* holds their locks.
ConsentKeepsClient ==
    \A n \in CodeIds : /\ codes[n].row => clients[codes[n].client].row
                       /\ grants[n].row /\ grants[n].client # "none" => clients[grants[n].client].row

\* A grant's allowance bounds all its requests, of the tokens a refresh
\* replaced too.
GrantBounded == \A n \in CodeIds : Cardinality(InFlight(n)) <= GrantSlots

(* Credentials of MCP clients end when they should and only then: a        *)
(* reclaimed installation restores none, a replayed one is still           *)
(* recognised, a client in use is not collected, and a grant stays within  *)
(* its slots (mcp.rs, lib.rs).                                             *)
McpCredentialsBounded ==
  /\ ReclaimRestoresNothing
  /\ ReplayDetectable
  /\ ConsentKeepsClient
  /\ GrantBounded
=============================================================================
