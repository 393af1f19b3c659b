-------------------------- MODULE AgentCredentials --------------------------
(***************************************************************************)
(* The credentials of one Codex and one Claude account and the redemption  *)
(* of banked Codex resets: accounts/codex.rs and accounts/claude.rs.       *)
(*                                                                         *)
(* The provider rotates credentials: using a version to refresh issues the *)
(* next one and invalidates it.  A Codex session works on a copy of the    *)
(* vault in a manager-only home, where the CLI writes what it rotates; the *)
(* manager captures it back.  Every session and sign-in holds the account  *)
(* lock (module Accounts), so one session is under way at a time, but the  *)
(* manager may crash, and a write to the vault may fail, at any step.      *)
(*                                                                         *)
(* A credential is its version number, 0 for none.  Usage is abstracted to *)
(* one reading: "low" is at most RESET_AT percent left, "restored" more.   *)
(***************************************************************************)
EXTENDS Naturals, FiniteSets

CONSTANTS MaxVersion,   \* bound on credentials the provider issues
          MaxCredits,   \* banked resets the account owns
          MaxKeys,      \* bound on idempotency keys generated
          MaxMishaps    \* bound on crashes and failed vault writes

ASSUME CredentialConstants ==
    {MaxVersion, MaxCredits, MaxKeys, MaxMishaps} \subseteq Nat

Purposes == {"monitor", "discovery"}
NoAttempt == [key |-> 0, confirmed |-> FALSE]
Readings == {"low", "restored"}

VARIABLES vault,      \* the encrypted vault's copy of auth.json
          homes,      \* auth.json in each manager-only session home
          valid,      \* external: the versions the provider accepts
          lastIssued,     \* external: the last version issued
          session,    \* the session under way
          previous,   \* adopt: the vault's copy before the new sign-in
          ready,      \* whether initialize completed in this process
          exhausted,  \* the record's exhaustion
          enabled,    \* the record is not paused
          reading,    \* the record's last usage reading
          attempt,    \* the persisted reset request
          keys,       \* the last idempotency key generated
          capacity,   \* external: what the next usage reading shows
          credits,    \* external: banked resets left
          redeemed,   \* external: the keys the provider has honoured
          unshown,    \* history: resets spent since capacity was last shown
          claude,     \* the Claude account: its record, its private home, and the
                      \* adoption or rotation under way
          mishaps,    \* crashes and failed writes so far
          exposed     \* history: a sign-in was rolled back, or two homes overlapped

credentialVars == <<vault, homes, valid, lastIssued, session, previous, ready>>
resetVars == <<exhausted, enabled, reading, attempt, keys, capacity, credits, redeemed, unshown>>
agentVars == <<credentialVars, resetVars, claude, mishaps, exposed>>

NoSession == [purpose |-> "monitor", why |-> "none", step |-> "idle", failed |-> FALSE,
              confirmed |-> FALSE]

CredentialsInit ==
    /\ vault = 1 /\ homes = [p \in Purposes |-> 0]
    /\ valid = {1} /\ lastIssued = 1
    /\ session = NoSession /\ previous = 0 /\ ready = TRUE
    /\ exhausted = FALSE /\ enabled = TRUE /\ reading = "restored"
    /\ attempt = NoAttempt /\ keys = 0
    /\ capacity = "restored" /\ credits = MaxCredits /\ redeemed = {} /\ unshown = 0
    /\ claude = [state |-> "pending", home |-> "none", step |-> "idle"]
    /\ mishaps = 0 /\ exposed = FALSE

Idle == ready /\ session.step = "idle"
Mishap == mishaps < MaxMishaps /\ mishaps' = mishaps + 1
Step(step) == session' = [session EXCEPT !.step = step]

------------------------------------------------------------------------------
(* Sessions.                                                               *)

\* capture: the home's copy becomes the vault's, unless the write fails.
\* Without a copy in the home it fails and changes nothing.
Captured(p) == homes[p] # 0 /\ vault' = homes[p]

\* with_session begins: materialize first recovers what an earlier session
\* left in the home, then copies the vault there.
OpenSession(p, why) ==
    /\ session' = [NoSession EXCEPT !.purpose = p, !.why = why, !.step = "open"]
    /\ IF homes[p] # 0 THEN Captured(p) ELSE UNCHANGED vault
    /\ homes' = [homes EXCEPT ![p] = vault']
    /\ exposed' = (exposed \/ \E q \in Purposes \ {p} : homes[q] # 0)

\* refresh of a poll, model discovery, and the rotation a run asks for.
StartSession ==
    /\ Idle /\ vault # 0
    /\ \E use \in {<<"monitor", "poll">>, <<"discovery", "discover">>, <<"monitor", "rotate">>} :
          OpenSession(use[1], use[2])
    /\ UNCHANGED <<valid, lastIssued, previous, ready, resetVars, claude, mishaps>>

\* materialize cannot save what the home holds: nothing is overwritten.
StartFails ==
    /\ Idle /\ Mishap
    /\ \E p \in Purposes : homes[p] # 0
    /\ UNCHANGED <<credentialVars, resetVars, claude, exposed>>

\* External: the CLI refreshes its login and rewrites auth.json in the home.
CliRotates ==
    /\ session.step = "open" /\ lastIssued < MaxVersion
    /\ homes[session.purpose] \in valid
    /\ lastIssued' = lastIssued + 1
    /\ valid' = (valid \ {homes[session.purpose]}) \cup {lastIssued'}
    /\ homes' = [homes EXCEPT ![session.purpose] = lastIssued']
    /\ UNCHANGED <<vault, session, previous, ready, resetVars, claude, mishaps, exposed>>

\* The operation ends or fails; a poll or an adoption reads usage first.
OperationEnds ==
    /\ session.step = "open"
    /\ \/ session' = [session EXCEPT !.step = "closing", !.failed = TRUE]
       \/ session.why \in {"discover", "rotate"} /\ Step("closing")
    /\ UNCHANGED <<vault, homes, valid, lastIssued, previous, ready, resetVars, claude,
                   mishaps, exposed>>

\* with_session ends: rotated credentials are captured, then the home is
\* removed.  When neither capture succeeds the home is kept.
Close ==
    /\ session.step = "closing"
    /\ IF session.why = "adopt" /\ session.failed
       THEN session' = [session EXCEPT !.step = "restoring"]
       ELSE session' = NoSession
    /\ Captured(session.purpose)
    /\ homes' = [homes EXCEPT ![session.purpose] = 0]
    /\ UNCHANGED <<valid, lastIssued, previous, ready, resetVars, claude, mishaps, exposed>>

CloseFails ==
    /\ session.step = "closing" /\ Mishap
    /\ IF session.why = "adopt"
       THEN session' = [session EXCEPT !.step = "restoring", !.failed = TRUE]
       ELSE session' = NoSession
    /\ UNCHANGED <<vault, homes, valid, lastIssued, previous, ready, resetVars, claude, exposed>>

------------------------------------------------------------------------------
(* Adopting a new Codex sign-in.                                           *)

\* The sign-in captured a login of its own; verification opens a session.
Adopt ==
    /\ Idle /\ lastIssued < MaxVersion
    /\ lastIssued' = lastIssued + 1 /\ valid' = valid \cup {lastIssued'}
    /\ previous' = vault
    /\ session' = [NoSession EXCEPT !.why = "adopt", !.step = "open"]
    /\ vault' = IF homes["monitor"] # 0 THEN homes["monitor"] ELSE lastIssued'
    /\ homes' = [homes EXCEPT !["monitor"] = vault']
    /\ exposed' = (exposed \/ homes["discovery"] # 0)
    /\ UNCHANGED <<ready, resetVars, claude, mishaps>>

\* Verification failed: the previous credentials are put back.
RestorePrevious ==
    /\ session.step = "restoring"
    /\ vault' = previous  /\ previous' = 0
    /\ session' = NoSession
    /\ exposed' = TRUE
    /\ UNCHANGED <<homes, valid, lastIssued, ready, resetVars, claude, mishaps>>

------------------------------------------------------------------------------
(* Usage and banked resets, inside a monitor session.                      *)

Show(shown) ==
    /\ reading' = shown
    /\ unshown' = IF shown = "restored" THEN 0 ELSE unshown

\* read_usage: the reading is stored and replenish may clear exhaustion.
ReadUsage ==
    /\ session.step = "open" /\ session.why \in {"poll", "adopt"}
    /\ Show(capacity)
    /\ exhausted' \in (IF capacity = "restored" THEN {FALSE, exhausted} ELSE {exhausted})
    /\ Step("reset")
    /\ UNCHANGED <<vault, homes, valid, lastIssued, previous, ready, enabled, attempt, keys,
                   capacity, credits, redeemed, claude, mishaps, exposed>>

\* settle: an earlier request whose outcome the reading shows.
Settled == \/ ~exhausted /\ reading = "restored"
           \/ attempt.confirmed

\* reset: settles an earlier request, or redeems one banked reset when the
\* account is exhausted or low, with the persisted key or a new one.
Reset ==
    LET low == exhausted \/ reading = "low"
    IN  /\ session.step = "reset"
        /\ IF attempt # NoAttempt /\ Settled
           THEN /\ attempt' = IF reading = "restored" THEN NoAttempt ELSE attempt
                /\ session' = [session EXCEPT !.step = "save",
                                 !.confirmed = attempt.confirmed /\ reading = "restored"]
                /\ UNCHANGED keys
           ELSE IF ~enabled \/ ~low \/ (attempt = NoAttempt /\ credits = 0)
           THEN Step("save") /\ UNCHANGED <<attempt, keys>>
           ELSE /\ IF attempt # NoAttempt
                   THEN UNCHANGED <<attempt, keys>>
                   ELSE /\ keys < MaxKeys /\ keys' = keys + 1
                        /\ attempt' = [key |-> keys', confirmed |-> FALSE]
                /\ Step("consume")
        /\ UNCHANGED <<vault, homes, valid, lastIssued, previous, ready, exhausted, enabled,
                       reading, capacity, credits, redeemed, unshown, claude, mishaps, exposed>>

\* External: the provider honours a key once; the capacity may lag.
Honour ==
    /\ redeemed' = redeemed \cup {attempt.key}
    /\ IF attempt.key \in redeemed
       THEN UNCHANGED <<credits, unshown, capacity>>
       ELSE /\ credits > 0 /\ credits' = credits - 1
            /\ unshown' = unshown + 1
            /\ capacity' \in {capacity, "restored"}

\* redeem: the answer is Reset or AlreadyRedeemed.
Consume ==
    /\ session.step = "consume"
    /\ Honour
    /\ Step("confirm")
    /\ UNCHANGED <<vault, homes, valid, lastIssued, previous, ready, exhausted,
                   enabled, reading, attempt, keys, claude, mishaps, exposed>>

\* Mutant: a request that was not answered is forgotten.
ConsumeForgotten ==
    /\ session.step = "consume"
    /\ Honour
    /\ attempt' = NoAttempt
    /\ Step("save")
    /\ UNCHANGED <<vault, homes, valid, lastIssued, previous, ready, exhausted, enabled,
                   reading, keys, claude, mishaps, exposed>>

\* The provider honoured the key and the answer was lost.
ConsumeUnanswered ==
    /\ session.step = "consume"
    /\ Honour
    /\ Step("save")
    /\ UNCHANGED <<vault, homes, valid, lastIssued, previous, ready, exhausted, enabled,
                   reading, attempt, keys, claude, mishaps, exposed>>

\* The request fails before the provider, or it answers NothingToReset or
\* NoCredit, which ends the request.
ConsumeRefused ==
    /\ session.step = "consume"
    /\ attempt' \in (IF attempt.key \in redeemed THEN {attempt} ELSE {attempt, NoAttempt})
    /\ Step("save")
    /\ UNCHANGED <<vault, homes, valid, lastIssued, previous, ready, exhausted, enabled,
                   reading, keys, capacity, credits, redeemed, unshown, claude, mishaps, exposed>>

\* The confirmed request is persisted before usage is read again.
Confirm ==
    /\ session.step = "confirm"
    /\ attempt' = [attempt EXCEPT !.confirmed = TRUE]
    /\ Step("reread")
    /\ UNCHANGED <<vault, homes, valid, lastIssued, previous, ready, exhausted, enabled,
                   reading, keys, capacity, credits, redeemed, unshown, claude, mishaps, exposed>>

\* A reading that shows capacity again ends the request; it may fail.
Reread ==
    /\ session.step = "reread"
    /\ \/ /\ Show(capacity)
          /\ attempt' = IF capacity = "restored" THEN NoAttempt ELSE attempt
          /\ session' = [session EXCEPT !.step = "save", !.confirmed = capacity = "restored"]
       \/ Step("save") /\ UNCHANGED <<reading, unshown, attempt>>
    /\ UNCHANGED <<vault, homes, valid, lastIssued, previous, ready, exhausted, enabled,
                   keys, capacity, credits, redeemed, claude, mishaps, exposed>>

\* The record is saved; a confirmed reset clears the exhaustion.
SaveUsage ==
    /\ session.step = "save"
    /\ exhausted' = (exhausted /\ ~session.confirmed)
    /\ Step("closing")
    /\ UNCHANGED <<vault, homes, valid, lastIssued, previous, ready, enabled, reading, attempt,
                   keys, capacity, credits, redeemed, unshown, claude, mishaps, exposed>>

------------------------------------------------------------------------------
(* The owner, the runs and the provider between sessions.                  *)

\* Runs use up the capacity, a window resets, a run reports exhaustion, or
\* the owner pauses and resumes the account; the last two take its lock.
UsageChanges ==
    /\ \/ capacity' \in Readings /\ UNCHANGED <<exhausted, enabled>>
       \/ Idle /\ exhausted' = TRUE /\ UNCHANGED <<capacity, enabled>>
       \/ Idle /\ enabled' = ~enabled /\ UNCHANGED <<capacity, exhausted>>
    /\ UNCHANGED <<credentialVars, reading, attempt, keys, credits, redeemed, unshown,
                   claude, mishaps, exposed>>

------------------------------------------------------------------------------
(* Claude: the CLI files in the account's private home.                    *)

\* adopt: the record is claimed, then the credential files are copied.
ClaudeAdopt ==
    /\ \/ /\ claude.step = "idle" /\ claude.state # "ready"
          /\ claude' = [claude EXCEPT !.state = "ready", !.step = "claimed"]
          /\ UNCHANGED mishaps
       \/ /\ claude.step = "claimed"
          /\ claude' = [claude EXCEPT !.home = "current", !.step = "idle"]
          /\ UNCHANGED mishaps
       \/ /\ claude.step = "claimed" /\ Mishap
          /\ claude' = [claude EXCEPT !.step = "idle"]
    /\ UNCHANGED <<credentialVars, resetVars, exposed>>

\* refresh: `claude auth status' finds a login in the account's home or not.
ClaudeRefresh ==
    /\ claude.step = "idle" /\ claude.state # "pending"
    /\ claude' = [claude EXCEPT !.state = IF claude.home = "none" THEN "error" ELSE "ready"]
    /\ UNCHANGED <<credentialVars, resetVars, mishaps, exposed>>

\* access_at, for a run's broker or a usage query: a login about to expire is
\* exchanged.  The provider's answer makes the stored refresh token useless.
ClaudeRotate ==
    /\ claude.step = "idle" /\ claude.home = "current"
    /\ claude' = [claude EXCEPT !.home = "replaced", !.step = "rotated"]
    /\ UNCHANGED <<credentialVars, resetVars, mishaps, exposed>>

\* The rotated login is written and synced before it is used.
ClaudePersist ==
    /\ claude.step = "rotated"
    /\ claude' = [claude EXCEPT !.home = "current", !.step = "idle"]
    /\ UNCHANGED <<credentialVars, resetVars, mishaps, exposed>>

------------------------------------------------------------------------------
(* Crash and restart.                                                      *)

Crash ==
    /\ ready /\ Mishap
    /\ ready' = FALSE /\ session' = NoSession /\ previous' = 0
    /\ claude' = [claude EXCEPT !.step = "idle"]
    /\ UNCHANGED <<vault, homes, valid, lastIssued, resetVars, exposed>>

\* recover_sessions: the monitor's home and then the one of model discovery
\* are captured and removed.
RecoverSession(p) ==
    /\ ~ready /\ Captured(p)
    /\ p = "discovery" => homes["monitor"] = 0
    /\ homes' = [homes EXCEPT ![p] = 0]
    /\ UNCHANGED <<valid, lastIssued, session, previous, ready, resetVars, claude, mishaps, exposed>>

Initialized ==
    /\ ~ready /\ \A p \in Purposes : homes[p] = 0
    /\ ready' = TRUE
    /\ UNCHANGED <<vault, homes, valid, lastIssued, session, previous, resetVars, claude,
                   mishaps, exposed>>

CredentialsNext ==
    \/ StartSession \/ StartFails \/ CliRotates \/ OperationEnds \/ Close \/ CloseFails
    \/ Adopt \/ RestorePrevious
    \/ ReadUsage \/ Reset \/ Consume \/ ConsumeUnanswered \/ ConsumeRefused
    \/ Confirm \/ Reread \/ SaveUsage \/ UsageChanges
    \/ ClaudeAdopt \/ ClaudeRefresh \/ ClaudeRotate \/ ClaudePersist
    \/ Crash \/ (\E p \in Purposes : RecoverSession(p)) \/ Initialized

CredentialsSpec == CredentialsInit /\ [][CredentialsNext]_agentVars

------------------------------------------------------------------------------
(* Properties.                                                             *)

\* Every variable has its type.
CredentialsTypeOK ==
    /\ {vault, previous} \cup {homes[p] : p \in Purposes} \subseteq 0.. lastIssued
    /\ lastIssued \in 1..MaxVersion /\ valid \subseteq 1.. lastIssued
    /\ session.purpose \in Purposes
    /\ session.step \in {"idle", "open", "reset", "consume", "confirm", "reread", "save",
                         "closing", "restoring"}
    /\ {ready, exhausted, enabled, exposed} \subseteq BOOLEAN
    /\ {reading, capacity} \subseteq Readings
    /\ attempt \in [key : 0..keys, confirmed : BOOLEAN] /\ keys \in 0..MaxKeys
    /\ credits \in 0..MaxCredits /\ redeemed \subseteq 1..keys
    /\ claude \in [state : {"pending", "ready", "error"},
                   home : {"none", "current", "replaced"},
                   step : {"idle", "claimed", "rotated"}]
    /\ mishaps \in 0..MaxMishaps

Stored == {vault} \cup {homes[p] : p \in Purposes}

\* "Never delete the only fresh credentials if vault persistence failed":
\* through rotations, failed vault writes, crashes and recovery, some
\* credential the provider still accepts is on disk, as long as no sign-in had
\* to be rolled back and no session began while the other purpose's home still
\* held what a failed write left (accounts/codex.rs, with_session and
\* recover_sessions).
FreshCredentialsKept == ~exposed => Stored \cap valid # {}

\* "Keep the previous working credentials when the new sign-in cannot be
\* verified" (accounts/codex.rs, adopt): also after a rollback, and when both
\* homes hold a copy.
RollbackKeepsCredentials == Stored \cap valid # {}

\* docs/AGENT-ACCOUNTS.md: "A confirmed redemption cannot spend another credit
\* until fresh usage shows capacity above 2% again", whatever answer is lost
\* and wherever the manager crashes (accounts/codex.rs, reset and redeem).
OneResetUntilShown == unshown <= 1

\* sign_in.rs: "Keep selection fenced until the identity is verified and
\* credentials saved": a ready Claude account has credentials.
ReadyHasCredentials == claude.state = "ready" /\ claude.step = "idle" => claude.home # "none"

\* broker.rs: "Never cancel a token rotation between the provider's response
\* and durable storage": the stored login is one the provider accepts whenever
\* no rotation is under way.
ClaudeLoginKept == claude.step = "idle" => claude.home # "replaced"

(* No working credentials are lost to a failed write or a crash            *)
(* (accounts/codex.rs), and a banked reset whose answer was lost is not    *)
(* spent twice.                                                            *)
CredentialsKept ==
  /\ FreshCredentialsKept
  /\ OneResetUntilShown
=============================================================================
