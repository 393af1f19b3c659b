------------------------ MODULE InstallationIdentity ------------------------
(***************************************************************************)
(* The identity by which an installation proves itself to the beacon:      *)
(* claiming, reclaiming after a detachment, and renewing the credential.   *)
(* One side are the rows of the beacon                                     *)
(* (crates/beacon/src/installations.rs), each request one transaction; the *)
(* other the files identity.json and rotation.json of one machine          *)
(* (crates/installation/src/relay.rs), written by the manager's start and  *)
(* by the commands `cairn claim` and `cairn rotate-token`.                 *)
(*                                                                         *)
(* A request may execute after the machine gave up on it, or be lost; so   *)
(* may its answer.  A credential is a number, 0 standing for none; digests *)
(* are the credentials themselves.                                         *)
(***************************************************************************)
EXTENDS Naturals, FiniteSets

CONSTANTS MaxIds,       \* bound: installation ids
          MaxTokens,    \* bound: credentials
          MaxClaims,    \* bound: device claims started
          MaxFaults     \* bound: timeouts, losses and crashes

Ids == 1 .. MaxIds

VARIABLES
    rows,     \* installations: exists, owned, token, recovery
    claims,   \* installation_device_claims, by installation
    code,     \* an unused claim code of the owner
    file,     \* identity.json
    pending,  \* rotation.json
    cli,      \* the command that holds claim.lock
    boot,     \* the manager's start with a claim code
    wire,     \* requests on their way to the beacon
    used      \* ids, credentials, claims and faults so far

identityVars == <<rows, claims, code, file, pending, cli, boot, wire, used>>

NoRow == [exists |-> FALSE, owned |-> FALSE, token |-> 0, recovery |-> 0]
NoClaim == [device |-> 0, recovering |-> FALSE, reviewed |-> FALSE, approved |-> FALSE]
NoFile == [kind |-> "none", id |-> 0, token |-> 0]
EmptyFile == [NoFile EXCEPT !.kind = "empty"]
Whole(id, token) == [kind |-> "whole", id |-> id, token |-> token]
NoRotation == [on |-> FALSE, previous |-> 0, id |-> 0, token |-> 0]
Waiting == "waiting"
Denied == "refused"
Idle == [pc |-> "idle", answer |-> Waiting, id |-> 0, token |-> 0, device |-> 0]

IdentityInit ==
    /\ rows = [i \in Ids |-> NoRow]
    /\ claims = [i \in Ids |-> NoClaim]
    /\ code = TRUE
    /\ file = NoFile
    /\ pending = NoRotation
    /\ cli = Idle
    /\ boot = Idle
    /\ wire = {}
    /\ used = [ids |-> 0, tokens |-> 0, claims |-> 0, faults |-> 0]

Use(what) == used' = [used EXCEPT ![what] = @ + 1]
Fault == used.faults < MaxFaults /\ Use("faults")

\* A request; "by" is who listens for the answer, "none" once it gave up.
Message(kind, by) ==
    [kind |-> kind, by |-> by, id |-> 0, token |-> 0, new |-> 0, device |-> 0]
Send(m) == wire' = wire \cup {m}
Unheard(by) == {IF m.by = by THEN [m EXCEPT !.by = "none"] ELSE m : m \in wire}

\* The answer reaches whoever still listens.
Reply(m, status, id, token, device) ==
    LET told(p) == [p EXCEPT !.answer = status, !.id = id, !.token = token,
                             !.device = device] IN
    /\ wire' = wire \ {m}
    /\ cli' = IF m.by = "cli" THEN told(cli) ELSE cli
    /\ boot' = IF m.by = "boot" THEN told(boot) ELSE boot
Refuse(m) == /\ Reply(m, Denied, 0, 0, 0)
             /\ UNCHANGED <<rows, claims, code, used>>

-----------------------------------------------------------------------------
(* The beacon. *)

CreateCode ==
    /\ ~code /\ used.ids < MaxIds
    /\ code' = TRUE
    /\ UNCHANGED <<rows, claims, file, pending, cli, boot, wire, used>>

\* Consuming the code and attaching the owner are one transaction.
Claim(m) ==
    /\ m.kind = "claim"
    /\ \/ /\ code /\ used.ids < MaxIds /\ used.tokens < MaxTokens
          /\ LET id == used.ids + 1
                 token == used.tokens + 1 IN
             /\ rows' = [rows EXCEPT ![id] = [exists |-> TRUE, owned |-> TRUE,
                                              token |-> token, recovery |-> 0]]
             /\ used' = [used EXCEPT !.ids = id, !.tokens = token]
             /\ Reply(m, "ok", id, token, 0)
          /\ code' = FALSE
          /\ UNCHANGED claims
       \/ ~code /\ Refuse(m)
    /\ UNCHANGED <<file, pending>>

\* The proof that started a recovery stays valid until the next rotation.
KeepProof(row, token) == [row EXCEPT !.recovery = token]

StartDevice(m) ==
    /\ m.kind = "start"
    /\ LET proven == /\ rows[m.id].exists
                     /\ m.token \in {rows[m.id].token, rows[m.id].recovery}
           device == used.claims + 1
           Challenge(id, recovering) ==
               /\ used.claims < MaxClaims
               /\ claims' = [claims EXCEPT ![id] =
                      [NoClaim EXCEPT !.device = device, !.recovering = recovering]]
               /\ Reply(m, "ok", id, 0, device)
       IN \/ /\ m.id # 0 /\ proven /\ ~rows[m.id].owned
             /\ rows' = [rows EXCEPT ![m.id] = KeepProof(@, m.token)]
             /\ Challenge(m.id, TRUE)
             /\ Use("claims")
             /\ UNCHANGED code
          \/ /\ m.id = 0 /\ used.ids < MaxIds
             /\ Challenge(used.ids + 1, FALSE)
             /\ used' = [used EXCEPT !.ids = @ + 1, !.claims = device]
             /\ UNCHANGED <<rows, code>>
          \/ m.id # 0 /\ (proven => rows[m.id].owned) /\ Refuse(m)
    /\ UNCHANGED <<file, pending>>

PreviewDevice(i) ==
    /\ claims[i].device # 0 /\ ~claims[i].approved /\ ~claims[i].reviewed
    /\ claims[i].recovering => rows[i].exists /\ ~rows[i].owned
    /\ claims' = [claims EXCEPT ![i].reviewed = TRUE]
    /\ UNCHANGED <<rows, code, file, pending, cli, boot, wire, used>>

ApproveDevice(i) ==
    /\ claims[i].device # 0 /\ claims[i].reviewed /\ ~claims[i].approved
    /\ claims' = [claims EXCEPT ![i].approved = TRUE]
    /\ UNCHANGED <<rows, code, file, pending, cli, boot, wire, used>>

\* A fresh claim gets its row here.
CollectedAfresh(row, token) ==
    [exists |-> TRUE, owned |-> TRUE, token |-> token, recovery |-> 0]
Collected(row, token) == [row EXCEPT !.exists = TRUE, !.owned = TRUE, !.token = token]

\* A poll of a claim nobody approved is repeated by the machine.
PollDevice(m) ==
    /\ m.kind = "poll"
    /\ LET i == m.id
           valid == /\ claims[i].device = m.device
                    /\ claims[i].recovering => rows[i].exists /\ ~rows[i].owned
           token == used.tokens + 1
       IN \/ /\ valid /\ claims[i].approved /\ used.tokens < MaxTokens
             /\ rows' = [rows EXCEPT ![i] = Collected(@, token)]
             /\ claims' = [claims EXCEPT ![i] = NoClaim]
             /\ Use("tokens")
             /\ Reply(m, "ok", i, token, m.device)
             /\ UNCHANGED code
          \/ ~valid /\ Refuse(m)
    /\ UNCHANGED <<file, pending>>

\* A replacement that was already stored is acknowledged again.
AcceptsProof(row, previous, replacement) ==
    row.exists /\ row.owned /\ row.token \in {previous, replacement}
RotateToken(m) ==
    /\ m.kind = "rotate"
    /\ \/ /\ AcceptsProof(rows[m.id], m.token, m.new)
          /\ rows' = [rows EXCEPT ![m.id] =
                 IF @.token = m.new THEN @
                 ELSE [@ EXCEPT !.token = m.new, !.recovery = 0]]
          /\ claims' = IF rows[m.id].token = m.new THEN claims
                       ELSE [claims EXCEPT ![m.id] = NoClaim]
          /\ Reply(m, "ok", 0, 0, 0)
          /\ UNCHANGED <<code, used>>
       \/ ~AcceptsProof(rows[m.id], m.token, m.new) /\ Refuse(m)
    /\ UNCHANGED <<file, pending>>

ExpireChallenge(i) ==
    /\ claims[i].device # 0
    /\ claims' = [claims EXCEPT ![i] = NoClaim]
    /\ UNCHANGED <<rows, code, file, pending, cli, boot, wire, used>>

\* Detachment, also by deletion of the owner's account.
Detach(i) ==
    /\ rows[i].exists /\ rows[i].owned
    /\ rows' = [rows EXCEPT ![i].owned = FALSE]
    /\ claims' = [claims EXCEPT ![i] = NoClaim]
    /\ UNCHANGED <<code, file, pending, cli, boot, wire, used>>

ForgetInstallation(i) ==
    /\ rows[i].exists /\ rows[i].owned
    /\ rows' = [rows EXCEPT ![i] = NoRow]
    /\ claims' = [claims EXCEPT ![i] = NoClaim]
    /\ UNCHANGED <<code, file, pending, cli, boot, wire, used>>

-----------------------------------------------------------------------------
(* The machine.  The lock admits one command; the start takes none. *)

ClaimCommand ==
    /\ cli.pc = "idle" /\ file.kind # "empty"
    /\ cli' = [Idle EXCEPT !.pc = "starting"]
    /\ Send([Message("start", "cli") EXCEPT !.id = file.id, !.token = file.token])
    /\ UNCHANGED <<rows, claims, code, file, pending, boot, used>>

PollClaim ==
    /\ cli.pc = "starting" /\ cli.answer = "ok"
    /\ cli' = [cli EXCEPT !.pc = "polling", !.answer = Waiting]
    /\ Send([Message("poll", "cli") EXCEPT !.id = cli.id, !.device = cli.device])
    /\ UNCHANGED <<rows, claims, code, file, pending, boot, used>>

SaveClaim ==
    /\ cli.pc = "polling" /\ cli.answer = "ok"
    /\ file' = Whole(cli.id, cli.token)
    /\ cli' = Idle
    /\ UNCHANGED <<rows, claims, code, pending, boot, wire, used>>

\* The replacement is on the disk before it is sent.
PrepareRotation ==
    /\ cli.pc = "idle" /\ file.kind = "whole"
    /\ \/ pending.on /\ UNCHANGED <<pending, used>>
       \/ /\ ~pending.on /\ used.tokens < MaxTokens
          /\ pending' = [on |-> TRUE, previous |-> file.token, id |-> file.id,
                         token |-> used.tokens + 1]
          /\ Use("tokens")
    /\ cli' = [Idle EXCEPT !.pc = "prepared"]
    /\ UNCHANGED <<rows, claims, code, file, boot, wire>>

Saved == file.token = pending.token
SameGeneration == file.id = pending.id /\ (Saved \/ file.token = pending.previous)

SendRotation ==
    /\ cli.pc = "prepared"
    /\ \/ ~SameGeneration /\ cli' = Idle /\ UNCHANGED wire
       \/ SameGeneration /\ Saved /\ cli' = [cli EXCEPT !.pc = "saved"] /\ UNCHANGED wire
       \/ /\ SameGeneration /\ ~Saved
          /\ cli' = [cli EXCEPT !.pc = "rotating"]
          /\ Send([Message("rotate", "cli") EXCEPT !.id = file.id, !.token = file.token,
                                                   !.new = pending.token])
    /\ UNCHANGED <<rows, claims, code, file, pending, boot, used>>

SaveRotation ==
    /\ cli.pc = "rotating" /\ cli.answer = "ok"
    /\ file' = Whole(pending.id, pending.token)
    /\ cli' = [cli EXCEPT !.pc = "saved"]
    /\ UNCHANGED <<rows, claims, code, pending, boot, wire, used>>

RemoveRotation ==
    /\ cli.pc = "saved"
    /\ pending' = NoRotation
    /\ cli' = Idle
    /\ UNCHANGED <<rows, claims, code, file, boot, wire, used>>

CommandRefused ==
    /\ cli.answer = Denied
    /\ cli' = Idle
    /\ UNCHANGED <<rows, claims, code, file, pending, boot, wire, used>>

\* A timeout, an interruption, a failed write or a crash of the command: its
\* request may have been lost, may be executed, or may execute later.
CommandEnds ==
    /\ cli.pc # "idle" /\ Fault
    /\ cli' = Idle
    /\ wire' \in {Unheard("cli"), {m \in wire : m.by # "cli"}}
    /\ UNCHANGED <<rows, claims, code, file, pending, boot>>

\* identity.json is created exclusively, and filled through the open file.
BootClaim ==
    /\ boot.pc = "idle" /\ file.kind = "none" /\ used.ids < MaxIds
    /\ file' = EmptyFile
    /\ boot' = [Idle EXCEPT !.pc = "claiming"]
    /\ Send(Message("claim", "boot"))
    /\ UNCHANGED <<rows, claims, code, pending, cli, used>>

\* What a command renamed over the file in between stays.
BootSave ==
    /\ boot.pc = "claiming" /\ boot.answer = "ok"
    /\ file' = IF file.kind = "empty" THEN Whole(boot.id, boot.token) ELSE file
    /\ boot' = Idle
    /\ UNCHANGED <<rows, claims, code, pending, cli, wire, used>>

\* A failed claim removes the path.
BootRefused ==
    /\ boot.pc = "claiming" /\ boot.answer = Denied
    /\ file' = NoFile
    /\ boot' = Idle
    /\ UNCHANGED <<rows, claims, code, pending, cli, wire, used>>
BootFails ==
    /\ boot.pc = "claiming" /\ Fault
    /\ file' = NoFile
    /\ boot' = Idle
    /\ wire' \in {Unheard("boot"), {m \in wire : m.by # "boot"}}
    /\ UNCHANGED <<rows, claims, code, pending, cli>>
BootCrashes ==
    /\ boot.pc = "claiming" /\ Fault
    /\ boot' = Idle
    /\ wire' = Unheard("boot")
    /\ UNCHANGED <<rows, claims, code, file, pending, cli>>

\* The operator moves the directory away, once it is of no use.
BackUp ==
    /\ cli.pc = "idle" /\ boot.pc = "idle"
    /\ \/ file.kind = "empty"
       \/ file.kind = "whole" /\ ~rows[file.id].exists
    /\ file' = NoFile
    /\ pending' = NoRotation
    /\ UNCHANGED <<rows, claims, code, cli, boot, wire, used>>

-----------------------------------------------------------------------------
Execute(m) == Claim(m) \/ StartDevice(m) \/ PollDevice(m) \/ RotateToken(m)
Owner == \/ CreateCode
         \/ \E i \in Ids : PreviewDevice(i) \/ ApproveDevice(i) \/ Detach(i) \/ ForgetInstallation(i)
Rotating == PrepareRotation \/ SendRotation \/ SaveRotation \/ RemoveRotation
Claiming == ClaimCommand \/ PollClaim \/ SaveClaim
Booting == BootClaim \/ BootSave \/ BootRefused \/ BootFails \/ BootCrashes

IdentityNext ==
    \/ \E m \in wire : Execute(m)
    \/ \E i \in Ids : ExpireChallenge(i)
    \/ Owner \/ Claiming \/ Rotating \/ CommandRefused \/ CommandEnds
    \/ Booting \/ BackUp

\* The operator repeats an interrupted rotation, as the command asks; the
\* beacon executes what reaches it, and a challenge lives ten minutes.
IdentityFairness ==
    /\ SF_identityVars(pending.on /\ PrepareRotation)
    /\ WF_identityVars(SendRotation \/ SaveRotation \/ RemoveRotation)
    /\ WF_identityVars(PollClaim \/ SaveClaim \/ CommandRefused)
    /\ WF_identityVars(\E m \in wire : Execute(m))
    /\ \A i \in Ids : WF_identityVars(ExpireChallenge(i))

-----------------------------------------------------------------------------
\* A rotation that the beacon carried out and the machine has not saved yet.
Unanswered ==
    /\ pending.on /\ pending.id = file.id /\ pending.previous = file.token
    /\ pending.token = rows[file.id].token

\* Whichever response is lost and wherever a command stops, the machine keeps
\* a proof of its identity.  An owned installation has the credential of
\* identity.json or the replacement that the next `cairn rotate-token` sends
\* again (relay.rs rotate_token, installations.rs rotate_token), or, once
\* detached, the proof that began the recovery.  A detached one is reclaimed
\* with identity.json (start_device, poll_device), unless its rotation was
\* left unanswered: start_device does not accept the replacement.
AlwaysProven ==
    LET row == rows[file.id]
        proven == file.token \in {row.token, row.recovery} IN
    file.kind = "whole" /\ row.exists =>
        /\ row.owned => proven \/ Unanswered
        /\ ~row.owned /\ ~Unanswered => proven

\* A rotation whose replacement is on the disk of an owned installation
\* completes when the command is repeated, also when the beacon had already
\* stored the replacement and its answer was lost; only a detachment or a
\* refusal to an older generation of the identity leaves it pending.
Confirmed == /\ pending.on /\ file.kind = "whole" /\ SameGeneration
             /\ rows[file.id].owned
             /\ rows[file.id].token \in {pending.previous, pending.token}
RotationCompletes ==
    Confirmed ~> ~pending.on \/ file.kind # "whole" \/ ~rows[file.id].owned

\* "If its successful response is lost before the file is saved, detach in
\* the app and retry with that file to recover the same ID."
\* (docs/INSTALLATION-RELAY.md) -- an unowned row accepts the credential of
\* identity.json whenever no command runs.  Not so after a rotation whose
\* answer was lost.
DetachedCanReclaim ==
    cli.pc = "idle" /\ file.kind = "whole" /\ rows[file.id].exists
      /\ ~rows[file.id].owned =>
        file.token \in {rows[file.id].token, rows[file.id].recovery}

\* "Startup never overwrites an existing identity" (docs/INSTALLATION-RELAY.md)
\* -- the start removes no identity that a command saved meanwhile.
StartKeepsIdentity ==
    [][boot # boot' /\ file.kind = "whole" => file' = file]_identityVars
=============================================================================
