---------------------------- MODULE DirectGrants ---------------------------
(***************************************************************************)
(* Direct connections: the leases that let a browser reach an installation *)
(* without the relay.  The beacon issues, renews and revokes them          *)
(* (crates/beacon/src/relay/direct.rs and the tunnel loop of relay.rs);    *)
(* the installation verifies and enforces them                             *)
(* (crates/installation/src/direct.rs and direct/peer.rs, with             *)
(* DirectVerifier of crates/protocol/src/direct.rs).  Both are joined by   *)
(* the tunnel only: the beacon must keep enough to find a lease it handed  *)
(* out, and its revocations must overtake nothing.                         *)
(*                                                                         *)
(* One account, a member with one browser session, makes every grant.  A   *)
(* nonce numbers a signature; claims past expires_at are "due", which each *)
(* side notices by its own clock.  Signatures, SDP and ICE are data; a     *)
(* signature of a former tunnel's key never verifies.                      *)
(***************************************************************************)
EXTENDS Naturals, Sequences, FiniteSets

CONSTANTS Grants,       \* connection identifiers
          Capacity,     \* connections of the account, both sides' limit
          MaxNonce,     \* bound: signatures
          MaxChanges     \* bound: revocations, losses, expiries

ASSUME GrantAssumption == Capacity \in Nat \ {0}

VARIABLES
    access,    \* the database: member, session; whether revoke_* is still owed
    tunnel,    \* generation, up, revocations, signaling and both wires
    direct,    \* access.direct of the tunnel: the tracked connections
    calls,     \* issue() of each grant: an authorization or a renewal
    nonces,    \* signatures so far
    due,       \* signatures whose claims have expired
    verifier,  \* the installation's DirectVerifier: up, generation, sessions
    leases,    \* the installation's authorizations
    budget     \* events so far, bounded by MaxChanges

directVars == <<access, tunnel, direct, calls, nonces, due, verifier, leases, budget>>

NoConnection == [tracked |-> FALSE, nonce |-> 0, gen |-> 0, replying |-> FALSE,
                 accepted |-> FALSE]
NoLease == [open |-> FALSE, nonce |-> 0, gen |-> 0, peer |-> "none"]
NoCall == [pc |-> "idle", nonce |-> 0, gen |-> 0, renew |-> FALSE]
Fresh(gen) == [up |-> TRUE, gen |-> gen, revocations |-> <<>>, signaling |-> <<>>,
               down |-> <<>>, back |-> <<>>]

GrantsInit ==
    /\ access = [member |-> TRUE, session |-> TRUE, owed |-> {}]
    /\ tunnel = Fresh(0)
    /\ direct = [g \in Grants |-> NoConnection]
    /\ calls = [g \in Grants |-> NoCall]
    /\ nonces = 0
    /\ due = {}
    /\ verifier = [up |-> TRUE, gen |-> 0, session |-> TRUE]
    /\ leases = [g \in Grants |-> NoLease]
    /\ budget = 0

Spend == budget < MaxChanges /\ budget' = budget + 1
Tracked == {g \in Grants : direct[g].tracked}
Open == {g \in Grants : leases[g].open}
Call(g, new) == calls' = [calls EXCEPT ![g] = new]
Fail(g) == Call(g, NoCall)

-----------------------------------------------------------------------------
(* issue() at the beacon. *)

\* The generation is read, then the role and the session.
Request(g, renew) ==
    /\ calls[g].pc = "idle" /\ access.member /\ access.session /\ tunnel.up
    /\ nonces < MaxNonce
    /\ renew => direct[g].tracked
    /\ ~renew => ~direct[g].tracked /\ ~leases[g].open
    /\ nonces' = nonces + 1
    /\ Call(g, [pc |-> "signed", nonce |-> nonces', gen |-> tunnel.gen, renew |-> renew])
    /\ UNCHANGED <<access, tunnel, direct, due, verifier, leases, budget>>

Refused(g) ==
    LET c == calls[g] IN
    \/ ~tunnel.up \/ tunnel.gen # c.gen
    \/ c.renew /\ ~(direct[g].tracked /\ direct[g].accepted /\ ~direct[g].replying)
    \/ ~c.renew /\ Cardinality(Tracked) >= Capacity

\* "Track the attempted renewal before its acknowledgement."
Track(g) ==
    /\ calls[g].pc = "signed"
    /\ LET c == calls[g] IN
       IF Refused(g) THEN Fail(g) /\ UNCHANGED direct
       ELSE /\ Call(g, [c EXCEPT !.pc = "tracked"])
            /\ direct' = [direct EXCEPT ![g] =
                  [@ EXCEPT !.tracked = TRUE, !.nonce = c.nonce, !.gen = c.gen,
                            !.replying = TRUE]]
    /\ UNCHANGED <<access, tunnel, nonces, due, verifier, leases, budget>>

\* failed_authorization: "A lost acknowledgement must not forget an existing
\* direct peer".
Forget(g) == IF calls[g].renew THEN [direct EXCEPT ![g].replying = FALSE]
             ELSE [direct EXCEPT ![g] = NoConnection]

\* "Register before rechecking persisted access"; then the frame is queued.
CheckAgain(g) ==
    /\ calls[g].pc = "tracked"
    /\ LET c == calls[g] IN
       IF /\ access.member /\ access.session /\ tunnel.up
          /\ tunnel.gen = c.gen /\ direct[g].tracked
       THEN /\ Call(g, [c EXCEPT !.pc = "waiting"])
            /\ tunnel' = [tunnel EXCEPT !.signaling =
                  Append(@, [kind |-> IF c.renew THEN "renew" ELSE "authorize",
                             id |-> g, nonce |-> c.nonce, gen |-> c.gen])]
            /\ UNCHANGED direct
       ELSE Fail(g) /\ direct' = Forget(g) /\ UNCHANGED tunnel
    /\ UNCHANGED <<access, nonces, due, verifier, leases, budget>>

\* Five seconds without an acknowledgement, or the tunnel dropped the reply.
TimeOut(g) ==
    /\ calls[g].pc = "waiting" /\ Spend
    /\ Fail(g)
    /\ direct' = Forget(g)
    /\ UNCHANGED <<access, tunnel, nonces, due, verifier, leases>>

-----------------------------------------------------------------------------
(* The tunnel loop of the beacon: revocations are sent before signals. *)

\* access_changed: the revocations are written to the socket, in order.
SendRevocations ==
    /\ tunnel.up /\ tunnel.revocations # <<>>
    /\ tunnel' = [tunnel EXCEPT !.down = @ \o tunnel.revocations, !.revocations = <<>>]
    /\ UNCHANGED <<access, direct, calls, nonces, due, verifier, leases, budget>>

\* A queued frame is sent only while its connection is the current one.
Current(f) ==
    /\ direct[f.id].tracked
    /\ IF f.kind = "offer" THEN direct[f.id].accepted
       ELSE direct[f.id].nonce = f.nonce /\ direct[f.id].replying

SendSignal ==
    /\ tunnel.up /\ tunnel.revocations = <<>> /\ tunnel.signaling # <<>>
    /\ LET f == Head(tunnel.signaling)
           rest == [tunnel EXCEPT !.signaling = Tail(@)]
       IN tunnel' = IF Current(f) THEN [rest EXCEPT !.down = Append(@, f)] ELSE rest
    /\ UNCHANGED <<access, direct, calls, nonces, due, verifier, leases, budget>>

\* DirectAuthorized: the connection whose authorization has this nonce.
Acknowledge ==
    /\ tunnel.up /\ tunnel.back # <<>>
    /\ LET f == Head(tunnel.back)
           answered == {g \in Tracked : direct[g].nonce = f.nonce}
       IN /\ direct' = [g \in Grants |->
                IF g \in answered
                THEN [direct[g] EXCEPT !.accepted = @ \/ f.ok, !.replying = FALSE]
                ELSE direct[g]]
          /\ calls' = [g \in Grants |->
                IF g \in answered /\ direct[g].replying /\ calls[g].pc = "waiting"
                THEN [calls[g] EXCEPT !.pc = IF f.ok THEN "accepted" ELSE "failed"]
                ELSE calls[g]]
    /\ tunnel' = [tunnel EXCEPT !.back = Tail(@)]
    /\ UNCHANGED <<access, nonces, due, verifier, leases, budget>>

\* The answer to the browser: the grant, or a refusal.
Return(g) ==
    /\ \/ calls[g].pc = "accepted" /\ UNCHANGED direct
       \/ calls[g].pc = "failed" /\ direct' = Forget(g)
    /\ Fail(g)
    /\ UNCHANGED <<access, tunnel, nonces, due, verifier, leases, budget>>

\* signal(): the browser's offer is queued for an accepted connection.
Offer(g) ==
    /\ access.member /\ access.session /\ tunnel.up
    /\ direct[g].tracked /\ direct[g].accepted /\ direct[g].nonce \notin due
    /\ leases[g].peer = "none"
    /\ \A k \in DOMAIN tunnel.signaling : tunnel.signaling[k].kind # "offer"
    /\ \A k \in DOMAIN tunnel.down : tunnel.down[k].kind # "offer"
    /\ tunnel' = [tunnel EXCEPT !.signaling =
          Append(@, [kind |-> "offer", id |-> g, nonce |-> 0, gen |-> 0])]
    /\ UNCHANGED <<access, direct, calls, nonces, due, verifier, leases, budget>>

\* public_expiry and the claims' deadline, at the beacon.
Lapse(g) ==
    /\ direct[g].tracked /\ direct[g].nonce \in due
    /\ direct' = [direct EXCEPT ![g] = NoConnection]
    /\ UNCHANGED <<access, tunnel, calls, nonces, due, verifier, leases, budget>>

-----------------------------------------------------------------------------
(* Access changes, committed first and told to the tunnel afterwards. *)

EndMembership ==
    /\ access.member /\ Spend
    /\ access' = [access EXCEPT !.member = FALSE, !.owed = @ \union {"account"}]
    /\ UNCHANGED <<tunnel, direct, calls, nonces, due, verifier, leases>>

JoinAgain ==
    /\ ~access.member
    /\ access' = [access EXCEPT !.member = TRUE]
    /\ UNCHANGED <<tunnel, direct, calls, nonces, due, verifier, leases, budget>>

Revocation(scope, gen) == [kind |-> scope, id |-> "none", nonce |-> 0, gen |-> gen]

\* revoke_access(installation, Some(account)).
RevokeMemberGrants ==
    /\ "account" \in access.owed
    /\ access' = [access EXCEPT !.owed = @ \ {"account"}]
    /\ IF tunnel.up
       THEN /\ direct' = [g \in Grants |-> NoConnection]
            /\ tunnel' = [tunnel EXCEPT !.gen = @ + 1, !.revocations =
                  Append(@, Revocation("account", tunnel.gen + 1))]
       ELSE UNCHANGED <<direct, tunnel>>
    /\ UNCHANGED <<calls, nonces, due, verifier, leases, budget>>

EndSession ==
    /\ access.session /\ Spend
    /\ access' = [access EXCEPT !.session = FALSE, !.owed = @ \union {"session"}]
    /\ UNCHANGED <<tunnel, direct, calls, nonces, due, verifier, leases>>

\* revoke_session: only a session with a tracked connection is told.
RevokeSessionGrants ==
    /\ "session" \in access.owed
    /\ access' = [access EXCEPT !.owed = @ \ {"session"}]
    /\ IF tunnel.up /\ Tracked # {}
       THEN /\ direct' = [g \in Grants |-> NoConnection]
            /\ tunnel' = [tunnel EXCEPT !.revocations = Append(@, Revocation("session", 0))]
       ELSE UNCHANGED <<direct, tunnel>>
    /\ UNCHANGED <<calls, nonces, due, verifier, leases, budget>>

-----------------------------------------------------------------------------
(* The installation. *)

\* DirectVerifier::verify and the checks of authorize.
Verifies(f) ==
    /\ verifier.up /\ verifier.session /\ verifier.gen = f.gen
    /\ f.nonce \notin due
    /\ IF f.kind = "renew" THEN leases[f.id].open /\ leases[f.id].gen = f.gen
       ELSE ~leases[f.id].open /\ Cardinality(Open) < Capacity

Install(f) == [leases EXCEPT ![f.id] = [@ EXCEPT !.open = TRUE, !.nonce = f.nonce,
                                                 !.gen = f.gen]]

\* DirectAuthorize and DirectRenew.
Authorize ==
    /\ verifier.up /\ tunnel.down # <<>> /\ Head(tunnel.down).kind \in {"authorize", "renew"}
    /\ LET f == Head(tunnel.down) IN
       /\ leases' = IF Verifies(f) THEN Install(f) ELSE leases
       /\ tunnel' = [tunnel EXCEPT !.down = Tail(@),
                       !.back = Append(@, [nonce |-> f.nonce, ok |-> Verifies(f)])]
    /\ UNCHANGED <<access, direct, calls, nonces, due, verifier, budget>>

\* DirectRevoke: the verifier remembers it, the leases it names are closed.
TakeRevocation ==
    /\ verifier.up /\ tunnel.down # <<>> /\ Head(tunnel.down).kind \in {"account", "session"}
    /\ LET f == Head(tunnel.down) IN
       /\ verifier' = IF f.kind = "account" THEN [verifier EXCEPT !.gen = f.gen]
                      ELSE [verifier EXCEPT !.session = FALSE]
       /\ leases' = [g \in Grants |-> NoLease]
    /\ tunnel' = [tunnel EXCEPT !.down = Tail(@)]
    /\ UNCHANGED <<access, direct, calls, nonces, due, budget>>

\* DirectSignal: an offer for an open lease starts its peer.
StartPeer ==
    /\ verifier.up /\ tunnel.down # <<>> /\ Head(tunnel.down).kind = "offer"
    /\ LET g == Head(tunnel.down).id IN
       leases' = IF leases[g].open /\ leases[g].peer = "none" /\ leases[g].nonce \notin due
                 THEN [leases EXCEPT ![g].peer = "starting"] ELSE leases
    /\ tunnel' = [tunnel EXCEPT !.down = Tail(@)]
    /\ UNCHANGED <<access, direct, calls, nonces, due, verifier, budget>>

\* accept_peer, once the peer's certificate is seen: the tunnel must be up.
Connect(g) ==
    /\ verifier.up
    /\ leases[g].open /\ leases[g].peer = "starting" /\ leases[g].nonce \notin due
    /\ leases' = [leases EXCEPT ![g].peer = "connected"]
    /\ UNCHANGED <<access, tunnel, direct, calls, nonces, due, verifier, budget>>

\* The peer's task ends, its handshake failed or its channel closed:
\* release_peer.
PeerEnds(g) ==
    /\ leases[g].peer # "none" /\ Spend
    /\ leases' = [leases EXCEPT ![g] = NoLease]
    /\ UNCHANGED <<access, tunnel, direct, calls, nonces, due, verifier>>

\* The claims of signature n reach expires_at, the earlier signatures' first.
ClaimsExpire(n) ==
    /\ n = Cardinality(due) + 1 /\ n <= nonces /\ Spend
    /\ due' = due \union {n}
    /\ UNCHANGED <<access, tunnel, direct, calls, nonces, verifier, leases>>

\* The expiry task compares its nonce with the lease's.
Closes(g, n) == leases[g].open /\ leases[g].nonce = n

\* The task that authorize spawned for signature n of g.
Expiry(g, n) ==
    /\ n \in due /\ Closes(g, n)
    /\ leases' = [leases EXCEPT ![g] = NoLease]
    /\ UNCHANGED <<access, tunnel, direct, calls, nonces, due, verifier, budget>>

-----------------------------------------------------------------------------
\* The tunnel is lost: detach keeps the leases, until they expire, and drops
\* the verifier; calls in progress see a stopped tunnel.
LoseTunnel ==
    /\ tunnel.up /\ Spend
    /\ tunnel' = [Fresh(tunnel.gen) EXCEPT !.up = FALSE]
    /\ direct' = [g \in Grants |-> NoConnection]
    /\ calls' = [g \in Grants |-> NoCall]
    /\ verifier' = [verifier EXCEPT !.up = FALSE]
    /\ UNCHANGED <<access, nonces, due, leases>>

\* A new tunnel has a new key: set_key closes every lease of the former one.
Reconnect ==
    /\ ~tunnel.up
    /\ tunnel' = Fresh(0)
    /\ verifier' = [up |-> TRUE, gen |-> 0, session |-> TRUE]
    /\ leases' = [g \in Grants |-> NoLease]
    /\ UNCHANGED <<access, direct, calls, nonces, due, budget>>

GrantsNext ==
    \/ \E g \in Grants, renew \in BOOLEAN : Request(g, renew)
    \/ \E g \in Grants : \/ Track(g) \/ CheckAgain(g) \/ TimeOut(g) \/ Return(g)
                         \/ Offer(g) \/ Lapse(g) \/ Connect(g) \/ PeerEnds(g)
    \/ SendRevocations \/ SendSignal \/ Acknowledge
    \/ EndMembership \/ JoinAgain \/ RevokeMemberGrants \/ EndSession \/ RevokeSessionGrants
    \/ Authorize \/ TakeRevocation \/ StartPeer
    \/ \E n \in 1..MaxNonce : ClaimsExpire(n)
    \/ \E g \in Grants, n \in 1..MaxNonce : Expiry(g, n)
    \/ LoseTunnel \/ Reconnect

-----------------------------------------------------------------------------
OnItsWay(scopes) ==
    \/ \E k \in DOMAIN tunnel.revocations : tunnel.revocations[k].kind \in scopes
    \/ \E k \in DOMAIN tunnel.down : tunnel.down[k].kind \in scopes

\* A browser that talks to the installation directly is one the beacon can still
\* cut off: while the tunnel is up and the lease has not expired, the connection
\* is tracked with the lease's account generation, or the revocation that closes
\* it is on its way.  So a removal or a logout that has been told to the tunnel
\* reaches every peer, whatever acknowledgements were lost in between.
PeersCanBeCutOff ==
    tunnel.up => \A g \in Grants :
        leases[g].peer = "connected" /\ leases[g].nonce \notin due =>
            \/ direct[g].tracked /\ direct[g].gen = leases[g].gen
            \/ OnItsWay({"account", "session"})

\* A lease that was renewed outlives the deadline it had before: only a
\* revocation, a new key, the end of its peer or its own deadline closes it.
RenewedLeaseStays ==
    [][\A g \in Grants : leases[g].open /\ ~leases'[g].open =>
          \/ leases[g].nonce \in due \/ budget' # budget
          \/ Len(tunnel.down) > 0 /\ Head(tunnel.down).kind \in {"account", "session"}
          \/ ~tunnel.up]_directVars

=============================================================================
