---------------------------- MODULE Notifications ---------------------------
(***************************************************************************)
(* Push notifications: from the installation's outbox                      *)
(* (crates/installation/src/notifications.rs), over the tunnel's schedule  *)
(* (relay.rs connected), to the devices that the beacon registers and      *)
(* reaches (crates/beacon/src/notifications.rs, relay.rs serve_socket).    *)
(* The beacon keeps no queue: an event stays in the outbox until the       *)
(* beacon says it is done with it, and the receipts in its memory are what *)
(* keeps a repeated event from ringing twice.                              *)
(*                                                                         *)
(* Events are numbered in the order of their keys.  A delivery holds the   *)
(* installation's row shared and the device's row exclusively while it     *)
(* sends; what changes either row waits.                                   *)
(***************************************************************************)
EXTENDS Naturals, FiniteSets

CONSTANTS NumEvents,      \* questions and alerts
          Devices,
          InFlight,       \* MAX_NOTIFICATION_IN_FLIGHT
          Receipts,       \* MAX_DELIVERY_RECEIPTS
          MaxLinks,       \* bound: connections
          MaxSteps        \* bound: registrations, removals, rotations

Events == 1 .. NumEvents
Links == 1 .. MaxLinks

VARIABLES
    outbox,    \* of each event: new, waiting or gone
    open,      \* events still worth sending: alerts, unanswered questions
    sched,     \* NotificationSchedule: in_flight, recently_sent, cursor
    link,      \* the connection: number, up, the identity it was made with
    frames,    \* notifications on their way to the beacon
    acks,      \* acknowledgements on their way back
    jobs,      \* deliveries, by connection and event
    receipts,  \* DeliveryReceipts: reserved and delivered keys
    answered,  \* keys whose push was answered, in this beacon's life
    reg,       \* notification_devices: the account and version of each
    member,    \* the member of the installation still has access
    identity,  \* generation of the installation's credential
    steps      \* changes so far, bounded by MaxSteps

notifyVars == <<outbox, open, sched, link, frames, acks, jobs, receipts, answered,
                reg, member, identity, steps>>

NoReg == [account |-> "none", version |-> 0]
NoJob == [pc |-> "idle", todo |-> {}, listed |-> [d \in {} |-> NoReg],
          dev |-> {}, complete |-> TRUE]
NewSchedule == [inflight |-> {}, recent |-> {}, cursor |-> 0]

NotifyInit ==
    /\ outbox = [e \in Events |-> "new"]
    /\ open = Events
    /\ sched = NewSchedule
    /\ link = [n |-> 1, up |-> TRUE, token |-> 0]
    /\ frames = {} /\ acks = {}
    /\ jobs = [n \in Links |-> [e \in Events |-> NoJob]]
    /\ receipts = [reserved |-> {}, delivered |-> {}]
    /\ answered = {}
    /\ reg \in [Devices -> {[account |-> "owner", version |-> 0],
                            [account |-> "member", version |-> 0]}]
    /\ member = TRUE
    /\ identity = 0
    /\ steps = 0

Step == steps < MaxSteps /\ steps' = steps + 1
Waits == {e \in Events : outbox[e] = "waiting"}

-----------------------------------------------------------------------------
(* The installation. *)

Enqueue(e) ==
    /\ outbox[e] = "new"
    /\ outbox' = [outbox EXCEPT ![e] = "waiting"]
    /\ UNCHANGED <<open, sched, link, frames, acks, jobs, receipts, answered, reg,
                   member, identity, steps>>

AnswerQuestion(e) ==
    /\ outbox[e] # "new" /\ e \in open
    /\ open' = open \ {e}
    /\ UNCHANGED <<outbox, sched, link, frames, acks, jobs, receipts, answered, reg,
                   member, identity, steps>>

\* An hour after it was put there, an event leaves the outbox by itself.
ExpireEvent(e) ==
    /\ outbox[e] = "waiting" /\ Step
    /\ outbox' = [outbox EXCEPT ![e] = "gone"]
    /\ UNCHANGED <<open, sched, link, frames, acks, jobs, receipts, answered, reg,
                   member, identity>>

\* The order of a pass: after the cursor first, then from the start.
TurnFixed(e) == e
Turn(e) == IF e > sched.cursor THEN e ELSE e + NumEvents

\* One event of a pass.  Answered questions met on the way are dropped.
PollOutbox ==
    LET eligible == Waits \ (sched.recent \cup sched.inflight)
        due == eligible \cap open
        first(e) == \A f \in due : Turn(e) <= Turn(f)
        Drop(met) == outbox' = [e \in Events |-> IF e \in met THEN "gone" ELSE outbox[e]]
    IN
    /\ link.up /\ Cardinality(sched.inflight) < InFlight
    /\ \/ /\ due = {} /\ eligible # {}
          /\ Drop(eligible)
          /\ UNCHANGED <<sched, frames>>
       \/ \E e \in due :
          /\ first(e)
          /\ Drop({f \in eligible \ open : Turn(f) < Turn(e)})
          /\ frames' = frames \cup {e}
          /\ sched' = [inflight |-> sched.inflight \cup {e},
                       recent |-> sched.recent \cup {e}, cursor |-> e]
    /\ UNCHANGED <<open, link, acks, jobs, receipts, answered, reg, member, identity, steps>>

\* Ten seconds after its last attempt, an event may be sent again.
CoolDown(e) ==
    /\ e \in sched.recent \ sched.inflight
    /\ sched' = [sched EXCEPT !.recent = @ \ {e}]
    /\ UNCHANGED <<outbox, open, link, frames, acks, jobs, receipts, answered, reg,
                   member, identity, steps>>

TakeAck(a) ==
    /\ link.up /\ a \in acks
    /\ acks' = acks \ {a}
    /\ IF a.e \in sched.inflight
       THEN /\ sched' = [sched EXCEPT !.inflight = @ \ {a.e},
                            !.recent = IF a.done THEN @ \ {a.e} ELSE @ \cup {a.e}]
            /\ outbox' = IF a.done THEN [outbox EXCEPT ![a.e] = "gone"] ELSE outbox
       ELSE UNCHANGED <<sched, outbox>>
    /\ UNCHANGED <<open, link, frames, jobs, receipts, answered, reg, member, identity, steps>>

-----------------------------------------------------------------------------
(* The beacon: deliveries. *)

Active(n) == {e \in Events : jobs[n][e].pc # "idle"}
Job(n, e, new) == jobs' = [jobs EXCEPT ![n][e] = new]
Acknowledged(n, e, done) ==
    acks' = IF link.up /\ link.n = n THEN acks \cup {[e |-> e, done |-> done]} ELSE acks

ReceiveEvent(e) ==
    /\ link.up /\ e \in frames
    /\ frames' = frames \ {e}
    /\ IF Cardinality(Active(link.n)) >= InFlight \/ e \in Active(link.n)
       THEN Acknowledged(link.n, e, FALSE) /\ UNCHANGED jobs
       ELSE Job(link.n, e, [NoJob EXCEPT !.pc = "listing"]) /\ UNCHANGED acks
    /\ UNCHANGED <<outbox, open, sched, link, receipts, answered, reg, member, identity, steps>>

Reaches(d) == reg[d].account = "owner" \/ (reg[d].account = "member" /\ member)
\* Only the last link was made with the current credential, if any was.
CurrentLink(n) == n = link.n /\ link.token = identity

ListDevices(n, e) ==
    LET found == IF CurrentLink(n) THEN {d \in Devices : Reaches(d)} ELSE {} IN
    /\ jobs[n][e].pc = "listing"
    /\ Job(n, e, [NoJob EXCEPT !.pc = "next", !.todo = found,
                               !.listed = [d \in found |-> reg[d]]])
    /\ UNCHANGED <<outbox, open, sched, link, frames, acks, receipts, answered, reg,
                   member, identity, steps>>

Key(e, d) == [e |-> e, d |-> d, reg |-> reg[d], token |-> identity]
Sending(d) == {<<n, e>> \in Links \X Events : d \in jobs[n][e].dev}

FreeRow(d) == Sending(d) = {}
FreeInstallation == \A d \in Devices : FreeRow(d)

Kept == receipts.reserved \cup receipts.delivered

\* A device without room for its receipt leaves the event incomplete.
Skipped(job, d, key) ==
    [job EXCEPT !.todo = @ \ {d},
                !.complete = @ /\ (Reaches(d) => key \in receipts.delivered)]

\* The transaction of one device, up to its send.
VisitDevice(n, e) ==
    LET job == jobs[n][e] IN
    /\ job.pc = "next"
    /\ \/ /\ job.todo # {} /\ ~CurrentLink(n)
          /\ Job(n, e, [job EXCEPT !.todo = {}, !.complete = TRUE])
          /\ UNCHANGED receipts
       \/ \E d \in job.todo :
          /\ CurrentLink(n) /\ FreeRow(d)
          /\ IF ~Reaches(d) \/ Key(e, d) \in Kept \/ Cardinality(Kept) >= Receipts
             THEN Job(n, e, Skipped(job, d, Key(e, d))) /\ UNCHANGED receipts
             ELSE /\ receipts' = [receipts EXCEPT !.reserved = @ \cup {Key(e, d)}]
                  /\ Job(n, e, [job EXCEPT !.pc = "sending", !.todo = @ \ {d}, !.dev = {d}])
    /\ UNCHANGED <<outbox, open, sched, link, frames, acks, answered, reg, member,
                   identity, steps>>

\* An accepted push keeps its receipt, any other gives it back.
GivenBack(keys) == [receipts EXCEPT !.reserved = @ \ keys]
Completed(key) == [reserved |-> receipts.reserved \ {key},
                   delivered |-> receipts.delivered \cup {key}]
SendEnds(n, e) ==
    LET job == jobs[n][e]
        next == [job EXCEPT !.pc = "next", !.dev = {}] IN
    /\ job.pc = "sending"
    /\ \E d \in job.dev :
       \/ /\ receipts' = Completed(Key(e, d))
          /\ answered' = answered \cup {Key(e, d)}
          /\ Job(n, e, next)
          /\ UNCHANGED reg
       \/ /\ receipts' = GivenBack({Key(e, d)})
          /\ reg' = [reg EXCEPT ![d] = NoReg]
          /\ Job(n, e, next)
          /\ UNCHANGED answered
       \/ /\ receipts' = GivenBack({Key(e, d)})
          /\ Job(n, e, [next EXCEPT !.complete = FALSE])
          /\ UNCHANGED <<answered, reg>>
    /\ UNCHANGED <<outbox, open, sched, link, frames, acks, member, identity, steps>>

DeliveryEnds(n, e) ==
    /\ jobs[n][e].pc = "next" /\ jobs[n][e].todo = {}
    /\ Acknowledged(n, e, jobs[n][e].complete)
    /\ Job(n, e, NoJob)
    /\ UNCHANGED <<outbox, open, sched, link, frames, receipts, answered, reg, member,
                   identity, steps>>

\* The deliveries of a connection end with it, wherever they are.
AbortJobs(n) ==
    /\ Active(n) # {} /\ (n = link.n => ~link.up)
    /\ jobs' = [jobs EXCEPT ![n] = [e \in Events |-> NoJob]]
    /\ receipts' = GivenBack(UNION {{Key(e, d) : d \in jobs[n][e].dev} : e \in Events})
    /\ UNCHANGED <<outbox, open, sched, link, frames, acks, answered, reg, member,
                   identity, steps>>

-----------------------------------------------------------------------------
(* What changes meanwhile. *)

\* A new registration, a renewed token, another account on the same device;
\* the endpoint may have been another device's, which then loses it.
RegisterDevice(d, account, from) ==
    /\ Step /\ FreeRow(d) /\ FreeRow(from)
    /\ reg' = [x \in Devices |->
          IF x = d THEN [account |-> account, version |-> steps']
          ELSE IF x = from THEN NoReg ELSE reg[x]]
    /\ UNCHANGED <<outbox, open, sched, link, frames, acks, jobs, receipts, answered,
                   member, identity>>

Unsubscribe(d) ==
    /\ Step /\ FreeRow(d) /\ reg[d] # NoReg
    /\ reg' = [reg EXCEPT ![d] = NoReg]
    /\ UNCHANGED <<outbox, open, sched, link, frames, acks, jobs, receipts, answered,
                   member, identity>>

EndSharing ==
    /\ Step /\ member /\ FreeInstallation
    /\ member' = FALSE
    /\ UNCHANGED <<outbox, open, sched, link, frames, acks, jobs, receipts, answered,
                   reg, identity>>

RotateCredential ==
    /\ Step /\ FreeInstallation
    /\ identity' = identity + 1
    /\ UNCHANGED <<outbox, open, sched, link, frames, acks, jobs, receipts, answered,
                   reg, member>>

LoseLink ==
    /\ link.up /\ link.n < MaxLinks
    /\ link' = [link EXCEPT !.up = FALSE]
    /\ frames' = {} /\ acks' = {}
    /\ UNCHANGED <<outbox, open, sched, jobs, receipts, answered, reg, member, identity, steps>>

\* Every connection starts a schedule of its own.
Relink ==
    /\ ~link.up
    /\ link' = [n |-> link.n + 1, up |-> TRUE, token |-> identity]
    /\ sched' = NewSchedule
    /\ UNCHANGED <<outbox, open, frames, acks, jobs, receipts, answered, reg, member,
                   identity, steps>>

\* The beacon restarts and forgets its receipts.
RestartBeacon ==
    /\ link.n < MaxLinks /\ Step
    /\ link' = [link EXCEPT !.up = FALSE]
    /\ frames' = {} /\ acks' = {}
    /\ jobs' = [n \in Links |-> [e \in Events |-> NoJob]]
    /\ receipts' = [reserved |-> {}, delivered |-> {}]
    /\ answered' = {}
    /\ UNCHANGED <<outbox, open, sched, reg, member, identity>>

-----------------------------------------------------------------------------
Deliver(n, e) == ListDevices(n, e) \/ VisitDevice(n, e) \/ SendEnds(n, e) \/ DeliveryEnds(n, e)

NotifyNext ==
    \/ \E e \in Events : \/ Enqueue(e) \/ AnswerQuestion(e) \/ ExpireEvent(e)
                         \/ CoolDown(e) \/ ReceiveEvent(e)
    \/ PollOutbox
    \/ \E a \in acks : TakeAck(a)
    \/ \E n \in Links : AbortJobs(n) \/ \E e \in Events : Deliver(n, e)
    \/ \E d, f \in Devices, a \in {"owner", "member"} : RegisterDevice(d, a, f)
    \/ \E d \in Devices : Unsubscribe(d)
    \/ EndSharing \/ RotateCredential \/ LoseLink \/ Relink \/ RestartBeacon

\* The connection is made again, its loop polls every second, a send ends
\* within five seconds, and a cooldown within ten.
NotifyFairness ==
    /\ WF_notifyVars(PollOutbox)
    /\ WF_notifyVars(Relink)
    /\ WF_notifyVars(\E a \in acks : TakeAck(a))
    /\ \A e \in Events : WF_notifyVars(ReceiveEvent(e)) /\ WF_notifyVars(CoolDown(e))
    /\ \A n \in Links : /\ WF_notifyVars(AbortJobs(n))
                        /\ \A e \in Events : WF_notifyVars(Deliver(n, e))

-----------------------------------------------------------------------------
\* No device rings twice for one event: while the beacon lives, a push whose
\* answer it has seen is never repeated to the same registration, although
\* the event comes again after a lost acknowledgement or for the sake of
\* another device, and although a delivery of a former connection may still
\* be running.
RingsOnce ==
    /\ \A n \in Links, e \in Events : \A d \in jobs[n][e].dev : Key(e, d) \notin answered
    /\ \A e \in Events, d \in Devices :
          Cardinality({n \in Links : d \in jobs[n][e].dev}) <= 1

\* A push is only under way to a device that may know of the event: its
\* account still owns or shares the installation.  A removal waits for the
\* send or the send sees it ("Each send serializes with sharing changes and
\* rechecks the current device owner").
PushesReach ==
    \A n \in Links, e \in Events : \A d \in jobs[n][e].dev : Reaches(d)

\* On the connection of the present credential an event is reported as done
\* only when every device that was registered when its delivery began, still
\* is and still has access, accepted its push; a full receipt table, a failed
\* send and a send of another connection leave it in the outbox.  A delivery
\* of a credential that was rotated or revoked meanwhile promises nothing:
\* deliver then reports the event as done without a push ("a revoked
\* installation can therefore receive a positive ack").
DoneMeansAnswered ==
    \A n \in Links, e \in Events :
        LET job == jobs[n][e] IN
        job.pc = "next" /\ job.todo = {} /\ job.complete /\ CurrentLink(n) =>
            \A d \in DOMAIN job.listed :
                reg[d] = job.listed[d] /\ Reaches(d) => Key(e, d) \in answered

\* Every pending event gets its turn, even when earlier deliveries keep
\* failing (notifications.rs pending: "Rotate before applying cooldowns and
\* the limit").
EveryEventGetsTurn ==
    \A e \in Events : (outbox[e] = "waiting" /\ e \in open) ~>
        (e \in sched.inflight \/ outbox[e] = "gone" \/ e \notin open)
=============================================================================
