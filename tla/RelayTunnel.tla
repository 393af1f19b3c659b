---------------------------- MODULE RelayTunnel ----------------------------
(***************************************************************************)
(* The relay of one installation: crates/beacon/src/relay.rs, where the    *)
(* beacon forwards the browsers' API requests over the websocket an        *)
(* installation opened, and the connected/dispatch half of                 *)
(* crates/installation/src/relay.rs, which runs them.  A request crosses   *)
(* several awaits before it is dispatched (session, ownership, upload,     *)
(* session again) while memberships, sessions and the installation's       *)
(* identity are revoked and the websocket is replaced; a streamed body is  *)
(* then paced by one credit per chunk.                                     *)
(*                                                                         *)
(* One account that is a member of the installation makes every request;   *)
(* a request is used once, like the uuid it stands for.  Chunks are        *)
(* numbered.  epoch, in a request and in db, numbers the removals of the   *)
(* member; it exists in the model only, where the code has no such number. *)
(***************************************************************************)
EXTENDS Naturals, Sequences, FiniteSets

CONSTANTS Requests,        \* the request identifiers
          Streams,         \* those whose path is a stream_path
          Sessions,        \* browser sessions of the account
          Slots,           \* permits of tunnel.slots
          Body,            \* chunks of a streamed body
          MaxTunnels,      \* bound: connections of the installation
          MaxEvents        \* bound: revocations, disconnections, departures

ASSUME RelayAssumption ==
    Streams \subseteq Requests /\ Slots \in Nat \ {0} /\ Body \in Nat \ {0}

VARIABLES
    db,        \* the beacon's database: member, epoch, sessions, identity
    duty,      \* revocations committed whose call to the relay has not returned
    seen,      \* epoch of the last removal whose revoke_access returned
    tunnels,   \* the Tunnel of each connection, with both websocket directions
    registry,  \* Relay.connections of the installation: a tunnel, or 0
    reqs,      \* each request at the beacon
    tasks,     \* each request at the installation
    events     \* events so far, bounded by MaxEvents

relayVars == <<db, duty, seen, tunnels, registry, reqs, tasks, events>>

Tunnels == 1..MaxTunnels
Frame(kind, r, n) == [kind |-> kind, id |-> r, n |-> n]

NewTunnel == [state |-> "none", token |-> 0, stop |-> FALSE, gen |-> 0,
              queue |-> <<>>, control |-> <<>>, down |-> <<>>, up |-> <<>>]

\* pending: the socket loop's map entry ("waiting" for the head of the
\* response, "streaming" afterwards); chan: the body's channel of size one,
\* where 0 is an error; listed/revoked: access.streams and its watch.
NewRequest == [pc |-> "idle", t |-> 0, gen |-> 0, epoch |-> 0, session |-> 0,
               pending |-> "none", chan |-> <<>>, listed |-> FALSE,
               revoked |-> FALSE, got |-> 0, end |-> "none"]

NewTask == [state |-> "none", credit |-> 0, sent |-> 0, aborted |-> FALSE]

RelayInit ==
    /\ db = [member |-> TRUE, epoch |-> 0, sessions |-> Sessions, identity |-> 1]
    /\ duty = {}
    /\ seen = 0
    /\ tunnels = [t \in Tunnels |-> NewTunnel]
    /\ registry = 0
    /\ reqs = [r \in Requests |-> NewRequest]
    /\ tasks = [r \in Requests |-> NewTask]
    /\ events = 0

Stopped(t) == t = 0 \/ tunnels[t].stop
Event == events < MaxEvents /\ events' = events + 1
On(t) == {r \in Requests : reqs[r].t = t /\ reqs[r].pc \notin {"idle", "asked"}}
Set(r, new) == reqs' = [reqs EXCEPT ![r] = new]
Tunnel(t, new) == tunnels' = [tunnels EXCEPT ![t] = new]

\* The caller of r is gone: its future, and with it BrowserStream, is dropped.
Gone(q, end) == [q EXCEPT !.pc = "over", !.end = end, !.chan = <<>>,
                          !.revoked = @ \/ q.listed]

-----------------------------------------------------------------------------
(* The websocket at the beacon. *)

\* upgrade and serve_socket up to the welcome: the identity is current here.
Upgrade(t) ==
    /\ tunnels[t].state = "none"
    /\ \A u \in Tunnels : u < t => tunnels[u].state # "none"
    /\ Tunnel(t, [tunnels[t] EXCEPT !.state = "welcomed", !.token = db.identity])
    /\ UNCHANGED <<db, duty, seen, registry, reqs, tasks, events>>

\* The tunnel takes the registry entry; the one it replaces is stopped.
Register(t) ==
    /\ tunnels[t].state = "welcomed"
    /\ tunnels' = [u \in Tunnels |->
          IF u = t THEN [tunnels[u] EXCEPT !.state = "registered"]
          ELSE IF u = registry THEN [tunnels[u] EXCEPT !.stop = TRUE]
          ELSE tunnels[u]]
    /\ registry' = t
    /\ UNCHANGED <<db, duty, seen, reqs, tasks, events>>

RecheckNothing(t) ==
    /\ tunnels[t].state = "registered"
    /\ Tunnel(t, [tunnels[t] EXCEPT !.state = "serving"])
    /\ UNCHANGED <<db, duty, seen, registry, reqs, tasks, events>>

\* "Register before rechecking the persisted identity".
Recheck(t) ==
    /\ tunnels[t].state = "registered"
    /\ Tunnel(t, [tunnels[t] EXCEPT !.state = "serving",
                    !.stop = @ \/ tunnels[t].token # db.identity])
    /\ UNCHANGED <<db, duty, seen, registry, reqs, tasks, events>>

\* The identity monitor of a serving tunnel.
Monitor(t) ==
    /\ tunnels[t].state = "serving" /\ ~tunnels[t].stop
    /\ tunnels[t].token # db.identity
    /\ Tunnel(t, [tunnels[t] EXCEPT !.stop = TRUE])
    /\ UNCHANGED <<db, duty, seen, registry, reqs, tasks, events>>

UnregisterAny(t) == registry' = 0

\* "An old connection must never remove the replacement's registry entry."
Unregister(t) == registry' = IF registry = t THEN 0 ELSE registry

\* The loop of t ends, stopped or because its socket failed.  The pending
\* requests and the queue are dropped: their callers see a lost connection, or
\* the end of their body.  The installation drops the connection's tasks.
EndTunnel(t) ==
    /\ tunnels[t].state = "serving"
    /\ IF tunnels[t].stop THEN UNCHANGED events ELSE Event
    /\ Tunnel(t, [tunnels[t] EXCEPT !.state = "over", !.stop = TRUE, !.queue = <<>>,
                    !.control = <<>>, !.down = <<>>, !.up = <<>>])
    /\ Unregister(t)
    /\ reqs' = [r \in Requests |->
          IF r \notin On(t) THEN reqs[r]
          ELSE IF reqs[r].pc = "queued" THEN [Gone(reqs[r], "refused") EXCEPT !.pending = "none"]
          ELSE [reqs[r] EXCEPT !.pending = "none"]]
    /\ tasks' = [r \in Requests |->
          IF r \in On(t) /\ tasks[r].state # "none" THEN [tasks[r] EXCEPT !.state = "over"]
          ELSE tasks[r]]
    /\ UNCHANGED <<db, duty, seen>>

-----------------------------------------------------------------------------
(* Access changes: each is committed first and told to the relay afterwards. *)

RemoveMember ==
    /\ db.member /\ Event
    /\ db' = [db EXCEPT !.member = FALSE, !.epoch = @ + 1]
    /\ duty' = duty \union {"member"}
    /\ UNCHANGED <<seen, tunnels, registry, reqs, tasks>>

AcceptInvitation ==
    /\ ~db.member
    /\ db' = [db EXCEPT !.member = TRUE]
    /\ UNCHANGED <<duty, seen, tunnels, registry, reqs, tasks, events>>

Revoke(rs) == reqs' = [r \in Requests |->
    IF r \in rs /\ reqs[r].listed THEN [reqs[r] EXCEPT !.revoked = TRUE] ELSE reqs[r]]

\* revoke_access(installation, Some(account)).
RevokeAccount ==
    /\ "member" \in duty
    /\ duty' = duty \ {"member"}
    /\ seen' = db.epoch
    /\ IF registry = 0 THEN UNCHANGED <<tunnels, reqs>>
       ELSE /\ Tunnel(registry, [tunnels[registry] EXCEPT !.gen = @ + 1])
            /\ Revoke(On(registry))
    /\ UNCHANGED <<db, registry, tasks, events>>

\* logout, or the revocation of one session.
Logout(s) ==
    /\ s \in db.sessions /\ Event
    /\ db' = [db EXCEPT !.sessions = @ \ {s}]
    /\ duty' = duty \union {s}
    /\ UNCHANGED <<seen, tunnels, registry, reqs, tasks>>

RevokeSession(s) ==
    /\ s \in duty
    /\ duty' = duty \ {s}
    /\ Revoke({r \in On(registry) : registry # 0 /\ reqs[r].session = s})
    /\ UNCHANGED <<db, seen, tunnels, registry, tasks, events>>

\* The session reaches its deadline; the loops end the streams that know it.
Expire(s) ==
    /\ s \in db.sessions /\ Event
    /\ db' = [db EXCEPT !.sessions = @ \ {s}]
    /\ Revoke({r \in Requests : reqs[r].session = s
                             /\ reqs[r].pc \in {"queued", "open", "polling"}})
    /\ UNCHANGED <<duty, seen, tunnels, registry, tasks>>

\* rotate_token: the installation keeps its owner and gets another identity.
ChangeIdentity ==
    /\ db.identity <= MaxTunnels /\ Event
    /\ db' = [db EXCEPT !.identity = @ + 1]
    /\ duty' = duty \union {"installation"}
    /\ UNCHANGED <<seen, tunnels, registry, reqs, tasks>>

\* revoke_access(installation, None), whichever connection is registered now.
RevokeInstallation ==
    /\ "installation" \in duty
    /\ duty' = duty \ {"installation"}
    /\ IF registry = 0 THEN UNCHANGED tunnels
       ELSE Tunnel(registry, [tunnels[registry] EXCEPT !.stop = TRUE])
    /\ registry' = 0
    /\ UNCHANGED <<db, seen, reqs, tasks, events>>

-----------------------------------------------------------------------------
(* A request on its way to the installation: forward and send. *)

Generation(t) == IF t = 0 THEN 0 ELSE tunnels[t].gen

\* The session is good; the tunnel and its generation are read.
Ask(r, s) ==
    /\ reqs[r].pc = "idle" /\ s \in db.sessions
    /\ Set(r, [reqs[r] EXCEPT !.pc = "asked", !.session = s, !.t = registry,
                              !.gen = Generation(registry)])
    /\ UNCHANGED <<db, duty, seen, tunnels, registry, tasks, events>>

\* Requests that hold a permit of tunnel t: uploading, queued or pending.
Holding(t) == {r \in On(t) : \/ reqs[r].pc \in {"allowed", "registered"}
                             \/ r \in {tunnels[t].queue[k] : k \in DOMAIN tunnels[t].queue}
                             \/ reqs[r].pending # "none"}

\* The account's role is read after the generation; send reserves a slot before it
\* reads the upload.
Allow(r) ==
    /\ reqs[r].pc = "asked"
    /\ LET t == reqs[r].t IN
       IF db.member /\ ~Stopped(t) /\ Cardinality(Holding(t)) < Slots
       THEN Set(r, [reqs[r] EXCEPT !.pc = "allowed", !.epoch = db.epoch])
       ELSE Set(r, Gone(reqs[r], "refused"))
    /\ UNCHANGED <<db, duty, seen, tunnels, registry, tasks, events>>

AccessRevoked(r) == reqs[r].gen # Generation(reqs[r].t) \/ Stopped(reqs[r].t)

\* The upload is complete: a stream is listed, unless its access is revoked.
Upload(r) ==
    /\ reqs[r].pc = "allowed"
    /\ IF AccessRevoked(r) THEN Set(r, Gone(reqs[r], "refused"))
       ELSE Set(r, [reqs[r] EXCEPT !.pc = "registered", !.listed = r \in Streams])
    /\ UNCHANGED <<db, duty, seen, tunnels, registry, tasks, events>>

\* The session is checked a second time, and the command is queued.
CheckSession(r) ==
    /\ reqs[r].pc = "registered"
    /\ LET t == reqs[r].t IN
       IF reqs[r].session \in db.sessions /\ tunnels[t].state # "over"
       THEN /\ Set(r, [reqs[r] EXCEPT !.pc = "queued"])
            /\ Tunnel(t, [tunnels[t] EXCEPT !.queue = Append(@, r)])
       ELSE /\ Set(r, Gone(reqs[r], "refused"))
            /\ UNCHANGED tunnels
    /\ UNCHANGED <<db, duty, seen, registry, tasks, events>>

\* receiver.recv() of the socket loop, which sees a stop first.
Dispatch(t) ==
    /\ tunnels[t].state = "serving" /\ ~tunnels[t].stop /\ tunnels[t].queue # <<>>
    /\ LET r == Head(tunnels[t].queue)
           rest == [tunnels[t] EXCEPT !.queue = Tail(@)]
           revoked == AccessRevoked(r) \/ (r \in Streams /\ ~(reqs[r].listed /\ ~reqs[r].revoked))
       IN IF revoked \/ reqs[r].pc # "queued"
          THEN /\ Tunnel(t, rest)
               /\ IF reqs[r].pc = "queued" THEN Set(r, Gone(reqs[r], "refused"))
                  ELSE UNCHANGED reqs
          ELSE /\ Tunnel(t, [rest EXCEPT !.down = Append(@, Frame("Request", r, 0))])
               /\ Set(r, [reqs[r] EXCEPT !.pending = "waiting"])
    /\ UNCHANGED <<db, duty, seen, registry, tasks, events>>

\* access_changed: a revoked stream leaves the list and is cancelled.
Changed(t, r) ==
    /\ tunnels[t].state = "serving" /\ ~tunnels[t].stop
    /\ r \in On(t) /\ reqs[r].listed /\ reqs[r].revoked
    /\ Set(r, [reqs[r] EXCEPT !.listed = FALSE, !.pending = "none"])
    /\ IF reqs[r].pending = "none" THEN UNCHANGED tunnels
       ELSE Tunnel(t, [tunnels[t] EXCEPT !.down = Append(@, Frame("Cancel", r, 0))])
    /\ UNCHANGED <<db, duty, seen, registry, tasks, events>>

\* The credits of the bodies reach the wire while their request is pending.
Control(t) ==
    /\ tunnels[t].state = "serving" /\ ~tunnels[t].stop /\ tunnels[t].control # <<>>
    /\ LET r == Head(tunnels[t].control)
           rest == [tunnels[t] EXCEPT !.control = Tail(@)]
       IN Tunnel(t, IF reqs[r].pending = "none" THEN rest
                    ELSE [rest EXCEPT !.down = Append(@, Frame("Credit", r, 0))])
    /\ UNCHANGED <<db, duty, seen, registry, reqs, tasks, events>>

-----------------------------------------------------------------------------
(* A frame of the installation reaches the socket loop. *)

Reads(q) == q.pc \in {"open", "polling"}
Deliver(q, n) == IF q.chan = <<>> /\ Reads(q) THEN <<n>> ELSE q.chan

\* What the loop makes of the frame, and whether it answers with a Cancel.
Accepts(f) ==
    LET q == reqs[f.id] IN
    CASE f.kind = "Start" -> q.pending = "waiting" /\ f.id \in Streams /\ q.pc = "queued"
      [] f.kind = "Chunk" -> q.pending = "streaming" /\ q.chan = <<>> /\ Reads(q)
      [] OTHER -> TRUE

Accepted(f) ==
    LET q == reqs[f.id] IN
    CASE f.kind = "Start" -> [q EXCEPT !.pending = "streaming", !.pc = "open"]
      [] f.kind = "Chunk" -> [q EXCEPT !.chan = <<f.n>>]
      [] f.kind = "End" /\ q.pending # "none" ->
            [q EXCEPT !.pending = "none", !.chan = IF f.n = 0 THEN Deliver(q, 0) ELSE @]
      [] f.kind = "Response" /\ q.pending = "waiting" ->
            IF q.pc = "queued" THEN [Gone(q, "answered") EXCEPT !.pending = "none"]
            ELSE [q EXCEPT !.pending = "none"]
      [] f.kind = "Response" /\ q.pending = "streaming" ->
            [q EXCEPT !.pending = "none", !.chan = Deliver(q, 0)]
      [] OTHER -> q

Receive(t) ==
    /\ tunnels[t].state = "serving" /\ ~tunnels[t].stop /\ tunnels[t].up # <<>>
    /\ LET f == Head(tunnels[t].up)
           rest == [tunnels[t] EXCEPT !.up = Tail(@)]
       IN IF Accepts(f) THEN Tunnel(t, rest) /\ Set(f.id, Accepted(f))
          ELSE /\ Tunnel(t, [rest EXCEPT !.down = Append(@, Frame("Cancel", f.id, 0))])
               /\ Set(f.id, [reqs[f.id] EXCEPT !.pending = "none"])
    /\ UNCHANGED <<db, duty, seen, registry, tasks, events>>

-----------------------------------------------------------------------------
(* The browser's side of the request. *)

Cut(r) == Stopped(reqs[r].t) \/ reqs[r].revoked \/ ~reqs[r].listed

\* The body is polled: a credit is queued before the chunk is awaited.
Poll(r) ==
    /\ reqs[r].pc = "open"
    /\ IF Cut(r) THEN Set(r, Gone(reqs[r], "cut")) /\ UNCHANGED tunnels
       ELSE /\ Set(r, [reqs[r] EXCEPT !.pc = "polling"])
            /\ Tunnel(reqs[r].t, [tunnels[reqs[r].t] EXCEPT !.control = Append(@, r)])
    /\ UNCHANGED <<db, duty, seen, registry, tasks, events>>

\* The biased select of the body: a stop or a revocation before any chunk.
Read(r) ==
    /\ reqs[r].pc = "polling"
    /\ \/ /\ Cut(r)
          /\ Set(r, Gone(reqs[r], "cut"))
       \/ /\ ~Cut(r) /\ reqs[r].chan # <<>>
          /\ IF Head(reqs[r].chan) = 0 THEN Set(r, Gone(reqs[r], "error"))
             ELSE Set(r, [reqs[r] EXCEPT !.pc = "open", !.chan = <<>>, !.got = @ + 1])
       \/ /\ ~Cut(r) /\ reqs[r].chan = <<>> /\ reqs[r].pending # "streaming"
          /\ Set(r, Gone(reqs[r], "clean"))
    /\ UNCHANGED <<db, duty, seen, tunnels, registry, tasks, events>>

\* The browser leaves, or the response does not come within REQUEST_TIMEOUT.
Leave(r) ==
    /\ reqs[r].pc \in {"allowed", "registered", "queued", "open", "polling"} /\ Event
    /\ Set(r, Gone(reqs[r], "left"))
    /\ UNCHANGED <<db, duty, seen, tunnels, registry, tasks>>

-----------------------------------------------------------------------------
(* The installation: the loop of connected, and dispatch. *)

Say(t, f) == Tunnel(t, [tunnels[t] EXCEPT !.up = Append(@, f)])
Running == {r \in Requests : tasks[r].state \in {"handling", "streaming"}}
Task(r, new) == tasks' = [tasks EXCEPT ![r] = new]

\* A frame of the beacon: a request over the capacity is refused at once.
Take(t) ==
    /\ tunnels[t].down # <<>>
    /\ LET f == Head(tunnels[t].down)
           r == f.id
           rest == [tunnels[t] EXCEPT !.down = Tail(@)]
       IN \/ /\ f.kind = "Request" /\ Cardinality(Running) < Slots
             /\ Tunnel(t, rest)
             /\ Task(r, [tasks[r] EXCEPT !.state = "handling"])
          \/ /\ f.kind = "Request" /\ Cardinality(Running) >= Slots
             /\ Tunnel(t, [rest EXCEPT !.up = Append(@, Frame("Response", r, 0))])
             /\ UNCHANGED tasks
          \/ /\ f.kind = "Credit"
             /\ Tunnel(t, rest)
             /\ IF r \in Running /\ ~tasks[r].aborted
                THEN Task(r, [tasks[r] EXCEPT !.credit = 1])
                ELSE UNCHANGED tasks
          \/ /\ f.kind = "Cancel"
             /\ Tunnel(t, rest)
             /\ IF r \in Running THEN Task(r, [tasks[r] EXCEPT !.aborted = TRUE])
                ELSE UNCHANGED tasks
    /\ UNCHANGED <<db, duty, seen, registry, reqs, events>>

\* The handler answers with a whole response, or failed.
Answer(r) ==
    /\ tasks[r].state = "handling" /\ r \notin Streams
    /\ Task(r, [tasks[r] EXCEPT !.state = "over"])
    /\ IF tasks[r].aborted THEN UNCHANGED tunnels
       ELSE Say(reqs[r].t, Frame("Response", r, 0))
    /\ UNCHANGED <<db, duty, seen, registry, reqs, events>>

\* The head of a streamed response.
Begin(r) ==
    /\ tasks[r].state = "handling" /\ r \in Streams
    /\ Task(r, [tasks[r] EXCEPT !.state = "streaming"])
    /\ Say(reqs[r].t, Frame("Start", r, 0))
    /\ UNCHANGED <<db, duty, seen, registry, reqs, events>>

\* "Acquire credit before polling the installation body."
Ready(r) == tasks[r].state = "streaming" /\ tasks[r].credit = 1

SendChunk(r) ==
    /\ Ready(r) /\ tasks[r].sent < Body
    /\ Task(r, [tasks[r] EXCEPT !.credit = 0, !.sent = @ + 1])
    /\ Say(reqs[r].t, Frame("Chunk", r, tasks[r].sent + 1))
    /\ UNCHANGED <<db, duty, seen, registry, reqs, events>>

\* The body ends (n = 1), fails, or its task panics, each while it is polled.
FinishBody(r) ==
    /\ Ready(r)
    /\ Task(r, [tasks[r] EXCEPT !.state = "over"])
    /\ \/ tasks[r].sent = Body /\ Say(reqs[r].t, Frame("End", r, 1)) /\ UNCHANGED events
       \/ Event /\ Say(reqs[r].t, Frame("End", r, 0))
       \/ Event /\ Say(reqs[r].t, Frame("Response", r, 0))
    /\ UNCHANGED <<db, duty, seen, registry, reqs>>

AbortLands(r) ==
    /\ tasks[r].state \in {"handling", "streaming"} /\ tasks[r].aborted
    /\ Task(r, [tasks[r] EXCEPT !.state = "over"])
    /\ UNCHANGED <<db, duty, seen, tunnels, registry, reqs, events>>

-----------------------------------------------------------------------------
RelayNext ==
    \/ \E t \in Tunnels : \/ Upgrade(t) \/ Register(t) \/ Recheck(t) \/ Monitor(t)
                          \/ EndTunnel(t) \/ Dispatch(t) \/ Control(t) \/ Receive(t)
                          \/ Take(t)
    \/ \E t \in Tunnels, r \in Requests : Changed(t, r)
    \/ RemoveMember \/ AcceptInvitation \/ RevokeAccount
    \/ ChangeIdentity \/ RevokeInstallation
    \/ \E s \in Sessions : Logout(s) \/ RevokeSession(s) \/ Expire(s)
    \/ \E r \in Requests, s \in Sessions : Ask(r, s)
    \/ \E r \in Requests : \/ Allow(r) \/ Upload(r) \/ CheckSession(r) \/ Poll(r)
                           \/ Read(r) \/ Leave(r) \/ Answer(r) \/ Begin(r)
                           \/ SendChunk(r) \/ FinishBody(r) \/ AbortLands(r)

-----------------------------------------------------------------------------
\* Something crosses the tunnel for r: its request is sent, or a chunk is read.
Crosses(r) == \/ reqs[r].pending = "none" /\ reqs'[r].pending = "waiting"
              \/ reqs[r].got < reqs'[r].got

\* Once the call that revokes an access has returned, nothing more crosses the
\* tunnel for it: not for a member removed since the request's role was read,
\* however long the upload took (relay.rs, "Revocation racing a slow upload
\* must also prevent that stream from opening later"); not to a stream of a
\* session that is gone ("logout during an upload either sees the registered
\* stream or removes the persisted session before this check"); not over a
\* connection made with a former identity ("detach may have raced the HTTP
\* upgrade").
RevokedStaysOut ==
    [][\A r \in Requests : Crosses(r) =>
          /\ reqs[r].epoch >= seen
          /\ r \in Streams => reqs[r].session \in db.sessions \union duty
          /\ \/ tunnels[reqs[r].t].token = db.identity
             \/ "installation" \in duty]_relayVars

\* A connection that serves requests is the registered one, so that an
\* installation with a working tunnel is never reported offline: the cleanup of
\* an old connection leaves its replacement alone.
LiveIsRegistered ==
    \A t \in Tunnels : tunnels[t].state = "serving" /\ ~tunnels[t].stop => registry = t

\* A body whose end the browser reads as complete, on a tunnel that still
\* stands, holds every chunk: one credit per chunk keeps the channel of size one
\* from ever refusing a chunk, or the error that ends a failed body.
CleanMeansWhole ==
    \A r \in Requests : reqs[r].end = "clean" => reqs[r].got = Body

=============================================================================
