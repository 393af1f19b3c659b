----------------------------- MODULE NodeRelay -----------------------------
(***************************************************************************)
(* Calls of the manager to a remote node (nodes/transport.rs,              *)
(* nodes/relay.rs, nodes/executor.rs).  A node only connects outwards: it  *)
(* polls for commands, forwards each to its VM controller, and sends the   *)
(* answer back as numbered frames, or as one upload when the answer is     *)
(* bulk data.  Frames may arrive twice, the answer to a poll may be lost,  *)
(* every party has timeouts, and the manager's reader may leave.           *)
(*                                                                         *)
(* One node; an answer is the head, chunks 1 .. Chunks and an end.         *)
(***************************************************************************)
EXTENDS Naturals, SequencesExt, FiniteSets

CONSTANTS Ids,          \* calls
          MaxCalls,     \* MAX_CALLS_PER_NODE
          Chunks,       \* chunks of an answer
          ChannelSize,  \* capacity of a call's body channel
          MaxFaults     \* lost, duplicated, late or interrupted messages

ASSUME RelayConstants ==
  IsFiniteSet(Ids) /\ {MaxCalls, Chunks, ChannelSize, MaxFaults} \subseteq Nat

Kinds == {"control", "bulk", "wait", "prepare", "stop"}
End   == Chunks + 1

VARIABLES
  call,      \* Transport.calls: kind, next sequence, head taken, streaming
  open,      \* the calls in the map
  queue,     \* Transport.pending of the node
  chan,      \* the body channel of each call
  reader,    \* the manager's side of each call, and what it read
  task,      \* the node's task of each call
  post,      \* frames posted to the manager and not answered
  ran,       \* commands the controller received
  result,    \* what the end of each wait found, and whether it arrived
  attempt,   \* the executor's side of the attempt
  faults

relayVars == <<call, open, queue, chan, reader, task, post, ran, result, attempt, faults>>

NoCall   == [kind |-> "none", seq |-> 0, head |-> FALSE, streaming |-> FALSE]
NoReader == [pc |-> "none", got |-> <<>>, ok |-> FALSE]
NoTask   == [pc |-> "none", seq |-> 0]

RelayInit ==
  /\ call = [c \in Ids |-> NoCall] /\ open = {} /\ queue = <<>>
  /\ chan = [c \in Ids |-> <<>>]
  /\ reader = [c \in Ids |-> NoReader]
  /\ task = [c \in Ids |-> NoTask]
  /\ post = {} /\ ran = [c \in Ids |-> 0]
  /\ result = [c \in Ids |-> "none"]
  /\ attempt = "none" /\ faults = 0

Fault == faults < MaxFaults /\ faults' = faults + 1

---------------------------------------------------------------------------
(* Transport::request, and its end.                                        *)
Request(c, kind) ==
  /\ reader[c].pc = "none" /\ Cardinality(open) < MaxCalls
  /\ kind \in {"prepare", "stop"} => \A d \in Ids : call[d].kind # kind
  /\ call' = [call EXCEPT ![c] = [NoCall EXCEPT !.kind = kind]]
  /\ open' = open \cup {c} /\ queue' = Append(queue, c)
  /\ reader' = [reader EXCEPT ![c].pc = "head"]
  /\ UNCHANGED <<chan, task, post, ran, result, attempt, faults>>

(* Pending::drop; a call is queued once.                                   *)
Dropped(c) == open' = open \ {c} /\ queue' = RemoveFirst(queue, c)

(* head_timeout, 60 seconds without a frame, or the caller left.           *)
ReaderLeaves(c) ==
  /\ reader[c].pc \in {"head", "body"} /\ Fault
  /\ reader' = [reader EXCEPT ![c].pc = "failed"]
  /\ Dropped(c)
  /\ UNCHANGED <<call, chan, task, post, ran, result, attempt>>

(* A sender is held by the call, by its upload, and by posts that reserve. *)
Closed(c) ==
  /\ c \notin open /\ task[c].pc # "upload"
  /\ \A p \in post : p.id = c => p.at # "reserve"

(* Only an explicit end frame completes a response.                        *)
Read(c) ==
  /\ reader[c].pc = "body"
  /\ IF chan[c] = <<>>
     THEN /\ Closed(c)
          /\ reader' = [reader EXCEPT ![c].pc = "failed"]
          /\ Dropped(c) /\ UNCHANGED chan
     ELSE /\ chan' = [chan EXCEPT ![c] = Tail(@)]
          /\ IF Head(chan[c]) = End
             THEN reader' = [reader EXCEPT ![c].pc = "done"] /\ Dropped(c)
             ELSE /\ reader' = [reader EXCEPT ![c].got = Append(@, Head(chan[c]))]
                  /\ UNCHANGED <<open, queue>>
  /\ UNCHANGED <<call, task, post, ran, result, attempt, faults>>

---------------------------------------------------------------------------
(* poll takes the command; an answer that is lost is never sent again.     *)
Poll(lost) ==
  /\ queue # <<>> /\ Head(queue) \in open
  /\ queue' = Tail(queue)
  /\ IF lost THEN Fault /\ UNCHANGED task
     ELSE task' = [task EXCEPT ![Head(queue)].pc = "start"] /\ UNCHANGED faults
  /\ UNCHANGED <<call, open, chan, reader, post, ran, result, attempt>>

(* forward: the controller is asked once; it may be unavailable or slow,   *)
(* and then one frame is both the head and the end.                        *)
Forward(c, answers) ==
  /\ task[c].pc = "start" /\ call[c].kind # "prepare"
  /\ ran' = [ran EXCEPT ![c] = @ + 1]
  /\ IF answers THEN task' = [task EXCEPT ![c].pc = "send"] /\ UNCHANGED faults
     ELSE Fault /\ task' = [task EXCEPT ![c].pc = "refuse"]
  /\ attempt' = IF call[c].kind = "stop" /\ attempt \in {"registered", "serving"}
                THEN "stopped" ELSE attempt
  /\ UNCHANGED <<call, open, queue, chan, reader, post, result>>

(* Executor::prepare: the plan and the first lease, then the attempt is    *)
(* registered, then its listeners start; 280 seconds end it anywhere.      *)
Prepare(c) ==
  /\ task[c].pc = "start" /\ call[c].kind = "prepare"
  /\ \/ /\ attempt = "none" /\ attempt' = "staged" /\ UNCHANGED <<task, ran>>
     \/ /\ attempt = "staged" /\ attempt' = "registered" /\ UNCHANGED <<task, ran>>
     \/ /\ attempt \in {"registered", "stopped"}
        /\ attempt' = IF attempt = "registered" THEN "serving" ELSE attempt
        /\ task' = [task EXCEPT ![c].pc = "accept"]
        /\ ran' = [ran EXCEPT ![c] = @ + 1]
  /\ UNCHANGED <<call, open, queue, chan, reader, post, result, faults>>
PrepareFails(c) ==
  /\ task[c].pc = "start" /\ call[c].kind = "prepare" /\ Fault
  /\ task' = [task EXCEPT ![c].pc = "refuse"]
  /\ UNCHANGED <<call, open, queue, chan, reader, post, ran, result, attempt>>

(* A frame is posted and its answer awaited: what a frame carries depends  *)
(* on its number alone.                                                    *)
Frame(c) ==
  [id |-> c, seq |-> task[c].seq, at |-> "arrived", copy |-> 1,
   ok |-> task[c].pc # "refuse",
   done |-> task[c].pc \in {"refuse", "accept"} \/ task[c].seq = End]
Post(c) ==
  /\ \/ task[c].pc \in {"refuse", "accept"}
     \/ task[c].pc = "send"
        /\ ~(call[c].kind = "bulk" /\ task[c].seq = 1)
        /\ ~(call[c].kind = "wait" /\ task[c].seq = End /\ result[c] = "none")
  /\ post' = post \cup {Frame(c)}
  /\ task' = [task EXCEPT ![c].pc = IF @ = "send" THEN "await" ELSE "last"]
  /\ UNCHANGED <<call, open, queue, chan, reader, ran, result, attempt, faults>>

(* Executor::result: uploaded before the end of the wait is; a result that  *)
(* is missing or cannot be read is passed over.                            *)
Result(c, readable) ==
  /\ call[c].kind = "wait" /\ task[c].pc = "send" /\ task[c].seq = End
  /\ result[c] = "none"
  /\ result' = [result EXCEPT ![c] = IF readable THEN "arrived" ELSE "unread"]
  /\ UNCHANGED <<call, open, queue, chan, reader, task, post, ran, attempt, faults>>

(* The task ends: a frame refused or unanswered, the VM's answer or the    *)
(* relay interrupted.  Nothing is sent again.                              *)
TaskFails(c) ==
  /\ task[c].pc \in {"send", "await", "last", "upload"} /\ Fault
  /\ task' = [task EXCEPT ![c].pc = "over"]
  /\ IF task[c].pc = "upload" THEN Dropped(c) ELSE UNCHANGED <<open, queue>>
  /\ UNCHANGED <<call, chan, reader, post, ran, result, attempt>>

(* The network may deliver a frame twice.                                  *)
Duplicate(p) ==
  /\ p.copy = 1 /\ Fault
  /\ post' = post \cup {[p EXCEPT !.copy = 2, !.at = "arrived"]}
  /\ UNCHANGED <<call, open, queue, chan, reader, task, ran, result, attempt>>

---------------------------------------------------------------------------
(* Transport::reply.                                                       *)
Replying(c)   == c \in open /\ ~call[c].streaming
IsRetry(p)    == p.seq < call[p.id].seq
Acknowledged(p) ==
  task' = [task EXCEPT ![p.id] =
    IF p.copy = 1 /\ @.pc = "await" THEN [pc |-> IF @.seq = End THEN "over" ELSE "send", seq |-> @.seq + 1]
    ELSE IF p.copy = 1 /\ @.pc = "last" THEN [@ EXCEPT !.pc = "over"] ELSE @]
Refused(p) ==
  task' = [task EXCEPT ![p.id].pc = IF p.copy = 1 /\ @ \in {"await", "last"} THEN "over" ELSE @]

Arrive(p) ==
  /\ p.at = "arrived"
  /\ IF ~Replying(p.id) \/ p.seq > call[p.id].seq
     THEN post' = post \ {p} /\ Refused(p)
     ELSE IF IsRetry(p) THEN post' = post \ {p} /\ Acknowledged(p)
     ELSE post' = (post \ {p}) \cup {[p EXCEPT !.at = "reserve"]} /\ UNCHANGED task
  /\ UNCHANGED <<call, open, queue, chan, reader, ran, result, attempt, faults>>

(* Everything of a frame is published in one step: head, chunk, number.    *)
Apply(p) ==
  LET c == p.id IN
  /\ call' = [call EXCEPT ![c].seq = @ + 1, ![c].head = TRUE]
  /\ reader' = IF ~call[c].head /\ reader[c].pc = "head"
               THEN [reader EXCEPT ![c].pc = "body", ![c].ok = p.ok] ELSE reader
  /\ chan' = IF p.done THEN [chan EXCEPT ![c] = Append(@, End)]
             ELSE IF p.seq > 0 THEN [chan EXCEPT ![c] = Append(@, p.seq)] ELSE chan
  /\ open' = IF p.done THEN open \ {c} ELSE open

(* A reply that trusts the check it made before it waited for room.        *)
PublishUnchecked(p) ==
  /\ p.at = "reserve" /\ Len(chan[p.id]) < ChannelSize
  /\ post' = post \ {p}
  /\ IF Replying(p.id) THEN Apply(p) /\ Acknowledged(p)
     ELSE Refused(p) /\ UNCHANGED <<call, open, chan, reader>>
  /\ UNCHANGED <<queue, ran, result, attempt, faults>>

(* The room is reserved first, and the call looked up again after it.      *)
Publish(p) ==
  /\ p.at = "reserve" /\ Len(chan[p.id]) < ChannelSize
  /\ post' = post \ {p}
  /\ IF ~Replying(p.id) THEN Refused(p) /\ UNCHANGED <<call, open, chan, reader>>
     ELSE IF IsRetry(p) THEN Acknowledged(p) /\ UNCHANGED <<call, open, chan, reader>>
     ELSE Apply(p) /\ Acknowledged(p)
  /\ UNCHANGED <<queue, ran, result, attempt, faults>>

(* No room for 20 seconds, or the reader closed the channel.               *)
Stalled(p) ==
  /\ p.at = "reserve" /\ (reader[p.id].pc = "failed" \/ Len(chan[p.id]) >= ChannelSize)
  /\ post' = post \ {p} /\ Refused(p)
  /\ UNCHANGED <<call, open, queue, chan, reader, ran, result, attempt, faults>>

---------------------------------------------------------------------------
(* Transport::stream and stream_body: one upload instead of the chunks.    *)
StreamStart(c) ==
  /\ task[c].pc = "send" /\ call[c].kind = "bulk" /\ task[c].seq = 1
  /\ IF Replying(c) /\ call[c].seq = 1 /\ call[c].head
     THEN /\ call' = [call EXCEPT ![c].streaming = TRUE]
          /\ task' = [task EXCEPT ![c].pc = "upload"]
     ELSE task' = [task EXCEPT ![c].pc = "over"] /\ UNCHANGED call
  /\ UNCHANGED <<open, queue, chan, reader, post, ran, result, attempt, faults>>
StreamFrame(c) ==
  /\ task[c].pc = "upload" /\ Len(chan[c]) < ChannelSize /\ reader[c].pc # "failed"
  /\ chan' = [chan EXCEPT ![c] = Append(@, task[c].seq)]
  /\ task' = [task EXCEPT ![c] = [pc |-> IF @.seq = End THEN "over" ELSE "upload",
                                  seq |-> @.seq + 1]]
  /\ IF task[c].seq = End THEN Dropped(c) ELSE UNCHANGED <<open, queue>>
  /\ UNCHANGED <<call, reader, post, ran, result, attempt, faults>>
StreamRefused(c) ==
  /\ task[c].pc = "upload" /\ reader[c].pc = "failed"
  /\ task' = [task EXCEPT ![c].pc = "over"]
  /\ Dropped(c)
  /\ UNCHANGED <<call, chan, reader, post, ran, result, attempt, faults>>

---------------------------------------------------------------------------
(* run: the relay ends when its identity is revoked or the node stops;     *)
(* every task is aborted and every attempt it prepared is stopped.         *)
RelayEnds ==
  /\ Fault
  /\ open' = open \ {c \in Ids : task[c].pc = "upload"}
  /\ task' = [c \in Ids |-> IF task[c].pc = "none" THEN NoTask
                            ELSE [task[c] EXCEPT !.pc = "over"]]
  /\ attempt' = IF attempt \in {"registered", "serving"} THEN "stopped"
                ELSE IF attempt = "staged" THEN "none" ELSE attempt
  /\ UNCHANGED <<call, queue, chan, reader, post, ran, result>>

RelayProgress ==
  \/ \E c \in Ids :
       \/ Read(c) \/ Forward(c, TRUE) \/ Prepare(c) \/ Post(c)
       \/ \E readable \in BOOLEAN : Result(c, readable)
       \/ StreamStart(c) \/ StreamFrame(c) \/ StreamRefused(c)
  \/ \E p \in post : Arrive(p) \/ Publish(p)
  \/ Poll(FALSE)
RelayNext ==
  \/ RelayProgress
  \/ \E c \in Ids :
       \/ \E kind \in Kinds : Request(c, kind)
       \/ ReaderLeaves(c) \/ Forward(c, FALSE) \/ PrepareFails(c) \/ TaskFails(c)
  \/ \E p \in post : Duplicate(p) \/ Stalled(p)
  \/ Poll(TRUE) \/ RelayEnds

---------------------------------------------------------------------------
(* A response that reads as complete is complete: every chunk, once and in *)
(* order, or a refusal without a body, whatever was lost, repeated or late; *)
(* and when a wait reads as complete, the result of the turn has arrived,  *)
(* unless its node found none that it could read.                          *)
AnswerWhole ==
  \A c \in Ids : reader[c].pc = "done" =>
    /\ reader[c].got = IF reader[c].ok /\ call[c].kind # "prepare"
                       THEN [i \in 1 .. Chunks |-> i] ELSE <<>>
    /\ reader[c].ok /\ call[c].kind = "wait" => result[c] \in {"arrived", "unread"}

(* No command reaches the controller of a node twice.                      *)
RunsOnce == \A c \in Ids : ran[c] <= 1

(* A call is given back with its reader: the node's share of calls cannot  *)
(* fill with calls nobody reads.                                           *)
CallsGivenBack ==
  /\ \A c \in open : reader[c].pc \in {"head", "body"}
  /\ \A i \in 1 .. Len(queue) : queue[i] \in open

(* A call to a node is honest whatever frames are lost, late or repeated:  *)
(* an answer is whole, a request runs once, and every slot is given back   *)
(* (nodes/transport.rs).                                                   *)
CallsHonest ==
  /\ AnswerWhole
  /\ RunsOnce
  /\ CallsGivenBack
=============================================================================
