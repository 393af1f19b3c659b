----------------------------- MODULE ChatQueue -----------------------------
(***************************************************************************)
(* The durable half of one conversation: chats.rs, chats/questions.rs,     *)
(* conversation_lifecycle.rs, conversation_deletion.rs.    *)
(* Every SQLite transaction is one action; what chat_tick does between two *)
(* transactions is kept in `tick`, so that owner requests, events of the   *)
(* agent and the lifecycle interleave with it.  The agent process that     *)
(* reads the inbox and emits the events is ChatAgents.                     *)
(***************************************************************************)
EXTENDS Naturals, Sequences, FiniteSets, SequencesExt

CONSTANTS
  Messages,        \* message identifiers chosen by the clients
  NoMessage,
  MaxUndelivered,  \* MAX_UNDELIVERED
  MaxVersion       \* bound: a message is edited at most MaxVersion - 1 times

ASSUME ChatConstants ==
  /\ NoMessage \notin Messages
  /\ MaxUndelivered \in Nat \ {0}
  /\ MaxVersion \in Nat \ {0}

VARIABLES
  chat,      \* lifecycle, paused, cancelledByDeletion, sessionRestartRequested
  messages,  \* the rows of chat_messages, by id
  order,     \* their ids, ORDER BY created_at, rowid
  question,  \* the question of the agent and the message that answers it
  run,       \* the conversation's run as the chat sees it
  inbox,     \* runs/<run>/chat-input/messages.json
  tick,      \* what chat_tick holds between two transactions
  events,    \* events emitted by the process and not yet handled, in order
  remains,   \* what deletion has to remove: lease, disk, objects, files
  removed    \* history: ids withdrawn by the owner

queueVars == <<chat, messages, order, question, run, inbox, tick, events,
               remains, removed>>

Versions == 1..MaxVersion
Pending == {"queued", "sending"}
Remains == {"lease", "disk", "objects", "files"}
NoRow == [status |-> "none", mode |-> "queue", version |-> 1, answers |-> FALSE]
IdleTick == [pc |-> "idle", paused |-> FALSE, attention |-> FALSE,
             message |-> NoMessage, version |-> 1, claimed |-> {}]

RunActive == run.status \in {"queued", "running"}
ChatActive == chat.life = "active"
WithStatus(S) == {m \in Messages : messages[m].status \in S}

ChatInit ==
  /\ chat = [life |-> "active", paused |-> FALSE, byDeletion |-> FALSE,
             restart |-> FALSE]
  /\ messages = [m \in Messages |-> NoRow]
  /\ order = <<>>
  /\ question = [status |-> "none", blocking |-> FALSE, message |-> NoMessage]
  /\ run = [status |-> "none", message |-> NoMessage, version |-> 1,
            recovery |-> FALSE, session |-> FALSE, cancel |-> FALSE,
            held |-> FALSE]
  /\ inbox = {}
  /\ tick = IdleTick
  /\ events = <<>>
  /\ remains = Remains
  /\ removed = {}

---------------------------------------------------------------------------
(* Requests of the owner. *)

(* require_sendable counts every message that is not delivered. *)
Undelivered ==
  Cardinality({m \in Messages : messages[m].status \notin {"none", "delivered"}})

Insert(m, mode, answers) ==
  /\ ChatActive
  /\ messages[m].status = "none"
  /\ m \notin removed
  /\ Undelivered < MaxUndelivered
  /\ messages' = [messages EXCEPT ![m] =
       [status |-> "queued", mode |-> mode, version |-> 1, answers |-> answers]]
  /\ order' = Append(order, m)

(* send; repeating it for a stored message changes nothing. *)
Send(m, mode) ==
  /\ Insert(m, mode, FALSE)
  /\ UNCHANGED <<chat, question, run, inbox, tick, events, remains, removed>>

(* answer: the answers travel as a steering message. *)
Answer(m) ==
  /\ question.status = "pending"
  /\ Insert(m, "steer", TRUE)
  /\ question' = [question EXCEPT !.status = "answering", !.message = m]
  /\ UNCHANGED <<chat, run, inbox, tick, events, remains, removed>>

(* edit with new content, refused for an answer and once sending began. *)
Edit(m) ==
  /\ ChatActive
  /\ messages[m].status = "queued"
  /\ ~messages[m].answers
  /\ messages[m].version < MaxVersion
  /\ messages' = [messages EXCEPT ![m].version = @ + 1]
  /\ UNCHANGED <<chat, order, question, run, inbox, tick, events, remains,
                 removed>>

\* Mutant: the question of a withdrawn answer is left as it is.
WithdrawOnly(m) ==
  /\ ChatActive
  /\ messages[m].status = "queued"
  /\ messages' = [messages EXCEPT ![m].status = "none"]
  /\ order' = SelectSeq(order, LAMBDA x : x # m)
  /\ removed' = removed \cup {m}
  /\ UNCHANGED <<chat, question, run, inbox, tick, events, remains>>

(* withdraw: an answer reopens its question. *)
Withdraw(m) ==
  /\ ChatActive
  /\ messages[m].status = "queued"
  /\ messages' = [messages EXCEPT ![m].status = "none"]
  /\ order' = SelectSeq(order, LAMBDA x : x # m)
  /\ question' = IF messages[m].answers
                   THEN [question EXCEPT !.status = "pending", !.message = NoMessage]
                   ELSE question
  /\ removed' = removed \cup {m}
  /\ UNCHANGED <<chat, run, inbox, tick, events, remains>>

(* stop_chat: pause the queue and cancel the run. *)
StopChat ==
  /\ ChatActive
  /\ ~chat.paused \/ (RunActive /\ ~run.cancel)
  /\ chat' = [chat EXCEPT !.paused = TRUE]
  /\ run' = IF RunActive THEN [run EXCEPT !.cancel = TRUE] ELSE run
  /\ UNCHANGED <<messages, order, question, inbox, tick, events, remains, removed>>

(* pause_chat(false): a stopped run is first put back in the queue, unless a *)
(* deletion cancelled it or a fresh session was asked for.                   *)
ResumeChat ==
  LET replays == run.status \in {"failed", "cancelled"} /\ ~chat.byDeletion
                   /\ ~chat.restart
  IN
  /\ ChatActive
  /\ chat.paused
  /\ replays => ~run.held
  /\ chat' = [chat EXCEPT !.paused = FALSE]
  /\ run' = IF replays
              THEN [run EXCEPT !.status = "queued", !.cancel = FALSE, !.held = TRUE]
              ELSE run
  /\ UNCHANGED <<messages, order, question, inbox, tick, events, remains, removed>>

(* request_new_session, offered when a restored session failed. *)
NewSession ==
  /\ ChatActive
  /\ run.status = "failed"
  /\ ~run.held
  /\ ~chat.restart
  /\ chat' = [chat EXCEPT !.restart = TRUE, !.paused = TRUE]
  /\ run' = [run EXCEPT !.session = FALSE]
  /\ UNCHANGED <<messages, order, question, inbox, tick, events, remains,
                 removed>>

---------------------------------------------------------------------------
(* chat_tick, one transaction after the other. *)

(* The chat is listed and its run read; the copies decide what follows. *)
TickRead ==
  LET attention == run.status \in {"failed", "cancelled"}
                     /\ ~chat.byDeletion /\ ~chat.restart
      to(pc) == [IdleTick EXCEPT !.pc = pc, !.paused = chat.paused,
                                 !.attention = attention]
  IN
  /\ tick.pc = "idle"
  /\ ChatActive
  /\ \/ /\ RunActive
        /\ tick' = to("claim")
     \/ /\ ~RunActive /\ ~chat.paused /\ ~run.held
        /\ attention \/ WithStatus(Pending) # {}
        /\ tick' = to("next")
  /\ UNCHANGED <<chat, messages, order, question, run, inbox, events, remains,
                 removed>>

(* claim_steering: the listed pause, the stored lifecycle. *)
TickClaim ==
  LET steering == {m \in WithStatus(Pending) :
                     /\ messages[m].mode = "steer"
                     /\ ~tick.paused \/ messages[m].answers
                     /\ m # run.message}
  IN
  /\ tick.pc = "claim"
  /\ IF ChatActive
       THEN /\ messages' = [m \in Messages |->
                 IF m \in steering THEN [messages[m] EXCEPT !.status = "sending"]
                                   ELSE messages[m]]
            /\ tick' = [tick EXCEPT !.pc = "publish",
                 !.claimed = {<<m, messages[m].version>> : m \in steering}]
       ELSE /\ tick' = [tick EXCEPT !.pc = "publish", !.claimed = {}]
            /\ UNCHANGED messages
  /\ UNCHANGED <<chat, order, question, run, inbox, events, remains, removed>>

(* publish_steering writes the inbox, or fails before it does. *)
TickPublish ==
  /\ tick.pc = "publish"
  /\ inbox' \in {inbox, tick.claimed}
  /\ tick' = IdleTick
  /\ UNCHANGED <<chat, messages, order, question, run, events, remains,
                 removed>>

Requeued == [m \in Messages |->
               IF messages[m].status = "sending"
                 THEN [messages[m] EXCEPT !.status = "queued"]
                 ELSE messages[m]]

(* next_queued: messages left sending go back to the queue; the first one   *)
(* is taken, unless the last turn needs the owner's attention.              *)
TickNext ==
  LET waiting == {m \in Messages : Requeued[m].status = "queued"}
      first == {k \in DOMAIN order : order[k] \in waiting
                  /\ \A j \in 1..(k - 1) : order[j] \notin waiting}
  IN
  /\ tick.pc = "next"
  /\ messages' = Requeued
  /\ IF tick.attention THEN tick' = [tick EXCEPT !.pc = "pause"]
     ELSE IF first = {} THEN tick' = IdleTick
     ELSE \E k \in first :
            tick' = [tick EXCEPT !.pc = "launch", !.message = order[k],
                                 !.version = Requeued[order[k]].version]
  /\ UNCHANGED <<chat, order, question, run, inbox, events, remains, removed>>

(* launch_turn, with continue_run for a chat that has a run: nothing starts *)
(* if the chat or the message changed since it was picked.                  *)
Unchanged(m, v) == messages[m].status = "queued" /\ messages[m].version = v

TickLaunch ==
  /\ tick.pc = "launch"
  /\ IF ChatActive /\ ~chat.paused /\ Unchanged(tick.message, tick.version)
       THEN /\ run' = [run EXCEPT !.status = "queued", !.message = tick.message,
                         !.version = tick.version, !.recovery = FALSE,
                         !.cancel = FALSE, !.held = TRUE]
            /\ chat' = [chat EXCEPT !.byDeletion = FALSE, !.restart = FALSE]
            /\ messages' = [messages EXCEPT ![tick.message].status = "sending"]
       ELSE UNCHANGED <<run, chat, messages>>
  /\ tick' = IdleTick
  /\ UNCHANGED <<order, question, inbox, events, remains, removed>>

(* chat_prepare failed: the queue is paused with an error. *)
TickPrepareFails ==
  /\ tick.pc = "launch"
  /\ tick' = [tick EXCEPT !.pc = "pause"]
  /\ UNCHANGED <<chat, messages, order, question, run, inbox, events, remains,
                 removed>>

(* chat_pause(true), refused if the chat was deleted meanwhile. *)
TickPause ==
  /\ tick.pc = "pause"
  /\ chat' = IF ChatActive THEN [chat EXCEPT !.paused = TRUE] ELSE chat
  /\ tick' = IdleTick
  /\ UNCHANGED <<messages, order, question, run, inbox, events, remains, removed>>

---------------------------------------------------------------------------
(* Events of the agent, handled in order by the execution (output.rs). *)

Event(kind) == events # <<>> /\ Head(events).kind = kind /\ events' = Tail(events)

(* acknowledge: a settled message or a deleted chat is left alone. *)
Acknowledge ==
  /\ events # <<>>
  /\ Head(events).kind = "delivered"
  /\ \E m \in Head(events).ids :
     /\ events' = IF Head(events).ids = {m} THEN Tail(events)
                  ELSE [events EXCEPT ![1].ids = @ \ {m}]
     /\ IF ChatActive /\ messages[m].status \in Pending
          THEN /\ messages' = [messages EXCEPT ![m].status = "delivered"]
               /\ question' = IF messages[m].answers
                                THEN [question EXCEPT !.status = "answered",
                                                      !.blocking = FALSE]
                                ELSE question
          ELSE UNCHANGED <<messages, question>>
  /\ UNCHANGED <<chat, order, run, inbox, tick, remains, removed>>

(* apply_event for thread.started: the session can now be resumed. *)
SessionStarted ==
  /\ Event("session")
  /\ run' = [run EXCEPT !.session = TRUE]
  /\ UNCHANGED <<chat, messages, order, question, inbox, tick, remains,
                 removed>>

(* question_receive: a question asked again only blocks while it is pending. *)
ReceiveQuestion ==
  /\ Event("question")
  /\ question' = IF ~ChatActive THEN question
                 ELSE IF question.status = "none"
                   THEN [status |-> "pending", blocking |-> TRUE, message |-> NoMessage]
                 ELSE [question EXCEPT !.blocking = (question.status = "pending")]
  /\ UNCHANGED <<chat, messages, order, run, inbox, tick, remains, removed>>

(* question_release. *)
ReleaseQuestion ==
  /\ Event("closed")
  /\ question' = [question EXCEPT !.blocking = FALSE]
  /\ UNCHANGED <<chat, messages, order, run, inbox, tick, remains, removed>>

(* turn.completed: the run succeeds once the process is gone. *)
TurnCompleted ==
  /\ Event("completed")
  /\ run' = [run EXCEPT !.status = "succeeded", !.cancel = FALSE, !.held = TRUE]
  /\ UNCHANGED <<chat, messages, order, question, inbox, tick, remains, removed>>

(* The execution leaves Worker.active. *)
RunReleased ==
  /\ run.held
  /\ ~RunActive
  /\ run' = [run EXCEPT !.held = FALSE]
  /\ UNCHANGED <<chat, messages, order, question, inbox, tick, events, remains,
                 removed>>

---------------------------------------------------------------------------
(* Trash, restore, purge. *)

(* trash: pending messages and open questions are cancelled; chat_trash then *)
(* cancels the run, which its worker stops later.                            *)
Trash ==
  LET busy == \/ RunActive \/ WithStatus(Pending) # {}
              \/ question.status \in {"pending", "answering"}
  IN
  /\ ChatActive
  /\ messages' = [m \in Messages |->
       IF messages[m].status \in Pending
         THEN [messages[m] EXCEPT !.status = "cancelled"] ELSE messages[m]]
  /\ question' = IF question.status \in {"pending", "answering"}
                   THEN [question EXCEPT !.status = "cancelled", !.blocking = FALSE]
                   ELSE question
  /\ run' = IF RunActive THEN [run EXCEPT !.cancel = TRUE] ELSE run
  /\ chat' = [chat EXCEPT !.life = "trash", !.paused = TRUE, !.byDeletion = busy]
  /\ UNCHANGED <<order, inbox, tick, events, remains, removed>>

\* Mutant: anything deleted can be restored.
RestoreAny ==
  /\ chat.life \in {"trash", "purging"}
  /\ ~RunActive
  /\ chat' = [chat EXCEPT !.life = "active"]
  /\ UNCHANGED <<messages, order, question, run, inbox, tick, events, remains,
                 removed>>

(* restore: only from the trash, once the agent stopped; it stays paused.  *)
(* Takes the storage lock, so it never overlaps a purge.                    *)
Restore ==
  /\ chat.life = "trash"
  /\ ~RunActive
  /\ chat' = [chat EXCEPT !.life = "active"]
  /\ UNCHANGED <<messages, order, question, run, inbox, tick, events, remains,
                 removed>>

(* mark_purging, thirty days later; a purge that failed is claimed again.    *)
MarkPurging ==
  /\ chat.life = "trash"
  /\ ~RunActive
  /\ chat' = [chat EXCEPT !.life = "purging"]
  /\ UNCHANGED <<messages, order, question, run, inbox, tick, events, remains,
                 removed>>

(* purge removes the lease, the disks, the objects and the files in this    *)
(* order; a step that fails ends the attempt, and a retry repeats them all. *)
PurgeStep(r) ==
  /\ chat.life = "purging"
  /\ r \in remains
  /\ r = "disk" => "lease" \notin remains
  /\ r = "objects" => "disk" \notin remains
  /\ r = "files" => "objects" \notin remains
  /\ remains' = remains \ {r}
  /\ UNCHANGED <<chat, messages, order, question, run, inbox, tick, events,
                 removed>>

(* forget: every record goes in one transaction. *)
Forget ==
  /\ chat.life = "purging"
  /\ remains = {}
  /\ chat' = [chat EXCEPT !.life = "gone"]
  /\ messages' = [m \in Messages |-> NoRow]
  /\ order' = <<>>
  /\ question' = [status |-> "none", blocking |-> FALSE, message |-> NoMessage]
  /\ UNCHANGED <<run, inbox, tick, events, remains, removed>>

============================================================================
