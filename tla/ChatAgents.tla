----------------------------- MODULE ChatAgents ----------------------------
(***************************************************************************)
(* The process that speaks to the agent for one attempt of a conversation: *)
(* chat_process.rs for Codex, claude_process.rs for Claude Code, on top of *)
(* the durable half in ChatQueue.  The native agent keeps its own thread,  *)
(* on the workspace disk, across attempts; the process keeps nothing but   *)
(* what it reads there.  Faults: the process fails, the VM or the manager  *)
(* dies with the events that were not handled, an RPC answer is lost.      *)
(***************************************************************************)
EXTENDS ChatQueue

CONSTANTS
  MaxFaults,    \* bound: failures of the process, the VM or the manager
  MaxTurns,     \* bound: turns of the native thread
  MaxControls   \* bound: edits, withdrawals, stops, resumes, deletions,
                \* restorations and questions

VARIABLES
  provider,  \* "codex" or "claude"
  proc,      \* the adapter process
  turns,     \* the native thread: the messages each turn took, those of them
             \* the session holds under their own id, and the turn's state
  receipt,   \* claude-receipt.json
  entered,   \* history: <<message, version>> the agent was ever given
  faults,
  controls

agentVars == <<provider, proc, turns, receipt, entered, faults>>
chatVars == <<queueVars, agentVars, controls>>

Off == [pc |-> "off", message |-> NoMessage, version |-> 1, recovery |-> FALSE,
        resume |-> FALSE, continuing |-> FALSE, seen |-> {}, attempted |-> {},
        pending |-> {}, consumed |-> {}, asked |-> FALSE, background |-> FALSE]
NoReceipt == [message |-> NoMessage, delivered |-> {}]

ChatsInit ==
  /\ ChatInit
  /\ provider \in {"codex", "claude"}
  /\ proc = Off
  /\ turns = <<>>
  /\ receipt = NoReceipt
  /\ entered = {}
  /\ faults = 0
  /\ controls = 0

Ids(turn) == {p[1] : p \in turn.took}
InThread == UNION {Ids(turns[i]) : i \in DOMAIN turns}
Held == UNION {turns[i].held : i \in DOMAIN turns}
LastTurn == turns[Len(turns)]
TurnOpen == turns # <<>> /\ LastTurn.state = "active"
Interrupted == IF TurnOpen THEN [turns EXCEPT ![Len(turns)].state = "interrupted"]
                           ELSE turns
Take(m, v) ==
  /\ turns' = [turns EXCEPT ![Len(turns)].took = @ \cup {<<m, v>>},
                           ![Len(turns)].held = @ \cup {m}]
  /\ entered' = entered \cup {<<m, v>>}

Delivered(S) == IF S = {} THEN <<>> ELSE <<[kind |-> "delivered", ids |-> S]>>
PlainEvent(k) == [kind |-> k, ids |-> {}]

---------------------------------------------------------------------------
(* The worker starts the attempt: the plan is a copy of the run, and the run *)
(* is marked so that a later attempt knows it continues.                     *)
Start ==
  /\ proc.pc = "off"
  /\ run.status = "queued"
  /\ ~run.cancel
  /\ Len(turns) < MaxTurns
  /\ run' = [run EXCEPT !.status = "running", !.recovery = TRUE]
  /\ proc' = [Off EXCEPT !.pc = "open", !.message = run.message,
                         !.version = run.version, !.recovery = run.recovery,
                         !.resume = run.session]
  /\ turns' = IF run.session THEN turns ELSE <<>>
  /\ UNCHANGED <<chat, messages, order, question, inbox, tick, events, remains,
                 removed, provider, receipt, entered, faults>>

(* execute, history: every client id the thread already holds is acknowledged; *)
(* a request that was accepted is finished from its turn, or continued without *)
(* its id.  After an interruption the newest turn decides.                     *)
CodexOpen ==
  LET m == proc.message
      accepted == {i \in DOMAIN turns : m \in Ids(turns[i])}
      previous == IF proc.recovery THEN Len(turns) ELSE CHOOSE i \in accepted : TRUE
      finished == accepted # {} /\ turns[previous].state = "completed"
  IN
  /\ provider = "codex"
  /\ proc.pc = "open"
  /\ events' = events \o <<PlainEvent("closed"), PlainEvent("session")>>
                 \o Delivered(InThread)
                 \o IF finished THEN <<PlainEvent("completed")>> ELSE <<>>
  /\ proc' = [proc EXCEPT !.pc = IF finished THEN "done" ELSE "start",
                          !.seen = InThread, !.continuing = (accepted # {})]
  /\ UNCHANGED <<chat, messages, order, question, run, inbox, tick, remains,
                 removed, provider, turns, receipt, entered, faults>>

(* start_turn. *)
CodexStartTurn ==
  LET first == IF proc.continuing THEN {} ELSE {<<proc.message, proc.version>>}
  IN
  /\ provider = "codex"
  /\ proc.pc = "start"
  /\ turns' = Append(turns, [took |-> first, held |-> {p[1] : p \in first},
                             state |-> "active"])
  /\ entered' = entered \cup first
  /\ events' = IF proc.message \in proc.seen THEN events
               ELSE events \o Delivered({proc.message})
  /\ proc' = [proc EXCEPT !.pc = "wait", !.seen = @ \cup {proc.message}]
  /\ UNCHANGED <<chat, messages, order, question, run, inbox, tick, remains,
                 removed, provider, receipt, faults>>

(* steer: one message of the inbox, tried once per process.  The turn takes  *)
(* it, or has ended and refuses it, or takes it and the answer is lost.      *)
Steerable(m, v) ==
  /\ proc.pc = "wait"
  /\ <<m, v>> \in inbox
  /\ m \notin proc.seen \cup proc.attempted

\* Mutant: a refused message is acknowledged.
SteerAnswered(m, v) ==
  /\ provider = "codex"
  /\ Steerable(m, v)
  /\ IF TurnOpen THEN Take(m, v) ELSE UNCHANGED <<turns, entered>>
  /\ events' = events \o Delivered({m})
  /\ proc' = [proc EXCEPT !.seen = @ \cup {m}, !.attempted = @ \cup {m}]
  /\ UNCHANGED <<chat, messages, order, question, run, inbox, tick, remains,
                 removed, provider, receipt, faults>>

CodexSteer(m, v) ==
  /\ provider = "codex"
  /\ Steerable(m, v)
  /\ ~(proc.asked /\ messages[m].answers)
  /\ \/ /\ TurnOpen
        /\ Take(m, v)
        /\ \/ /\ events' = events \o Delivered({m})
              /\ proc' = [proc EXCEPT !.seen = @ \cup {m},
                                      !.attempted = @ \cup {m}]
           \/ /\ proc' = [proc EXCEPT !.attempted = @ \cup {m}]
              /\ UNCHANGED events
     \/ /\ ~TurnOpen
        /\ proc' = [proc EXCEPT !.attempted = @ \cup {m}]
        /\ UNCHANGED <<turns, entered, events>>
  /\ UNCHANGED <<chat, messages, order, question, run, inbox, tick, remains,
                 removed, provider, receipt, faults>>

(* item: the userMessage notification acknowledges what the turn took. *)
CodexItem(m) ==
  /\ provider = "codex"
  /\ proc.pc = "wait"
  /\ m \in Ids(LastTurn) \ proc.seen
  /\ proc' = [proc EXCEPT !.seen = @ \cup {m}]
  /\ events' = events \o Delivered({m})
  /\ UNCHANGED <<chat, messages, order, question, run, inbox, tick, remains,
                 removed, provider, turns, receipt, entered, faults>>

(* request_user_input. *)
CodexAsk ==
  /\ provider = "codex"
  /\ proc.pc = "wait"
  /\ TurnOpen
  /\ ~proc.asked
  /\ question.status = "none"
  /\ proc' = [proc EXCEPT !.asked = TRUE]
  /\ events' = Append(events, PlainEvent("question"))
  /\ UNCHANGED <<chat, messages, order, question, run, inbox, tick, remains,
                 removed, provider, turns, receipt, entered, faults>>

(* steer replies to a live question; resolved acknowledges the answer. *)
CodexReply(m, v) ==
  /\ provider = "codex"
  /\ Steerable(m, v)
  /\ TurnOpen
  /\ proc.asked
  /\ messages[m].answers
  /\ proc' = [proc EXCEPT !.asked = FALSE, !.attempted = @ \cup {m},
                          !.seen = @ \cup {m}]
  /\ entered' = entered \cup {<<m, v>>}
  /\ events' = events \o Delivered({m}) \o <<PlainEvent("closed")>>
  /\ UNCHANGED <<chat, messages, order, question, run, inbox, tick, remains,
                 removed, provider, turns, receipt, faults>>

(* The native turn ends. *)
CodexTurnEnds ==
  /\ provider = "codex"
  /\ proc.pc = "wait"
  /\ TurnOpen
  /\ turns' = [turns EXCEPT ![Len(turns)].state = "completed"]
  /\ UNCHANGED <<queueVars, provider, proc, receipt, entered, faults>>

(* wait, finish: the notifications of the turn arrive before its completion. *)
CodexFinish ==
  /\ provider = "codex"
  /\ proc.pc = "wait"
  /\ LastTurn.state = "completed"
  /\ Ids(LastTurn) \subseteq proc.seen
  /\ proc' = [proc EXCEPT !.pc = "done"]
  /\ events' = Append(events, PlainEvent("completed"))
  /\ UNCHANGED <<chat, messages, order, question, run, inbox, tick, remains,
                 removed, provider, turns, receipt, entered, faults>>

---------------------------------------------------------------------------
(* run: a saved receipt of this request is replayed without an agent. *)
ClaudeReplay ==
  /\ provider = "claude"
  /\ proc.pc = "open"
  /\ receipt.message = proc.message
  /\ proc.message \in receipt.delivered
  /\ proc' = [proc EXCEPT !.pc = "done"]
  /\ events' = events \o Delivered(receipt.delivered) \o <<PlainEvent("completed")>>
  /\ UNCHANGED <<chat, messages, order, question, run, inbox, tick, remains,
                 removed, provider, turns, receipt, entered, faults>>

(* submit_initial, with a fresh wire id in a resumed session: the agent takes *)
(* it again, as a continuation if it was interrupted, and the session does    *)
(* not hold it under its own id.                                              *)
ClaudeSubmit ==
  LET first == {<<proc.message, proc.version>>}
  IN
  /\ provider = "claude"
  /\ proc.pc = "open"
  /\ ~(receipt.message = proc.message /\ proc.message \in receipt.delivered)
  /\ turns' = Append(turns, [took |-> IF proc.recovery /\ proc.message \in InThread
                                        THEN {} ELSE first,
                             held |-> IF proc.resume THEN {} ELSE {proc.message},
                             state |-> "active"])
  /\ entered' = entered \cup first
  /\ proc' = [proc EXCEPT !.pc = "wait", !.attempted = {proc.message},
                          !.pending = {proc.message}]
  /\ events' = Append(events, PlainEvent("session"))
  /\ UNCHANGED <<chat, messages, order, question, run, inbox, tick, remains,
                 removed, provider, receipt, faults>>

(* poll_inbox: the agent does not execute an id its session already holds. *)
ClaudePoll(m, v) ==
  /\ provider = "claude"
  /\ Steerable(m, v)
  /\ ~(proc.asked /\ messages[m].answers)
  /\ IF m \in Held THEN UNCHANGED <<turns, entered>> ELSE Take(m, v)
  /\ proc' = [proc EXCEPT !.attempted = @ \cup {m}, !.pending = @ \cup {m}]
  /\ UNCHANGED <<queueVars, provider, receipt, faults>>

(* answer to an AskUserQuestion request. *)
ClaudeAnswer(m, v) ==
  /\ provider = "claude"
  /\ Steerable(m, v)
  /\ proc.asked
  /\ messages[m].answers
  /\ proc' = [proc EXCEPT !.asked = FALSE, !.attempted = @ \cup {m},
                          !.seen = @ \cup {m}]
  /\ entered' = entered \cup {<<m, v>>}
  /\ events' = events \o Delivered({m}) \o <<PlainEvent("closed")>>
  /\ UNCHANGED <<chat, messages, order, question, run, inbox, tick, remains,
                 removed, provider, turns, receipt, faults>>

ClaudeAsk ==
  /\ provider = "claude"
  /\ proc.pc = "wait"
  /\ TurnOpen
  /\ ~proc.asked
  /\ question.status = "none"
  /\ proc' = [proc EXCEPT !.asked = TRUE]
  /\ events' = Append(events, PlainEvent("question"))
  /\ UNCHANGED <<chat, messages, order, question, run, inbox, tick, remains,
                 removed, provider, turns, receipt, entered, faults>>

(* on_user: the agent echoes a message it consumed. *)
ClaudeEcho(m) ==
  /\ provider = "claude"
  /\ proc.pc = "wait"
  /\ m \in proc.pending \ proc.consumed
  /\ proc' = [proc EXCEPT !.consumed = @ \cup {m}, !.seen = @ \cup {m}]
  /\ events' = IF m \in proc.seen THEN events ELSE events \o Delivered({m})
  /\ UNCHANGED <<chat, messages, order, question, run, inbox, tick, remains,
                 removed, provider, turns, receipt, entered, faults>>

(* background_tasks. *)
ClaudeBackground ==
  /\ provider = "claude"
  /\ proc.pc = "wait"
  /\ proc.consumed = proc.pending
  /\ proc' = [proc EXCEPT !.background = ~@]
  /\ UNCHANGED <<queueVars, provider, turns, receipt, entered, faults>>

(* on_result: the settled messages leave `pending`; the request is complete   *)
(* when none is left and no background task runs.  The receipt is saved       *)
(* before the completion is announced.                                        *)
ClaudeResult(settled) ==
  LET left == proc.pending \ settled
      complete == left = {} /\ ~proc.background
  IN
  /\ provider = "claude"
  /\ proc.pc = "wait"
  /\ settled \subseteq proc.consumed
  /\ settled # {} \/ complete
  /\ ~proc.asked
  /\ proc' = [proc EXCEPT !.pending = left, !.consumed = @ \cap left,
                          !.pc = IF complete THEN "done" ELSE @]
  /\ IF complete
       THEN /\ receipt' = [message |-> proc.message, delivered |-> proc.seen]
            /\ turns' = [turns EXCEPT ![Len(turns)].state = "completed"]
            /\ events' = events \o <<PlainEvent("closed"), PlainEvent("completed")>>
       ELSE UNCHANGED <<receipt, turns, events>>
  /\ UNCHANGED <<chat, messages, order, question, run, inbox, tick, remains,
                 removed, provider, entered, faults>>

---------------------------------------------------------------------------
(* The process ends and its events have been handled: the run is settled. *)
RunCompletes ==
  /\ TurnCompleted
  /\ proc' = Off
  /\ UNCHANGED <<provider, turns, receipt, entered, faults>>

(* The process fails; what it had emitted is still handled. *)
ProcessFails ==
  /\ faults < MaxFaults
  /\ proc.pc \in {"open", "start", "wait"}
  /\ faults' = faults + 1
  /\ proc' = [Off EXCEPT !.pc = "failed"]
  /\ turns' = Interrupted
  /\ UNCHANGED <<queueVars, provider, receipt, entered>>

RunFails ==
  /\ proc.pc = "failed"
  /\ events = <<>>
  /\ proc' = Off
  /\ run' = [run EXCEPT !.status = "failed", !.cancel = FALSE]
  /\ UNCHANGED <<chat, messages, order, question, inbox, tick, events, remains,
                 removed, provider, turns, receipt, entered, faults>>

(* The VM or the manager is lost: unhandled events with it.  Recovery puts   *)
(* the run back in the queue; a manager that died forgets its tick.          *)
Crash ==
  /\ faults < MaxFaults
  /\ run.status = "running"
  /\ faults' = faults + 1
  /\ proc' = Off
  /\ turns' = Interrupted
  /\ events' = <<>>
  /\ tick' \in {tick, IdleTick}
  /\ run' = [run EXCEPT !.status = "queued", !.held = TRUE]
  /\ UNCHANGED <<chat, messages, order, question, inbox, remains, removed,
                 provider, receipt, entered>>

(* The worker settles a cancellation once the process is gone. *)
RunCancelled ==
  /\ RunActive
  /\ run.cancel
  /\ proc' = Off
  /\ turns' = Interrupted
  /\ events' = <<>>
  /\ run' = [run EXCEPT !.status = "cancelled", !.cancel = FALSE, !.held = TRUE]
  /\ UNCHANGED <<chat, messages, order, question, inbox, tick, remains, removed,
                 provider, receipt, entered, faults>>

Owner ==
  \E m \in Messages : \/ \E mode \in {"queue", "steer"} : Send(m, mode)
                      \/ Answer(m)

Control == \/ \E m \in Messages : Edit(m) \/ Withdraw(m)
           \/ StopChat \/ ResumeChat \/ NewSession \/ Trash \/ Restore

Tick == TickRead \/ TickClaim \/ TickPublish \/ TickNext \/ TickLaunch
          \/ TickPrepareFails \/ TickPause

Handle == Acknowledge \/ SessionStarted \/ ReceiveQuestion \/ ReleaseQuestion

Purge == MarkPurging \/ Forget \/ \E r \in Remains : PurgeStep(r)

Codex == \/ CodexOpen \/ CodexStartTurn \/ CodexTurnEnds \/ CodexFinish
         \/ \E m \in Messages : \/ CodexItem(m)
                                \/ \E v \in Versions : CodexSteer(m, v) \/ CodexReply(m, v)

Claude == \/ ClaudeReplay \/ ClaudeSubmit \/ ClaudeBackground
          \/ \E S \in SUBSET Messages : ClaudeResult(S)
          \/ \E m \in Messages : \/ ClaudeEcho(m)
                                 \/ \E v \in Versions : ClaudePoll(m, v) \/ ClaudeAnswer(m, v)

ChatsNext ==
  \/ /\ (Control /\ UNCHANGED agentVars) \/ CodexAsk \/ ClaudeAsk
     /\ controls < MaxControls
     /\ controls' = controls + 1
  \/ /\ \/ (Owner \/ Tick \/ Handle \/ RunReleased \/ Purge) /\ UNCHANGED agentVars
        \/ Start \/ Codex \/ Claude
        \/ RunCompletes \/ ProcessFails \/ RunFails \/ Crash \/ RunCancelled
     /\ UNCHANGED controls

ChatsSpec == ChatsInit /\ [][ChatsNext]_chatVars

---------------------------------------------------------------------------
(* Every variable has its type; the tick's message is one it may launch. *)
ChatsTypeOK ==
  /\ chat \in [life : {"active", "trash", "purging", "gone"}, paused : BOOLEAN,
               byDeletion : BOOLEAN, restart : BOOLEAN]
  /\ messages \in [Messages -> [status : {"none", "queued", "sending", "delivered",
                                          "cancelled"},
                                mode : {"queue", "steer"}, version : Versions,
                                answers : BOOLEAN]]
  /\ ToSet(order) = {m \in Messages : messages[m].status # "none"}
  /\ run.message \in Messages \cup {NoMessage}
  /\ inbox \subseteq Messages \X Versions
  /\ tick.pc = "launch" => tick.message \in Messages
  /\ Len(turns) <= MaxTurns
  /\ proc.pc = "off" => events = <<>>

(* Codex is given a message once per thread, whatever crashed between its    *)
(* acceptance and the acknowledgement, however often it was requeued or left *)
(* in the inbox.  Claude Code may be given it again, only as a request under *)
(* a fresh wire id; no turn has a message twice.                             *)
EnteredOnce ==
  /\ \A i, j \in DOMAIN turns : i # j =>
       /\ turns[i].held \cap turns[j].held = {}
       /\ provider = "codex" => Ids(turns[i]) \cap Ids(turns[j]) = {}
  /\ \A i \in DOMAIN turns : \A p, q \in turns[i].took : p[1] = q[1] => p = q

(* No two turns have the same message, for Claude Code either. *)
EntersOneTurn ==
  \A i, j \in DOMAIN turns : i # j => Ids(turns[i]) \cap Ids(turns[j]) = {}

(* A message shown as delivered was given to the agent. *)
DeliveredWasEntered ==
  \A m \in Messages : messages[m].status = "delivered" =>
    \E v \in Versions : <<m, v>> \in entered

(* ... with the text the owner sees. *)
DeliveredAsShown ==
  \A m \in Messages : messages[m].status = "delivered" =>
    <<m, messages[m].version>> \in entered

(* A question shown as being answered has its answer on the way: no cancelled, *)
(* withdrawn or delivered message leaves it waiting for ever.                  *)
AnswerOnItsWay ==
  question.status = "answering" =>
    /\ question.message \in Messages
    /\ messages[question.message].status \in Pending

(* A conversation that can be opened has everything it had; one that is     *)
(* forgotten leaves nothing behind.                                          *)
DeletedWholeOrNotAtAll ==
  /\ chat.life \in {"active", "trash"} => remains = Remains
  /\ chat.life = "gone" => remains = {}

(* A withdrawn message does not reach the agent afterwards. *)
WithdrawnStaysOut ==
  [][\A m \in removed : \A v \in Versions :
       <<m, v>> \in entered' => <<m, v>> \in entered]_chatVars

(* "The queue is full. Wait for a reply or remove a queued message.": there  *)
(* is a message to wait for or to remove.                                    *)
FullMeansPending ==
  ChatActive /\ Undelivered >= MaxUndelivered => WithStatus(Pending) # {}

(* A message enters a Codex thread once, a Claude session once under its   *)
(* own id, and one shown as delivered did enter it, whatever crash, retry  *)
(* or lost answer lies between (chat_process.rs, claude_process.rs,        *)
(* chats.rs).                                                              *)
DeliveredOnce ==
  /\ EnteredOnce
  /\ DeliveredWasEntered
============================================================================
