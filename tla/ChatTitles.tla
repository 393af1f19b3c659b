----------------------------- MODULE ChatTitles -----------------------------
(***************************************************************************)
(* Generated conversation titles: chat_titles.rs and the background        *)
(* session of codex_background.rs it runs on.  One conversation; its       *)
(* content is the number of messages, a title is the content it names.     *)
(* The title task reads the conversation, asks a model outside of any      *)
(* transaction, and applies the answer later, while the owner writes,      *)
(* renames, starts new sessions and deletes.                               *)
(***************************************************************************)
EXTENDS Naturals

CONSTANTS MaxMessages,  \* bound on the owner's messages
          MaxSessions,  \* bound on new sessions
          MaxRenames    \* bound on the owner's renames

ASSUME TitleConstants == {MaxMessages, MaxSessions, MaxRenames} \subseteq Nat

VARIABLES conversation,  \* the chat record and the status of its run
          request,       \* chat-title-pending:<chat>: its run and revision
          revision,      \* the last revision generated
          titler,        \* the title task: its step and what it read
          foreground     \* a queued run or a deployment asks it to yield

titleVars == <<conversation, request, revision, titler, foreground>>

NoRequest == [run |-> 0, revision |-> 0]
Resting == [step |-> "resting", chat |-> [messages |-> 0, run |-> 0, title |-> 0],
            request |-> NoRequest, title |-> 0]

\* The fields of the chat that apply compares.
Compared(c) == [messages |-> c.messages, run |-> c.run, title |-> c.title]

TitlesInit ==
    /\ conversation = [messages |-> 1, run |-> 1, title |-> 0, renames |-> 0,
                       succeeded |-> FALSE, active |-> TRUE]
    /\ request = NoRequest /\ revision = 0
    /\ titler = Resting /\ foreground = FALSE

------------------------------------------------------------------------------
(* The owner and the runs.                                                 *)

\* A message moves updatedAt and puts the run to work again.
Message ==
    /\ conversation.active /\ conversation.messages < MaxMessages
    /\ conversation' = [conversation EXCEPT !.messages = @ + 1, !.succeeded = FALSE]
    /\ foreground' = TRUE
    /\ UNCHANGED <<request, revision, titler>>

\* The turn's run succeeds and enqueues a request with a new revision.
TurnEnds ==
    /\ ~conversation.succeeded
    /\ conversation' = [conversation EXCEPT !.succeeded = TRUE]
    /\ revision' = revision + 1
    /\ request' = [run |-> conversation.run, revision |-> revision']
    /\ foreground' = FALSE
    /\ UNCHANGED titler

\* A fresh session of the conversation is another run.
NewSession ==
    /\ conversation.active /\ conversation.succeeded /\ conversation.run <= MaxSessions
    /\ conversation.messages < MaxMessages
    /\ conversation' = [conversation EXCEPT !.run = @ + 1, !.messages = @ + 1, !.succeeded = FALSE]
    /\ foreground' = TRUE
    /\ UNCHANGED <<request, revision, titler>>

\* The owner's own title is above any generated one.
Rename ==
    /\ conversation.active /\ conversation.renames < MaxRenames
    /\ conversation' = [conversation EXCEPT !.renames = @ + 1,
                                            !.title = MaxMessages + conversation.renames + 1]
    /\ UNCHANGED <<request, revision, titler, foreground>>

Lifecycle ==
    /\ conversation' = [conversation EXCEPT !.active = ~@]
    /\ UNCHANGED <<request, revision, titler, foreground>>

------------------------------------------------------------------------------
(* The title task.                                                         *)

\* tick: nothing else waits; the requests are read, and then the chat.
TitleTick ==
    /\ titler.step = "resting" /\ ~foreground /\ request # NoRequest
    /\ titler' = [Resting EXCEPT !.step = "request", !.request = request]
    /\ UNCHANGED <<conversation, request, revision, foreground>>

\* still_pending: whether the chat is active and its run is the request's.
ReadChat ==
    LET current == conversation.active /\ conversation.run = titler.request.run
    IN  /\ titler.step = "request"
        /\ titler' = [titler EXCEPT !.step = IF current THEN "due" ELSE "stale",
                                    !.chat = Compared(conversation)]
        /\ UNCHANGED <<conversation, request, revision, foreground>>

\* A stale request is dropped by its key.
DropStale ==
    /\ titler.step = "stale"
    /\ titler' = Resting
    /\ request' = NoRequest
    /\ UNCHANGED <<conversation, revision, foreground>>

\* due and context: a settled run outside of the cooldown, whose completed
\* messages are read; a long history is first reduced to summaries.
Generate ==
    /\ titler.step = "due"
    /\ titler' = IF conversation.succeeded
                 THEN [titler EXCEPT !.step = "answered", !.title = conversation.messages]
                 ELSE Resting
    /\ UNCHANGED <<conversation, request, revision, foreground>>

\* The background session fails, times out, or yields to foreground work.
Deferred ==
    /\ titler.step \in {"due", "answered"}
    /\ titler' = Resting
    /\ UNCHANGED <<conversation, request, revision, foreground>>

\* Mutant: only the session and the status are compared.
AppliesToSession == conversation.active /\ conversation.succeeded
                    /\ conversation.run = titler.chat.run

\* apply: only to the chat as it was read, under the request it answers.
Applies == /\ conversation.active /\ conversation.succeeded
           /\ Compared(conversation) = titler.chat

Apply ==
    /\ titler.step = "answered"
    /\ titler' = Resting
    /\ IF request # titler.request
       THEN UNCHANGED <<request, conversation>>
       ELSE /\ request' = NoRequest
            /\ conversation' = IF Applies THEN [conversation EXCEPT !.title = titler.title]
                                          ELSE conversation
    /\ UNCHANGED <<revision, foreground>>

TitlesNext == \/ Message \/ TurnEnds \/ NewSession \/ Rename \/ Lifecycle
              \/ TitleTick \/ ReadChat \/ DropStale \/ Generate \/ Deferred \/ Apply

TitlesSpec == TitlesInit /\ [][TitlesNext]_titleVars

------------------------------------------------------------------------------
(* Properties.                                                             *)

\* "A newer user message or turn must never be relabelled by an older result":
\* a generated title names the whole conversation as it stands, and replaces
\* no title the owner chose while it was generated (chat_titles.rs, apply).
NeverRelabelled ==
    [][titler.step = "answered" /\ conversation'.title # conversation.title
         /\ conversation'.renames = conversation.renames
         => /\ conversation'.title = conversation.messages
            /\ conversation.title = titler.chat.title]_titleVars

\* "Stale requests are dropped" (chat_titles.rs, still_pending), and only
\* stale ones: the request that is dropped is the one that was examined.
OnlyExaminedDropped ==
    [][request # NoRequest /\ request' = NoRequest => request = titler.request]_titleVars
=============================================================================
