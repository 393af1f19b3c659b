------------------------------- MODULE SignIn ------------------------------
(***************************************************************************)
(* Signing in to the beacon: email codes and sessions (lib.rs), OAuth      *)
(* providers with the handover to the Android application (oauth.rs),      *)
(* passkeys (passkeys.rs), removal of sign-in methods (methods.rs) and     *)
(* deletion of the account (account.rs).                                   *)
(*                                                                         *)
(* One mailbox, whose account may be deleted and created again: account k  *)
(* is the k-th.  One provider identity and one passkey.  Each transaction  *)
(* holds the address or account lock when it decides, and is one step;     *)
(* what a handler reads before, and what it does after its commit, are     *)
(* steps of their own.  Challenges, cookies, CSRF tokens and proofs of     *)
(* possession are data: a flow belongs to the browser that started it.     *)
(* Rate limits only refuse.                                                *)
(***************************************************************************)
EXTENDS Naturals, FiniteSets

CONSTANTS Browsers,       \* browsers and applications of the mailbox's owner
          TryLimit,       \* EMAIL_CHALLENGE_ATTEMPT_LIMIT
          CodeTryLimit,   \* EMAIL_CODE_ATTEMPT_LIMIT
          MaxMailed,      \* bound: codes mailed
          MaxSessions,    \* bound: sessions created
          MaxBorn         \* bound: accounts created

ASSUME SignInAssumption == TryLimit \in Nat \ {0} /\ CodeTryLimit \in Nat \ {0}

VARIABLES
    who,       \* the mailbox's account: its number, or 0
    born,      \* accounts created so far
    methods,   \* sign_in_methods of the account
    websess,   \* web_sessions
    jar,       \* each browser's session cookie, or 0
    mail,      \* the email_codes row of the address
    slips,     \* email_code_challenges, one of each browser
    flows      \* the OAuth or passkey flow of each browser

signInVars == <<who, born, methods, websess, jar, mail, slips, flows>>

Kinds == {"email", "oauth", "passkey"}
SessionIds == 1..MaxSessions

NoSession == [made |-> FALSE, row |-> FALSE, account |-> 0, recent |-> FALSE,
              by |-> "none", code |-> 0, since |-> 0]
NoMail == [row |-> FALSE, n |-> 0, tries |-> 0, expired |-> FALSE, since |-> 0]
NoSlip == [code |-> 0, tries |-> 0, pc |-> "idle", sends |-> FALSE]
NoFlow == [pc |-> "idle", kind |-> "none", link |-> 0, session |-> 0, ready |-> 0]

SignInInit ==
    /\ who = 1 /\ born = 1
    /\ methods = [k \in Kinds |-> IF k = "passkey" THEN "none" ELSE "active"]
    /\ websess = [s \in SessionIds |-> NoSession]
    /\ jar = [b \in Browsers |-> 0]
    /\ mail = NoMail
    /\ slips = [b \in Browsers |-> NoSlip]
    /\ flows = [b \in Browsers |-> NoFlow]

\* authenticated_on and confirmed_session_on, for the browser's cookie.
SignedIn(b) == jar[b] # 0 /\ websess[jar[b]].row
Confirmed(b) == SignedIn(b) /\ websess[jar[b]].recent

SetSlip(b, new) == slips' = [slips EXCEPT ![b] = new]
SetFlow(b, new) == flows' = [flows EXCEPT ![b] = new]

CreateSession(b, account, by, code, since) ==
    \E s \in SessionIds :
        /\ ~websess[s].made /\ \A u \in 1..(s - 1) : websess[u].made
        /\ websess' = [websess EXCEPT ![s] =
              [made |-> TRUE, row |-> TRUE, account |-> account, recent |-> by # "oauth",
               by |-> by, code |-> code, since |-> since]]
        /\ jar' = [jar EXCEPT ![b] = s]

ConfirmIdentity(b) == /\ SignedIn(b)
                      /\ websess' = [websess EXCEPT ![jar[b]].recent = TRUE]

(***************************************************************************)
(* Email codes.                                                            *)
(***************************************************************************)
\* Accounts deleted so far, which dates a code.
Deleted == IF who = 0 THEN born ELSE born - 1

Usable == mail.row /\ ~mail.expired /\ mail.tries < CodeTryLimit

RequestCode(b) ==
    /\ slips[b].pc = "idle" /\ ~slips[b].sends
    /\ IF Usable THEN SetSlip(b, [NoSlip EXCEPT !.code = mail.n]) /\ mail' = mail
       ELSE /\ mail.n < MaxMailed
            /\ mail' = [NoMail EXCEPT !.row = TRUE, !.n = mail.n + 1, !.since = Deleted]
            /\ SetSlip(b, [NoSlip EXCEPT !.code = mail.n + 1, !.sends = TRUE])
    /\ UNCHANGED <<who, born, methods, websess, jar, flows>>

\* send_code, after the commit: a failure takes the code back.
MailCode(b) ==
    /\ slips[b].sends
    /\ SetSlip(b, [slips[b] EXCEPT !.sends = FALSE])
    /\ \/ mail' = mail
       \/ mail' = IF mail.n = slips[b].code THEN [mail EXCEPT !.row = FALSE] ELSE mail
    /\ UNCHANGED <<who, born, methods, websess, jar, flows>>

CodeExpires ==
    /\ mail.row /\ ~mail.expired
    /\ mail' = [mail EXCEPT !.expired = TRUE]
    /\ UNCHANGED <<who, born, methods, websess, jar, slips, flows>>

\* verify_email reads the address of the challenge before it takes the lock.
ReadAddress(b) ==
    /\ slips[b].pc = "idle" /\ mail.row /\ mail.n = slips[b].code
    /\ SetSlip(b, [slips[b] EXCEPT !.pc = "address"])
    /\ UNCHANGED <<who, born, methods, websess, jar, mail, flows>>

\* As if the proof read before the lock were used after it.
ValidAsRead(b) == mail.n = slips[b].code /\ ~mail.expired

\* The row read again under the lock.
Valid(b) == /\ mail.row /\ mail.n = slips[b].code /\ ~mail.expired
            /\ slips[b].tries < TryLimit /\ mail.tries < CodeTryLimit

Unread(b) == [slips[b] EXCEPT !.pc = "idle"]

WrongCode(b) ==
    /\ slips[b].pc = "address"
    /\ IF Valid(b) THEN /\ SetSlip(b, [Unread(b) EXCEPT !.tries = @ + 1])
                        /\ mail' = [mail EXCEPT !.tries = @ + 1]
       ELSE SetSlip(b, Unread(b)) /\ mail' = mail
    /\ UNCHANGED <<who, born, methods, websess, jar, flows>>

ReauthenticateEmail(b) ==
    /\ slips[b].pc = "address" /\ SignedIn(b)
    /\ SetSlip(b, Unread(b))
    /\ IF Valid(b) THEN ConfirmIdentity(b) /\ mail' = [mail EXCEPT !.row = FALSE]
       ELSE UNCHANGED <<websess, mail>>
    /\ UNCHANGED <<who, born, methods, jar, flows>>

\* Removed email is enabled again by a session of the account only.
VerifyEmail(b) ==
    /\ slips[b].pc = "address"
    /\ SetSlip(b, Unread(b))
    /\ IF Valid(b) /\ (methods["email"] = "removed" => SignedIn(b) /\ websess[jar[b]].account = who)
       THEN /\ mail' = [mail EXCEPT !.row = FALSE]
            /\ born < MaxBorn \/ who # 0
            /\ born' = IF who = 0 THEN born + 1 ELSE born
            /\ who' = IF who = 0 THEN born + 1 ELSE who
            /\ methods' = [methods EXCEPT !["email"] = "active"]
            /\ CreateSession(b, who', "email", mail.n, mail.since)
       ELSE UNCHANGED <<who, born, methods, websess, jar, mail>>
    /\ UNCHANGED flows

(***************************************************************************)
(* OAuth.  A flow started in a session links, and remembers the session.   *)
(* "web" and "google" flows end in a session at once; a "native" one waits *)
(* for the confirmation in the browser and for the application to collect. *)
(***************************************************************************)
MayLink(b) == flows[b].link # 0 => /\ websess[flows[b].session].row
                                   /\ websess[flows[b].session].account = flows[b].link
                                   /\ websess[flows[b].session].recent

OAuthStart(b, kind) ==
    /\ flows[b].pc = "idle"
    /\ \/ jar[b] = 0 /\ SetFlow(b, [NoFlow EXCEPT !.pc = "asked", !.kind = kind])
       \/ Confirmed(b) /\ SetFlow(b, [NoFlow EXCEPT !.pc = "asked", !.kind = kind,
                                      !.link = websess[jar[b]].account, !.session = jar[b]])
    /\ UNCHANGED <<who, born, methods, websess, jar, mail, slips>>

\* The challenge is deleted before the provider is asked; the identity is
\* then in the handler's memory, or pending_identity of the handover.
Callback(b) ==
    /\ flows[b].pc = "asked" /\ flows[b].kind \in {"web", "native"}
    /\ \/ MayLink(b) /\ SetFlow(b, [flows[b] EXCEPT !.pc = "verified"])
       \/ SetFlow(b, NoFlow)
    /\ UNCHANGED <<who, born, methods, websess, jar, mail, slips>>

GoogleCredential(b) ==
    /\ flows[b].pc = "asked" /\ flows[b].kind = "google"
    /\ \/ /\ flows[b].link # 0 => Confirmed(b) /\ flows[b].session = jar[b]
          /\ SetFlow(b, [flows[b] EXCEPT !.pc = "verified"])
       \/ SetFlow(b, NoFlow)
    /\ UNCHANGED <<who, born, methods, websess, jar, mail, slips>>

\* complete_identity.  A subject that is linked decides the account; a new
\* one is attached to an account that exists only by linking, or when the
\* provider is authoritative for the address (google only).
Identified(b, authoritative) ==
    /\ flows[b].link # 0 => flows[b].link = who
    /\ MayLink(b)
    /\ methods["oauth"] = "none" /\ who # 0 => flows[b].link # 0 \/ authoritative
    /\ methods["oauth"] = "removed" => flows[b].link # 0

CompleteIdentity(b) ==
    /\ flows[b].pc = "verified"
    /\ \E authoritative \in {FALSE, flows[b].kind = "google"} :
       IF Identified(b, authoritative)
       THEN /\ born < MaxBorn \/ who # 0
            /\ born' = IF who = 0 THEN born + 1 ELSE born
            /\ who' = IF who = 0 THEN born + 1 ELSE who
            /\ methods' = [methods EXCEPT !["oauth"] = "active"]
            /\ IF flows[b].kind = "native"
               THEN /\ SetFlow(b, [flows[b] EXCEPT !.pc = "ready", !.ready = who'])
                    /\ UNCHANGED <<websess, jar>>
               ELSE CreateSession(b, who', "oauth", 0, 0) /\ SetFlow(b, NoFlow)
       ELSE SetFlow(b, NoFlow) /\ UNCHANGED <<who, born, methods, websess, jar>>
    /\ UNCHANGED <<mail, slips>>

StillMethod(b) == flows[b].ready = who /\ methods["oauth"] = "active"

NativeFinish(b) ==
    /\ flows[b].pc = "ready"
    /\ flows[b].link # 0 => Confirmed(b) /\ flows[b].session = jar[b] /\ flows[b].link = who
    /\ StillMethod(b)
    /\ CreateSession(b, flows[b].ready, "oauth", 0, 0)
    /\ SetFlow(b, NoFlow)
    /\ UNCHANGED <<who, born, methods, mail, slips>>

FlowEnds(b) ==
    /\ flows[b].pc # "idle"
    /\ SetFlow(b, NoFlow)
    /\ UNCHANGED <<who, born, methods, websess, jar, mail, slips>>

(***************************************************************************)
(* Passkeys.                                                               *)
(***************************************************************************)
RegisterStart(b) ==
    /\ flows[b].pc = "idle" /\ Confirmed(b)
    /\ SetFlow(b, [NoFlow EXCEPT !.pc = "registering", !.session = jar[b],
                                 !.link = websess[jar[b]].account])
    /\ UNCHANGED <<who, born, methods, websess, jar, mail, slips>>

RegisterFinish(b) ==
    /\ flows[b].pc = "registering"
    /\ SetFlow(b, NoFlow)
    /\ IF Confirmed(b) /\ flows[b].session = jar[b] /\ methods["passkey"] # "active"
       THEN methods' = [methods EXCEPT !["passkey"] = "active"]
       ELSE methods' = methods
    /\ UNCHANGED <<who, born, websess, jar, mail, slips>>

LoginStart(b) ==
    /\ flows[b].pc = "idle" /\ methods["passkey"] # "none"
    /\ SetFlow(b, [NoFlow EXCEPT !.pc = "passkey", !.ready = who, !.session = jar[b]])
    /\ UNCHANGED <<who, born, methods, websess, jar, mail, slips>>

\* Signs in, or confirms the session the challenge is bound to.
CompleteLogin(b) ==
    /\ flows[b].pc = "passkey"
    /\ SetFlow(b, NoFlow)
    /\ IF flows[b].ready = who /\ methods["passkey"] = "active"
       THEN \/ CreateSession(b, who, "passkey", 0, 0)
            \/ flows[b].session = jar[b] /\ ConfirmIdentity(b) /\ jar' = jar
       ELSE UNCHANGED <<websess, jar>>
    /\ UNCHANGED <<who, born, methods, mail, slips>>

(***************************************************************************)
(* Methods, sessions and the account.                                      *)
(***************************************************************************)
Remaining == {k \in Kinds : methods[k] = "active"}

RemoveMethod(b, k) ==
    /\ Confirmed(b) /\ methods[k] = "active" /\ Cardinality(Remaining) # 1
    /\ methods' = [methods EXCEPT ![k] = "removed"]
    /\ UNCHANGED <<who, born, websess, jar, mail, slips, flows>>

\* logout, revoke, or the end of its seven days.
SessionEnds(s) ==
    /\ websess[s].row
    /\ websess' = [websess EXCEPT ![s].row = FALSE]
    /\ jar' \in {jar, [b \in Browsers |-> IF jar[b] = s THEN 0 ELSE jar[b]]}
    /\ UNCHANGED <<who, born, methods, mail, slips, flows>>

ProofAges(s) ==
    /\ websess[s].row /\ websess[s].recent
    /\ websess' = [websess EXCEPT ![s].recent = FALSE]
    /\ UNCHANGED <<who, born, methods, jar, mail, slips, flows>>

\* The rows of the account go with it, handovers that name it included.
DeleteAccountOf(b) ==
    /\ Confirmed(b)
    /\ who' = 0
    /\ methods' = [k \in Kinds |-> "none"]
    /\ websess' = [s \in SessionIds |-> [websess[s] EXCEPT !.row = FALSE]]
    /\ jar' = [jar EXCEPT ![b] = 0]
    /\ mail' = [mail EXCEPT !.row = FALSE]
    /\ flows' = [c \in Browsers |->
          IF /\ flows[c].pc \in {"asked", "registering"} \/ flows[c].kind = "native"
             /\ who \in {flows[c].link, flows[c].ready}
          THEN NoFlow ELSE flows[c]]
    /\ UNCHANGED <<born, slips>>

SignInNext ==
    \/ CodeExpires
    \/ \E b \in Browsers :
          \/ RequestCode(b) \/ MailCode(b) \/ ReadAddress(b)
          \/ WrongCode(b) \/ ReauthenticateEmail(b) \/ VerifyEmail(b)
          \/ \E kind \in {"web", "native", "google"} : OAuthStart(b, kind)
          \/ Callback(b) \/ GoogleCredential(b) \/ CompleteIdentity(b)
          \/ NativeFinish(b) \/ FlowEnds(b)
          \/ RegisterStart(b) \/ RegisterFinish(b) \/ LoginStart(b) \/ CompleteLogin(b)
          \/ \E k \in Kinds : RemoveMethod(b, k)
          \/ DeleteAccountOf(b)
    \/ \E s \in SessionIds : SessionEnds(s) \/ ProofAges(s)

(***************************************************************************)
(* Properties.                                                             *)
(***************************************************************************)

\* A mailed code signs in once, and never to an account that was created
\* after its own was deleted: verification waits for the address lock that
\* deletion holds and reads the code again (account.rs: "a code issued
\* before deletion cannot silently recreate the deleted identity").
CodesDoNotOutlive ==
    \A s \in SessionIds : websess[s].by = "email" =>
        /\ websess[s].account = websess[s].since + 1
        /\ \A u \in SessionIds \ {s} : websess[u].code # websess[s].code

\* The owner is never locked out: an account keeps a method that signs in,
\* whatever removals, links and expired flows cross each other, and every
\* session belongs to the account that exists.
AccountReachable ==
    /\ who # 0 => \E k \in Kinds : methods[k] = "active"
    /\ \A s \in SessionIds : websess[s].row => websess[s].account = who

\* A method that was removed signs nobody in any more: a flow that was
\* confirmed before the removal is refused when it is collected.
RemovedSignsNobodyIn ==
    [][\A s \in SessionIds : ~websess[s].made /\ websess'[s].made =>
          /\ methods'[websess'[s].by] = "active"
          /\ methods[websess'[s].by] = "removed" =>
                \E b \in Browsers : jar'[b] = s /\ (SignedIn(b) \/ flows[b].link # 0)]_signInVars

(* An account can be reached by its owner alone: no code outlives the      *)
(* account it was sent for, and the last method to sign in is never        *)
(* removed (lib.rs, methods.rs).                                           *)
SignInSound ==
  /\ CodesDoNotOutlive
  /\ AccountReachable
=============================================================================
