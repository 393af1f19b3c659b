--------------------------- MODULE MCConversation ---------------------------
(***************************************************************************)
(* What a turn of a conversation rests on: the journal of its disk, the    *)
(* session in its VM, the templates and images the VM boots from, the      *)
(* credentials of its account, and the title it is given.  They share no   *)
(* state and are explored one at a time in one run; of the credentials,    *)
(* either their rotation, or the resets of a spent allowance, or a Claude   *)
(* account.                                                                *)
(***************************************************************************)
EXTENDS LazyJournal, GuestSession, VmTemplates, AgentCredentials, ChatTitles

VARIABLE focus

MCInit == /\ JournalInit /\ SessionInit /\ TemplatesInit /\ CredentialsInit /\ TitlesInit
          /\ focus \in {"journal", "session", "templates", "rotation", "resets", "claude", "titles"}
          /\ current = CHOOSE image \in Images : TRUE

Within == /\ focus # "claude" => claude' = claude
          /\ focus # "resets" => keys' = 0
          /\ focus = "resets" => lastIssued' = lastIssued
          /\ focus = "claude" => UNCHANGED <<credentialVars, resetVars>>

MCNext ==
    /\ \/ /\ focus = "journal" /\ JournalNext
          /\ UNCHANGED <<sessionVars, templateVars, agentVars, titleVars>>
       \/ /\ focus = "session" /\ SessionNext
          /\ UNCHANGED <<journalVars, templateVars, agentVars, titleVars>>
       \/ /\ focus = "templates" /\ TemplatesNext
          /\ UNCHANGED <<journalVars, sessionVars, agentVars, titleVars>>
       \/ /\ focus \in {"rotation", "resets", "claude"} /\ CredentialsNext /\ Within
          /\ UNCHANGED <<journalVars, sessionVars, templateVars, titleVars>>
       \/ /\ focus = "titles" /\ TitlesNext
          /\ UNCHANGED <<journalVars, sessionVars, templateVars, agentVars>>
    /\ UNCHANGED focus

MCSpec ==
    MCInit /\ [][MCNext]_<<journalVars, sessionVars, templateVars, agentVars, titleVars, focus>>
=============================================================================
