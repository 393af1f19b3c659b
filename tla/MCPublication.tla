--------------------------- MODULE MCPublication ---------------------------
(***************************************************************************)
(* Publication on three kinds of instance in one run: two conversations    *)
(* that share blocks, one conversation whose turns, captures, readers and  *)
(* status reports overlap, and one that moves between nodes.               *)
(***************************************************************************)
EXTENDS Publication, TLC

VARIABLE focus

Symmetry == Permutations(Runs) \cup Permutations(Nodes)

MCInit == PublicationInit /\ focus \in [kind : {"sharing", "serving", "moving"}, lead : Runs]

Alone == \A r \in Runs \ {focus.lead} : turn'[r] = "idle" /\ op'[r].pc = "idle"

Within ==
  CASE focus.kind = "sharing" ->
         /\ spent'.mishaps # spent.mishaps => corrupt' # {}
         /\ spent'.moves = 0 /\ late' = {}
         /\ \A r \in Runs : ~monitor'[r].known /\ turn'[r] # "ended"
         /\ \A r \in Runs \ {focus.lead} :
              op'[r].goal \notin {"clean", "purge"} /\ ~reading'[r].busy
    [] focus.kind = "serving" ->
         /\ spent'.mishaps # spent.mishaps => late' # {}
         /\ spent'.moves = 0 /\ spent'.writes <= 1 /\ corrupt' = {} /\ Alone
         /\ op'[focus.lead].goal \notin {"purge", "clean"}
    [] focus.kind = "moving" ->
         /\ spent'.turns <= 1 /\ spent'.writes <= 1 /\ corrupt' = {} /\ Alone
         /\ op'[focus.lead].goal # "purge" /\ ~reading'[focus.lead].busy

MCNext == PublicationNext /\ Within /\ UNCHANGED focus

MCSpec == MCInit /\ [][MCNext]_<<publicationVars, focus>>
=============================================================================
