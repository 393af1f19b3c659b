------------------------------ MODULE MCBeacon ------------------------------
(* The beacon between its users and an installation: requests and streams  *)
(* through the tunnel, leases for direct connections, the credentials of   *)
(* MCP clients, and signing in, one at a time.  Of the tunnel, either a    *)
(* stream alone with more events, or a stream and an ordinary request with *)
(* fewer; of the MCP clients, either their credentials without requests,   *)
(* or the requests of one ownership; of signing in, either codes alone, or *)
(* every flow of one browser.                                              *)
EXTENDS RelayTunnel, DirectGrants, McpGrants, SignIn

VARIABLE focus

MCInit == /\ RelayInit /\ GrantsInit /\ McpInit /\ SignInInit
          /\ focus \in {"stream", "both", "direct", "credentials", "calls", "mailbox", "flows"}

Within == /\ focus = "both" => events' <= 1
          /\ focus = "stream" => \A r \in Requests \ Streams : reqs'[r].pc = "idle"

WithinMcp == /\ focus = "credentials" => mcpCalls' = mcpCalls
             /\ focus = "calls" => /\ owner' = owner /\ accounts' = accounts
                                   /\ cleanup' = cleanup
                                   /\ \A n \in CodeIds \ {1} : ~codes'[n].made /\ ~grants'[n].made

WithinSignIn ==
    /\ focus = "mailbox" => flows' = flows
    /\ focus = "flows" => \A c \in Browsers \ {CHOOSE b \in Browsers : TRUE} :
                              jar'[c] = 0 /\ slips'[c] = NoSlip /\ flows'[c] = NoFlow

MCNext ==
    /\ \/ focus = "direct" /\ GrantsNext /\ nonces' + budget' <= 4
          /\ UNCHANGED <<relayVars, mcpVars, signInVars>>
       \/ focus \in {"stream", "both"} /\ RelayNext /\ Within
          /\ UNCHANGED <<directVars, mcpVars, signInVars>>
       \/ focus \in {"credentials", "calls"} /\ McpNext /\ WithinMcp
          /\ UNCHANGED <<relayVars, directVars, signInVars>>
       \/ focus \in {"mailbox", "flows"} /\ SignInNext /\ WithinSignIn
          /\ UNCHANGED <<relayVars, directVars, mcpVars>>
    /\ UNCHANGED focus

MCSpec == MCInit /\ [][MCNext]_<<relayVars, directVars, mcpVars, signInVars, focus>>

(* Connections are what the beacon believes of them: a live tunnel is the  *)
(* registered one, a clean end means a whole body, and every peer can be   *)
(* cut off (relay.rs, relay/direct.rs).                                    *)
ConnectionsKnown ==
  /\ LiveIsRegistered
  /\ CleanMeansWhole
  /\ PeersCanBeCutOff

(* What was revoked, renewed or removed stays so for requests already      *)
(* under way (relay.rs, installation direct.rs, oauth.rs).                 *)
RevocationsHold ==
  /\ RevokedStaysOut
  /\ RenewedLeaseStays
  /\ RemovedSignsNobodyIn
=============================================================================
