------------------------ MODULE StartupCoordination -------------------------
(***************************************************************************)
(* The startup of the servers, ampc-server-utils/src/server_coordination:  *)
(* every node serves /health, polls the others' and goes through           *)
(*                                                                         *)
(*   unready     wait_for_others_unready                                   *)
(*   visibility  wait_until_startup_visibility_is_complete                 *)
(*   loading     the server's own startup work                             *)
(*   heartbeat   init_heartbeat_task, until both peers were heard          *)
(*   armed       more startup work, under the heartbeat                    *)
(*   waitReady   set_node_ready, then wait_for_others_ready                *)
(*   serving     the main loop                                             *)
(*                                                                         *)
(* in the order the functions' comments prescribe.  A node that fails or   *)
(* shuts down exits and is started again with a new uuid, here the number  *)
(* of its boot.                                                            *)
(***************************************************************************)
EXTENDS Naturals, FiniteSets

CONSTANTS
  Node,           \* the parties (three in the code)
  MaxFaults,      \* bound: crashes and signals
  MaxTimeouts,    \* bound: barriers that run into their deadline
  MaxBoots,       \* bound: boots of one node
  InitialRetries, \* heartbeat_initial_retries
  MaxFailures,    \* MAX_CONSECUTIVE_FAILURES of the heartbeat
  Interruptible   \* the server runs its startup under lifecycle::startup

ASSUME CoordinationAssumption ==
  /\ MaxFaults \in Nat /\ MaxTimeouts \in Nat /\ MaxBoots \in Nat \ {0}
  /\ InitialRetries \in Nat /\ MaxFailures \in Nat \ {0}
  /\ Interruptible \in BOOLEAN

VARIABLES
  phase,          \* where the startup of each node is; "down": no process
  uuid,           \* its uuid: the number of its boot
  is_ready,       \* is_ready_flag
  verified_peers, \* the uuids it has seen during its startup, as <<node, uuid>>
  shutting_down,  \* ShutdownHandler.ct
  polled,         \* the responses of the current round of polls
  last_response,  \* the heartbeat's uuid of each peer, 0 before the first
  failures,       \* the heartbeat's retries, then its consecutive_failures
  faults, timeouts

nodeVars == <<phase, uuid, is_ready, verified_peers, shutting_down>>
pollVars == <<polled>>
beatVars == <<last_response, failures>>
envVars  == <<faults, timeouts>>
vars     == <<nodeVars, pollVars, beatVars, envVars>>
-----------------------------------------------------------------------------
Peer(n) == Node \ {n}
Uuid    == 0..MaxBoots

\* ReadyProbeResponse, the answer of /health.
Response(p) == [uuid |-> uuid[p], is_ready |-> is_ready[p],
                shutting_down |-> shutting_down[p], verified_peers |-> verified_peers[p]]
NoResponse  == [uuid |-> 0, is_ready |-> FALSE, shutting_down |-> FALSE, verified_peers |-> {}]

NoPoll   == [p \in Node |-> NoResponse]
Up(n)    == phase[n] # "down"
\* lifecycle::startup drops the startup work at once when a shutdown begins.
\* The barriers do not look at the shutdown themselves: a server that calls
\* them without it goes through them until its process ends.
Working(n) == Interruptible => ~shutting_down[n]
Polling  == {"unready", "visibility", "waitReady"}
\* The phases after both barriers, and those with a heartbeat.
Past     == {"loading", "heartbeat", "armed", "waitReady", "serving"}
Beating  == {"heartbeat", "armed", "waitReady", "serving"}

Init ==
  /\ phase = [n \in Node |-> "down"] /\ uuid = [n \in Node |-> 0]
  /\ is_ready = [n \in Node |-> FALSE] /\ shutting_down = [n \in Node |-> FALSE]
  /\ verified_peers = [n \in Node |-> {}]
  /\ polled = [n \in Node |-> NoPoll]
  /\ last_response = [n \in Node |-> [p \in Node |-> 0]]
  /\ failures = [n \in Node |-> [p \in Node |-> 0]]
  /\ faults = 0 /\ timeouts = 0
-----------------------------------------------------------------------------
\* start_coordination_server.
Boot(n) ==
  /\ ~Up(n) /\ uuid[n] < MaxBoots
  /\ phase' = [phase EXCEPT ![n] = "unready"]
  /\ uuid'  = [uuid EXCEPT ![n] = @ + 1]
  /\ UNCHANGED <<is_ready, verified_peers, shutting_down, polled, beatVars, envVars>>

\* The process ends, whatever it did.
Exit(n) ==
  /\ phase' = [phase EXCEPT ![n] = "down"]
  /\ is_ready' = [is_ready EXCEPT ![n] = FALSE]
  /\ shutting_down' = [shutting_down EXCEPT ![n] = FALSE]
  /\ verified_peers' = [verified_peers EXCEPT ![n] = {}]
  /\ polled' = [polled EXCEPT ![n] = NoPoll]
  /\ last_response' = [last_response EXCEPT ![n] = [p \in Node |-> 0]]
  /\ failures' = [failures EXCEPT ![n] = [p \in Node |-> 0]]
  /\ UNCHANGED uuid

\* try_get_endpoint_other_nodes: one task per peer asks until it is answered.
Fetch(n, p) ==
  /\ phase[n] \in Polling /\ Working(n) /\ Up(p) /\ polled[n][p] = NoResponse
  /\ polled' = [polled EXCEPT ![n][p] = Response(p)]
  /\ UNCHANGED <<nodeVars, beatVars, envVars>>

RoundComplete(n) == \A p \in Peer(n) : polled[n][p] # NoResponse
Seen(n) == {<<p, polled[n][p].uuid>> : p \in Peer(n)}

\* A peer that is ready and has not verified us.
RacedAhead(n, p) == polled[n][p].is_ready /\ <<n, uuid[n]>> \notin polled[n][p].verified_peers

\* One round of wait_for_others_unready.
wait_for_others_unready(n) ==
  /\ phase[n] = "unready" /\ Working(n) /\ RoundComplete(n)
  /\ verified_peers' = [verified_peers EXCEPT ![n] = @ \cup Seen(n)]
  /\ phase'  = IF \E p \in Peer(n) : RacedAhead(n, p) THEN phase
               ELSE [phase EXCEPT ![n] = "visibility"]
  /\ polled' = [polled EXCEPT ![n] = NoPoll]
  /\ UNCHANGED <<uuid, is_ready, shutting_down, beatVars, envVars>>

\* What the peer has not seen of the uuids n takes for the current ones; the
\* mutants only ask whether it has seen n, or nothing.
MissesMe(n, p) == {<<n, uuid[n]>>} \ polled[n][p].verified_peers
NothingMissing(n, p) == {}
missing_startup_visibility(n, p) ==
  ({<<n, uuid[n]>>} \cup Seen(n)) \ ({<<p, polled[n][p].uuid>>} \cup polled[n][p].verified_peers)

\* One round of wait_until_startup_visibility_is_complete.
wait_until_startup_visibility_is_complete(n) ==
  /\ phase[n] = "visibility" /\ Working(n) /\ RoundComplete(n)
  /\ verified_peers' = [verified_peers EXCEPT ![n] = @ \cup Seen(n)]
  /\ phase'  = IF \E p \in Peer(n) : missing_startup_visibility(n, p) # {} THEN phase
               ELSE [phase EXCEPT ![n] = "loading"]
  /\ polled' = [polled EXCEPT ![n] = NoPoll]
  /\ UNCHANGED <<uuid, is_ready, shutting_down, beatVars, envVars>>

\* A barrier fails at its deadline: a peer has not answered in time, or the
\* round that is complete does not let n pass.
Deadline(n) ==
  /\ timeouts < MaxTimeouts /\ timeouts' = timeouts + 1
  /\ Working(n)
  /\ \/ phase[n] \in {"unready", "visibility"} /\ ~RoundComplete(n)
     \/ phase[n] = "unready" /\ \E p \in Peer(n) : RacedAhead(n, p)
     \/ phase[n] = "visibility" /\ \E p \in Peer(n) : missing_startup_visibility(n, p) # {}
  /\ Exit(n)
  /\ UNCHANGED faults
-----------------------------------------------------------------------------
(* init_heartbeat_task and the heartbeat loop. *)

StartHeartbeat(n) ==
  /\ phase[n] = "loading" /\ Working(n)
  /\ phase' = [phase EXCEPT ![n] = "heartbeat"]
  /\ UNCHANGED <<uuid, is_ready, verified_peers, shutting_down, polled, beatVars, envVars>>

\* lifecycle sees the cancelled token at its next poll and takes back the ready
\* flag it may have set; servers without it stay ready until they end.
mark_shutting_down(n) ==
  is_ready' = IF Interruptible THEN [is_ready EXCEPT ![n] = FALSE] ELSE is_ready

TriggerShutdown(n) ==
  /\ shutting_down' = [shutting_down EXCEPT ![n] = TRUE]
  /\ mark_shutting_down(n)

\* First contact: an unknown uuid makes the task panic, and with it the
\* initialization fail; once both peers are known the initialization is done.
FirstContact(n, p) ==
  IF <<p, uuid[p]>> \notin verified_peers[n]
  THEN Exit(n)
  ELSE LET heard == [last_response[n] EXCEPT ![p] = uuid[p]] IN
       /\ last_response' = [last_response EXCEPT ![n] = heard]
       /\ failures' = [failures EXCEPT ![n][p] = 0]
       /\ phase' = IF \A q \in Peer(n) : heard[q] # 0
                   THEN [phase EXCEPT ![n] = "armed"] ELSE phase
       /\ UNCHANGED <<uuid, is_ready, verified_peers, shutting_down, polled>>

\* Later contacts: a new uuid, or a peer that shuts down, ends this node too.
\* The mutant only looks at the peer's shutdown.
IgnoreRestart(n, p) ==
  /\ failures' = [failures EXCEPT ![n][p] = 0]
  /\ IF shutting_down[p] THEN TriggerShutdown(n) ELSE UNCHANGED <<shutting_down, is_ready>>
  /\ UNCHANGED <<phase, uuid, verified_peers, polled, last_response>>

LaterContact(n, p) ==
  /\ failures' = [failures EXCEPT ![n][p] = 0]
  /\ IF uuid[p] # last_response[n][p] \/ shutting_down[p]
     THEN TriggerShutdown(n) ELSE UNCHANGED <<shutting_down, is_ready>>
  /\ UNCHANGED <<phase, uuid, verified_peers, polled, last_response>>

Beat(n, p) ==
  /\ phase[n] \in Beating /\ ~shutting_down[n] /\ Up(p)
  /\ IF last_response[n][p] = 0 THEN FirstContact(n, p) ELSE LaterContact(n, p)
  /\ UNCHANGED envVars

\* Mutant: the limits of the retries and of the failures are not looked at.
MissedForever(n, p) ==
  /\ phase[n] \in Beating /\ ~shutting_down[n] /\ ~Up(p)
  /\ failures[n][p] <= InitialRetries + MaxFailures
  /\ failures' = [failures EXCEPT ![n][p] = @ + 1]
  /\ UNCHANGED <<nodeVars, polled, last_response, envVars>>

\* The peer is down, or the request to it times out.
MissedBeat(n, p) ==
  /\ phase[n] \in Beating /\ ~shutting_down[n]
  /\ \/ ~Up(p) /\ UNCHANGED faults
     \/ Up(p) /\ faults < MaxFaults /\ faults' = faults + 1
  /\ \/ /\ last_response[n][p] = 0 /\ failures[n][p] >= InitialRetries
        /\ Exit(n)
     \/ /\ last_response[n][p] = 0 /\ failures[n][p] < InitialRetries
        /\ failures' = [failures EXCEPT ![n][p] = @ + 1]
        /\ UNCHANGED <<nodeVars, polled, last_response>>
     \/ /\ last_response[n][p] # 0
        /\ failures' = [failures EXCEPT ![n][p] = @ + 1]
        /\ IF failures[n][p] + 1 >= MaxFailures
           THEN TriggerShutdown(n) ELSE UNCHANGED <<shutting_down, is_ready>>
        /\ UNCHANGED <<phase, uuid, verified_peers, polled, last_response>>
  /\ UNCHANGED timeouts

set_node_ready(n) ==
  /\ phase[n] = "armed" /\ Working(n)
  /\ is_ready' = [is_ready EXCEPT ![n] = TRUE]
  /\ phase' = [phase EXCEPT ![n] = "waitReady"]
  /\ UNCHANGED <<uuid, verified_peers, shutting_down, polled, beatVars, envVars>>

\* One round of wait_for_others_ready; a round that times out is repeated.
\* The mutant is content with one ready peer.
AnyReady(n) ==
  /\ phase[n] = "waitReady" /\ Working(n) /\ RoundComplete(n)
  /\ phase'  = IF \E p \in Peer(n) : polled[n][p].is_ready
               THEN [phase EXCEPT ![n] = "serving"] ELSE phase
  /\ polled' = [polled EXCEPT ![n] = NoPoll]
  /\ UNCHANGED <<uuid, is_ready, verified_peers, shutting_down, beatVars, envVars>>

wait_for_others_ready(n) ==
  /\ phase[n] = "waitReady" /\ Working(n) /\ RoundComplete(n)
  /\ IF ~(Seen(n) \subseteq verified_peers[n])
     THEN Exit(n)
     ELSE /\ phase' = IF \A p \in Peer(n) : polled[n][p].is_ready
                      THEN [phase EXCEPT ![n] = "serving"] ELSE phase
          /\ polled' = [polled EXCEPT ![n] = NoPoll]
          /\ UNCHANGED <<uuid, is_ready, verified_peers, shutting_down, beatVars>>
  /\ UNCHANGED envVars

RetryReady(n) ==
  /\ phase[n] = "waitReady" /\ Working(n) /\ ~RoundComplete(n) /\ polled[n] # NoPoll
  /\ polled' = [polled EXCEPT ![n] = NoPoll]
  /\ UNCHANGED <<nodeVars, beatVars, envVars>>

\* cleanup: a node that shuts down finishes what it does and exits.
Stop(n) == Up(n) /\ shutting_down[n] /\ Exit(n) /\ UNCHANGED envVars
-----------------------------------------------------------------------------
Crash(n) ==
  /\ Up(n) /\ faults < MaxFaults /\ faults' = faults + 1
  /\ Exit(n) /\ UNCHANGED timeouts

Signal(n) ==
  /\ Up(n) /\ ~shutting_down[n] /\ faults < MaxFaults /\ faults' = faults + 1
  /\ TriggerShutdown(n)
  /\ UNCHANGED <<phase, uuid, verified_peers, polled, beatVars, timeouts>>

\* wait_for_startup_barriers, with startup_visibility_barrier_disabled unset.
Barrier(n) ==
  \/ wait_for_others_unready(n)
  \/ wait_until_startup_visibility_is_complete(n)

Next ==
  \E n \in Node :
    \/ Boot(n)
    \/ \E p \in Peer(n) : Fetch(n, p)
    \/ Barrier(n)
    \/ Deadline(n)
    \/ StartHeartbeat(n)
    \/ \E p \in Peer(n) : Beat(n, p)
    \/ \E p \in Peer(n) : MissedBeat(n, p)
    \/ set_node_ready(n)
    \/ wait_for_others_ready(n)
    \/ RetryReady(n)
    \/ Stop(n)
    \/ Crash(n)
    \/ Signal(n)

\* Processes are restarted, polls are answered, loops go on, startup work
\* ends.  Nothing obliges a deadline to pass or a fault to happen.
Fairness ==
  \A n \in Node :
    /\ WF_vars(Boot(n)) /\ WF_vars(Barrier(n)) /\ WF_vars(StartHeartbeat(n))
    /\ WF_vars(set_node_ready(n)) /\ WF_vars(wait_for_others_ready(n)) /\ WF_vars(Stop(n))
    /\ \A p \in Peer(n) : WF_vars(Fetch(n, p)) /\ WF_vars(Beat(n, p))
                          /\ WF_vars(~Up(p) /\ MissedBeat(n, p))

Spec == Init /\ [][Next]_vars
FairSpec == Spec /\ Fairness
-----------------------------------------------------------------------------
Responses == [uuid : Uuid, is_ready : BOOLEAN, shutting_down : BOOLEAN,
              verified_peers : SUBSET (Node \X Uuid)]

\* Every variable has its type.
TypeOK ==
  /\ phase \in [Node -> {"down", "unready", "visibility"} \cup Past]
  /\ uuid \in [Node -> Uuid]
  /\ is_ready \in [Node -> BOOLEAN] /\ shutting_down \in [Node -> BOOLEAN]
  /\ verified_peers \in [Node -> SUBSET (Node \X Uuid)]
  /\ \A n, p \in Node : /\ polled[n][p] \in Responses
                        /\ last_response[n][p] \in Uuid
                        /\ failures[n][p] \in 0..(IF last_response[n][p] = 0
                                                  THEN InitialRetries ELSE MaxFailures)
  /\ faults \in 0..MaxFaults /\ timeouts \in 0..MaxTimeouts

\* What the two barriers are for: two nodes that both run their startup work,
\* or serve, belong to one generation: each has verified the other's current
\* uuid.
SameGeneration ==
  \A n, p \in Node : n # p /\ phase[n] \in Past /\ phase[p] \in Past
                     => <<p, uuid[p]>> \in verified_peers[n]

(* The inductive strengthening of SameGeneration. *)

\* A process that is down knows nothing and has asked nobody; one that is up
\* has a uuid.
FreshAtBoot ==
  \A n \in Node : IF Up(n) THEN uuid[n] > 0 ELSE verified_peers[n] = {} /\ polled[n] = NoPoll

\* What a node knows of a peer is a uuid the peer has, or had.
KnownPast ==
  \A n, p \in Node :
    /\ polled[n][p].uuid <= uuid[p]
    /\ polled[n][p] = NoResponse \/ polled[n][p].uuid > 0
    /\ \A u \in Uuid : <<p, u>> \in verified_peers[n] => u <= uuid[p]

\* A response is no more than what the process that gave it knows by now.
ResponseHolds ==
  \A n, p \in Node : Up(p) /\ polled[n][p].uuid = uuid[p]
                     => polled[n][p].verified_peers \subseteq verified_peers[p]

\* If n has restarted since it told p that it knows p's current uuid, then
\* the new process knows no older one.
RestartKnowsCurrent ==
  \A n, p \in Node :
    /\ n # p /\ polled[p][n].uuid # uuid[n]
    /\ <<p, uuid[p]>> \in polled[p][n].verified_peers
    => /\ \A u \in Uuid : <<p, u>> \in verified_peers[n] => u = uuid[p]
       /\ polled[n][p].uuid \in {0, uuid[p]}

\* Whoever a node past the barriers has seen, had seen it.
SeenBySeen ==
  \A n, p \in Node : n # p /\ phase[n] \in Past =>
    \E u \in Uuid : /\ <<p, u>> \in verified_peers[n]
                    /\ Up(p) /\ u = uuid[p] => <<n, uuid[n]>> \in verified_peers[p]

GenerationInv ==
  /\ FreshAtBoot /\ KnownPast /\ ResponseHolds
  /\ RestartKnowsCurrent /\ SeenBySeen /\ SameGeneration

\* A node that serves waits for nobody: every peer it verified is ready, and
\* one that is not has restarted since, or has been ready and shuts down under
\* lifecycle, which takes the flag back.
ServingMeansReady ==
  \A n, p \in Node : n # p /\ phase[n] = "serving" /\ <<p, uuid[p]>> \in verified_peers[n]
                     => \/ is_ready[p] \/ ~Up(p)
                        \/ Interruptible /\ shutting_down[p]

\* The nodes do not chase each other's dead incarnations: one crash, signal
\* or expired deadline costs each node at most one restart.
RestartsBounded == \A n \in Node : uuid[n] <= 1 + faults + timeouts

\* "a fully-ready peer that recorded our PREVIOUS incarnation's UUID
\* self-heals via its heartbeat": a node whose heartbeat knows a uuid of a
\* peer that is not the peer's any more goes down.
HeartbeatHeals ==
  \A n \in Node, p \in Node :
    phase[n] \in Beating /\ last_response[n][p] # 0 /\ uuid[p] # last_response[n][p]
      ~> ~Up(n)

\* Once the faults stop, the whole fleet serves and goes on serving.
Converges == <>[](\A n \in Node : phase[n] = "serving")
=============================================================================
