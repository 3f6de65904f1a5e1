--------------------------- MODULE StartupProofs ----------------------------
(***************************************************************************)
(* Proof of SameGeneration for any set of nodes, any number of boots and   *)
(* faults, and servers with and without lifecycle::startup.                *)
(*                                                                         *)
(* The steps are first sorted into the few kinds of change they make to    *)
(* the variables the invariant is about (StepKinds).                       *)
(***************************************************************************)
EXTENDS StartupCoordination, TLAPS

Phases == {"down", "unready", "visibility"} \cup Past

\* The types of the variables the invariant is about.
GenType ==
  /\ phase \in [Node -> Phases] /\ uuid \in [Node -> Uuid]
  /\ is_ready \in [Node -> BOOLEAN] /\ shutting_down \in [Node -> BOOLEAN]
  /\ verified_peers \in [Node -> SUBSET (Node \X Uuid)]
  /\ polled \in [Node -> [Node -> Responses]]

FlagsTyped == is_ready' \in [Node -> BOOLEAN] /\ shutting_down' \in [Node -> BOOLEAN]

(* The kinds of steps. *)

\* n moves on behind the barriers, and may drop the answers it has.
Moves(n) ==
  /\ UNCHANGED <<uuid, verified_peers>> /\ FlagsTyped
  /\ polled' = polled \/ polled' = [polled EXCEPT ![n] = NoPoll]
  /\ phase' = phase \/ (phase[n] \in Past /\ \E b \in Past : phase' = [phase EXCEPT ![n] = b])

Leaves(n) ==
  /\ UNCHANGED uuid /\ FlagsTyped
  /\ phase' = [phase EXCEPT ![n] = "down"]
  /\ verified_peers' = [verified_peers EXCEPT ![n] = {}]
  /\ polled' = [polled EXCEPT ![n] = NoPoll]

Boots(n) ==
  /\ UNCHANGED <<verified_peers, polled>> /\ FlagsTyped
  /\ ~Up(n) /\ uuid[n] < MaxBoots
  /\ phase' = [phase EXCEPT ![n] = "unready"]
  /\ uuid' = [uuid EXCEPT ![n] = @ + 1]

Asks(n, p) ==
  /\ UNCHANGED <<phase, uuid, verified_peers>> /\ FlagsTyped
  /\ Up(n) /\ Up(p)
  /\ polled' = [polled EXCEPT ![n][p] = Response(p)]

\* A round of a barrier; `through' says whether it ends in the phases behind.
Records(n, through) ==
  /\ UNCHANGED uuid /\ FlagsTyped
  /\ Up(n) /\ phase[n] \notin Past /\ RoundComplete(n)
  /\ verified_peers' = [verified_peers EXCEPT ![n] = @ \cup Seen(n)]
  /\ polled' = [polled EXCEPT ![n] = NoPoll]
  /\ IF through
     THEN /\ phase' = [phase EXCEPT ![n] = "loading"]
          /\ \A p \in Peer(n) : missing_startup_visibility(n, p) = {}
     ELSE phase' = phase \/ phase' = [phase EXCEPT ![n] = "visibility"]
-----------------------------------------------------------------------------
Step(n) ==
  \/ Moves(n) \/ Leaves(n) \/ Boots(n)
  \/ \E p \in Peer(n) : Asks(n, p)
  \/ Records(n, TRUE) \/ Records(n, FALSE)

genVars == <<phase, uuid, is_ready, shutting_down, verified_peers, polled>>

\* Exit, which several handlers end in, is of the kind Leaves.
LEMMA ExitLeaves ==
  ASSUME GenType, NEW n \in Node, Exit(n)
  PROVE  Leaves(n)
BY DEF GenType, Exit, Leaves, FlagsTyped

\* The flags are Booleans, whether or not a step triggers a shutdown.
LEMMA TriggerTyped ==
  ASSUME GenType, NEW n \in Node, TriggerShutdown(n) \/ UNCHANGED <<shutting_down, is_ready>>
  PROVE  FlagsTyped
BY DEF GenType, TriggerShutdown, mark_shutting_down, FlagsTyped

\* The heartbeat's steps, answered or not, move a node or make it leave.
LEMMA HeartbeatKinds ==
  ASSUME GenType, NEW n \in Node, NEW p \in Peer(n), Beat(n, p) \/ MissedBeat(n, p)
  PROVE  Moves(n) \/ Leaves(n)
<1>1. phase[n] \in Past
  BY DEF Beat, MissedBeat, Beating, Past
<1>2. ASSUME Exit(n) PROVE Leaves(n)
  BY <1>2, ExitLeaves
<1>3. ASSUME FirstContact(n, p) PROVE Moves(n) \/ Leaves(n)
  <2>1. CASE Exit(n)
    BY <2>1, <1>2
  <2>2. CASE ~Exit(n)
    <3>1. /\ phase' = phase \/ phase' = [phase EXCEPT ![n] = "armed"]
          /\ UNCHANGED <<uuid, is_ready, verified_peers, shutting_down, polled>>
      BY <1>3, <2>2 DEF FirstContact
    <3>2. FlagsTyped
      BY <3>1 DEF GenType, FlagsTyped
    <3> QED
      BY <1>1, <3>1, <3>2 DEF Moves, Past
  <2> QED
    BY <2>1, <2>2
<1>4. ASSUME LaterContact(n, p) PROVE Moves(n)
  <2>1. FlagsTyped
    BY <1>4, TriggerTyped DEF LaterContact
  <2> QED
    BY <1>4, <2>1 DEF LaterContact, Moves
<1>5. ASSUME MissedBeat(n, p), ~Exit(n) PROVE Moves(n)
  <2>1. /\ UNCHANGED <<phase, uuid, verified_peers, polled>>
        /\ TriggerShutdown(n) \/ UNCHANGED <<shutting_down, is_ready>>
    BY <1>5 DEF MissedBeat, nodeVars
  <2>2. FlagsTyped
    BY <2>1, TriggerTyped
  <2> QED
    BY <2>1, <2>2 DEF Moves
<1> QED
  BY <1>2, <1>3, <1>4, <1>5 DEF Beat

\* The rounds of the barriers record what they saw.
LEMMA BarrierKinds ==
  ASSUME GenType, NEW n \in Node, Barrier(n)
  PROVE  Step(n)
<1>1. ASSUME wait_for_others_unready(n) PROVE Records(n, FALSE)
  BY <1>1 DEF wait_for_others_unready, Records, GenType, FlagsTyped, Up, Past
<1>2. ASSUME wait_until_startup_visibility_is_complete(n)
      PROVE  Records(n, TRUE) \/ Records(n, FALSE)
  BY <1>2 DEF wait_until_startup_visibility_is_complete, Records, GenType, FlagsTyped, Up, Past
<1> QED
  BY <1>1, <1>2 DEF Barrier, Step

\* A round of wait_for_others_ready moves a node or makes it leave.
LEMMA ReadyKinds ==
  ASSUME GenType, NEW n \in Node, wait_for_others_ready(n)
  PROVE  Step(n)
<1>1. CASE Exit(n)
  BY <1>1, ExitLeaves DEF Step
<1>2. CASE ~Exit(n)
  BY <1>2 DEF wait_for_others_ready, Step, Moves, GenType, FlagsTyped, Past
<1> QED
  BY <1>1, <1>2

\* Every step of the system is of one of the kinds, or leaves what the
\* invariant is about alone.
LEMMA StepKinds ==
  ASSUME GenType, [Next]_vars
  PROVE  (\E n \in Node : Step(n)) \/ UNCHANGED genVars
<1>1. CASE UNCHANGED vars
  BY <1>1 DEF vars, nodeVars, pollVars, genVars
<1>2. ASSUME NEW n \in Node, Boot(n) PROVE Step(n)
  BY <1>2 DEF Boot, Step, Boots, GenType, FlagsTyped
<1>3. ASSUME NEW n \in Node, NEW p \in Peer(n), Fetch(n, p) PROVE Step(n)
  <2>1. Asks(n, p)
    BY <1>3 DEF Fetch, Asks, GenType, FlagsTyped, nodeVars, Up, Polling
  <2> QED
    BY <2>1 DEF Step
<1>4. ASSUME NEW n \in Node, Barrier(n) \/ wait_for_others_ready(n) PROVE Step(n)
  BY <1>4, BarrierKinds, ReadyKinds
<1>5. ASSUME NEW n \in Node, Deadline(n) \/ Stop(n) \/ Crash(n) PROVE Step(n)
  BY <1>5, ExitLeaves DEF Deadline, Stop, Crash, Step
<1>6. ASSUME NEW n \in Node, StartHeartbeat(n) \/ set_node_ready(n) PROVE Step(n)
  BY <1>6 DEF StartHeartbeat, set_node_ready, Step, Moves, GenType, FlagsTyped, Past
<1>7. ASSUME NEW n \in Node, NEW p \in Peer(n), Beat(n, p) \/ MissedBeat(n, p) PROVE Step(n)
  BY <1>7, HeartbeatKinds DEF Step
<1>8. ASSUME NEW n \in Node, RetryReady(n) PROVE Step(n)
  BY <1>8 DEF RetryReady, Step, Moves, GenType, FlagsTyped, nodeVars
<1>9. ASSUME NEW n \in Node, Signal(n) PROVE Step(n)
  <2>1. FlagsTyped
    BY <1>9, TriggerTyped DEF Signal
  <2> QED
    BY <1>9, <2>1 DEF Signal, Step, Moves
<1> QED
  BY <1>1, <1>2, <1>3, <1>4, <1>5, <1>6, <1>7, <1>8, <1>9 DEF Next
-----------------------------------------------------------------------------
\* What /health answers, and the answer that is missing, are responses.
LEMMA ResponseTyped ==
  ASSUME GenType
  PROVE  /\ NoResponse \in Responses
         /\ \A p \in Node : Response(p) \in Responses
BY CoordinationAssumption DEF GenType, Response, NoResponse, Responses, Uuid

\* Every step keeps the types.
LEMMA StepTyped ==
  ASSUME GenType, NEW n \in Node, Step(n)
  PROVE  GenType'
<1>1. NoPoll \in [Node -> Responses]
  BY ResponseTyped DEF NoPoll
<1>2. ASSUME Moves(n) PROVE GenType'
  BY <1>1, <1>2 DEF Moves, GenType, FlagsTyped, Phases
<1>3. ASSUME Leaves(n) PROVE GenType'
  BY <1>1, <1>3 DEF Leaves, GenType, FlagsTyped, Phases
<1>4. ASSUME Boots(n) PROVE GenType'
  <2>1. uuid[n] + 1 \in Uuid
    BY <1>4, CoordinationAssumption DEF Boots, GenType, Uuid
  <2> QED
    BY <1>4, <2>1 DEF Boots, GenType, FlagsTyped, Phases
<1>5. ASSUME NEW p \in Peer(n), Asks(n, p) PROVE GenType'
  <2>1. Response(p) \in Responses
    BY ResponseTyped DEF Peer
  <2>2. polled' \in [Node -> [Node -> Responses]]
    BY <1>5, <2>1 DEF Asks, GenType, Peer
  <2> QED
    BY <1>5, <2>2 DEF Asks, GenType, FlagsTyped
<1>6. ASSUME NEW through \in BOOLEAN, Records(n, through) PROVE GenType'
  <2>1. Seen(n) \subseteq Node \X Uuid
    BY DEF Seen, Peer, GenType, Responses
  <2>2. verified_peers' \in [Node -> SUBSET (Node \X Uuid)]
    BY <1>6, <2>1 DEF Records, GenType
  <2>3. phase' \in [Node -> Phases] /\ polled' \in [Node -> [Node -> Responses]]
    BY <1>1, <1>6 DEF Records, GenType, Phases, Past
  <2> QED
    BY <1>6, <2>2, <2>3 DEF Records, GenType, FlagsTyped
<1> QED
  BY <1>2, <1>3, <1>4, <1>5, <1>6 DEF Step

\* A node that moves on behind the barriers knows and has shown what it had.
LEMMA MovesInv ==
  ASSUME GenType, GenerationInv, NEW n \in Node, Moves(n)
  PROVE  GenerationInv'
<1> USE DEF GenType
<1>1. /\ uuid' = uuid /\ verified_peers' = verified_peers
      /\ \A m \in Node : /\ (phase'[m] \in Past) = (phase[m] \in Past)
                         /\ (phase'[m] = "down") = (phase[m] = "down")
  BY DEF Moves, Past
<1>2. \A m, p \in Node : polled'[m][p] = polled[m][p] \/ polled'[m][p] = NoResponse
  BY DEF Moves, NoPoll
<1>3. \A m \in Node : polled[m] = NoPoll => polled'[m] = NoPoll
  BY DEF Moves
<1>4. NoResponse.uuid = 0 /\ NoResponse.verified_peers = {}
  BY DEF NoResponse
<1>5. FreshAtBoot'
  BY <1>1, <1>3 DEF GenerationInv, FreshAtBoot, Up
<1>6. KnownPast'
  BY <1>1, <1>2, <1>4, CoordinationAssumption DEF GenerationInv, KnownPast, Uuid
<1>7. ResponseHolds'
  BY <1>1, <1>2, <1>4 DEF GenerationInv, ResponseHolds, Up
<1>8. RestartKnowsCurrent'
  BY <1>1, <1>2, <1>4 DEF GenerationInv, RestartKnowsCurrent
<1>9. SeenBySeen'
  BY <1>1 DEF GenerationInv, SeenBySeen, Up
<1>10. SameGeneration'
  BY <1>1 DEF GenerationInv, SameGeneration
<1> QED
  BY <1>5, <1>6, <1>7, <1>8, <1>9, <1>10 DEF GenerationInv

\* A process that ends takes its knowledge along; what it told stays true of
\* the process it was.
LEMMA LeavesInv ==
  ASSUME GenType, GenerationInv, NEW n \in Node, Leaves(n)
  PROVE  GenerationInv'
<1> USE DEF GenType
<1>1. /\ uuid' = uuid /\ phase'[n] = "down" /\ verified_peers'[n] = {} /\ polled'[n] = NoPoll
      /\ \A m \in Node \ {n} : /\ phase'[m] = phase[m] /\ polled'[m] = polled[m]
                               /\ verified_peers'[m] = verified_peers[m]
  BY DEF Leaves
<1>2. \A p \in Node : polled'[n][p] = NoResponse
  BY <1>1 DEF NoPoll
<1>3. NoResponse.uuid = 0 /\ NoResponse.verified_peers = {} /\ "down" \notin Past
  BY DEF NoResponse, Past
<1>5. FreshAtBoot'
  BY <1>1 DEF GenerationInv, FreshAtBoot, Up
<1>6. KnownPast'
  <2>1. \A p \in Node : 0 <= uuid[p]
    BY CoordinationAssumption DEF Uuid
  <2> QED
    BY <1>1, <1>2, <1>3, <2>1 DEF GenerationInv, KnownPast
<1>7. ResponseHolds'
  BY <1>1, <1>2, <1>3 DEF GenerationInv, ResponseHolds, Up
<1>8. RestartKnowsCurrent'
  BY <1>1, <1>2, <1>3 DEF GenerationInv, RestartKnowsCurrent
<1>9. SeenBySeen'
  BY <1>1, <1>3 DEF GenerationInv, SeenBySeen, Up
<1>10. SameGeneration'
  BY <1>1, <1>3 DEF GenerationInv, SameGeneration
<1> QED
  BY <1>5, <1>6, <1>7, <1>8, <1>9, <1>10 DEF GenerationInv

\* A new process knows nobody, and nobody knows its uuid.
LEMMA BootsInv ==
  ASSUME GenType, GenerationInv, NEW n \in Node, Boots(n)
  PROVE  GenerationInv'
<1> USE DEF GenType
<1>1. /\ verified_peers' = verified_peers /\ polled' = polled
      /\ phase'[n] = "unready" /\ uuid'[n] = uuid[n] + 1
      /\ \A m \in Node \ {n} : phase'[m] = phase[m] /\ uuid'[m] = uuid[m]
  BY DEF Boots
<1>2. verified_peers[n] = {} /\ \A p \in Node : polled[n][p] = NoResponse
  BY DEF Boots, GenerationInv, FreshAtBoot, Up, NoPoll
<1>3. NoResponse.uuid = 0 /\ NoResponse.verified_peers = {} /\ "unready" \notin Past
  BY DEF NoResponse, Past
<1>4. \A m \in Node : uuid[m] \in Nat /\ uuid[m] <= uuid'[m] /\ uuid'[m] \in Nat
  BY <1>1, CoordinationAssumption DEF Uuid
<1>t. \A m, p \in Node : polled[m][p].uuid \in Nat
  BY CoordinationAssumption DEF Responses, Uuid
<1>u. \A u \in Uuid : u \in Nat
  BY CoordinationAssumption DEF Uuid
<1>5. FreshAtBoot'
  BY <1>1, <1>4 DEF GenerationInv, FreshAtBoot, Up, NoPoll
<1>6. KnownPast'
  BY <1>1, <1>4, <1>t, <1>u DEF GenerationInv, KnownPast
<1>7. ResponseHolds'
  <2>1. \A m \in Node : polled[m][n].uuid # uuid'[n]
    BY <1>1, <1>4, <1>t DEF GenerationInv, KnownPast
  <2> QED
    BY <1>1, <2>1 DEF GenerationInv, ResponseHolds, Up
<1>8. RestartKnowsCurrent'
  BY <1>1, <1>2, <1>3 DEF GenerationInv, RestartKnowsCurrent
<1>9. SeenBySeen'
  <2> SUFFICES ASSUME NEW m \in Node, NEW p \in Node, m # p, phase'[m] \in Past
               PROVE  \E u \in Uuid : /\ <<p, u>> \in verified_peers[m]
                                      /\ phase'[p] # "down" /\ u = uuid'[p]
                                         => <<m, uuid'[m]>> \in verified_peers[p]
    BY <1>1 DEF SeenBySeen, Up
  <2>1. m # n /\ phase[m] \in Past
    BY <1>1, <1>3
  <2>2. PICK u \in Uuid : /\ <<p, u>> \in verified_peers[m]
                          /\ Up(p) /\ u = uuid[p] => <<m, uuid[m]>> \in verified_peers[p]
    BY <2>1 DEF GenerationInv, SeenBySeen
  <2>3. u <= uuid[p]
    BY <2>2 DEF GenerationInv, KnownPast
  <2>4. CASE p = n
    <3>1. u # uuid'[p]
      BY <1>1, <1>4, <1>u, <2>3, <2>4
    <3> QED
      BY <2>2, <3>1
  <2>5. CASE p # n
    BY <1>1, <2>1, <2>2, <2>5 DEF Up
  <2> QED
    BY <2>4, <2>5
<1>10. SameGeneration'
  BY <1>1, <1>3 DEF GenerationInv, SameGeneration
<1> QED
  BY <1>5, <1>6, <1>7, <1>8, <1>9, <1>10 DEF GenerationInv

\* An answer is what the process that gives it knows at that moment.
LEMMA AsksInv ==
  ASSUME GenType, GenerationInv, NEW n \in Node, NEW p \in Peer(n), Asks(n, p)
  PROVE  GenerationInv'
<1> USE DEF GenType
<1>1. /\ uuid' = uuid /\ verified_peers' = verified_peers /\ phase' = phase
      /\ p \in Node /\ p # n /\ Up(n) /\ Up(p)
      /\ \A m \in Node \ {n} : polled'[m] = polled[m]
      /\ \A q \in Node \ {p} : polled'[n][q] = polled[n][q]
      /\ polled'[n][p] = Response(p)
  BY DEF Asks, Peer
<1>2. Response(p).uuid = uuid[p] /\ Response(p).verified_peers = verified_peers[p]
  BY DEF Response
<1>3. \A m \in Node : uuid[m] \in Nat
  BY CoordinationAssumption DEF Uuid
<1>5. FreshAtBoot'
  BY <1>1 DEF GenerationInv, FreshAtBoot, Up
<1>6. KnownPast'
  <2>1. uuid[p] > 0 /\ uuid[p] <= uuid[p]
    BY <1>1, <1>3 DEF GenerationInv, FreshAtBoot
  <2> QED
    BY <1>1, <1>2, <2>1 DEF GenerationInv, KnownPast
<1>7. ResponseHolds'
  BY <1>1, <1>2 DEF GenerationInv, ResponseHolds, Up
<1>8. RestartKnowsCurrent'
  BY <1>1, <1>2 DEF GenerationInv, RestartKnowsCurrent
<1>9. SeenBySeen'
  BY <1>1 DEF GenerationInv, SeenBySeen, Up
<1>10. SameGeneration'
  BY <1>1 DEF GenerationInv, SameGeneration
<1> QED
  BY <1>5, <1>6, <1>7, <1>8, <1>9, <1>10 DEF GenerationInv

\* A round adds the uuids that were polled to what n knows.  If it is the
\* round that lets n through, the argument for a peer p behind the barriers
\* is: either p is still the process that answered, and the answer shows that
\* it knows n; or it has restarted since, and then the one uuid of n it knows
\* is the current one, which it was seen by.
LEMMA RecordsInv ==
  ASSUME GenType, GenerationInv, NEW n \in Node, NEW through \in BOOLEAN, Records(n, through)
  PROVE  GenerationInv'
<1> USE DEF GenType
<1>1. /\ uuid' = uuid /\ polled'[n] = NoPoll
      /\ verified_peers'[n] = verified_peers[n] \cup Seen(n)
      /\ \A m \in Node \ {n} : /\ phase'[m] = phase[m] /\ polled'[m] = polled[m]
                               /\ verified_peers'[m] = verified_peers[m]
      /\ Up(n) /\ phase[n] \notin Past /\ phase'[n] # "down"
      /\ phase'[n] \in Past => through
  BY DEF Records, Past, Up
<1>2. \A m \in Node : Up(m)' = Up(m)
  BY <1>1 DEF Up
<1>3. \A m \in Node : verified_peers[m] \subseteq verified_peers'[m]
  BY <1>1
<1>4. NoResponse.uuid = 0 /\ NoResponse.verified_peers = {} /\ \A p \in Node : polled'[n][p] = NoResponse
  BY <1>1 DEF NoResponse, NoPoll
<1>5. \A p \in Node, u \in Uuid : <<p, u>> \in Seen(n) <=> p # n /\ u = polled[n][p].uuid
  BY DEF Seen, Peer
<1>6. \A p \in Peer(n) : polled[n][p].uuid # 0 /\ polled[n][p].uuid \in Uuid
  BY CoordinationAssumption DEF Records, RoundComplete, GenerationInv, KnownPast, Peer, Responses, Uuid
<1>7. FreshAtBoot'
  BY <1>1, <1>2 DEF GenerationInv, FreshAtBoot
<1>8. KnownPast'
  <2>1. \A p \in Node : 0 <= uuid[p]
    BY CoordinationAssumption DEF Uuid
  <2>2. \A m, p \in Node : /\ polled'[m][p].uuid <= uuid[p]
                           /\ polled'[m][p] = NoResponse \/ polled'[m][p].uuid > 0
    BY <1>1, <1>4, <2>1 DEF GenerationInv, KnownPast
  <2>3. \A m, p \in Node, u \in Uuid : <<p, u>> \in verified_peers'[m] => u <= uuid[p]
    BY <1>1, <1>5 DEF GenerationInv, KnownPast
  <2> QED
    BY <1>1, <2>2, <2>3 DEF KnownPast
<1>9. ResponseHolds'
  <2> SUFFICES ASSUME NEW m \in Node, NEW p \in Node, Up(p)', polled'[m][p].uuid = uuid[p]
               PROVE  polled'[m][p].verified_peers \subseteq verified_peers'[p]
    BY <1>1 DEF ResponseHolds
  <2>1. CASE m = n
    BY <1>4, <2>1
  <2>2. CASE m # n
    BY <1>1, <1>2, <1>3, <2>2 DEF GenerationInv, ResponseHolds
  <2> QED
    BY <2>1, <2>2
<1>10. RestartKnowsCurrent'
  <2> SUFFICES ASSUME NEW m \in Node, NEW p \in Node, m # p, polled'[p][m].uuid # uuid[m],
                      <<p, uuid[p]>> \in polled'[p][m].verified_peers
               PROVE  /\ \A u \in Uuid : <<p, u>> \in verified_peers'[m] => u = uuid[p]
                      /\ polled'[m][p].uuid \in {0, uuid[p]}
    BY <1>1 DEF RestartKnowsCurrent
  <2>1. p # n /\ polled'[p][m] = polled[p][m]
    BY <1>1, <1>4
  <2>2. /\ \A u \in Uuid : <<p, u>> \in verified_peers[m] => u = uuid[p]
        /\ polled[m][p].uuid \in {0, uuid[p]}
    BY <2>1 DEF GenerationInv, RestartKnowsCurrent
  <2>3. CASE m = n
    BY <1>1, <1>4, <1>5, <1>6, <2>1, <2>2, <2>3 DEF Peer
  <2>4. CASE m # n
    BY <1>1, <2>2, <2>4
  <2> QED
    BY <2>3, <2>4
<1>11. ASSUME phase'[n] \in Past, NEW p \in Peer(n)
       PROVE  <<n, uuid[n]>> \in polled[n][p].verified_peers
  BY <1>1, <1>11 DEF Records, missing_startup_visibility, Peer
<1>12. SeenBySeen'
  <2> SUFFICES ASSUME NEW m \in Node, NEW p \in Node, m # p, phase'[m] \in Past
               PROVE  \E u \in Uuid : /\ <<p, u>> \in verified_peers'[m]
                                      /\ Up(p) /\ u = uuid[p]
                                         => <<m, uuid[m]>> \in verified_peers'[p]
    BY <1>1, <1>2 DEF SeenBySeen
  <2>1. CASE m = n
    <3>1. <<p, polled[n][p].uuid>> \in verified_peers'[n] /\ polled[n][p].uuid \in Uuid
      BY <1>1, <1>5, <1>6, <2>1 DEF Peer
    <3>2. <<n, uuid[n]>> \in polled[n][p].verified_peers
      BY <1>11, <2>1 DEF Peer
    <3>3. Up(p) /\ polled[n][p].uuid = uuid[p] => <<n, uuid[n]>> \in verified_peers'[p]
      BY <1>3, <3>2 DEF GenerationInv, ResponseHolds
    <3> QED
      BY <2>1, <3>1, <3>3
  <2>2. CASE m # n
    BY <1>1, <1>3, <2>2 DEF GenerationInv, SeenBySeen
  <2> QED
    BY <2>1, <2>2
<1>13. SameGeneration'
  <2> SUFFICES ASSUME NEW m \in Node, NEW p \in Node, m # p, phase'[m] \in Past, phase'[p] \in Past
               PROVE  <<p, uuid[p]>> \in verified_peers'[m]
    BY <1>1 DEF SameGeneration
  <2>u. uuid[p] \in Uuid /\ uuid[m] \in Uuid
    OBVIOUS
  <2>1. CASE m = n
    <3>1. p \in Peer(n) /\ phase[p] \in Past
      BY <1>1, <2>1 DEF Peer
    <3>2. CASE polled[n][p].uuid = uuid[p]
      BY <1>1, <1>5, <2>1, <2>u, <3>2
    <3>3. CASE polled[n][p].uuid # uuid[p]
      <4>1. \A u \in Uuid : <<n, u>> \in verified_peers[p] => u = uuid[n]
        BY <1>11, <2>1, <3>1, <3>3 DEF GenerationInv, RestartKnowsCurrent
      <4>2. <<p, uuid[p]>> \in verified_peers[n]
        BY <1>1, <2>1, <3>1, <4>1 DEF GenerationInv, SeenBySeen
      <4> QED
        BY <1>3, <2>1, <4>2
    <3> QED
      BY <3>2, <3>3
  <2>2. CASE m # n /\ p = n
    <3>1. m \in Peer(n) /\ phase[m] \in Past /\ Up(m)
      BY <1>1, <2>2 DEF Peer, Up, Past
    <3>2. <<n, uuid[n]>> \in polled[n][m].verified_peers
      BY <1>11, <2>2, <3>1
    <3>3. CASE polled[n][m].uuid = uuid[m]
      BY <1>3, <2>2, <3>1, <3>2, <3>3 DEF GenerationInv, ResponseHolds
    <3>4. CASE polled[n][m].uuid # uuid[m]
      <4>1. \A u \in Uuid : <<n, u>> \in verified_peers[m] => u = uuid[n]
        BY <2>2, <3>2, <3>4 DEF GenerationInv, RestartKnowsCurrent
      <4>2. \E u \in Uuid : <<n, u>> \in verified_peers[m]
        BY <2>2, <3>1 DEF GenerationInv, SeenBySeen
      <4> QED
        BY <1>3, <2>2, <4>1, <4>2
    <3> QED
      BY <3>3, <3>4
  <2>3. CASE m # n /\ p # n
    BY <1>1, <2>3 DEF GenerationInv, SameGeneration
  <2> QED
    BY <2>1, <2>2, <2>3
<1> QED
  BY <1>7, <1>8, <1>9, <1>10, <1>12, <1>13 DEF GenerationInv
-----------------------------------------------------------------------------
\* No process runs at first.
LEMMA InitGeneration ==
  ASSUME Init
  PROVE  GenType /\ GenerationInv
<1>1. NoResponse \in Responses /\ NoResponse.uuid = 0 /\ NoResponse.verified_peers = {}
  BY CoordinationAssumption DEF NoResponse, Responses, Uuid
<1>2. \A n, p \in Node : polled[n][p] = NoResponse
  BY DEF Init, NoPoll
<1>3. GenType
  BY <1>1, CoordinationAssumption DEF Init, GenType, NoPoll, Phases, Uuid
<1>4. FreshAtBoot /\ SeenBySeen /\ SameGeneration
  BY DEF Init, FreshAtBoot, SeenBySeen, SameGeneration, Up, Past
<1>5. KnownPast /\ ResponseHolds /\ RestartKnowsCurrent
  BY <1>1, <1>2 DEF Init, KnownPast, ResponseHolds, RestartKnowsCurrent, Up
<1> QED
  BY <1>3, <1>4, <1>5 DEF GenerationInv

\* Every step keeps the types and the invariant.
LEMMA NextGeneration ==
  ASSUME GenType, GenerationInv, [Next]_vars
  PROVE  GenType' /\ GenerationInv'
<1>1. ASSUME NEW n \in Node, Step(n) PROVE GenType' /\ GenerationInv'
  BY <1>1, StepTyped, MovesInv, LeavesInv, BootsInv, AsksInv, RecordsInv DEF Step
<1>2. CASE UNCHANGED genVars
  BY <1>2 DEF genVars, GenType, GenerationInv, FreshAtBoot, KnownPast, ResponseHolds,
              RestartKnowsCurrent, SeenBySeen, SameGeneration, Up
<1> QED
  BY <1>1, <1>2, StepKinds

\* Two nodes behind the two startup barriers always belong to one generation,
\* whatever crashes, signals, deadlines and restarts happen, for any number
\* of nodes, with lifecycle::startup and without.
THEOREM OneGeneration == Spec => []SameGeneration
<1>1. Init => GenType /\ GenerationInv
  BY InitGeneration
<1>2. GenType /\ GenerationInv /\ [Next]_vars => GenType' /\ GenerationInv'
  BY NextGeneration
<1>3. GenerationInv => SameGeneration
  BY DEF GenerationInv
<1> QED
  BY <1>1, <1>2, <1>3, PTL DEF Spec
=============================================================================
