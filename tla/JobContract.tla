---------------------------- MODULE JobContract -----------------------------
(***************************************************************************)
(* What the work pool promises the user of a LeaderHandle, without queues, *)
(* connections or a tracker.  A job is submitted for a set of workers, each *)
(* of them answers it at most once, and its handle resolves once: to one   *)
(* entry per worker addressed, an Ok entry being that worker's answer, or, *)
(* only when the leader shuts down, to an error.                           *)
(***************************************************************************)
EXTENDS Naturals

CONSTANTS Worker, MaxJobs

VARIABLES submitted, target, handle, outcome, answered, ct

vars == <<submitted, target, handle, outcome, answered, ct>>

Submission == 1..MaxJobs
Rsp(tag, of) == [tag |-> tag, of |-> of]

Init ==
  /\ submitted = 0 /\ answered = {} /\ ct = FALSE
  /\ target  = [u \in Submission |-> {}]
  /\ handle  = [u \in Submission |-> "none"]
  /\ outcome = [u \in Submission |-> [w \in Worker |-> Rsp("None", 0)]]

Submit ==
  /\ submitted < MaxJobs
  /\ submitted' = submitted + 1
  /\ \E T \in SUBSET Worker : target' = [target EXCEPT ![submitted + 1] = T]
  /\ handle' = [handle EXCEPT ![submitted + 1] = "waiting"]
  /\ UNCHANGED <<outcome, answered, ct>>

Cancel(u) ==
  /\ handle[u] = "waiting"
  /\ handle' = [handle EXCEPT ![u] = "cancelled"]
  /\ UNCHANGED <<submitted, target, outcome, answered, ct>>

\* Worker w finishes job u; a job that was cancelled is finished all the same.
Answer(u, w) ==
  /\ u <= submitted /\ w \in target[u] /\ <<u, w>> \notin answered
  /\ answered' = answered \cup {<<u, w>>}
  /\ UNCHANGED <<submitted, target, handle, outcome, ct>>

Entries(u, w) ==
  IF w \notin target[u] THEN {Rsp("None", 0)}
  ELSE {Rsp("JobsLost", 0)} \cup {Rsp("Ok", u) : x \in {x \in answered : x = <<u, w>>}}

Resolve(u) ==
  /\ handle[u] = "waiting"
  /\ handle' = [handle EXCEPT ![u] = "done"]
  /\ \E results \in [Worker -> UNION {Entries(u, w) : w \in Worker}] :
       /\ \A w \in Worker : results[w] \in Entries(u, w)
       /\ outcome' = [outcome EXCEPT ![u] = results]
  /\ UNCHANGED <<submitted, target, answered, ct>>

Shutdown ==
  /\ ~ct /\ ct' = TRUE
  /\ UNCHANGED <<submitted, target, handle, outcome, answered>>

\* The shutdown drops the response channels of some jobs at once.
Drop ==
  /\ ct
  /\ \E S \in SUBSET {u \in Submission : handle[u] = "waiting"} :
       handle' = [u \in Submission |-> IF u \in S THEN "failed" ELSE handle[u]]
  /\ UNCHANGED <<submitted, target, outcome, answered, ct>>

Next ==
  \/ Submit
  \/ Shutdown
  \/ Drop
  \/ \E u \in Submission : Cancel(u)
  \/ \E u \in Submission : Resolve(u)
  \/ \E u \in Submission, w \in Worker : Answer(u, w)

Spec == Init /\ [][Next]_vars
=============================================================================
