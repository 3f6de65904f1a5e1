------------------------------ MODULE Workpool ------------------------------
(***************************************************************************)
(* The work pool of ampc-actor-utils/src/network/workpool: one leader, a   *)
(* fixed set of workers, one TCP connection per worker that is re-made     *)
(* whenever it breaks.  The leader runs leader_task and one worker_mgr per *)
(* worker, which share the JobTracker; each worker runs worker_task.       *)
(*                                                                         *)
(* A job is known by the number of its submission (1, 2, ...), which also  *)
(* stands for its payload and for the answer computed from that payload;   *)
(* what travels and what the tracker is keyed by is its job id, a counter  *)
(* that wraps.                                                             *)
(***************************************************************************)
EXTENDS Naturals, Sequences, FiniteSets

CONSTANTS
  Worker,      \* the workers of LeaderArgs.worker_ids
  MaxJobs,     \* bound: jobs submitted
  MaxDrops,    \* bound: connections lost
  MaxRestarts, \* bound: worker processes restarted
  MaxGone,     \* bound: workers that are stopped or without a user at a time
  IdMod,       \* job ids are counted modulo this (2^32 in the code)
  JobChCap     \* capacity of the job channel (1024 in the code)

ASSUME ConstantsAssumption ==
  /\ MaxJobs \in Nat /\ MaxDrops \in Nat /\ MaxRestarts \in Nat /\ MaxGone \in Nat
  /\ IdMod \in Nat \ {0} /\ JobChCap \in Nat \ {0}

VARIABLES
  next_job_id, \* LeaderHandle.next_job_id
  submitted,   \* number of jobs submitted so far
  target,      \* the workers each submission addresses
  jobId,       \* the job id its JobHandle holds
  handle,      \* what the JobHandle of each submission shows
  outcome,     \* the WorkerRsp per worker that a resolved JobHandle returned
  jobCh,       \* job_tx -> job_rx, commands to leader_task
  tracker,     \* JobTracker.jobs
  cmd,         \* worker_cmd_ch -> cmd_rx, one queue per worker
  rspCh,       \* worker_rsp_tx -> worker_rsp_rx
  lphase,      \* where each worker_mgr is
  lost,        \* the dropped_jobs validate_pending_jobs has still to record
  ct,          \* shutdown_ct of the leader is cancelled
  taskStopped, \* leader_task has left its loop
  link,        \* the current TCP connection to the worker is up
  l2w, w2l,    \* bytes written and not yet read, in each direction
  wphase,      \* where each worker_task is
  pendingJobs, \* worker_task's pending_jobs
  hasHandle,   \* the worker's user has its WorkerHandle, so job_rx is open
  inHand,      \* jobs in job_rx, or received by the user and not answered
  rspq,        \* rsp_tx -> rsp_rx of the worker
  answered,    \* history: <<submission, worker>> for each send_result
  drops,       \* connections lost so far
  restarts     \* worker processes restarted so far

leaderVars == <<next_job_id, submitted, target, jobId, handle, outcome, jobCh,
                tracker>>
mgrVars    == <<cmd, rspCh, lphase, lost, ct, taskStopped>>
linkVars   == <<link, l2w, w2l>>
workerVars == <<wphase, pendingJobs, hasHandle, inHand, rspq, answered>>
faultVars  == <<drops, restarts>>
vars       == <<leaderVars, mgrVars, linkVars, workerVars, faultVars>>
-----------------------------------------------------------------------------
Submission == 1..MaxJobs
JobId      == 0..(IdMod - 1)

\* WorkerRsp.payload, and the absence of a response.
Rsp(tag, of) == [tag |-> tag, of |-> of]
Ok(of)       == Rsp("Ok", of)
NoRsp        == Rsp("None", 0)
JobsLost     == Rsp("JobsLost", 0)
SendFailed   == Rsp("SendFailed", 0)

RspSet == {Ok(u) : u \in Submission} \cup {NoRsp, JobsLost, SendFailed}

\* NetworkValue: what travels on a connection.
NetworkValue(kind, id, of, ids) == [kind |-> kind, id |-> id, of |-> of, ids |-> ids]
Job(id, of)           == NetworkValue("Job", id, of, {})
PendingJobsRequest    == NetworkValue("PendingJobsRequest", 0, 0, {})
PendingJobsReply(ids) == NetworkValue("PendingJobsReply", 0, 0, ids)

\* A PendingJob; `of' is the submission whose response_tx it holds, 0 for a
\* job id that has no entry in the map.
PendingJob(of, registered) ==
  [of |-> of, registered |-> registered, pending |-> {},
   results |-> [w \in Worker |-> NoRsp]]
NoJob == PendingJob(0, {})

\* broadcast addresses every worker; scatter_gather rejects an empty list,
\* an unknown worker and a worker named twice before it takes a job id.
Targets == {Worker} \cup (SUBSET Worker \ {{}})
-----------------------------------------------------------------------------
Init ==
  /\ next_job_id = 0 /\ submitted = 0
  /\ target  = [u \in Submission |-> {}]
  /\ jobId   = [u \in Submission |-> 0]
  /\ handle  = [u \in Submission |-> "none"]
  /\ outcome = [u \in Submission |-> [w \in Worker |-> NoRsp]]
  /\ jobCh   = <<>>
  /\ tracker = [id \in JobId |-> NoJob]
  /\ cmd     = [w \in Worker |-> <<>>]
  /\ rspCh   = [w \in Worker |-> <<>>]
  /\ lphase  = [w \in Worker |-> "connecting"]
  /\ lost    = [w \in Worker |-> {}]
  /\ ct = FALSE /\ taskStopped = FALSE
  /\ link    = [w \in Worker |-> FALSE]
  /\ l2w     = [w \in Worker |-> <<>>]
  /\ w2l     = [w \in Worker |-> <<>>]
  /\ wphase  = [w \in Worker |-> "connecting"]
  /\ pendingJobs = [w \in Worker |-> {}]
  /\ hasHandle = [w \in Worker |-> TRUE]
  /\ inHand  = [w \in Worker |-> {}]
  /\ rspq    = [w \in Worker |-> <<>>]
  /\ answered = {} /\ drops = 0 /\ restarts = 0
-----------------------------------------------------------------------------
(* The user of the pool. *)

\* next_job_id.fetch_add(1), and a counter that does not wrap or is not kept.
NoWrapFetchAdd(n) == n + 1
StuckFetchAdd(n)  == n
FetchAdd(n) == (n + 1) % IdMod

\* broadcast and scatter_gather.  A closed job channel makes them fail
\* without a handle: no step.
Submit ==
  /\ ~taskStopped /\ submitted < MaxJobs /\ Len(jobCh) < JobChCap
  /\ submitted' = submitted + 1
  /\ next_job_id' = FetchAdd(next_job_id)
  /\ \E T \in Targets : target' = [target EXCEPT ![submitted + 1] = T]
  /\ jobId'  = [jobId EXCEPT ![submitted + 1] = next_job_id]
  /\ handle' = [handle EXCEPT ![submitted + 1] = "waiting"]
  /\ jobCh'  = Append(jobCh, [op |-> "Submit", of |-> submitted + 1])
  /\ UNCHANGED <<outcome, tracker, mgrVars, linkVars, workerVars, faultVars>>

\* JobHandle::cancel consumes the handle.
Cancel(u) ==
  /\ handle[u] = "waiting" /\ ~taskStopped /\ Len(jobCh) < JobChCap
  /\ handle' = [handle EXCEPT ![u] = "cancelled"]
  /\ jobCh'  = Append(jobCh, [op |-> "Cancel", of |-> u])
  /\ UNCHANGED <<next_job_id, submitted, target, jobId, outcome, tracker,
                 mgrVars, linkVars, workerVars, faultVars>>
-----------------------------------------------------------------------------
(* JobTracker.  Dropping a response_tx resolves a waiting handle to        *)
(* Err(SendFailed), shown as "failed"; a cancelled handle shows nothing.   *)

Dropped(S) ==
  [u \in Submission |->
     IF u \in S /\ handle[u] = "waiting" THEN "failed" ELSE handle[u]]

\* The insert replaces, and so drops, an entry that has the same job id.
register_job(id, of) ==
  /\ tracker' = [tracker EXCEPT ![id] = PendingJob(of, target[of])]
  /\ handle'  = Dropped({tracker[id].of})
  /\ outcome' = outcome

\* An error is only logged by the caller, which sends the job all the same.
set_to_pending(id, w) ==
  tracker' = IF w \in tracker[id].registered
             THEN [tracker EXCEPT ![id].registered = @ \ {w},
                                  ![id].pending = @ \cup {w}]
             ELSE tracker

complete_job(id, results) ==
  LET u == tracker[id].of IN
  /\ tracker' = [tracker EXCEPT ![id] = NoJob]
  /\ IF handle[u] = "waiting"
     THEN /\ handle'  = [handle EXCEPT ![u] = "done"]
          /\ outcome' = [outcome EXCEPT ![u] = results]
     ELSE UNCHANGED <<handle, outcome>>

\* Mutants: the worker stays in the pending set; workers that have not been
\* sent their partition are forgotten.
StillPending(id, w, rsp) ==
  /\ tracker' = IF w \in tracker[id].pending
                THEN [tracker EXCEPT ![id].results[w] = rsp] ELSE tracker
  /\ UNCHANGED <<handle, outcome>>
RegisteredForgotten(id, w, rsp) ==
  LET results == [tracker[id].results EXCEPT ![w] = rsp] IN
  CASE w \notin tracker[id].pending -> UNCHANGED <<tracker, handle, outcome>>
    [] tracker[id].pending = {w} -> complete_job(id, results)
    [] OTHER -> /\ tracker' = [tracker EXCEPT ![id].pending = @ \ {w},
                                              ![id].results = results]
                /\ UNCHANGED <<handle, outcome>>

\* The entry is unlocked before complete_job removes it.  An entry that waits
\* for nobody is changed by no other task in between, except by a register_job
\* of the same id, 2^32 jobs later; the two are one step here.
record_response(id, w, rsp) ==
  LET results == [tracker[id].results EXCEPT ![w] = rsp] IN
  CASE w \notin tracker[id].pending ->
         UNCHANGED <<tracker, handle, outcome>>
    [] tracker[id].pending = {w} /\ tracker[id].registered = {} ->
         complete_job(id, results)
    [] OTHER ->
         /\ tracker' = [tracker EXCEPT ![id].pending = @ \ {w},
                                       ![id].results = results]
         /\ UNCHANGED <<handle, outcome>>

cancel_job(id) ==
  /\ tracker' = [tracker EXCEPT ![id] = NoJob]
  /\ handle'  = Dropped({tracker[id].of})
  /\ outcome' = outcome
-----------------------------------------------------------------------------
(* leader_task. *)

\* send_to_workpool: a worker_mgr that has stopped closed its queue, so the
\* send fails and a SendFailed response is queued instead.
TakeJob ==
  /\ ~taskStopped /\ jobCh # <<>> /\ jobCh' = Tail(jobCh)
  /\ LET u  == Head(jobCh).of
         id == jobId[u]
         To(w)   == Head(jobCh).op = "Submit" /\ w \in target[u]
         Open(w) == lphase[w] # "stopped"
     IN /\ IF Head(jobCh).op = "Submit" THEN register_job(id, u) ELSE cancel_job(id)
        /\ cmd' = [w \in Worker |-> IF To(w) /\ Open(w)
                                    THEN Append(cmd[w], Job(id, u)) ELSE cmd[w]]
        /\ rspCh' = [w \in Worker |-> IF To(w) /\ ~Open(w)
                     THEN Append(rspCh[w], [id |-> id, rsp |-> SendFailed])
                     ELSE rspCh[w]]
  /\ UNCHANGED <<next_job_id, submitted, target, jobId, lphase, lost, ct,
                 taskStopped, linkVars, workerVars, faultVars>>

\* One queue carries the responses of every worker; only the order of the
\* responses of one worker is kept.
RecordResponse(w) ==
  /\ ~taskStopped /\ rspCh[w] # <<>>
  /\ record_response(Head(rspCh[w]).id, w, Head(rspCh[w]).rsp)
  /\ rspCh' = [rspCh EXCEPT ![w] = Tail(@)]
  /\ UNCHANGED <<next_job_id, submitted, target, jobId, jobCh, cmd, lphase, lost,
                 ct, taskStopped, linkVars, workerVars, faultVars>>
-----------------------------------------------------------------------------
(* Connections.  A message written to a dead connection is lost; what was  *)
(* written before it died is read or lost, as long as the reader has not   *)
(* noticed.  tcp::connect pairs a worker_mgr waiting for its worker with a *)
(* worker_task that dials.                                                 *)

Written(stream, w, msg) ==
  IF link[w] THEN [stream EXCEPT ![w] = Append(@, msg)] ELSE stream

\* leader_handshake starts by writing its request.  A manager that gets to
\* connect after the shutdown only sees the cancelled token.
Connect(w) ==
  /\ ~ct /\ lphase[w] = "connecting" /\ wphase[w] = "connecting"
  /\ lphase' = [lphase EXCEPT ![w] = "handshake"]
  /\ wphase' = [wphase EXCEPT ![w] = "handshake"]
  /\ link'   = [link EXCEPT ![w] = TRUE]
  /\ l2w'    = [l2w EXCEPT ![w] = <<PendingJobsRequest>>]
  /\ w2l'    = [w2l EXCEPT ![w] = <<>>]
  /\ UNCHANGED <<leaderVars, cmd, rspCh, lost, ct, taskStopped, pendingJobs,
                 hasHandle, inHand, rspq, answered, faultVars>>

\* The connection breaks under both ends.
LinkDown(w) ==
  /\ link[w] /\ drops < MaxDrops /\ drops' = drops + 1
  /\ link' = [link EXCEPT ![w] = FALSE]
  /\ UNCHANGED <<leaderVars, mgrVars, l2w, w2l, workerVars, restarts>>
-----------------------------------------------------------------------------
(* worker_mgr of worker w. *)

\* Leaving a connection: the socket is closed and what it had not read is gone.
LeaveConnection(w) ==
  /\ lphase' = [lphase EXCEPT ![w] = "connecting"]
  /\ link'   = [link EXCEPT ![w] = FALSE]
  /\ w2l'    = [w2l EXCEPT ![w] = <<>>]

\* The jobs validate_pending_jobs finds were sent to w and are not among the
\* ones w says it has; the mutants find none, or do not look at what w says.
NothingDropped(w, ids) == {}
AllDropped(w, ids) == {id \in JobId : w \in tracker[id].pending}
dropped_jobs(w, ids) == {id \in JobId : w \in tracker[id].pending /\ id \notin ids}

\* leader_handshake reads the reply, validate_pending_jobs takes its snapshot.
LeaderHandshake(w) ==
  /\ lphase[w] = "handshake" /\ w2l[w] # <<>>
  /\ LET msg == Head(w2l[w]) IN
        IF msg.kind = "PendingJobsReply"
        THEN /\ lost'   = [lost EXCEPT ![w] = dropped_jobs(w, msg.ids)]
             /\ lphase' = [lphase EXCEPT ![w] = IF dropped_jobs(w, msg.ids) = {}
                                                THEN "traffic" ELSE "validating"]
             /\ w2l'    = [w2l EXCEPT ![w] = Tail(@)]
             /\ UNCHANGED link
        ELSE LeaveConnection(w) /\ UNCHANGED lost
  /\ UNCHANGED <<leaderVars, cmd, rspCh, ct, taskStopped, l2w, workerVars, faultVars>>

\* validate_pending_jobs records one lost job; leader_task and the other
\* managers use the tracker in between.
ReportLost(w) ==
  /\ lphase[w] = "validating"
  /\ \E id \in lost[w] :
       /\ record_response(id, w, JobsLost)
       /\ lost'   = [lost EXCEPT ![w] = @ \ {id}]
       /\ lphase' = IF lost[w] = {id} THEN [lphase EXCEPT ![w] = "traffic"] ELSE lphase
  /\ UNCHANGED <<next_job_id, submitted, target, jobId, jobCh, cmd, rspCh, ct,
                 taskStopped, linkVars, workerVars, faultVars>>

\* Mutant: the job that is written stays at the head of the queue.
WriteKeepsJob(w) ==
  /\ lphase[w] = "traffic" /\ cmd[w] # <<>> /\ l2w[w] = <<>>
  /\ set_to_pending(Head(cmd[w]).id, w)
  /\ l2w' = Written(l2w, w, Head(cmd[w]))
  /\ UNCHANGED <<next_job_id, submitted, target, jobId, handle, outcome, jobCh, cmd, rspCh,
                 lphase, lost, ct, taskStopped, link, w2l, workerVars, faultVars>>

\* serialize_and_write_outbound: the hook marks the job as sent, then it is
\* written.
LeaderWrite(w) ==
  /\ lphase[w] = "traffic" /\ cmd[w] # <<>>
  /\ cmd' = [cmd EXCEPT ![w] = Tail(@)]
  /\ set_to_pending(Head(cmd[w]).id, w)
  /\ l2w' = Written(l2w, w, Head(cmd[w]))
  /\ UNCHANGED <<next_job_id, submitted, target, jobId, handle, outcome, jobCh, rspCh,
                 lphase, lost, ct, taskStopped, link, w2l, workerVars, faultVars>>

\* leader_forward_inbound_msg: a response is forwarded unless leader_task is
\* gone, a late PendingJobsReply is ignored, a request ends the connection.
LeaderRead(w) ==
  /\ lphase[w] = "traffic" /\ w2l[w] # <<>>
  /\ LET msg == Head(w2l[w])
         forward == msg.kind = "Job" /\ ~taskStopped
     IN /\ rspCh' = IF forward
                    THEN [rspCh EXCEPT ![w] = Append(@, [id |-> msg.id, rsp |-> Ok(msg.of)])]
                    ELSE rspCh
        /\ IF forward \/ msg.kind = "PendingJobsReply"
           THEN w2l' = [w2l EXCEPT ![w] = Tail(@)] /\ UNCHANGED <<lphase, link>>
           ELSE LeaveConnection(w)
  /\ UNCHANGED <<leaderVars, cmd, lost, ct, taskStopped, l2w, workerVars, faultVars>>

\* A read or a write fails, or cmd_rx is closed and drained.
LeaderDisconnect(w) ==
  /\ \/ lphase[w] \in {"handshake", "traffic"} /\ ~link[w]
     \/ lphase[w] = "traffic" /\ taskStopped /\ cmd[w] = <<>>
  /\ LeaveConnection(w)
  /\ UNCHANGED <<leaderVars, cmd, rspCh, lost, ct, taskStopped, l2w, workerVars, faultVars>>
-----------------------------------------------------------------------------
(* Shutdown of the leader: the token is cancelled, then every task leaves  *)
(* its loop when it gets to it.  The last one drops the tracker.           *)

Shutdown ==
  /\ ~ct /\ ct' = TRUE
  /\ UNCHANGED <<leaderVars, cmd, rspCh, lphase, lost, taskStopped, linkVars,
                 workerVars, faultVars>>

\* The submissions whose response_tx goes with the tracker, if this is the
\* last task to stop.
Tracked == {tracker[id].of : id \in JobId}
DropTracker(last) ==
  tracker' = IF last THEN [id \in JobId |-> NoJob] ELSE tracker

LeaderTaskStop ==
  LET last == \A w \in Worker : lphase[w] = "stopped"
      queued == {jobCh[i].of : i \in {k \in DOMAIN jobCh : jobCh[k].op = "Submit"}}
  IN
  /\ ct /\ ~taskStopped /\ taskStopped' = TRUE
  /\ DropTracker(last)
  /\ handle' = Dropped(queued \cup IF last THEN Tracked ELSE {})
  /\ jobCh' = <<>>
  /\ rspCh' = [w \in Worker |-> <<>>]
  /\ UNCHANGED <<next_job_id, submitted, target, jobId, outcome, cmd, lphase, lost,
                 ct, linkVars, workerVars, faultVars>>

MgrStop(w) ==
  LET last == taskStopped /\ \A v \in Worker \ {w} : lphase[v] = "stopped" IN
  /\ ct /\ lphase[w] \notin {"validating", "stopped"}
  /\ lphase' = [lphase EXCEPT ![w] = "stopped"]
  /\ cmd'    = [cmd EXCEPT ![w] = <<>>]
  /\ link'   = [link EXCEPT ![w] = FALSE]
  /\ w2l'    = [w2l EXCEPT ![w] = <<>>]
  /\ DropTracker(last)
  /\ handle' = Dropped(IF last THEN Tracked ELSE {})
  /\ UNCHANGED <<next_job_id, submitted, target, jobId, outcome, jobCh, rspCh, lost,
                 ct, taskStopped, l2w, workerVars, faultVars>>
-----------------------------------------------------------------------------
(* worker_task of worker w. *)

WorkerLeaveConnection(w) ==
  /\ wphase' = [wphase EXCEPT ![w] = "connecting"]
  /\ link'   = [link EXCEPT ![w] = FALSE]
  /\ l2w'    = [l2w EXCEPT ![w] = <<>>]

\* worker_handshake.  pending_jobs does not change between the snapshot that
\* is taken when the connection is made and the reply that carries it.
WorkerHandshake(w) ==
  /\ wphase[w] = "handshake" /\ l2w[w] # <<>>
  /\ IF Head(l2w[w]).kind = "PendingJobsRequest"
     THEN /\ wphase' = [wphase EXCEPT ![w] = "traffic"]
          /\ l2w'    = [l2w EXCEPT ![w] = Tail(@)]
          /\ w2l'    = Written(w2l, w, PendingJobsReply(pendingJobs[w]))
          /\ UNCHANGED link
     ELSE WorkerLeaveConnection(w) /\ UNCHANGED w2l
  /\ UNCHANGED <<leaderVars, mgrVars, pendingJobs, hasHandle, inHand, rspq, answered,
                 faultVars>>

\* worker_handle_inbound_msg.  A job enters pending_jobs before it is handed
\* to the user: without a user the hand-over fails, which ends the connection
\* and leaves the job in pending_jobs.
WorkerRead(w) ==
  /\ wphase[w] = "traffic" /\ l2w[w] # <<>>
  /\ LET msg == Head(l2w[w])
         failed == \/ msg.kind = "PendingJobsReply"
                   \/ msg.kind = "Job" /\ ~hasHandle[w]
     IN
     /\ pendingJobs' = IF msg.kind = "Job"
                       THEN [pendingJobs EXCEPT ![w] = @ \cup {msg.id}] ELSE pendingJobs
     /\ inHand' = IF msg.kind = "Job" /\ hasHandle[w]
                  THEN [inHand EXCEPT ![w] = @ \cup {msg}] ELSE inHand
     /\ rspq' = IF msg.kind = "PendingJobsRequest"
                THEN [rspq EXCEPT ![w] = Append(@, PendingJobsReply(pendingJobs[w]))]
                ELSE rspq
     /\ IF failed
        THEN WorkerLeaveConnection(w)
        ELSE l2w' = [l2w EXCEPT ![w] = Tail(@)] /\ UNCHANGED <<wphase, link>>
  /\ UNCHANGED <<leaderVars, mgrVars, w2l, hasHandle, answered, faultVars>>

\* Job::send_result, in whatever order the user finishes its jobs.  The answer
\* goes nowhere when worker_task has stopped.
SendResult(w) ==
  \E job \in inHand[w] :
    /\ inHand' = [inHand EXCEPT ![w] = @ \ {job}]
    /\ rspq' = IF wphase[w] = "stopped" THEN rspq
               ELSE [rspq EXCEPT ![w] = Append(@, job)]
    /\ answered' = answered \cup {<<job.of, w>>}
    /\ UNCHANGED <<leaderVars, mgrVars, linkVars, wphase, pendingJobs, hasHandle, faultVars>>

\* Mutant: a response may overtake the reply of the handshake.
WriteBeforeReply(w) ==
  /\ wphase[w] \in {"handshake", "traffic"} /\ rspq[w] # <<>>
  /\ pendingJobs' = [pendingJobs EXCEPT ![w] = @ \ {Head(rspq[w]).id}]
  /\ w2l'  = Written(w2l, w, Head(rspq[w]))
  /\ rspq' = [rspq EXCEPT ![w] = Tail(@)]
  /\ UNCHANGED <<leaderVars, mgrVars, link, l2w, wphase, hasHandle, inHand, answered,
                 faultVars>>

\* serialize_and_write_outbound: the hook forgets the job, then its response
\* is written.
WorkerWrite(w) ==
  /\ wphase[w] = "traffic" /\ rspq[w] # <<>>
  /\ LET msg == Head(rspq[w]) IN
     /\ pendingJobs' = IF msg.kind = "Job"
                       THEN [pendingJobs EXCEPT ![w] = @ \ {msg.id}] ELSE pendingJobs
     /\ w2l' = Written(w2l, w, msg)
  /\ rspq' = [rspq EXCEPT ![w] = Tail(@)]
  /\ UNCHANGED <<leaderVars, mgrVars, link, l2w, wphase, hasHandle, inHand, answered,
                 faultVars>>

WorkerDisconnect(w) ==
  /\ wphase[w] \in {"handshake", "traffic"} /\ ~link[w]
  /\ WorkerLeaveConnection(w)
  /\ UNCHANGED <<leaderVars, mgrVars, w2l, pendingJobs, hasHandle, inHand, rspq, answered,
                 faultVars>>

\* A worker that can take no job, or take it and never answer.
Gone(w) == wphase[w] = "stopped" \/ ~hasHandle[w]
MayGo(w) == Cardinality({v \in Worker \ {w} : Gone(v)}) < MaxGone

\* The worker's user drops its WorkerHandle, and with it the jobs it has not
\* received; worker_task does not notice.
DropHandle(w) ==
  /\ hasHandle[w] /\ MayGo(w)
  /\ hasHandle' = [hasHandle EXCEPT ![w] = FALSE]
  /\ \E received \in SUBSET inHand[w] : inHand' = [inHand EXCEPT ![w] = received]
  /\ UNCHANGED <<leaderVars, mgrVars, linkVars, wphase, pendingJobs, rspq, answered, faultVars>>

\* The worker's shutdown_ct is cancelled: worker_task leaves its loop, and
\* pending_jobs and rsp_rx go with it.
WorkerStop(w) ==
  /\ wphase[w] # "stopped" /\ MayGo(w)
  /\ wphase' = [wphase EXCEPT ![w] = "stopped"]
  /\ link'   = [link EXCEPT ![w] = FALSE]
  /\ l2w'    = [l2w EXCEPT ![w] = <<>>]
  /\ pendingJobs' = [pendingJobs EXCEPT ![w] = {}]
  /\ rspq'   = [rspq EXCEPT ![w] = <<>>]
  /\ UNCHANGED <<leaderVars, mgrVars, w2l, hasHandle, inHand, answered, faultVars>>

\* The worker process ends, or has ended, and is started again: all it held is
\* lost and it has a new WorkerHandle.
WorkerRestart(w) ==
  /\ restarts < MaxRestarts /\ restarts' = restarts + 1
  /\ WorkerLeaveConnection(w)
  /\ pendingJobs' = [pendingJobs EXCEPT ![w] = {}]
  /\ hasHandle' = [hasHandle EXCEPT ![w] = TRUE]
  /\ inHand' = [inHand EXCEPT ![w] = {}]
  /\ rspq'   = [rspq EXCEPT ![w] = <<>>]
  /\ UNCHANGED <<leaderVars, mgrVars, w2l, answered, drops>>
-----------------------------------------------------------------------------
Environment ==
  \/ Submit
  \/ \E u \in Submission : Cancel(u)
  \/ Shutdown
  \/ \E w \in Worker : LinkDown(w)
  \/ \E w \in Worker : DropHandle(w)
  \/ \E w \in Worker : WorkerStop(w)
  \/ \E w \in Worker : WorkerRestart(w)

LeaderStep ==
  \/ TakeJob
  \/ LeaderTaskStop
  \/ \E w \in Worker : RecordResponse(w)

MgrStep(w) ==
  \/ Connect(w)
  \/ LeaderHandshake(w)
  \/ ReportLost(w)
  \/ LeaderWrite(w)
  \/ LeaderRead(w)
  \/ LeaderDisconnect(w)
  \/ MgrStop(w)

WorkerStep(w) ==
  \/ WorkerHandshake(w)
  \/ WorkerRead(w)
  \/ SendResult(w)
  \/ WorkerWrite(w)
  \/ WorkerDisconnect(w)

Next ==
  \/ Environment
  \/ LeaderStep
  \/ \E w \in Worker : MgrStep(w)
  \/ \E w \in Worker : WorkerStep(w)

\* Every branch of the tasks' select! loops is polled again and again.  Two
\* ends that both wait for a connection get one: both retry for ever, and the
\* network is assumed to let them through in the end.  The user of a worker
\* answers every job it receives.  Nothing obliges the environment to act, so
\* a worker that has stopped need not come back, nor one without a user get a
\* new one.
Fairness ==
  /\ WF_vars(TakeJob) /\ WF_vars(LeaderTaskStop)
  /\ \A w \in Worker :
       /\ WF_vars(RecordResponse(w))
       /\ WF_vars(Connect(w)) /\ WF_vars(LeaderHandshake(w)) /\ WF_vars(ReportLost(w))
       /\ WF_vars(LeaderWrite(w)) /\ WF_vars(LeaderRead(w))
       /\ WF_vars(LeaderDisconnect(w)) /\ WF_vars(MgrStop(w))
       /\ WF_vars(WorkerHandshake(w)) /\ WF_vars(WorkerRead(w)) /\ WF_vars(SendResult(w))
       /\ WF_vars(WorkerWrite(w)) /\ WF_vars(WorkerDisconnect(w))

Spec == Init /\ [][Next]_vars

FairSpec == Spec /\ Fairness
-----------------------------------------------------------------------------
JobValues     == {Job(id, u) : id \in JobId, u \in Submission}
NetworkValues == JobValues \cup {PendingJobsRequest}
                 \cup {PendingJobsReply(ids) : ids \in SUBSET JobId}

\* Every variable has its type.
TypeOK ==
  /\ next_job_id \in JobId
  /\ submitted \in 0..MaxJobs
  /\ target  \in [Submission -> SUBSET Worker]
  /\ jobId   \in [Submission -> JobId]
  /\ handle  \in [Submission -> {"none", "waiting", "cancelled", "done", "failed"}]
  /\ outcome \in [Submission -> [Worker -> RspSet]]
  /\ jobCh   \in Seq([op : {"Submit", "Cancel"}, of : Submission])
  /\ tracker \in [JobId -> [of : 0..MaxJobs, registered : SUBSET Worker,
                            pending : SUBSET Worker, results : [Worker -> RspSet]]]
  /\ cmd     \in [Worker -> Seq(JobValues)]
  /\ rspCh   \in [Worker -> Seq([id : JobId, rsp : RspSet \ {NoRsp}])]
  /\ lphase  \in [Worker -> {"connecting", "handshake", "validating", "traffic", "stopped"}]
  /\ lost    \in [Worker -> SUBSET JobId]
  /\ ct \in BOOLEAN /\ taskStopped \in BOOLEAN
  /\ link    \in [Worker -> BOOLEAN]
  /\ l2w     \in [Worker -> Seq(NetworkValues)]
  /\ w2l     \in [Worker -> Seq(NetworkValues)]
  /\ wphase  \in [Worker -> {"connecting", "handshake", "traffic", "stopped"}]
  /\ hasHandle \in [Worker -> BOOLEAN]
  /\ pendingJobs \in [Worker -> SUBSET JobId]
  /\ inHand  \in [Worker -> SUBSET JobValues]
  /\ rspq    \in [Worker -> Seq(NetworkValues)]
  /\ answered \in SUBSET (Submission \X Worker)
  /\ drops \in 0..MaxDrops /\ restarts \in 0..MaxRestarts

Responded(job) == {w \in Worker : job.results[w] # NoRsp}
Split(job, T) ==
  /\ job.registered \cup job.pending \cup Responded(job) = T
  /\ job.registered \cap job.pending = {}
  /\ (job.registered \cup job.pending) \cap Responded(job) = {}
  /\ T # {} => job.registered \cup job.pending # {}

\* The tracker's promise ("`partitions_pending` contains exactly the set of
\* workers that haven't responded"): the workers a tracked job addresses are
\* split between registered, pending and results, and it still waits for one.
TrackerPartition ==
  \A id \in JobId : tracker[id].of # 0 => Split(tracker[id], target[tracker[id].of])

\* What a job's user is told: an entry for each worker addressed and for no
\* other, and an Ok entry is that worker's own answer to this very job.
ResultsFaithful ==
  \A u \in Submission : handle[u] = "done" =>
    \A w \in Worker :
      \/ w \notin target[u] /\ outcome[u][w] = NoRsp
      \/ w \in target[u] /\ outcome[u][w] = JobsLost
      \/ w \in target[u] /\ outcome[u][w] = Ok(u) /\ <<u, w>> \in answered

InFlight(q, id) == \E i \in DOMAIN q : q[i].kind = "Job" /\ q[i].id = id

\* Reconciliation leaves no job behind: a job marked registered is queued for
\* its worker, and once a handshake has been validated, a job marked pending
\* is on its way to the worker, in the worker's hands or on its way back, so
\* that nobody waits for an answer that cannot come.  The exception is a worker
\* whose user is gone: it reports jobs as pending that nobody has.
NothingSilentlyLost ==
  \A w \in Worker, id \in JobId :
    /\ w \in tracker[id].registered /\ lphase[w] # "stopped" => InFlight(cmd[w], id)
    /\ /\ w \in tracker[id].pending
       /\ link[w] /\ lphase[w] \in {"validating", "traffic"} /\ id \notin lost[w]
       /\ ~taskStopped
       => \/ InFlight(l2w[w], id)
          \/ id \in pendingJobs[w] /\ ((\E m \in inHand[w] : m.id = id) \/ InFlight(rspq[w], id))
          \/ InFlight(w2l[w], id)
          \/ \E i \in DOMAIN rspCh[w] : rspCh[w][i].id = id
          \/ id \in pendingJobs[w] /\ ~hasHandle[w]

\* The handshake orders the streams: neither end ever reads a message its
\* phase does not expect, so no connection is given up over the protocol.
HandshakeOrder ==
  \A w \in Worker :
    /\ lphase[w] = "handshake" /\ w2l[w] # <<>> => Head(w2l[w]).kind = "PendingJobsReply"
    /\ lphase[w] = "traffic" /\ w2l[w] # <<>> => Head(w2l[w]).kind = "Job"
    /\ wphase[w] = "handshake" /\ l2w[w] # <<>> => Head(l2w[w]).kind = "PendingJobsRequest"
    /\ wphase[w] = "traffic" /\ l2w[w] # <<>> => Head(l2w[w]).kind = "Job"

\* A worker is never given a job twice, whatever connections break: of one
\* job there is one copy between the leader's queue and the worker's answer.
Copies(u, w) ==
  {<<"cmd", i>> : i \in {k \in DOMAIN cmd[w] : cmd[w][k].of = u}} \cup
  {<<"l2w", i>> : i \in {k \in DOMAIN l2w[w] : l2w[w][k].of = u}} \cup
  {<<"inHand", m.id>> : m \in {m \in inHand[w] : m.of = u}} \cup
  {<<"answered", 0>> : x \in {x \in answered : x = <<u, w>>}}
AtMostOnce == \A u \in Submission, w \in Worker : Cardinality(Copies(u, w)) <= 1

\* A handle is dropped only when the leader shuts down: a job that was
\* accepted keeps its entry in the tracker until it completes.
DroppedOnlyAtShutdown == \A u \in Submission : handle[u] = "failed" => ct

\* A job that is reported as lost is gone for good, so that its user may submit
\* it again: the worker does not have it, will not be given it, and no answer to
\* it is on its way on the connection or waiting to be written.
ReportedLost(u, w) ==
  \/ outcome[u][w] = JobsLost
  \/ tracker[jobId[u]].of = u /\ tracker[jobId[u]].results[w] = JobsLost
LostIsGone ==
  \A u \in Submission, w \in Worker : ReportedLost(u, w) =>
    /\ \A m \in inHand[w] : m.of # u
    /\ \A q \in {cmd[w], l2w[w], w2l[w], rspq[w]} : \A i \in DOMAIN q : q[i].of # u

\* Every job handle resolves: with its results, or because it was cancelled
\* or the leader shut down.  It may wait for ever only for a worker that has
\* stopped or whose user has dropped its handle: JobHandle has no timeout, and
\* neither is reported to the leader.
JobsResolve ==
  \A u \in Submission :
    handle[u] = "waiting" ~> (handle[u] # "waiting" \/ \E w \in target[u] : Gone(w))

\* "Jobs that were sent to this worker but are not in the worker's pending
\* set are considered lost (dropped in transit or worker restarted and lost
\* state)": no job is recorded as lost whose response the leader has already
\* received and queued.
LostMeansLost ==
  \A w \in Worker : \A i \in DOMAIN rspCh[w] :
    LET r == rspCh[w][i].rsp IN
    r.tag = "Ok" => outcome[r.of][w] # JobsLost

\* "A job completes when `partitions_pending` becomes empty": no job stays in
\* the tracker that waits for nobody, as the broadcast of a pool without
\* workers does.
CompletesWhenEmpty ==
  \A id \in JobId : tracker[id].of # 0 => tracker[id].registered \cup tracker[id].pending # {}

\* "Each `job_id` maps to exactly one `PendingJob` until completion": the
\* entry of a job id does not pass from one job to the next.
OneJobPerId ==
  [][\A id \in JobId : tracker[id].of # 0 /\ tracker'[id].of # 0
                       => tracker'[id].of = tracker[id].of]_vars

\* "Job removed from `pending_jobs` after successful write": a response that
\* leaves pending_jobs is in the connection's stream.
RemovedAfterWrite ==
  [][\A w \in Worker : wphase'[w] = "traffic" /\ pendingJobs[w] \ pendingJobs'[w] # {}
                      => Len(w2l'[w]) > Len(w2l[w])]_vars

Replies(w) == w2l'[w] # <<>> /\ Len(w2l'[w]) > Len(w2l[w])
              /\ w2l'[w][Len(w2l'[w])].kind = "PendingJobsReply"

\* "the completed job would be sent first, followed by get_pending_jobs": when
\* the worker replies with its pending jobs, no response it has finished is
\* still to be written.
CompletedJobFirst ==
  [][\A w \in Worker : Replies(w) => \A i \in DOMAIN rspq[w] : rspq[w][i].kind # "Job"]_vars

\* "ask the worker for all jobs that are in progress": each job of the reply is
\* in the hands of the worker's user, or finished and to be written.
ReportedInProgress ==
  [][\A w \in Worker : Replies(w) =>
       \A id \in w2l'[w][Len(w2l'[w])].ids :
         (\E m \in inHand[w] : m.id = id) \/ InFlight(rspq[w], id)]_vars

\* The pool keeps the contract with its user: whatever happens underneath,
\* a handle resolves at most once, to faithful entries, fails only at
\* shutdown, and no worker answers one job twice.
Contract == INSTANCE JobContract
ImplementsContract == Contract!Spec
=============================================================================
