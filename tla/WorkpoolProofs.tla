--------------------------- MODULE WorkpoolProofs ---------------------------
(***************************************************************************)
(* Proofs about the work pool, for any set of workers, any number of jobs  *)
(* and any number of faults.                                               *)
(***************************************************************************)
EXTENDS Workpool, SequenceTheorems, TLAPS

-----------------------------------------------------------------------------
(* Queues. *)

Elems(q) == {q[i] : i \in DOMAIN q}

\* An element appended to a queue is its only new element.
LEMMA AppendElems ==
  ASSUME NEW S, NEW q \in Seq(S), NEW x \in S
  PROVE  Append(q, x) \in Seq(S) /\ Elems(Append(q, x)) = Elems(q) \cup {x}
<1>1. Append(q, x) \in Seq(S) /\ DOMAIN Append(q, x) = 1..(Len(q) + 1) /\ DOMAIN q = 1..Len(q)
      /\ Len(q) \in Nat
  BY AppendProperties, LenProperties
<1>2. \A i \in 1..Len(q) : Append(q, x)[i] = q[i]
  BY AppendProperties
<1>3. Append(q, x)[Len(q) + 1] = x
  BY AppendProperties
<1> QED
  BY <1>1, <1>2, <1>3 DEF Elems

\* Taking the head of a queue leaves only elements it had.
LEMMA TailElems ==
  ASSUME NEW S, NEW q \in Seq(S), q # <<>>
  PROVE  /\ Tail(q) \in Seq(S) /\ Elems(Tail(q)) \subseteq Elems(q)
         /\ Head(q) \in S /\ Head(q) \in Elems(q)
<1>1. Tail(q) \in Seq(S) /\ Len(Tail(q)) = Len(q) - 1 /\ Head(q) \in S
      /\ \A i \in 1..Len(Tail(q)) : Tail(q)[i] = q[i + 1]
  BY HeadTailProperties
<1>2. DOMAIN Tail(q) = 1..Len(Tail(q)) /\ DOMAIN q = 1..Len(q) /\ Len(q) \in Nat \ {0}
  BY <1>1, LenProperties, EmptySeq
<1>3. Head(q) = q[1]
  OBVIOUS
<1> QED
  BY <1>1, <1>2, <1>3 DEF Elems
-----------------------------------------------------------------------------
(* Type correctness. *)

\* A job id without an entry in the tracker waits for nobody.
FreeIdsWaitForNobody ==
  \A id \in JobId : tracker[id].of = 0 => tracker[id].registered = {} /\ tracker[id].pending = {}

Typed == TypeOK /\ FreeIdsWaitForNobody

\* No job and no connection exists at first: every variable has its type.
LEMMA InitTyped == Init => Typed
<1> SUFFICES ASSUME Init PROVE Typed
  OBVIOUS
<1>1. 0 \in JobId /\ \A n \in Nat : 0 \in 0..n
  BY ConstantsAssumption DEF JobId
<1>2. NoRsp \in RspSet /\ [w \in Worker |-> NoRsp] \in [Worker -> RspSet]
  BY DEF RspSet
<1>3. \A S : <<>> \in Seq(S)
  BY EmptySeq
<1>4. NoJob \in [of : 0..MaxJobs, registered : SUBSET Worker, pending : SUBSET Worker,
                 results : [Worker -> RspSet]]
  BY <1>1, <1>2, ConstantsAssumption DEF NoJob, PendingJob
<1>5. TypeOK
  BY <1>1, <1>2, <1>3, <1>4, ConstantsAssumption, Zenon DEF Init, TypeOK
<1>6. FreeIdsWaitForNobody
  BY DEF Init, FreeIdsWaitForNobody, NoJob, PendingJob
<1> QED
  BY <1>5, <1>6 DEF Typed

\* What the tracker's methods do to its type.
PendingJobs == [of : 0..MaxJobs, registered : SUBSET Worker, pending : SUBSET Worker,
                results : [Worker -> RspSet]]

TrackerTyped ==
  /\ tracker \in [JobId -> PendingJobs] /\ FreeIdsWaitForNobody
  /\ handle  \in [Submission -> {"none", "waiting", "cancelled", "done", "failed"}]
  /\ outcome \in [Submission -> [Worker -> RspSet]]

\* An empty entry of the JobTracker and one that was just registered are entries.
LEMMA JobTypes ==
  /\ NoJob \in PendingJobs
  /\ \A of \in Submission, T \in SUBSET Worker : PendingJob(of, T) \in PendingJobs
<1>1. [w \in Worker |-> NoRsp] \in [Worker -> RspSet]
  BY DEF RspSet
<1> QED
  BY <1>1, ConstantsAssumption DEF NoJob, PendingJob, PendingJobs, Submission

\* record_response keeps the types of the tracker, of the handles and of the results.
LEMMA RecordTyped ==
  ASSUME TrackerTyped, NEW id \in JobId, NEW w \in Worker, NEW rsp \in RspSet,
         record_response(id, w, rsp)
  PROVE  TrackerTyped'
<1> DEFINE results == [tracker[id].results EXCEPT ![w] = rsp]
<1>0. tracker[id] \in PendingJobs /\ results \in [Worker -> RspSet]
  BY DEF TrackerTyped, PendingJobs
<1>1. CASE w \notin tracker[id].pending
  BY <1>1 DEF record_response, TrackerTyped, FreeIdsWaitForNobody
<1>2. CASE w \in tracker[id].pending /\ tracker[id].pending = {w} /\ tracker[id].registered = {}
  <2>1. complete_job(id, results)
    BY <1>2 DEF record_response
  <2>2. tracker[id].of \in Submission
    <3>1. tracker[id].of # 0
      BY <1>2, Zenon DEF TrackerTyped, FreeIdsWaitForNobody
    <3>2. tracker[id].of \in 0..MaxJobs
      BY <1>0 DEF PendingJobs
    <3> QED
      BY <3>1, <3>2, ConstantsAssumption DEF Submission
  <2>3. tracker' \in [JobId -> PendingJobs] /\ FreeIdsWaitForNobody'
    BY <2>1, JobTypes DEF complete_job, TrackerTyped, FreeIdsWaitForNobody, NoJob, PendingJob
  <2> QED
    BY <1>0, <2>1, <2>2, <2>3, Zenon DEF complete_job, TrackerTyped
<1>3. CASE w \in tracker[id].pending /\ ~(tracker[id].pending = {w} /\ tracker[id].registered = {})
  <2>1. /\ tracker' = [tracker EXCEPT ![id].pending = @ \ {w}, ![id].results = results]
        /\ UNCHANGED <<handle, outcome>>
    BY <1>3 DEF record_response
  <2>2. tracker' \in [JobId -> PendingJobs]
    BY <2>1, <1>0, Zenon DEF TrackerTyped, PendingJobs
  <2>3. FreeIdsWaitForNobody'
    BY <2>1, <1>0, <1>3 DEF TrackerTyped, FreeIdsWaitForNobody, PendingJobs
  <2> QED
    BY <2>1, <2>2, <2>3 DEF TrackerTyped
<1> QED
  BY <1>1, <1>2, <1>3

\* The handles whose senders are dropped at shutdown are still handles.
LEMMA DroppedTyped ==
  ASSUME TrackerTyped, NEW S
  PROVE  Dropped(S) \in [Submission -> {"none", "waiting", "cancelled", "done", "failed"}]
BY DEF TrackerTyped, Dropped

\* What the pool writes to a connection is a message.
LEMMA MessageTypes ==
  /\ \A id \in JobId, u \in Submission : Job(id, u) \in JobValues
  /\ JobValues \subseteq NetworkValues
  /\ PendingJobsRequest \in NetworkValues
  /\ \A ids \in SUBSET JobId : PendingJobsReply(ids) \in NetworkValues
BY DEF JobValues, NetworkValues

\* A message that is read as a job names a job id and a submission.
LEMMA JobKind ==
  ASSUME NEW m \in NetworkValues, m.kind = "Job"
  PROVE  m \in JobValues /\ m.id \in JobId /\ m.of \in Submission
BY DEF NetworkValues, JobValues, PendingJobsRequest, PendingJobsReply, Job, NetworkValue

\* A job names a job id and a submission.
LEMMA JobFields ==
  ASSUME NEW m \in JobValues
  PROVE  m.kind = "Job" /\ m.id \in JobId /\ m.of \in Submission
BY DEF JobValues, Job, NetworkValue

\* An answer, a lost job and a failed send are entries of a result.
LEMMA RspTypes ==
  /\ \A u \in Submission : Ok(u) \in RspSet \ {NoRsp}
  /\ JobsLost \in RspSet \ {NoRsp} /\ SendFailed \in RspSet \ {NoRsp}
BY DEF RspSet, Ok, JobsLost, SendFailed, NoRsp, Rsp

\* The typing of all variables contains that of the tracker.
LEMMA TypedTracker == Typed => TrackerTyped
BY DEF Typed, TypeOK, TrackerTyped, PendingJobs

\* broadcast and scatter_gather take an id and queue a job: types are kept.
LEMMA SubmitTyped == Typed /\ Submit => Typed'
<1> SUFFICES ASSUME Typed, Submit PROVE Typed'
  OBVIOUS
<1> USE DEF Typed
<1>1. submitted + 1 \in Submission /\ submitted' \in 0..MaxJobs
  BY ConstantsAssumption DEF Submit, TypeOK, Submission
<1>2. next_job_id' \in JobId
  BY ConstantsAssumption DEF Submit, TypeOK, JobId, FetchAdd
<1>3. target' \in [Submission -> SUBSET Worker]
  BY <1>1 DEF Submit, TypeOK, Targets
<1>4. jobCh' \in Seq([op : {"Submit", "Cancel"}, of : Submission])
  <2>1. [op |-> "Submit", of |-> submitted + 1] \in [op : {"Submit", "Cancel"}, of : Submission]
    BY <1>1
  <2> QED
    BY <2>1, AppendElems DEF Submit, TypeOK
<1>5. /\ jobId' \in [Submission -> JobId]
      /\ handle' \in [Submission -> {"none", "waiting", "cancelled", "done", "failed"}]
  BY <1>1 DEF Submit, TypeOK
<1>6. TypeOK'
  BY <1>1, <1>2, <1>3, <1>4, <1>5, Zenon
     DEF Submit, TypeOK, mgrVars, linkVars, workerVars, faultVars
<1> QED
  BY <1>6 DEF Submit, FreeIdsWaitForNobody

\* JobHandle::cancel keeps the types.
LEMMA CancelTyped == ASSUME NEW u \in Submission PROVE Typed /\ Cancel(u) => Typed'
<1> SUFFICES ASSUME Typed, Cancel(u) PROVE Typed'
  OBVIOUS
<1> USE DEF Typed
<1>1. jobCh' \in Seq([op : {"Submit", "Cancel"}, of : Submission])
  BY AppendElems DEF Cancel, TypeOK
<1>2. TypeOK'
  BY <1>1, Zenon DEF Cancel, TypeOK, mgrVars, linkVars, workerVars, faultVars
<1> QED
  BY <1>2 DEF Cancel, FreeIdsWaitForNobody

\* leader_task registers a job and queues it for its workers: types are kept.
LEMMA TakeJobTyped == Typed /\ TakeJob => Typed'
<1> SUFFICES ASSUME Typed, TakeJob PROVE Typed'
  OBVIOUS
<1> USE DEF Typed
<1> DEFINE u  == Head(jobCh).of
           id == jobId[u]
<1>1. /\ jobCh' \in Seq([op : {"Submit", "Cancel"}, of : Submission])
      /\ u \in Submission /\ id \in JobId
  <2>1. jobCh \in Seq([op : {"Submit", "Cancel"}, of : Submission]) /\ jobCh # <<>>
    BY DEF TakeJob, TypeOK
  <2>2. Head(jobCh) \in [op : {"Submit", "Cancel"}, of : Submission]
    BY <2>1, TailElems, Zenon
  <2> QED
    BY <2>1, <2>2, TailElems DEF TakeJob, TypeOK
<1>2. TrackerTyped'
  <2>0. TrackerTyped
    BY TypedTracker
  <2>1. CASE Head(jobCh).op = "Submit"
    <3>1. register_job(id, u)
      BY <2>1 DEF TakeJob
    <3>2. PendingJob(u, target[u]) \in PendingJobs /\ PendingJob(u, target[u]).of # 0
      <4>1. target[u] \in SUBSET Worker /\ u # 0
        BY <1>1, SMTT(40) DEF TypeOK, Submission
      <4> QED
        BY <1>1, <4>1, JobTypes DEF PendingJob
    <3> QED
      BY <1>1, <2>0, <3>1, <3>2, DroppedTyped, Zenon
         DEF register_job, TrackerTyped, FreeIdsWaitForNobody
  <2>2. CASE Head(jobCh).op # "Submit"
    <3>1. cancel_job(id)
      BY <2>2 DEF TakeJob
    <3> QED
      BY <1>1, <2>0, <3>1, JobTypes, DroppedTyped
         DEF cancel_job, TrackerTyped, FreeIdsWaitForNobody, NoJob, PendingJob
  <2> QED
    BY <2>1, <2>2
<1>3. cmd' \in [Worker -> Seq(JobValues)]
  <2>1. \A w \in Worker : Append(cmd[w], Job(id, u)) \in Seq(JobValues)
    BY <1>1, MessageTypes, AppendElems DEF TypeOK
  <2> QED
    BY <2>1 DEF TakeJob, TypeOK
<1>4. rspCh' \in [Worker -> Seq([id : JobId, rsp : RspSet \ {NoRsp}])]
  <2>0. [id |-> id, rsp |-> SendFailed] \in [id : JobId, rsp : RspSet \ {NoRsp}]
    BY <1>1, RspTypes
  <2>1. \A w \in Worker : Append(rspCh[w], [id |-> id, rsp |-> SendFailed])
                            \in Seq([id : JobId, rsp : RspSet \ {NoRsp}])
    BY <2>0, AppendElems, Zenon DEF TypeOK
  <2> QED
    BY <2>1, Zenon DEF TakeJob, TypeOK
<1> QED
  BY <1>1, <1>2, <1>3, <1>4, Zenon
     DEF TakeJob, TypeOK, TrackerTyped, PendingJobs, linkVars, workerVars, faultVars

\* leader_task records what a worker manager passes on: types are kept.
LEMMA RecordResponseTyped == ASSUME NEW w \in Worker PROVE Typed /\ RecordResponse(w) => Typed'
<1> SUFFICES ASSUME Typed, RecordResponse(w) PROVE Typed'
  OBVIOUS
<1> USE DEF Typed
<1>1. /\ Head(rspCh[w]).id \in JobId /\ Head(rspCh[w]).rsp \in RspSet
      /\ Tail(rspCh[w]) \in Seq([id : JobId, rsp : RspSet \ {NoRsp}])
  <2> DEFINE R == [id : JobId, rsp : RspSet \ {NoRsp}]
  <2>1. rspCh[w] \in Seq(R) /\ rspCh[w] # <<>>
    BY Zenon DEF RecordResponse, TypeOK
  <2> HIDE DEF R
  <2>2. Head(rspCh[w]) \in R /\ Tail(rspCh[w]) \in Seq(R)
    BY <2>1, TailElems
  <2> QED
    BY <2>2 DEF R
<1>2. TrackerTyped'
  BY <1>1, TypedTracker, RecordTyped DEF RecordResponse
<1> QED
  BY <1>1, <1>2, Zenon
     DEF RecordResponse, TypeOK, TrackerTyped, PendingJobs, linkVars, workerVars, faultVars

\* A new connection keeps the types.
LEMMA ConnectTyped == ASSUME NEW w \in Worker PROVE Typed /\ Connect(w) => Typed'
<1> SUFFICES ASSUME Typed, Connect(w) PROVE Typed'
  OBVIOUS
<1>1. <<PendingJobsRequest>> \in Seq(NetworkValues) /\ <<>> \in Seq(NetworkValues)
  BY MessageTypes
<1> QED
  BY <1>1, Zenon DEF Typed, Connect, TypeOK, FreeIdsWaitForNobody, leaderVars, faultVars

\* A connection that breaks keeps the types.
LEMMA LinkDownTyped == ASSUME NEW w \in Worker PROVE Typed /\ LinkDown(w) => Typed'
<1> SUFFICES ASSUME Typed, LinkDown(w) PROVE Typed'
  OBVIOUS
<1>1. drops' \in 0..MaxDrops
  BY ConstantsAssumption DEF Typed, LinkDown, TypeOK
<1>2. link' \in [Worker -> BOOLEAN]
  BY DEF Typed, LinkDown, TypeOK
<1> QED
  BY <1>1, <1>2, Zenon
     DEF Typed, LinkDown, TypeOK, FreeIdsWaitForNobody, leaderVars, mgrVars, workerVars

\* A worker that restarts keeps the types.
LEMMA WorkerRestartTyped == ASSUME NEW w \in Worker PROVE Typed /\ WorkerRestart(w) => Typed'
<1> SUFFICES ASSUME Typed, WorkerRestart(w) PROVE Typed'
  OBVIOUS
<1>1. restarts' \in 0..MaxRestarts
  BY ConstantsAssumption DEF Typed, WorkerRestart, TypeOK
<1>2. /\ link' \in [Worker -> BOOLEAN]
      /\ wphase' \in [Worker -> {"connecting", "handshake", "traffic", "stopped"}]
      /\ l2w' \in [Worker -> Seq(NetworkValues)]
  BY DEF Typed, WorkerRestart, WorkerLeaveConnection, TypeOK
<1>3. /\ pendingJobs' \in [Worker -> SUBSET JobId]
      /\ hasHandle' \in [Worker -> BOOLEAN] /\ inHand' \in [Worker -> SUBSET JobValues]
      /\ rspq' \in [Worker -> Seq(NetworkValues)]
  BY DEF Typed, WorkerRestart, TypeOK
<1> QED
  BY <1>1, <1>2, <1>3, Zenon
     DEF Typed, WorkerRestart, TypeOK, FreeIdsWaitForNobody, leaderVars, mgrVars

\* A user that drops its WorkerHandle, and jobs with it, keeps the types.
LEMMA DropHandleTyped == ASSUME NEW w \in Worker PROVE Typed /\ DropHandle(w) => Typed'
<1> SUFFICES ASSUME Typed, DropHandle(w) PROVE Typed'
  OBVIOUS
<1>1. PICK received \in SUBSET inHand[w] : inHand' = [inHand EXCEPT ![w] = received]
  BY DEF DropHandle
<1>2. inHand' \in [Worker -> SUBSET JobValues]
  BY <1>1 DEF Typed, TypeOK
<1>3. hasHandle' \in [Worker -> BOOLEAN]
  BY DEF Typed, DropHandle, TypeOK
<1> QED
  BY <1>2, <1>3, Zenon
     DEF Typed, DropHandle, TypeOK, FreeIdsWaitForNobody, leaderVars, mgrVars, linkVars, faultVars

\* A worker_task that leaves its loop keeps the types.
LEMMA WorkerStopTyped == ASSUME NEW w \in Worker PROVE Typed /\ WorkerStop(w) => Typed'
<1> SUFFICES ASSUME Typed, WorkerStop(w) PROVE Typed'
  OBVIOUS
<1>1. /\ link' \in [Worker -> BOOLEAN]
      /\ wphase' \in [Worker -> {"connecting", "handshake", "traffic", "stopped"}]
      /\ pendingJobs' \in [Worker -> SUBSET JobId]
  BY DEF Typed, WorkerStop, TypeOK
<1>2. l2w' \in [Worker -> Seq(NetworkValues)] /\ rspq' \in [Worker -> Seq(NetworkValues)]
  BY EmptySeq DEF Typed, WorkerStop, TypeOK
<1> QED
  BY <1>1, <1>2, Zenon
     DEF Typed, WorkerStop, TypeOK, FreeIdsWaitForNobody, leaderVars, mgrVars, faultVars

\* Cancelling the shutdown token keeps the types.
LEMMA ShutdownTyped == Typed /\ Shutdown => Typed'
BY ZenonT(40) DEF Typed, Shutdown, TypeOK, FreeIdsWaitForNobody, leaderVars, linkVars, workerVars, faultVars

\* A write appends a message to a stream of messages.
LEMMA WrittenTyped ==
  ASSUME NEW w \in Worker, NEW msg \in NetworkValues, NEW q \in [Worker -> Seq(NetworkValues)]
  PROVE  Written(q, w, msg) \in [Worker -> Seq(NetworkValues)]
<1>1. Append(q[w], msg) \in Seq(NetworkValues)
  BY AppendElems
<1> QED
  BY <1>1 DEF Written

\* Either end that leaves a connection keeps the types of what it resets.
LEMMA LeaveTyped ==
  ASSUME NEW w \in Worker, Typed
  PROVE  /\ LeaveConnection(w) =>
              /\ lphase' \in [Worker -> {"connecting", "handshake", "validating", "traffic", "stopped"}]
              /\ link' \in [Worker -> BOOLEAN] /\ w2l' \in [Worker -> Seq(NetworkValues)]
         /\ WorkerLeaveConnection(w) =>
              /\ wphase' \in [Worker -> {"connecting", "handshake", "traffic", "stopped"}]
              /\ link' \in [Worker -> BOOLEAN] /\ l2w' \in [Worker -> Seq(NetworkValues)]
<1>1. \A S : <<>> \in Seq(S)
  BY EmptySeq
<1>2. LeaveConnection(w) =>
        /\ lphase' \in [Worker -> {"connecting", "handshake", "validating", "traffic", "stopped"}]
        /\ link' \in [Worker -> BOOLEAN] /\ w2l' \in [Worker -> Seq(NetworkValues)]
  BY <1>1 DEF Typed, TypeOK, LeaveConnection
<1>3. WorkerLeaveConnection(w) =>
        /\ wphase' \in [Worker -> {"connecting", "handshake", "traffic", "stopped"}]
        /\ link' \in [Worker -> BOOLEAN] /\ l2w' \in [Worker -> Seq(NetworkValues)]
  BY <1>1 DEF Typed, TypeOK, WorkerLeaveConnection
<1> QED
  BY <1>2, <1>3

\* validate_pending_jobs keeps the types when it finds the dropped jobs.
LEMMA LeaderHandshakeTyped == ASSUME NEW w \in Worker PROVE Typed /\ LeaderHandshake(w) => Typed'
<1> SUFFICES ASSUME Typed, LeaderHandshake(w) PROVE Typed'
  OBVIOUS
<1>1. Tail(w2l[w]) \in Seq(NetworkValues)
  BY TailElems DEF Typed, TypeOK, LeaderHandshake
<1>2. CASE Head(w2l[w]).kind = "PendingJobsReply"
  <2> DEFINE D == dropped_jobs(w, Head(w2l[w]).ids)
  <2>0. /\ lost'   = [lost EXCEPT ![w] = D]
        /\ lphase' = [lphase EXCEPT ![w] = IF D = {} THEN "traffic" ELSE "validating"]
        /\ w2l'    = [w2l EXCEPT ![w] = Tail(@)]
        /\ link' = link
    BY <1>2 DEF LeaderHandshake
  <2>a. D \in SUBSET JobId
    BY DEF dropped_jobs
  <2> HIDE DEF D
  <2>1. lost' \in [Worker -> SUBSET JobId]
    BY <2>0, <2>a DEF Typed, TypeOK
  <2>2. lphase' \in [Worker -> {"connecting", "handshake", "validating", "traffic", "stopped"}]
    BY <2>0 DEF Typed, TypeOK
  <2>3. w2l' \in [Worker -> Seq(NetworkValues)]
    BY <1>1, <2>0, SMTT(40) DEF Typed, TypeOK
  <2> QED
    BY <2>0, <2>1, <2>2, <2>3, Zenon
       DEF Typed, LeaderHandshake, TypeOK, FreeIdsWaitForNobody, leaderVars, workerVars, faultVars
<1>3. CASE Head(w2l[w]).kind # "PendingJobsReply"
  <2>1. LeaveConnection(w) /\ lost' = lost
    BY <1>3 DEF LeaderHandshake
  <2> QED
    BY <2>1, LeaveTyped, Zenon
       DEF Typed, LeaderHandshake, TypeOK, FreeIdsWaitForNobody, leaderVars, workerVars, faultVars
<1> QED
  BY <1>2, <1>3

\* validate_pending_jobs keeps the types when it reports one of them.
LEMMA ReportLostTyped == ASSUME NEW w \in Worker PROVE Typed /\ ReportLost(w) => Typed'
<1> SUFFICES ASSUME Typed, ReportLost(w) PROVE Typed'
  OBVIOUS
<1>1. PICK id \in lost[w] :
        /\ record_response(id, w, JobsLost)
        /\ lost'   = [lost EXCEPT ![w] = @ \ {id}]
        /\ lphase' = IF lost[w] = {id} THEN [lphase EXCEPT ![w] = "traffic"] ELSE lphase
  BY Zenon DEF ReportLost
<1>2. id \in JobId
  BY DEF Typed, TypeOK
<1>3. TrackerTyped'
  BY <1>1, <1>2, TypedTracker, RecordTyped, RspTypes
<1>4. lost' \in [Worker -> SUBSET JobId]
  BY <1>1, SMTT(40) DEF Typed, TypeOK
<1>5. lphase' \in [Worker -> {"connecting", "handshake", "validating", "traffic", "stopped"}]
  BY <1>1 DEF Typed, TypeOK
<1> QED
  BY <1>3, <1>4, <1>5, Zenon
     DEF Typed, ReportLost, TypeOK, TrackerTyped, PendingJobs, linkVars, workerVars, faultVars

\* A worker manager that marks a job as sent and writes it keeps the types.
LEMMA LeaderWriteTyped == ASSUME NEW w \in Worker PROVE Typed /\ LeaderWrite(w) => Typed'
<1> SUFFICES ASSUME Typed, LeaderWrite(w) PROVE Typed'
  OBVIOUS
<1> DEFINE id == Head(cmd[w]).id
<1>1. Tail(cmd[w]) \in Seq(JobValues) /\ Head(cmd[w]) \in JobValues
  BY TailElems DEF Typed, TypeOK, LeaderWrite
<1>2. id \in JobId /\ Head(cmd[w]) \in NetworkValues
  BY <1>1, JobFields, MessageTypes
<1>3. l2w' \in [Worker -> Seq(NetworkValues)]
  BY <1>2, WrittenTyped, Zenon DEF Typed, TypeOK, LeaderWrite
<1>4. tracker' \in [JobId -> PendingJobs] /\ FreeIdsWaitForNobody'
  <2>0. TrackerTyped /\ set_to_pending(id, w)
    BY TypedTracker DEF LeaderWrite
  <2>1. CASE w \notin tracker[id].registered
    BY <2>0, <2>1 DEF set_to_pending, TrackerTyped, FreeIdsWaitForNobody
  <2>2. CASE w \in tracker[id].registered
    <3>1. tracker' = [tracker EXCEPT ![id].registered = @ \ {w}, ![id].pending = @ \cup {w}]
      BY <2>0, <2>2 DEF set_to_pending
    <3>2. tracker[id] \in PendingJobs /\ tracker[id].of # 0
      BY <1>2, <2>0, <2>2, SMTT(40) DEF TrackerTyped, FreeIdsWaitForNobody
    <3>3. tracker' \in [JobId -> PendingJobs]
      BY <1>2, <2>0, <3>1, <3>2, ZenonT(40) DEF TrackerTyped, PendingJobs
    <3>4. FreeIdsWaitForNobody'
      BY <1>2, <2>0, <3>1, <3>2, Zenon DEF TrackerTyped, FreeIdsWaitForNobody, PendingJobs
    <3> QED
      BY <3>3, <3>4
  <2> QED
    BY <2>1, <2>2
<1> QED
  BY <1>1, <1>3, <1>4, Zenon
     DEF Typed, LeaderWrite, TypeOK, PendingJobs, workerVars, faultVars

\* A worker manager that reads a response keeps the types.
LEMMA LeaderReadTyped == ASSUME NEW w \in Worker PROVE Typed /\ LeaderRead(w) => Typed'
<1> SUFFICES ASSUME Typed, LeaderRead(w) PROVE Typed'
  OBVIOUS
<1> DEFINE msg == Head(w2l[w])
           forward == msg.kind = "Job" /\ ~taskStopped
           R == [id : JobId, rsp : RspSet \ {NoRsp}]
<1>1. Tail(w2l[w]) \in Seq(NetworkValues) /\ msg \in NetworkValues
  BY TailElems DEF Typed, TypeOK, LeaderRead
<1>2. rspCh' \in [Worker -> Seq(R)]
  <2>1. CASE ~forward
    BY <2>1, Zenon DEF Typed, TypeOK, LeaderRead
  <2>2. CASE forward
    <3>1. [id |-> msg.id, rsp |-> Ok(msg.of)] \in R
      BY <1>1, <2>2, JobKind, RspTypes
    <3>2. Append(rspCh[w], [id |-> msg.id, rsp |-> Ok(msg.of)]) \in Seq(R)
      BY <3>1, AppendElems, Zenon DEF Typed, TypeOK
    <3> QED
      BY <2>2, <3>2, Zenon DEF Typed, TypeOK, LeaderRead
  <2> QED
    BY <2>1, <2>2, Zenon
<1>3. /\ lphase' \in [Worker -> {"connecting", "handshake", "validating", "traffic", "stopped"}]
      /\ link' \in [Worker -> BOOLEAN] /\ w2l' \in [Worker -> Seq(NetworkValues)]
  <2>1. CASE forward \/ msg.kind = "PendingJobsReply"
    BY <1>1, <2>1, Zenon DEF Typed, TypeOK, LeaderRead
  <2>2. CASE ~(forward \/ msg.kind = "PendingJobsReply")
    <3>1. LeaveConnection(w)
      BY <2>2 DEF LeaderRead
    <3> QED
      BY <3>1, LeaveTyped
  <2> QED
    BY <2>1, <2>2
<1> QED
  BY <1>2, <1>3, Zenon
     DEF Typed, LeaderRead, TypeOK, FreeIdsWaitForNobody, leaderVars, workerVars, faultVars

\* A worker manager that notices a broken connection keeps the types.
LEMMA LeaderDisconnectTyped == ASSUME NEW w \in Worker PROVE Typed /\ LeaderDisconnect(w) => Typed'
BY LeaveTyped, ZenonT(40)
   DEF Typed, LeaderDisconnect, TypeOK, FreeIdsWaitForNobody, leaderVars, workerVars, faultVars

\* Dropping the tracker with its last owner keeps its type.
LEMMA DropTrackerTyped ==
  ASSUME TrackerTyped, NEW last \in BOOLEAN, DropTracker(last)
  PROVE  tracker' \in [JobId -> PendingJobs] /\ FreeIdsWaitForNobody'
BY JobTypes, Zenon DEF DropTracker, TrackerTyped, FreeIdsWaitForNobody, NoJob, PendingJob

\* leader_task leaving its loop keeps the types.
LEMMA LeaderTaskStopTyped == Typed /\ LeaderTaskStop => Typed'
<1> SUFFICES ASSUME Typed, LeaderTaskStop PROVE Typed'
  OBVIOUS
<1> DEFINE last == \A w \in Worker : lphase[w] = "stopped"
<1>1. tracker' \in [JobId -> PendingJobs] /\ FreeIdsWaitForNobody'
  <2>1. DropTracker(last) /\ last \in BOOLEAN
    BY Zenon DEF LeaderTaskStop
  <2> HIDE DEF last
  <2> QED
    BY <2>1, TypedTracker, DropTrackerTyped
<1>2. handle' \in [Submission -> {"none", "waiting", "cancelled", "done", "failed"}]
  BY TypedTracker, DroppedTyped DEF LeaderTaskStop
<1>3. /\ jobCh' \in Seq([op : {"Submit", "Cancel"}, of : Submission])
      /\ rspCh' \in [Worker -> Seq([id : JobId, rsp : RspSet \ {NoRsp}])]
      /\ taskStopped' \in BOOLEAN
  BY EmptySeq DEF LeaderTaskStop
<1> QED
  BY <1>1, <1>2, <1>3, Zenon
     DEF Typed, LeaderTaskStop, TypeOK, PendingJobs, linkVars, workerVars, faultVars

\* A worker manager leaving its loop keeps the types.
LEMMA MgrStopTyped == ASSUME NEW w \in Worker PROVE Typed /\ MgrStop(w) => Typed'
<1> SUFFICES ASSUME Typed, MgrStop(w) PROVE Typed'
  OBVIOUS
<1> DEFINE last == taskStopped /\ \A v \in Worker \ {w} : lphase[v] = "stopped"
<1>1. tracker' \in [JobId -> PendingJobs] /\ FreeIdsWaitForNobody'
  <2>1. DropTracker(last) /\ last \in BOOLEAN
    BY DEF MgrStop, Typed, TypeOK
  <2> HIDE DEF last
  <2> QED
    BY <2>1, TypedTracker, DropTrackerTyped
<1>2. handle' \in [Submission -> {"none", "waiting", "cancelled", "done", "failed"}]
  BY TypedTracker, DroppedTyped DEF MgrStop
<1>3. /\ lphase' \in [Worker -> {"connecting", "handshake", "validating", "traffic", "stopped"}]
      /\ link' \in [Worker -> BOOLEAN]
  BY DEF MgrStop, Typed, TypeOK
<1>4. cmd' \in [Worker -> Seq(JobValues)] /\ w2l' \in [Worker -> Seq(NetworkValues)]
  BY EmptySeq DEF MgrStop, Typed, TypeOK
<1> QED
  BY <1>1, <1>2, <1>3, <1>4, Zenon DEF Typed, MgrStop, TypeOK, PendingJobs, workerVars, faultVars

\* The worker's answer to the request for its pending jobs keeps the types.
LEMMA WorkerHandshakeTyped == ASSUME NEW w \in Worker PROVE Typed /\ WorkerHandshake(w) => Typed'
<1> SUFFICES ASSUME Typed, WorkerHandshake(w) PROVE Typed'
  OBVIOUS
<1>1. Tail(l2w[w]) \in Seq(NetworkValues)
  BY TailElems DEF Typed, TypeOK, WorkerHandshake
<1>2. CASE Head(l2w[w]).kind = "PendingJobsRequest"
  <2>1. /\ wphase' = [wphase EXCEPT ![w] = "traffic"]
        /\ l2w'    = [l2w EXCEPT ![w] = Tail(@)]
        /\ w2l'    = Written(w2l, w, PendingJobsReply(pendingJobs[w]))
        /\ link' = link
    BY <1>2, Zenon DEF WorkerHandshake
  <2>2. wphase' \in [Worker -> {"connecting", "handshake", "traffic", "stopped"}]
        /\ l2w' \in [Worker -> Seq(NetworkValues)]
    BY <1>1, <2>1 DEF Typed, TypeOK
  <2>3. w2l' \in [Worker -> Seq(NetworkValues)]
    BY <2>1, WrittenTyped, MessageTypes, Zenon DEF Typed, TypeOK
  <2> QED
    BY <2>1, <2>2, <2>3, Zenon
       DEF Typed, WorkerHandshake, TypeOK, FreeIdsWaitForNobody, leaderVars, mgrVars, faultVars
<1>3. CASE Head(l2w[w]).kind # "PendingJobsRequest"
  <2>1. WorkerLeaveConnection(w) /\ w2l' = w2l
    BY <1>3, Zenon DEF WorkerHandshake
  <2> QED
    BY <2>1, LeaveTyped, Zenon
       DEF Typed, WorkerHandshake, TypeOK, FreeIdsWaitForNobody, leaderVars, mgrVars, faultVars
<1> QED
  BY <1>2, <1>3

\* A worker that reads a job keeps the types.
LEMMA WorkerReadTyped == ASSUME NEW w \in Worker PROVE Typed /\ WorkerRead(w) => Typed'
<1> SUFFICES ASSUME Typed, WorkerRead(w) PROVE Typed'
  OBVIOUS
<1> DEFINE msg == Head(l2w[w])
<1>1. Tail(l2w[w]) \in Seq(NetworkValues) /\ msg \in NetworkValues
  BY TailElems DEF Typed, TypeOK, WorkerRead
<1>2. pendingJobs' \in [Worker -> SUBSET JobId] /\ inHand' \in [Worker -> SUBSET JobValues]
  <2>1. pendingJobs \in [Worker -> SUBSET JobId] /\ inHand \in [Worker -> SUBSET JobValues]
    BY Zenon DEF Typed, TypeOK
  <2>2. /\ pendingJobs' = IF msg.kind = "Job"
                          THEN [pendingJobs EXCEPT ![w] = @ \cup {msg.id}] ELSE pendingJobs
        /\ inHand' = IF msg.kind = "Job" /\ hasHandle[w]
                     THEN [inHand EXCEPT ![w] = @ \cup {msg}] ELSE inHand
    BY Zenon DEF WorkerRead
  <2>3. msg.kind = "Job" => msg \in JobValues /\ msg.id \in JobId
    BY <1>1, JobKind
  <2> HIDE DEF msg
  <2> QED
    BY <2>1, <2>2, <2>3
<1>3. rspq' \in [Worker -> Seq(NetworkValues)]
  <2>1. Append(rspq[w], PendingJobsReply(pendingJobs[w])) \in Seq(NetworkValues)
    BY MessageTypes, AppendElems DEF Typed, TypeOK
  <2> QED
    BY <2>1 DEF Typed, TypeOK, WorkerRead
<1>4. /\ wphase' \in [Worker -> {"connecting", "handshake", "traffic", "stopped"}]
      /\ link' \in [Worker -> BOOLEAN] /\ l2w' \in [Worker -> Seq(NetworkValues)]
  <2> DEFINE failed == msg.kind = "PendingJobsReply" \/ (msg.kind = "Job" /\ ~hasHandle[w])
  <2>1. CASE failed
    <3>1. WorkerLeaveConnection(w)
      BY <2>1 DEF WorkerRead
    <3> QED
      BY <3>1, LeaveTyped
  <2>2. CASE ~failed
    <3>1. l2w' = [l2w EXCEPT ![w] = Tail(@)] /\ wphase' = wphase /\ link' = link
      BY <2>2 DEF WorkerRead
    <3> QED
      BY <1>1, <3>1, Zenon DEF Typed, TypeOK
  <2> QED
    BY <2>1, <2>2
<1> QED
  BY <1>2, <1>3, <1>4, Zenon
     DEF Typed, WorkerRead, TypeOK, FreeIdsWaitForNobody, leaderVars, mgrVars, faultVars

\* Job::send_result keeps the types.
LEMMA SendResultTyped == ASSUME NEW w \in Worker PROVE Typed /\ SendResult(w) => Typed'
<1> SUFFICES ASSUME Typed, NEW job \in inHand[w],
                    inHand' = [inHand EXCEPT ![w] = @ \ {job}],
                    rspq' = IF wphase[w] = "stopped" THEN rspq
                            ELSE [rspq EXCEPT ![w] = Append(@, job)],
                    answered' = answered \cup {<<job.of, w>>},
                    UNCHANGED <<leaderVars, mgrVars, linkVars, wphase, pendingJobs, hasHandle,
                                faultVars>>
             PROVE  Typed'
  BY Zenon DEF SendResult
<1>1. job \in JobValues /\ job \in NetworkValues /\ job.of \in Submission
  BY JobFields, MessageTypes DEF Typed, TypeOK
<1>2. Append(rspq[w], job) \in Seq(NetworkValues)
  BY <1>1, AppendElems DEF Typed, TypeOK
<1>3. inHand' \in [Worker -> SUBSET JobValues]
  BY DEF Typed, TypeOK
<1>a. answered' \in SUBSET (Submission \X Worker)
  <2>1. answered \in SUBSET (Submission \X Worker)
    BY Zenon DEF Typed, TypeOK
  <2>2. <<job.of, w>> \in Submission \X Worker
    BY <1>1, Zenon
  <2> QED
    BY <2>1, <2>2, Zenon
<1>4. rspq' \in [Worker -> Seq(NetworkValues)]
  BY <1>2 DEF Typed, TypeOK
<1> QED
  BY <1>3, <1>a, <1>4, Zenon
     DEF Typed, TypeOK, FreeIdsWaitForNobody, leaderVars, mgrVars, linkVars, faultVars

\* A worker that writes a response keeps the types.
LEMMA WorkerWriteTyped == ASSUME NEW w \in Worker PROVE Typed /\ WorkerWrite(w) => Typed'
<1> SUFFICES ASSUME Typed, WorkerWrite(w) PROVE Typed'
  OBVIOUS
<1>1. Tail(rspq[w]) \in Seq(NetworkValues) /\ Head(rspq[w]) \in NetworkValues
  BY TailElems DEF Typed, TypeOK, WorkerWrite
<1>2. w2l' \in [Worker -> Seq(NetworkValues)]
  BY <1>1, WrittenTyped, Zenon DEF Typed, TypeOK, WorkerWrite
<1>3. pendingJobs' \in [Worker -> SUBSET JobId]
  BY DEF Typed, TypeOK, WorkerWrite
<1> QED
  BY <1>1, <1>2, <1>3, Zenon
     DEF Typed, WorkerWrite, TypeOK, FreeIdsWaitForNobody, leaderVars, mgrVars, faultVars

\* A worker that notices a broken connection keeps the types.
LEMMA WorkerDisconnectTyped == ASSUME NEW w \in Worker PROVE Typed /\ WorkerDisconnect(w) => Typed'
BY LeaveTyped, ZenonT(40)
   DEF Typed, WorkerDisconnect, TypeOK, FreeIdsWaitForNobody, leaderVars, mgrVars, faultVars

\* Every step keeps the types.
LEMMA NextTyped == Typed /\ [Next]_vars => Typed'
<1> SUFFICES ASSUME Typed, [Next]_vars PROVE Typed'
  OBVIOUS
<1>1. CASE Environment
  BY <1>1, SubmitTyped, CancelTyped, ShutdownTyped, LinkDownTyped, DropHandleTyped,
     WorkerStopTyped, WorkerRestartTyped DEF Environment
<1>2. CASE LeaderStep
  BY <1>2, TakeJobTyped, LeaderTaskStopTyped, RecordResponseTyped DEF LeaderStep
<1>3. ASSUME NEW w \in Worker, MgrStep(w) PROVE Typed'
  BY <1>3, ConnectTyped, LeaderHandshakeTyped, ReportLostTyped, LeaderWriteTyped,
     LeaderReadTyped, LeaderDisconnectTyped, MgrStopTyped DEF MgrStep
<1>4. ASSUME NEW w \in Worker, WorkerStep(w) PROVE Typed'
  BY <1>4, WorkerHandshakeTyped, WorkerReadTyped, SendResultTyped, WorkerWriteTyped,
     WorkerDisconnectTyped DEF WorkerStep
<1>5. CASE UNCHANGED vars
  BY <1>5, Zenon DEF vars, leaderVars, mgrVars, linkVars, workerVars, faultVars, Typed, TypeOK,
              FreeIdsWaitForNobody
<1> QED
  BY <1>1, <1>2, <1>3, <1>4, <1>5 DEF Next

\* Every reachable state is well typed, and a job id without an entry in the
\* tracker waits for nobody.
THEOREM AlwaysTyped == Spec => []Typed
BY InitTyped, NextTyped, PTL DEF Spec

\* Every reachable state of the pool is well typed.
THEOREM TypeCorrect == Spec => []TypeOK
<1>1. Typed => TypeOK
  BY DEF Typed
<1> QED
  BY <1>1, AlwaysTyped, PTL
-----------------------------------------------------------------------------
(* The tracker splits the workers of a job.  Nothing here depends on job   *)
(* ids being fresh.                                                        *)

UnsubmittedIdle == \A u \in Submission : u > submitted => handle[u] = "none"

TrackerInv ==
  /\ TrackerPartition
  /\ \A id \in JobId : tracker[id].of <= submitted
  /\ \A c \in Elems(jobCh) : c.of <= submitted
  /\ UnsubmittedIdle

\* Nothing is tracked at first.
LEMMA InitTrackerInv == Init => TrackerInv
BY DEF Init, TrackerInv, TrackerPartition, UnsubmittedIdle, NoJob, PendingJob, Elems

\* The types of what TrackerInv speaks about.
LEMMA SubmissionTypes ==
  ASSUME Typed
  PROVE  /\ MaxJobs \in Nat /\ submitted \in Nat /\ submitted <= MaxJobs
         /\ target \in [Submission -> SUBSET Worker] /\ jobId \in [Submission -> JobId]
         /\ handle \in [Submission -> {"none", "waiting", "cancelled", "done", "failed"}]
         /\ jobCh \in Seq([op : {"Submit", "Cancel"}, of : Submission])
         /\ \A id \in JobId : tracker[id].of \in Nat
<1>1. /\ target \in [Submission -> SUBSET Worker] /\ jobId \in [Submission -> JobId]
      /\ handle \in [Submission -> {"none", "waiting", "cancelled", "done", "failed"}]
      /\ jobCh \in Seq([op : {"Submit", "Cancel"}, of : Submission])
      /\ submitted \in 0..MaxJobs
  BY Zenon DEF Typed, TypeOK
<1>2. \A id \in JobId : tracker[id] \in PendingJobs
  BY TypedTracker DEF TrackerTyped
<1>3. MaxJobs \in Nat
  BY ConstantsAssumption
<1>4. \A job \in PendingJobs : job.of \in Nat
  BY <1>3 DEF PendingJobs
<1>5. submitted \in Nat /\ submitted <= MaxJobs
  BY <1>1, <1>3
<1> QED
  BY <1>1, <1>2, <1>3, <1>4, <1>5, Zenon

\* The tracker's invariant is about the tracker, the submissions, the job
\* channel and the handles that are not in use.
LEMMA SameTracker ==
  ASSUME TrackerInv, tracker' = tracker, target' = target, submitted' = submitted,
         \A c \in Elems(jobCh') : c.of <= submitted, UnsubmittedIdle'
  PROVE  TrackerInv'
<1>1. TrackerPartition'
  BY Zenon DEF TrackerInv, TrackerPartition, Split, Responded
<1>2. \A id \in JobId : tracker'[id].of <= submitted'
  BY Zenon DEF TrackerInv
<1>3. \A c \in Elems(jobCh') : c.of <= submitted'
  BY Zenon
<1> QED
  BY <1>1, <1>2, <1>3, Zenon DEF TrackerInv

\* A handle that is not in use is not touched by the tracker.
LEMMA DroppedIdle ==
  ASSUME UnsubmittedIdle, NEW S, handle' = Dropped(S), UNCHANGED submitted
  PROVE  UnsubmittedIdle'
BY DEF UnsubmittedIdle, Dropped

\* record_response completes only handles that wait: unused ones stay unused.
LEMMA RecordIdle ==
  ASSUME Typed, UnsubmittedIdle, NEW id, NEW w, NEW rsp, record_response(id, w, rsp),
         UNCHANGED submitted
  PROVE  UnsubmittedIdle'
<1>1. handle' = handle \/ \E u : handle[u] = "waiting" /\ handle' = [handle EXCEPT ![u] = "done"]
  BY DEF record_response, complete_job
<1> QED
  BY <1>1 DEF UnsubmittedIdle, Typed, TypeOK

\* A freshly registered job waits for every worker it addresses.
LEMMA RegisteredSplit ==
  ASSUME NEW u, NEW T \in SUBSET Worker
  PROVE  Split(PendingJob(u, T), T)
BY DEF Split, PendingJob, Responded

\* Recording a response, genuine or not, keeps the split.
LEMMA RecordSplit ==
  ASSUME Typed, TrackerInv, NEW id \in JobId, NEW w \in Worker,
         NEW rsp \in RspSet \ {NoRsp}, record_response(id, w, rsp),
         UNCHANGED <<target, submitted, jobCh>>
  PROVE  TrackerInv'
<1> DEFINE results == [tracker[id].results EXCEPT ![w] = rsp]
<1>0. TrackerTyped /\ tracker[id] \in PendingJobs /\ MaxJobs \in Nat /\ submitted \in Nat
  <2>1. TrackerTyped
    BY TypedTracker
  <2>2. MaxJobs \in Nat /\ submitted \in 0..MaxJobs
    BY ConstantsAssumption DEF Typed, TypeOK
  <2> QED
    BY <2>1, <2>2 DEF TrackerTyped
<1>a. UnsubmittedIdle'
  BY RecordIdle DEF TrackerInv
<1>1. CASE w \notin tracker[id].pending
  <2>1. UNCHANGED <<tracker, target, submitted, jobCh>>
    BY <1>1 DEF record_response
  <2>2. \A c \in Elems(jobCh') : c.of <= submitted
    BY <2>1, Zenon DEF TrackerInv, Elems
  <2> QED
    BY <1>a, <2>1, <2>2, SameTracker, Zenon
<1>2. CASE w \in tracker[id].pending /\ tracker[id].pending = {w} /\ tracker[id].registered = {}
  <2>1. tracker' = [tracker EXCEPT ![id] = NoJob]
    BY <1>2 DEF record_response, complete_job
  <2>2. NoJob.of = 0
    BY SMTT(40) DEF NoJob, PendingJob
  <2> QED
    BY <1>0, <1>a, <2>1, <2>2 DEF TrackerInv, TrackerPartition, TrackerTyped
<1>3. CASE w \in tracker[id].pending /\ ~(tracker[id].pending = {w} /\ tracker[id].registered = {})
  <2> DEFINE job == tracker[id]
             T   == target[job.of]
  <2>1. tracker' = [tracker EXCEPT ![id].pending = @ \ {w}, ![id].results = results]
    BY <1>3 DEF record_response
  <2>2. /\ tracker'[id].of = job.of /\ tracker'[id].registered = job.registered
        /\ tracker'[id].pending = job.pending \ {w} /\ tracker'[id].results = results
    BY <1>0, <2>1 DEF TrackerTyped, PendingJobs
  <2>3. \A i \in JobId \ {id} : tracker'[i] = tracker[i]
    BY <1>0, <2>1 DEF TrackerTyped
  <2>4. job.of # 0 /\ Split(job, T)
    BY <1>3 DEF Typed, FreeIdsWaitForNobody, TrackerInv, TrackerPartition
  <2>5. Responded(tracker'[id]) = Responded(job) \cup {w}
    BY <1>0, <2>2, SMTT(40) DEF Responded, PendingJobs
  <2>6. Split(tracker'[id], T)
    <3> DEFINE G == job.registered
               P == job.pending
               A == Responded(job)
    <3>1. /\ w \in P /\ ~(P = {w} /\ G = {})
          /\ G \cup P \cup A = T /\ G \cap P = {} /\ (G \cup P) \cap A = {}
      BY <1>3, <2>4, Zenon DEF Split
    <3>2. Split(tracker'[id], T) = /\ G \cup (P \ {w}) \cup (A \cup {w}) = T
                                   /\ G \cap (P \ {w}) = {}
                                   /\ (G \cup (P \ {w})) \cap (A \cup {w}) = {}
                                   /\ T # {} => G \cup (P \ {w}) # {}
      BY <2>2, <2>5, Zenon DEF Split
    <3> HIDE DEF G, P, A, T
    <3> QED
      BY <3>1, <3>2
  <2> QED
    BY <1>a, <2>2, <2>3, <2>6 DEF TrackerInv, TrackerPartition
<1> QED
  BY <1>1, <1>2, <1>3

\* Dropping the entry of a job id, or all of them, keeps the split.
LEMMA FreedSplit ==
  ASSUME Typed, TrackerInv, NEW I \in SUBSET JobId,
         tracker' = [id \in JobId |-> IF id \in I THEN NoJob ELSE tracker[id]],
         UNCHANGED <<target, submitted>>
  PROVE  TrackerPartition' /\ \A id \in JobId : tracker'[id].of <= submitted'
<1>1. NoJob.of = 0
  BY DEF NoJob, PendingJob
<1>2. submitted \in 0..MaxJobs
  BY DEF Typed, TypeOK
<1>3. 0 <= submitted
  BY <1>2, ConstantsAssumption
<1> QED
  BY <1>1, <1>3 DEF TrackerInv, TrackerPartition

\* register_job puts every addressed worker into exactly one part of the new entry.
LEMMA TakeJobSplit == Typed /\ TrackerInv /\ TakeJob => TrackerInv'
<1> SUFFICES ASSUME Typed, TrackerInv, TakeJob PROVE TrackerInv'
  BY SMTT(40)
<1> DEFINE u  == Head(jobCh).of
           id == jobId[u]
           C  == [op : {"Submit", "Cancel"}, of : Submission]
<1>1. jobCh \in Seq(C) /\ jobCh # <<>> /\ jobCh' = Tail(jobCh)
  BY Zenon DEF Typed, TypeOK, TakeJob
<1>2. Head(jobCh) \in C /\ Head(jobCh) \in Elems(jobCh) /\ Elems(jobCh') \subseteq Elems(jobCh)
  BY <1>1, TailElems, Zenon
<1>3. u \in Submission /\ u <= submitted /\ id \in JobId
  BY <1>2 DEF TrackerInv, Typed, TypeOK
<1>4. UNCHANGED <<target, submitted>>
  BY DEF TakeJob
<1>a. UnsubmittedIdle'
  <2>1. \E S : handle' = Dropped(S)
    BY DEF TakeJob, register_job, cancel_job
  <2> QED
    BY <1>4, <2>1, DroppedIdle, Zenon DEF TrackerInv
<1>5. CASE Head(jobCh).op = "Submit"
  <2>1. tracker' = [tracker EXCEPT ![id] = PendingJob(u, target[u])]
    <3>1. register_job(id, u)
      BY <1>5, Zenon DEF TakeJob
    <3> QED
      BY <3>1, Zenon DEF register_job
  <2>2. Split(PendingJob(u, target[u]), target[u]) /\ PendingJob(u, target[u]).of = u
    BY <1>3, RegisteredSplit, ZenonT(40) DEF Typed, TypeOK, PendingJob
  <2>3. TrackerPartition' /\ \A i \in JobId : tracker'[i].of <= submitted'
    BY <1>3, <1>4, <2>1, <2>2, ZenonT(40) DEF TrackerInv, TrackerPartition, Typed, TypeOK
  <2> QED
    BY <1>2, <1>4, <1>a, <2>3, SMTT(40) DEF TrackerInv
<1>6. CASE Head(jobCh).op # "Submit"
  <2>1. tracker' = [i \in JobId |-> IF i \in {id} THEN NoJob ELSE tracker[i]]
    BY <1>6, Zenon DEF TakeJob, cancel_job, Typed, TypeOK
  <2>2. TrackerPartition' /\ \A i \in JobId : tracker'[i].of <= submitted'
    BY <1>3, <1>4, <2>1, FreedSplit, ZenonT(40)
  <2> QED
    BY <1>2, <1>4, <1>a, <2>2 DEF TrackerInv
<1> QED
  BY <1>5, <1>6

\* set_to_pending moves one worker from registered to pending.
LEMMA LeaderWriteSplit ==
  ASSUME NEW w \in Worker PROVE Typed /\ TrackerInv /\ LeaderWrite(w) => TrackerInv'
<1> SUFFICES ASSUME Typed, TrackerInv, LeaderWrite(w) PROVE TrackerInv'
  OBVIOUS
<1> DEFINE id  == Head(cmd[w]).id
           job == tracker[id]
<1>1. id \in JobId
  BY TailElems, JobFields, Zenon DEF Typed, TypeOK, LeaderWrite
<1>2. set_to_pending(id, w) /\ UNCHANGED <<target, submitted, jobCh>>
  BY Zenon DEF LeaderWrite
<1>a. UnsubmittedIdle'
  BY DEF TrackerInv, UnsubmittedIdle, LeaderWrite
<1>3. CASE w \notin job.registered
  <2>1. tracker' = tracker
    BY <1>2, <1>3 DEF set_to_pending
  <2>2. \A c \in Elems(jobCh') : c.of <= submitted
    BY <1>2, Zenon DEF TrackerInv, Elems
  <2> QED
    BY <1>2, <1>a, <2>1, <2>2, SameTracker, Zenon
<1>4. CASE w \in job.registered
  <2>1. tracker' = [tracker EXCEPT ![id].registered = @ \ {w}, ![id].pending = @ \cup {w}]
    BY <1>2, <1>4 DEF set_to_pending
  <2>2. TrackerTyped /\ job \in PendingJobs
    BY <1>1, TypedTracker, SMTT(40) DEF TrackerTyped
  <2>3. /\ tracker'[id].of = job.of /\ tracker'[id].registered = job.registered \ {w}
        /\ tracker'[id].pending = job.pending \cup {w} /\ tracker'[id].results = job.results
    BY <1>1, <2>1, <2>2, ZenonT(40) DEF TrackerTyped, PendingJobs
  <2>4. \A i \in JobId \ {id} : tracker'[i] = tracker[i]
    BY <1>1, <2>1, <2>2, Zenon DEF TrackerTyped
  <2>5. job.of # 0 /\ Split(job, target[job.of])
    <3>1. job.of # 0
      BY <1>1, <1>4, Zenon DEF Typed, FreeIdsWaitForNobody
    <3> QED
      BY <1>1, <3>1, Zenon DEF TrackerInv, TrackerPartition
  <2>6. Split(tracker'[id], target[job.of])
    <3>1. Responded(tracker'[id]) = Responded(job)
      BY <2>3 DEF Responded
    <3> QED
      BY <1>4, <2>3, <2>5, <3>1, ZenonT(40) DEF Split
  <2> QED
    BY <1>1, <1>2, <1>a, <2>3, <2>4, <2>6, Zenon DEF TrackerInv, TrackerPartition
<1> QED
  BY <1>3, <1>4

\* What a command appended to the job channel adds to it.
LEMMA CommandElems ==
  ASSUME NEW op \in {"Submit", "Cancel"}, NEW u \in Submission,
         NEW q \in Seq([op : {"Submit", "Cancel"}, of : Submission])
  PROVE  /\ Elems(Append(q, [op |-> op, of |-> u])) = Elems(q) \cup {[op |-> op, of |-> u]}
         /\ \A e \in Elems(q) : e.of \in Submission
<1> DEFINE C == [op : {"Submit", "Cancel"}, of : Submission]
<1>1. [op |-> op, of |-> u] \in C /\ q \in Seq(C)
  OBVIOUS
<1>2. \A e \in C : e.of \in Submission
  OBVIOUS
<1> HIDE DEF C
<1>3. \A e \in Elems(q) : e \in C
  BY <1>1 DEF Elems
<1> QED
  BY <1>1, <1>2, <1>3, AppendElems

\* A new handle is one no tracked job belongs to: no entry changes its workers.
LEMMA SubmitSplit == Typed /\ TrackerInv /\ Submit => TrackerInv'
<1> SUFFICES ASSUME Typed, TrackerInv, Submit PROVE TrackerInv'
  OBVIOUS
<1> DEFINE c == [op |-> "Submit", of |-> submitted + 1]
           C == [op : {"Submit", "Cancel"}, of : Submission]
<1>1. submitted \in Nat /\ submitted + 1 \in Submission
  BY ConstantsAssumption DEF Typed, TypeOK, Submit, Submission
<1>2. jobCh' = Append(jobCh, c) /\ submitted' = submitted + 1 /\ tracker' = tracker
  BY DEF Submit
<1>3. /\ Elems(jobCh') = Elems(jobCh) \cup {c}
      /\ \A e \in Elems(jobCh) : e.of \in Submission
  BY <1>1, <1>2, CommandElems, ZenonT(40) DEF Typed, TypeOK
<1>4. \A id \in JobId : tracker[id].of \in 0..submitted
  BY <1>1, SubmissionTypes DEF TrackerInv
<1>t. handle' = [handle EXCEPT ![submitted + 1] = "waiting"]
  BY Zenon DEF Submit
<1>5. \A v \in 1..submitted : target'[v] = target[v]
  <2>1. PICK T : target' = [target EXCEPT ![submitted + 1] = T]
    BY Zenon DEF Submit
  <2>2. \A v \in 1..submitted : v \in Submission /\ v # submitted + 1
    BY <1>1, SubmissionTypes DEF Submission
  <2>3. target \in [Submission -> SUBSET Worker]
    BY SubmissionTypes
  <2> QED
    BY <2>1, <2>2, <2>3, Zenon
<1>6. TrackerPartition'
  <2> SUFFICES ASSUME NEW id \in JobId, tracker[id].of # 0
               PROVE  Split(tracker[id], target'[tracker[id].of])
    BY <1>2, Zenon DEF TrackerPartition, Split, Responded
  <2>1. tracker[id].of \in 1..submitted
    BY <1>1, <1>4, SMTT(40)
  <2> QED
    BY <1>5, <2>1 DEF TrackerInv, TrackerPartition
<1>8. \A e \in Elems(jobCh') : e.of <= submitted'
  <2>1. \A e \in Elems(jobCh) : e.of <= submitted /\ e.of \in Nat
    BY <1>3, SubmissionTypes DEF TrackerInv, Submission
  <2>2. c.of = submitted + 1
    OBVIOUS
  <2> HIDE DEF c
  <2> QED
    BY <1>1, <1>2, <1>3, <2>1, <2>2
<1>9. UnsubmittedIdle'
  <2>1. UnsubmittedIdle
    BY DEF TrackerInv
  <2> QED
    BY <1>1, <1>2, <1>t, <2>1, SubmissionTypes DEF UnsubmittedIdle, Submission
<1>10. \A id \in JobId : tracker'[id].of <= submitted'
  BY <1>1, <1>2, <1>4
<1> QED
  BY <1>6, <1>8, <1>9, <1>10, Zenon DEF TrackerInv

\* A cancelled handle leaves the split of every entry as it is.
LEMMA CancelSplit == ASSUME NEW u \in Submission PROVE Typed /\ TrackerInv /\ Cancel(u) => TrackerInv'
<1> SUFFICES ASSUME Typed, TrackerInv, Cancel(u) PROVE TrackerInv'
  OBVIOUS
<1> DEFINE c == [op |-> "Cancel", of |-> u]
<1>0. /\ UNCHANGED <<tracker, submitted, target>> /\ jobCh' = Append(jobCh, c)
      /\ handle[u] = "waiting" /\ handle' = [handle EXCEPT ![u] = "cancelled"]
  BY Zenon DEF Cancel
<1>1. UnsubmittedIdle /\ u <= submitted
  BY <1>0, SubmissionTypes DEF TrackerInv, UnsubmittedIdle, Submission
<1>2. Elems(jobCh') = Elems(jobCh) \cup {c}
  BY <1>0, CommandElems, SubmissionTypes
<1>3. UnsubmittedIdle'
  BY <1>0, <1>1, SubmissionTypes DEF UnsubmittedIdle, Submission
<1>4. \A e \in Elems(jobCh') : e.of <= submitted
  <2>1. c.of = u
    OBVIOUS
  <2> HIDE DEF c
  <2> QED
    BY <1>1, <1>2, <2>1 DEF TrackerInv
<1> QED
  BY <1>0, <1>3, <1>4, SameTracker, Zenon

\* Entries that are dropped at shutdown are empty; the others are as they were.
LEMMA StopSplit ==
  ASSUME Typed, TrackerInv, NEW last \in BOOLEAN, DropTracker(last), NEW S,
         handle' = Dropped(S), UNCHANGED <<target, submitted>>, jobCh' \in {jobCh, <<>>}
  PROVE  TrackerInv'
<1>1. tracker' = [i \in JobId |-> IF i \in (IF last THEN JobId ELSE {}) THEN NoJob ELSE tracker[i]]
  BY SMTT(40) DEF DropTracker, Typed, TypeOK
<1>2. TrackerPartition' /\ \A i \in JobId : tracker'[i].of <= submitted'
  BY <1>1, FreedSplit, Zenon
<1>3. UnsubmittedIdle'
  BY DroppedIdle DEF TrackerInv
<1>4. Elems(<<>>) = {}
  BY DEF Elems
<1> QED
  BY <1>2, <1>3, <1>4, SMTT(40) DEF TrackerInv

\* Every step keeps the tracker's invariant.
LEMMA NextTrackerInv == Typed /\ TrackerInv /\ [Next]_vars => TrackerInv'
<1> SUFFICES ASSUME Typed, TrackerInv, [Next]_vars PROVE TrackerInv'
  OBVIOUS
<1>1. ASSUME UNCHANGED leaderVars PROVE TrackerInv'
  BY <1>1 DEF leaderVars, TrackerInv, TrackerPartition, Split, Responded, UnsubmittedIdle
<1>2. CASE Environment
  BY <1>1, <1>2, SubmitSplit, CancelSplit, ZenonT(40)
     DEF Environment, Shutdown, LinkDown, DropHandle, WorkerStop, WorkerRestart
<1>3. ASSUME NEW w \in Worker, RecordResponse(w) PROVE TrackerInv'
  <2> DEFINE R == [id : JobId, rsp : RspSet \ {NoRsp}]
  <2>1. rspCh[w] \in Seq(R) /\ rspCh[w] # <<>>
    BY <1>3, Zenon DEF RecordResponse, Typed, TypeOK
  <2> HIDE DEF R
  <2>2. Head(rspCh[w]) \in R
    BY <2>1, TailElems
  <2>3. Head(rspCh[w]).id \in JobId /\ Head(rspCh[w]).rsp \in RspSet \ {NoRsp}
    BY <2>2 DEF R
  <2> QED
    BY <1>3, <2>3, RecordSplit DEF RecordResponse
<1>4. CASE LeaderTaskStop
  <2> DEFINE last == \A w \in Worker : lphase[w] = "stopped"
  <2>1. last \in BOOLEAN /\ DropTracker(last) /\ \E S : handle' = Dropped(S)
    BY <1>4, Zenon DEF LeaderTaskStop
  <2>2. UNCHANGED <<target, submitted>> /\ jobCh' = <<>>
    BY <1>4 DEF LeaderTaskStop
  <2> HIDE DEF last
  <2> QED
    BY <2>1, <2>2, StopSplit
<1>5. CASE LeaderStep
  BY <1>3, <1>4, <1>5, TakeJobSplit DEF LeaderStep
<1>6. ASSUME NEW w \in Worker, ReportLost(w) PROVE TrackerInv'
  <2>1. PICK id \in lost[w] : record_response(id, w, JobsLost)
    BY <1>6 DEF ReportLost
  <2>2. id \in JobId /\ UNCHANGED <<target, submitted, jobCh>>
    BY <1>6 DEF ReportLost, Typed, TypeOK
  <2> QED
    BY <2>1, <2>2, RspTypes, RecordSplit
<1>7. ASSUME NEW w \in Worker, MgrStop(w) PROVE TrackerInv'
  <2> DEFINE last == taskStopped /\ \A v \in Worker \ {w} : lphase[v] = "stopped"
  <2>1. last \in BOOLEAN /\ DropTracker(last) /\ \E S : handle' = Dropped(S)
    BY <1>7 DEF MgrStop, Typed, TypeOK
  <2>2. UNCHANGED <<target, submitted>> /\ jobCh' = jobCh
    BY <1>7, SMTT(40) DEF MgrStop
  <2> HIDE DEF last
  <2> QED
    BY <2>1, <2>2, StopSplit, SMTT(40)
<1>8. ASSUME NEW w \in Worker, MgrStep(w) PROVE TrackerInv'
  BY <1>1, <1>6, <1>7, <1>8, LeaderWriteSplit, ZenonT(40)
     DEF MgrStep, Connect, LeaderHandshake, LeaderRead, LeaderDisconnect
<1>9. ASSUME NEW w \in Worker, WorkerStep(w) PROVE TrackerInv'
  BY <1>1, <1>9, Zenon
     DEF WorkerStep, WorkerHandshake, WorkerRead, SendResult, WorkerWrite, WorkerDisconnect
<1> QED
  BY <1>1, <1>2, <1>5, <1>8, <1>9 DEF Next, vars

\* In every reachable state, for every job the tracker holds, the workers it
\* addresses are split between registered, pending and results, and it still
\* waits for at least one; this also holds when job ids wrap.
THEOREM TrackerAlwaysSplits == Spec => []TrackerPartition
<1>1. TrackerInv => TrackerPartition
  BY DEF TrackerInv
<1>2. Init => TrackerInv
  BY InitTrackerInv
<1> QED
  BY <1>1, <1>2, AlwaysTyped, NextTrackerInv, PTL DEF Spec
=============================================================================
