----------------------------- MODULE CamRequest -----------------------------
(***************************************************************************)
(* The life of a media request in the camera driver (camsys/src/mtk_cam.c,  *)
(* mtk_cam-ctrl.c, mtk_cam-video.c): queued by user space, moved from       *)
(* pending_job_list to running_job_list, completed pipe by pipe by the      *)
(* frame-done works, or swept away when a pipe stops streaming.             *)
(*                                                                         *)
(* A pipe stands for a raw pipeline with its context and one video node.    *)
(* Threads are the ordered frame-done workqueue of each pipe and one user   *)
(* thread: MEDIA_REQUEST_IOC_QUEUE, VIDIOC_STREAMON and VIDIOC_STREAMOFF    *)
(* all hold the media device's req_queue_mutex.  A step is a critical       *)
(* section or an atomic access.                                             *)
(***************************************************************************)
EXTENDS Naturals, Sequences, FiniteSets, SequencesExt

CONSTANTS
  Reqs,      \* media requests user space has allocated; each is reused
  Pipes,     \* pipes, each with its context and frame-done workqueue
  PipeSets,  \* the sets of pipes a request may carry buffers for
  User,      \* the thread that runs the ioctls
  Reuse,     \* TRUE: user space reinitialises completed requests and queues
             \* them again; FALSE: it allocates a request for every frame
  BadReqs,   \* requests whose settings mtk_cam_req_update rejects
  MaxJobs,   \* RAW_PIPELINE_NUM * MTK_CAM_MAX_RUNNING_JOBS
  MaxQueue,  \* bound of the model: MEDIA_REQUEST_IOC_QUEUE calls
  MaxStart   \* bound of the model: start_streaming calls per pipe

ASSUME ConstantsAssumption ==
  /\ IsFiniteSet(Pipes) /\ User \notin Pipes
  /\ PipeSets \subseteq (SUBSET Pipes) \ {{}}
  /\ Reuse \in BOOLEAN /\ BadReqs \subseteq Reqs
  /\ MaxJobs \in Nat \ {0} /\ MaxQueue \in Nat /\ MaxStart \in Nat

VARIABLES
  req,           \* struct mtk_cam_request, see ReqType
  pending,       \* pending_job_list
  batch,         \* equeue_list of the try_queue that holds queue_lock
  running,       \* running_job_list
  jobCount,      \* running_job_count
  streamingPipe, \* mtk_cam_device.streaming_pipe
  streaming,     \* contexts with ctx->streaming, the bits of streaming_ctx
  started,       \* contexts between mtk_cam_start_ctx and mtk_cam_stop_ctx
  enqSeq,        \* enqueued_frame_seq_no of each context
  doneWq,        \* frame_done_wq: the works of a pipe, the executing one first
  pc,            \* where each thread is
  hand,          \* the s_data snapshot a thread is still working through
  deq,           \* dequeued_frame_seq_no of the executing work
  dequeued,      \* dequeue_cnt of the executing work is not zero
  target,        \* the pipe the user thread starts or stops
  warned,        \* the kernel printed a WARN: buffers or list entries are lost
  nQueue, nStart \* how often the bounded calls were made

lists   == <<pending, batch, running, jobCount>>
streams == <<streamingPipe, streaming, started, enqSeq>>
threads == <<doneWq, pc, hand, deq, dequeued, target>>
bounds  == <<nQueue, nStart>>
vars    == <<req, lists, streams, threads, warned, bounds>>

Threads == Pipes \cup {User}

\* state, done_status and pipe_used of the request; and, as the sets of pipes
\* for which it holds: armed (buf_state is -1), held (vb2 buffers not yet
\* done), isQueued (frame_done_work.is_queued), handed (frame work given to
\* the composer). seq is each pipe's frame_seq_no.
ReqType ==
  [state : {"pending", "running", "deleting", "complete", "cleanup"},
   pipeUsed : SUBSET Pipes, done : SUBSET Pipes, armed : SUBSET Pipes,
   held : SUBSET Pipes, isQueued : SUBSET Pipes, handed : SUBSET Pipes,
   seq : [Pipes -> Nat]]

PcType == {"idle", "try", "enqueue", "on", "halt", "pend", "scan", "cancel",
           "mark", "remove", "claim", "return", "drain"}

Init ==
  /\ req = [r \in Reqs |->
       [state |-> "pending", pipeUsed |-> {}, done |-> {}, armed |-> {},
        held |-> {}, isQueued |-> {}, handed |-> {}, seq |-> [p \in Pipes |-> 0]]]
  /\ pending = <<>> /\ batch = <<>> /\ running = <<>> /\ jobCount = 0
  /\ streamingPipe = {} /\ streaming = {} /\ started = {}
  /\ enqSeq = [p \in Pipes |-> 0]
  /\ doneWq = [p \in Pipes |-> <<>>]
  /\ pc = [t \in Threads |-> "idle"]
  /\ hand = [t \in Threads |-> <<>>]
  /\ deq = [p \in Pipes |-> 0]
  /\ dequeued = [p \in Pipes |-> FALSE]
  /\ target \in Pipes
  /\ warned = FALSE
  /\ nQueue = 0 /\ nStart = [p \in Pipes |-> 0]

Goto(t, to) == pc' = [pc EXCEPT ![t] = to]

\* What a walk over the list s finds or leaves: its entries that are in S.
Keep(s, S) ==
  LET kept[i \in 0 .. Len(s)] ==
        IF i = 0 THEN <<>> ELSE IF s[i] \in S THEN Append(kept[i - 1], s[i]) ELSE kept[i - 1]
  IN  kept[Len(s)]

-----------------------------------------------------------------------------
(* mtk_cam_dev_req_try_queue, called with queue_lock held.                 *)

\* The caller is done: a worker drops the work it was executing.
FinishedWq(t)  == IF t = User THEN doneWq ELSE [doneWq EXCEPT ![t] = Tail(@)]
FinishedDeq(t) == IF t = User THEN deq ELSE [deq EXCEPT ![t] = 0]
FinishedCnt(t) == IF t = User THEN dequeued ELSE [dequeued EXCEPT ![t] = FALSE]

Finish(t) ==
  /\ Goto(t, "idle")
  /\ doneWq' = FinishedWq(t) /\ deq' = FinishedDeq(t) /\ dequeued' = FinishedCnt(t)

\* An operator marked "fault" is a plausible error in the code that the one
\* below it models: the properties are tested against it.

\* Pending requests whose pipes all stream, as many as the job limit allows.
StreamOnReqs == {r \in Reqs : req[r].pipeUsed \subseteq streamingPipe}
RoomOffByOne == IF jobCount <= MaxJobs THEN MaxJobs + 1 - jobCount ELSE 0  \* fault
Room == IF jobCount < MaxJobs THEN MaxJobs - jobCount ELSE 0
Runnable ==
  LET on == Keep(pending, StreamOnReqs)
  IN SubSeq(on, 1, IF Len(on) < Room THEN Len(on) ELSE Room)

\* What stays on pending_job_list.
NothingUnlinked == pending                                               \* fault
AllRunnableUnlinked == Keep(pending, Reqs \ StreamOnReqs)                \* fault
StillPending == Keep(pending, Reqs \ ToSet(Runnable))

\* queue_lock is held from the pick to the last request of the batch.
StopHoldsLock == batch = <<>> /\ pc[User] \in {"idle", "try", "enqueue"}   \* fault
QueueLockFree == batch = <<>>

\* running_job_count is read just before under its own lock; only holders of
\* queue_lock increase it, so reading and picking are one step.
TryPick(t) ==
  /\ pc[t] = "try" /\ QueueLockFree
  /\ IF streaming = {} \/ Runnable = <<>>
     THEN Finish(t) /\ UNCHANGED <<pending, batch>>
     ELSE /\ batch' = Runnable
          /\ pending' = StillPending
          /\ Goto(t, "enqueue")
          /\ UNCHANGED <<doneWq, deq, dequeued>>
  /\ UNCHANGED <<req, running, jobCount, streams, hand, target, warned, bounds>>

\* list_add_tail.
LinkedAtHead(r) == <<r>> \o running                                      \* fault
Linked(r) == Append(running, r)

\* enqueued_frame_seq_no of the contexts, once r has been given its numbers.
NumbersWith(r) ==
  [p \in Pipes |-> IF p \in req[r].pipeUsed THEN enqSeq[p] + 1 ELSE enqSeq[p]]

\* mtk_cam_dev_req_enqueue skips the pipes whose context is not streaming.
Composed(r) == req[r].pipeUsed \cap streaming

\* One request of the batch: its numbers, the running list, the composer.
Enqueue(t) ==
  LET r == Head(batch)
      next == NumbersWith(r)
  IN
  /\ pc[t] = "enqueue" /\ r \notin BadReqs
  /\ enqSeq' = next
  /\ req' = [req EXCEPT ![r] = [@ EXCEPT
       !.state = "running", !.isQueued = {}, !.handed = Composed(r),
       !.seq = [p \in Pipes |-> IF p \in req[r].pipeUsed THEN next[p] ELSE req[r].seq[p]]]]
  /\ running' = Linked(r)
  /\ jobCount' = jobCount + 1
  /\ batch' = Tail(batch)
  /\ IF Len(batch) = 1 THEN Finish(t) ELSE UNCHANGED <<pc, doneWq, deq, dequeued>>
  /\ UNCHANGED <<pending, streamingPipe, streaming, started, hand, target, warned, bounds>>

\* WARN_ON: "invalid req settings which can't be recovered"; the rest of the
\* caller's list is forgotten.
EnqueueRejected(t) ==
  /\ pc[t] = "enqueue" /\ Head(batch) \in BadReqs
  /\ warned' = TRUE
  /\ UNCHANGED <<req, lists, streams, threads, bounds>>

TryQueue(t) == TryPick(t) \/ Enqueue(t) \/ EnqueueRejected(t)

-----------------------------------------------------------------------------
(* mtk_cam_req_queue. A request is reused only when all its buffers are    *)
(* back (MEDIA_REQUEST_IOC_REINIT fails before).                           *)

Queue(r, used) ==
  /\ pc[User] = "idle" /\ nQueue < MaxQueue
  /\ req[r].held = {} /\ (Reuse \/ req[r].pipeUsed = {})
  /\ req' = [req EXCEPT ![r] = [@ EXCEPT
       !.state = "pending", !.done = {}, !.pipeUsed = used,
       !.armed = used, !.held = used]]
  /\ pending' = Append(pending, r)
  /\ Goto(User, "try")
  /\ nQueue' = nQueue + 1
  /\ UNCHANGED <<batch, running, jobCount, streams, doneWq, hand, deq, dequeued,
                 target, warned, nStart>>

-----------------------------------------------------------------------------
(* mtk_cam_vb2_start_streaming.                                            *)

\* mtk_cam_start_ctx, then the pipe counts as streaming for requests.
StartCtx(p) ==
  /\ pc[User] = "idle" /\ p \notin started /\ nStart[p] < MaxStart
  /\ started' = started \cup {p}
  /\ jobCount' = IF started = {} THEN 0 ELSE jobCount
  /\ enqSeq' = [enqSeq EXCEPT ![p] = 0]
  /\ streamingPipe' = streamingPipe \cup {p}
  /\ target' = p
  /\ Goto(User, "on")
  /\ nStart' = [nStart EXCEPT ![p] = @ + 1]
  /\ UNCHANGED <<req, pending, batch, running, streaming, doneWq, hand, deq,
                 dequeued, warned, nQueue>>

\* mtk_cam_ctx_stream_on.
StreamOn ==
  /\ pc[User] = "on"
  /\ streaming' = streaming \cup {target}
  /\ Goto(User, "try")
  /\ UNCHANGED <<req, lists, streamingPipe, started, enqSeq, doneWq, hand, deq,
                 dequeued, target, warned, bounds>>

-----------------------------------------------------------------------------
(* mtk_camsys_frame_done, in the interrupt thread: the frame is looked up  *)
(* by its number and its done work is queued once.                         *)

FrameOwner(p, n) ==
  Keep(running, {r \in Reqs : p \in req[r].pipeUsed /\ req[r].seq[p] = n})[1]

\* The hardware finishes composed frames in the order of their numbers, some
\* without an interrupt, until the stream is off.
FrameDone(p) ==
  /\ p \in streaming \/ (pc[User] = "halt" /\ target = p)
  /\ \E d \in ToSet(running) :
       LET n == req[d].seq[p]
           r == FrameOwner(p, n)
       IN /\ p \in req[d].handed
          /\ \A x \in ToSet(running) : p \in req[x].isQueued => req[x].seq[p] <= n
          /\ p \notin req[r].isQueued
          /\ req' = [req EXCEPT ![r].isQueued = @ \cup {p}]
          /\ doneWq' = [doneWq EXCEPT ![p] = Append(@, r)]
  /\ UNCHANGED <<lists, streams, pc, hand, deq, dequeued, target, warned, bounds>>

-----------------------------------------------------------------------------
(* What completing a pipe of a request and cleaning it up share. Thread t  *)
(* works on the first request it has in hand, on its own pipe.             *)

PipeOf(t) == IF t = User THEN target ELSE t
Current(t) == Head(hand[t])

\* A worker that took a request off the list tries to queue others.
NeverTries(t) == FALSE                                                   \* fault
MustTry(t) == dequeued[t]

\* On to the next request of the snapshot.
NextInHand(t) ==
  /\ hand' = [hand EXCEPT ![t] = Tail(@)]
  /\ IF Len(hand[t]) > 1
     THEN Goto(t, IF t = User THEN "cancel" ELSE "mark") /\ UNCHANGED <<doneWq, deq, dequeued>>
     ELSE IF t = User THEN Goto(t, "drain") /\ UNCHANGED <<doneWq, deq, dequeued>>
     ELSE IF MustTry(t) THEN Goto(t, "try") /\ UNCHANGED <<doneWq, deq, dequeued>>
     ELSE Finish(t)

\* The cmpxchg from RUNNING to DELETING, under done_status_lock.
AlwaysDeletes(r) == TRUE                                                 \* fault
MayDelete(r) == req[r].state = "running"

ListKept(r) == running                                                   \* fault
Unlinked(r) == Keep(running, Reqs \ {r})

\* list_del and running_job_count-- under running_job_lock.
RemoveFromRunning(t, state) ==
  /\ pc[t] = "remove"
  /\ req' = [req EXCEPT ![Current(t)].state = state]
  /\ running' = Unlinked(Current(t))
  /\ jobCount' = jobCount - 1
  /\ Goto(t, "claim")

\* mtk_cam_s_data_set_buf_state: the cmpxchg that one caller wins.
AlwaysWins(t) == TRUE                                                    \* fault
Wins(t) == PipeOf(t) \in req[Current(t)].armed

Claim(t) ==
  /\ pc[t] = "claim"
  /\ req' = [req EXCEPT ![Current(t)].armed = @ \ {PipeOf(t)}]
  /\ IF Wins(t) THEN Goto(t, "return") /\ UNCHANGED <<doneWq, hand, deq, dequeued>>
            ELSE NextInHand(t)
  /\ UNCHANGED <<lists, streams, target, warned, bounds>>

\* mtk_cam_req_put, mtk_cam_req_return_pipe_buffers: vb2_buffer_done.
Return(t) ==
  /\ pc[t] = "return"
  /\ req' = [req EXCEPT ![Current(t)].held = @ \ {PipeOf(t)}]
  /\ NextInHand(t)
  /\ UNCHANGED <<lists, streams, target, warned, bounds>>

-----------------------------------------------------------------------------
(* The frame-done worker of pipe p: mtk_cam_handle_frame_done and          *)
(* mtk_cam_dequeue_req_frame.                                              *)

\* A work of a context that is off does nothing.
WorkStart(p) ==
  /\ pc[p] = "idle" /\ doneWq[p] # <<>>
  /\ IF p \in streaming
     THEN /\ Goto(p, "scan")
          /\ deq' = [deq EXCEPT ![p] = req[Head(doneWq[p])].seq[p]]
          /\ UNCHANGED <<doneWq, dequeued>>
     ELSE Finish(p)
  /\ UNCHANGED <<req, lists, streams, hand, target, warned, bounds>>

NeverLater(r, p) == FALSE                                                \* fault
Later(r, p) == req[r].seq[p] > deq[p]

\* The running requests of the pipe up to the first later frame.
UsersOf(p) == {r \in Reqs : p \in req[r].pipeUsed}
DoneRequests(p) ==
  LET users == Keep(running, UsersOf(p))
      later == SelectInSeq(users, LAMBDA r : Later(r, p))
  IN IF later = 0 THEN users ELSE SubSeq(users, 1, later - 1)

WorkScan(p) ==
  /\ pc[p] = "scan"
  /\ hand' = [hand EXCEPT ![p] = DoneRequests(p)]
  /\ IF DoneRequests(p) = <<>> THEN Finish(p)
     ELSE Goto(p, "mark") /\ UNCHANGED <<doneWq, deq, dequeued>>
  /\ UNCHANGED <<req, lists, streams, target, warned, bounds>>

\* Under done_status_lock: skip what was handled before; the pipe that
\* completes the streaming pipes of the request takes it off the list.
WorkMark(p) ==
  LET r == Current(p)
      done == req[r].done \cup {p}
      complete == done \cap streamingPipe = req[r].pipeUsed \cap streamingPipe
  IN
  /\ pc[p] = "mark"
  /\ IF p \in req[r].done
     THEN NextInHand(p) /\ UNCHANGED req
     ELSE /\ IF complete /\ MayDelete(r)
             THEN /\ req' = [req EXCEPT ![r].done = done, ![r].state = "deleting"]
                  /\ Goto(p, "remove")
             ELSE req' = [req EXCEPT ![r].done = done] /\ Goto(p, "claim")
          /\ UNCHANGED <<doneWq, hand, deq, dequeued>>
  /\ UNCHANGED <<lists, streams, target, warned, bounds>>

WorkRemove(p) ==
  /\ RemoveFromRunning(p, "complete")
  /\ dequeued' = [dequeued EXCEPT ![p] = TRUE]
  /\ UNCHANGED <<pending, batch, streams, doneWq, hand, deq, target, warned, bounds>>

Work(p) ==
  \/ WorkStart(p) \/ WorkScan(p) \/ WorkMark(p) \/ WorkRemove(p)
  \/ Claim(p) \/ Return(p) \/ TryQueue(p)

-----------------------------------------------------------------------------
(* mtk_cam_vb2_stop_streaming.                                             *)

\* mtk_cam_ctx_stream_off.
StopBegin(p) ==
  /\ pc[User] = "idle" /\ p \in started
  /\ streaming' = streaming \ {p}
  /\ target' = p
  /\ Goto(User, "halt")
  /\ UNCHANGED <<req, lists, streamingPipe, started, enqSeq, doneWq, hand, deq,
                 dequeued, warned, bounds>>

\* The hardware is off; the pipe no longer counts as streaming.
StopHalt ==
  /\ pc[User] = "halt"
  /\ streamingPipe' = streamingPipe \ {target}
  /\ Goto(User, "pend")
  /\ UNCHANGED <<req, lists, streaming, started, enqSeq, doneWq, hand, deq,
                 dequeued, target, warned, bounds>>

\* mtk_cam_dev_req_clean_pending: every pending request loses the pipe, and
\* leaves the list when none of its other pipes streams.
StopPending ==
  /\ pc[User] = "pend"
  /\ pending' = Keep(pending, {r \in Reqs :
                  (req[r].pipeUsed \ {target}) \cap streamingPipe # {}})
  /\ req' = [r \in Reqs |->
       IF r \in ToSet(pending)
       THEN [req[r] EXCEPT !.pipeUsed = @ \ {target}, !.armed = @ \ {target},
               !.held = IF target \in req[r].armed THEN @ \ {target} ELSE @]
       ELSE req[r]]
  /\ Goto(User, "scan")
  /\ UNCHANGED <<batch, running, jobCount, streams, doneWq, hand, deq, dequeued,
                 target, warned, bounds>>

\* mtk_cam_dev_req_cleanup: the running requests of the context.
StopScan ==
  LET users == Keep(running, UsersOf(target)) IN
  /\ pc[User] = "scan"
  /\ hand' = [hand EXCEPT ![User] = users]
  /\ Goto(User, IF users = <<>> THEN "drain" ELSE "cancel")
  /\ UNCHANGED <<req, lists, streams, doneWq, deq, dequeued, target, warned, bounds>>

\* cancel_work_sync waits for the work if it is executing.
Executing(r, p) == pc[p] # "idle" /\ Head(doneWq[p]) = r

StopCancel ==
  LET r == Current(User) IN
  /\ pc[User] = "cancel"
  /\ target \in req[r].isQueued => ~Executing(r, target)
  /\ doneWq' = [doneWq EXCEPT ![target] =
       IF target \in req[r].isQueued THEN Keep(@, Reqs \ {r}) ELSE @]
  /\ req' = [req EXCEPT ![r].isQueued = @ \cup {target}]
  /\ Goto(User, "mark")
  /\ UNCHANGED <<lists, streams, hand, deq, dequeued, target, warned, bounds>>

\* Under done_status_lock.
StopMark ==
  LET r == Current(User)
      done == req[r].done \cup (req[r].pipeUsed \cap {target})
  IN
  /\ pc[User] = "mark"
  /\ IF ~MayDelete(r)
     THEN Goto(User, "claim") /\ UNCHANGED req
     ELSE IF done = req[r].pipeUsed
     THEN /\ req' = [req EXCEPT ![r].done = done, ![r].state = "deleting"]
          /\ Goto(User, "remove")
     ELSE req' = [req EXCEPT ![r].done = done] /\ Goto(User, "claim")
  /\ UNCHANGED <<lists, streams, doneWq, hand, deq, dequeued, target, warned, bounds>>

StopRemove ==
  /\ RemoveFromRunning(User, "cleanup")
  /\ UNCHANGED <<pending, batch, streams, doneWq, hand, deq, dequeued, target, warned, bounds>>

\* mtk_cam_stop_ctx drains frame_done_wq. vb2 then warns of every buffer of
\* the pipe that the driver still holds.
StopDrain ==
  /\ pc[User] = "drain"
  /\ doneWq[target] = <<>>
  /\ started' = started \ {target}
  /\ enqSeq' = [enqSeq EXCEPT ![target] = 0]
  /\ warned' = \E r \in Reqs : target \in req[r].held
  /\ Goto(User, "idle")
  /\ UNCHANGED <<req, lists, streamingPipe, streaming, doneWq, hand, deq, dequeued,
                 target, bounds>>

StopStep ==
  \/ StopHalt \/ StopPending \/ StopScan \/ StopCancel \/ StopMark \/ StopRemove
  \/ Claim(User) \/ Return(User) \/ StopDrain

-----------------------------------------------------------------------------

UserStep == StreamOn \/ TryQueue(User) \/ StopStep

Next ==
  /\ ~warned
  /\ \/ \E r \in Reqs, used \in PipeSets : Queue(r, used)
     \/ \E p \in Pipes : StartCtx(p) \/ StopBegin(p) \/ FrameDone(p) \/ Work(p)
     \/ UserStep

Spec == Init /\ [][Next]_vars

\* Workqueues run their works, an ioctl that was entered runs on, and a
\* streaming sensor keeps delivering frames. Nobody owes another ioctl.
Fairness ==
  /\ \A p \in Pipes : WF_vars(~warned /\ Work(p)) /\ WF_vars(~warned /\ FrameDone(p))
  /\ WF_vars(~warned /\ UserStep)

FairSpec == Spec /\ Fairness
-----------------------------------------------------------------------------
(* Properties.                                                             *)

TypeOK ==
  /\ req \in [Reqs -> ReqType]
  /\ pending \in Seq(Reqs) /\ batch \in Seq(Reqs) /\ running \in Seq(Reqs)
  /\ jobCount \in Nat
  /\ streamingPipe \subseteq Pipes /\ streaming \subseteq Pipes /\ started \subseteq Pipes
  /\ enqSeq \in [Pipes -> Nat] /\ deq \in [Pipes -> Nat]
  /\ doneWq \in [Pipes -> Seq(Reqs)]
  /\ pc \in [Threads -> PcType] /\ hand \in [Threads -> Seq(Reqs)]
  /\ dequeued \in [Pipes -> BOOLEAN]
  /\ target \in Pipes /\ warned \in BOOLEAN
  /\ nQueue \in Nat /\ nStart \in [Pipes -> Nat]

\* A request has one list_head for three lists: it is linked at most once.
ListedOnce == IsInjective(pending \o batch \o running)

\* A buffer set is given back to vb2 by one thread, once: whoever is about to
\* do so finds it held, whatever frame-done works and cleanup raced for it.
BufferReturnedOnce ==
  /\ \A r \in Reqs : req[r].armed \subseteq req[r].held
  /\ \A t \in Threads, r \in Reqs :
       pc[t] = "return" /\ Current(t) = r => PipeOf(t) \in req[r].held

\* Exactly one thread unlinks a finished request, and finds it linked.
RemoverOwnsEntry ==
  \A t \in Threads : pc[t] = "remove" =>
    /\ Current(t) \in ToSet(running)
    /\ \A u \in Threads \ {t} : pc[u] = "remove" => Current(u) # Current(t)

\* The counter that gates new jobs is the length of the list, and the list
\* stays within what the 18-entry local arrays of dequeue and cleanup can take.
JobsWithinLimit ==
  /\ jobCount = Len(running)
  /\ Len(running) + Len(batch) <= MaxJobs

\* A worker never acts on a request that was queued anew after the worker took
\* its snapshot: what it has still to mark are frames up to the one it dequeues.
SnapshotFresh ==
  \A p \in Pipes : \A r \in ToSet(hand[p]) : p \notin req[r].done =>
    /\ p \in req[r].pipeUsed /\ r \notin ToSet(pending)
    /\ req[r].seq[p] <= deq[p]

\* When user space may queue a request again, the driver has unlinked it.
RequeuedWhenUnlinked ==
  pc[User] = "idle" => \A r \in Reqs :
    req[r].held = {} => r \notin ToSet(pending \o batch \o running)

\* The driver knows every request whose buffers it holds.
NoRequestLost ==
  \A r \in Reqs : req[r].held # {} =>
    \/ r \in ToSet(pending \o batch \o running)
    \/ \E t \in Threads : r \in ToSet(hand[t])

\* "all bufs of node should be return by per requests"
\* (mtk_cam-video.c:356): stop_streaming leaves no buffer behind.
StopReturnsAllBuffers == ~warned

\* While a pipe streams its buffers go back in the order of their frames.
ReturnedInFrameOrder ==
  [][\A r, x \in Reqs : \A p \in streaming :
       (/\ p \in req[r].held /\ p \notin req'[r].held
        /\ p \in req[x].held /\ p \in req[x].handed /\ x \in ToSet(running))
       => req[r].seq[p] <= req[x].seq[p]]_vars

\* A request queued for a streaming pipe gets its buffers back, however many
\* requests wait before it, unless the pipe is stopped.
QueuedIsReturned ==
  \A r \in Reqs, p \in Pipes :
    (p \in req[r].held /\ p \in streaming) ~> (p \notin req[r].held \/ p \notin streaming \/ warned)

\* STREAMOFF ends: neither cancel_work_sync nor the drain waits for ever.
StopEnds == pc[User] = "halt" ~> (pc[User] = "idle" \/ warned)
=============================================================================
