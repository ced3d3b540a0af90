------------------------------- MODULE Imgsys -------------------------------
(***************************************************************************)
(* The request path of the image system (platform/mtk-isp/isp_70/imgsys):  *)
(* a request is composed and sent to the daemon, which announces its groups *)
(* of frames; the runner gives the tasks of a group to the command queue    *)
(* (GCE), whose call-backs finish the request.  STREAMOFF flushes and       *)
(* disconnects.                                                            *)
(*                                                                         *)
(* One pipe.  QBUF, STREAMON and STREAMOFF are serialised by the media      *)
(* device's req_queue_mutex.  The messages to the daemon are those of       *)
(* module Hcp; here they are a queue.                                      *)
(* External: the daemon announces the groups of a request once each, the    *)
(* first one first, from one thread, and answers DEINIT when it has fetched *)
(* what was sent before and announces nothing any more; a GCE thread runs   *)
(* the tasks of a group in order.                                          *)
(***************************************************************************)
EXTENDS Integers, FiniteSets, Sequences

CONSTANTS
  Reqs, Groups,
  ReqOf,        \* the request of each group
  Firsts,       \* the groups with subframe 0, one of each request
  Tasks,        \* of each group: a sequence of is_earlycb, one for each task
  None,
  NBufs,        \* DIP_SUB_FRM_DATA_NUM working buffers
  NComposing,   \* DIP_COMPOSING_MAX_NUM
  NWorks,       \* GCE_WORK_NR
  MaxSession,   \* bound of the model: times the stream is started
  MaxFault      \* bound of the model: sends, task submissions that fail, hangs

ASSUME ImgsysAssumption ==
  /\ ReqOf \in [Groups -> Reqs] /\ Firsts \subseteq Groups
  /\ \A r \in Reqs : \E g \in Firsts : ReqOf[g] = r
  /\ \A g, h \in Firsts : ReqOf[g] = ReqOf[h] => g = h
  /\ Tasks \in [Groups -> Seq(BOOLEAN)] /\ \A g \in Groups : Tasks[g] # <<>>
  /\ None \notin Groups /\ IsFiniteSet(Groups) /\ IsFiniteSet(Reqs)
  /\ NBufs \in Nat /\ NComposing \in Nat /\ NWorks \in Nat
  /\ MaxSession \in Nat /\ MaxFault \in Nat

GroupsOf(r) == {g \in Groups : ReqOf[g] = r}

LastTask(g) == Len(Tasks[g])

\* exp_totalcb_cnt: a call-back for each early task and for the last one of
\* each group.
CallBacks(g) == {<<g, k>> : k \in {k \in DOMAIN Tasks[g] : Tasks[g][k] \/ k = LastTask(g)}}
Expected(r) == Cardinality(UNION {CallBacks(g) : g \in GroupsOf(r)})

VARIABLES
  session,   \* times the stream was started
  streaming, \* pipe->streaming
  stop,      \* where the stream is: off, on, or a place in STREAMOFF
  born,      \* of each request: the session it was queued in
  bufs,      \* of each request: who has its buffers, and what was said of them
  hang,      \* requests with FRAME_STATE_HW_TIMEOUT
  wbuf,      \* requests that have a working buffer
  freeBufs,  \* length of imgsys_freebufferlist
  enqueueWq, \* enqueue_wq: requests to be mapped and composed
  composer,  \* "idle", or "send": past the semaphore
  sem, numComposing,
  chan,      \* FRAME messages on their way to the daemon
  group,     \* of each group: how far it is
  record,    \* reqfd_cbinfo_list: call-backs counted so far
  handler,   \* the group in imgsys_scp_handler
  freeWorks, \* length of the free list of gwork_pool
  runQ, enabled, \* runnerque, and whether its thread exists
  runner,    \* the group in imgsys_runner_func
  flushed,   \* of each group: tasks given to the command queue
  done,      \*   and tasks the hardware has finished
  cbCnt,     \* cb_frmcnt
  failed,    \* groups with fail_isHWhang
  cbWq,      \* imgsys_cmdq_wq: finished tasks
  cb,        \* the group and stage of imgsys_mdp_cb_func
  mdpcbWq,   \* groups of gce_timeout_works
  gceRef,    \* kref of the GCE working buffer
  faults     \* how often a step failed

requests == <<born, bufs, hang, wbuf, freeBufs>>
compose  == <<enqueueWq, composer, sem, numComposing, chan>>
handling == <<group, record, handler>>
running  == <<freeWorks, runQ, enabled, runner, flushed>>
hardware == <<done, cbCnt, failed, cbWq, cb, mdpcbWq>>
stream   == <<session, streaming, stop>>
vars == <<stream, requests, compose, handling, running, hardware, gceRef, faults>>

Stops == {"off", "on", "flush", "deinit", "disable", "join", "return"}
GroupStates == {"idle", "daemon", "handler", "queued", "running", "hw", "dropped"}
NoCb == [group |-> None, stage |-> "none"]

Init ==
  /\ session = 0 /\ streaming = FALSE /\ stop = "off"
  /\ born = [r \in Reqs |-> 0] /\ bufs = [r \in Reqs |-> "user"]
  /\ hang = {} /\ wbuf = {} /\ freeBufs = NBufs
  /\ enqueueWq = <<>> /\ composer = "idle" /\ sem = NComposing
  /\ numComposing = 0 /\ chan = <<>>
  /\ group = [g \in Groups |-> "idle"] /\ record = [r \in Reqs |-> None]
  /\ handler = None
  /\ freeWorks = 0 /\ runQ = <<>> /\ enabled = FALSE /\ runner = None
  /\ flushed = [g \in Groups |-> 0] /\ done = [g \in Groups |-> 0]
  /\ cbCnt = [g \in Groups |-> 0] /\ failed = {} /\ cbWq = <<>> /\ cb = NoCb
  /\ mdpcbWq = <<>> /\ gceRef = 0 /\ faults = 0

Fault == faults < MaxFault /\ faults' = faults + 1
HwOpLockFree == stop \notin {"deinit", "disable", "join"}

-----------------------------------------------------------------------------
(* User space: STREAMON and queueing a request.                            *)

\* mtk_imgsys_hw_connect: pools, the message channel and the reference count
\* start anew; the semaphore does not.
StreamOn ==
  /\ stop = "off" /\ session < MaxSession
  /\ session' = session + 1 /\ streaming' = TRUE /\ stop' = "on"
  /\ freeBufs' = NBufs /\ chan' = <<>> /\ numComposing' = 0
  /\ freeWorks' = NWorks /\ runQ' = <<>> /\ enabled' = TRUE
  /\ gceRef' = 1
  /\ UNCHANGED <<born, bufs, hang, wbuf, enqueueWq, composer, sem, handling,
                 runner, flushed, hardware, faults>>

\* A request without a working buffer stays where it is.
Queue(r) ==
  /\ stop = "on" /\ bufs[r] = "user"
  /\ born' = [born EXCEPT ![r] = session]
  /\ bufs' = [bufs EXCEPT ![r] = "driver"]
  /\ IF freeBufs > 0
     THEN /\ freeBufs' = freeBufs - 1 /\ wbuf' = wbuf \cup {r}
          /\ enqueueWq' = Append(enqueueWq, r)
     ELSE UNCHANGED <<freeBufs, wbuf, enqueueWq>>
  /\ UNCHANGED <<stream, hang, composer, sem, numComposing, chan, handling,
                 running, hardware, gceRef, faults>>

-----------------------------------------------------------------------------
(* iova_worker and imgsys_composer_workfunc, on the ordered enqueue_wq.     *)

ComposerDown ==
  /\ enqueueWq # <<>> /\ composer = "idle" /\ sem > 0
  /\ sem' = sem - 1 /\ composer' = "send"
  /\ UNCHANGED <<stream, requests, enqueueWq, numComposing, chan, handling,
                 running, hardware, gceRef, faults>>

\* mtk_imgsys_pipe_job_finish: only a request that is still queued has buffers
\* to return.
Finish(r, state) == bufs' = [bufs EXCEPT ![r] = IF @ = "driver" THEN state ELSE @]
FreeBuf(r) == freeBufs' = freeBufs + 1 /\ wbuf' = wbuf \ {r}

\* A message that cannot be sent fails the request; num_composing, the
\* semaphore and the reference keep what they have.
ComposerSend ==
  /\ composer = "send" /\ HwOpLockFree
  /\ composer' = "idle" /\ enqueueWq' = Tail(enqueueWq)
  /\ numComposing' = numComposing + 1
  /\ \/ /\ chan' = Append(chan, Head(enqueueWq))
        /\ UNCHANGED <<requests, faults>>
     \/ /\ Fault
        /\ Finish(Head(enqueueWq), "error") /\ FreeBuf(Head(enqueueWq))
        /\ UNCHANGED <<chan, born, hang>>
  /\ UNCHANGED <<stream, sem, handling, running, hardware, gceRef>>

-----------------------------------------------------------------------------
(* The daemon, and imgsys_scp_handler.                                     *)

DaemonFetch ==
  /\ stop \in {"on", "flush", "deinit"} /\ chan # <<>>
  /\ chan' = Tail(chan)
  /\ group' = [g \in Groups |-> IF ReqOf[g] = Head(chan) THEN "daemon" ELSE group[g]]
  /\ UNCHANGED <<stream, requests, enqueueWq, composer, sem, numComposing,
                 record, handler, running, hardware, gceRef, faults>>

\* The first half of the handler: the semaphore goes up for every group, the
\* record is made by the first.
ClearedByEach(g) == [record EXCEPT ![ReqOf[g]] = 0]                        \* fault
MadeByFirst(g) == IF g \in Firsts THEN [record EXCEPT ![ReqOf[g]] = 0] ELSE record
Announce(g) ==
  /\ handler = None /\ group[g] = "daemon"
  /\ g \in Firsts \/ \A h \in GroupsOf(ReqOf[g]) \cap Firsts : group[h] # "daemon"
  /\ handler' = g /\ group' = [group EXCEPT ![g] = "handler"]
  /\ sem' = sem + 1
  /\ record' = MadeByFirst(g)
  /\ UNCHANGED <<stream, requests, enqueueWq, composer, numComposing, chan,
                 running, hardware, gceRef, faults>>

\* get_gce_work, mtk_hcp_get_gce_buffer and imgsys_queue_add.
NotCounted == gceRef                                                      \* fault
OneMore == gceRef + 1
HandlerQueue(g) ==
  /\ handler = g /\ freeWorks > 0
  /\ freeWorks' = freeWorks - 1 /\ gceRef' = OneMore
  /\ IF enabled THEN runQ' = Append(runQ, g) /\ group' = [group EXCEPT ![g] = "queued"]
                ELSE group' = [group EXCEPT ![g] = "dropped"] /\ UNCHANGED runQ
  /\ handler' = None
  /\ UNCHANGED <<stream, requests, compose, record, enabled, runner, flushed,
                 hardware, faults>>

\* No work in three seconds: the group is dropped.
HandlerNoWork(g) ==
  /\ handler = g /\ freeWorks = 0 /\ Fault
  /\ group' = [group EXCEPT ![g] = "dropped"] /\ handler' = None
  /\ UNCHANGED <<stream, requests, compose, record, running, hardware, gceRef>>

-----------------------------------------------------------------------------
(* The runner: worker_func, imgsys_runner_func, imgsys_cmdq_sendtask.       *)

RunnerTake ==
  /\ enabled /\ runner = None /\ runQ # <<>>
  /\ runner' = Head(runQ) /\ runQ' = Tail(runQ)
  /\ group' = [group EXCEPT ![Head(runQ)] = "running"]
  /\ gceRef' = gceRef + 1
  /\ UNCHANGED <<stream, requests, compose, record, handler, freeWorks, enabled,
                 flushed, hardware, faults>>

RunnerFlush ==
  /\ runner # None /\ flushed[runner] < LastTask(runner)
  /\ flushed' = [flushed EXCEPT ![runner] = @ + 1]
  /\ UNCHANGED <<stream, requests, compose, handling, freeWorks, runQ, enabled,
                 runner, hardware, gceRef, faults>>

\* All tasks were given to the hardware, or one of them was refused.
RunnerEnd ==
  /\ runner # None
  /\ \/ flushed[runner] = LastTask(runner) /\ UNCHANGED faults
     \/ flushed[runner] < LastTask(runner) /\ Fault
  /\ group' = [group EXCEPT ![runner] = IF flushed[runner] = LastTask(runner) THEN "hw" ELSE "dropped"]
  /\ runner' = None /\ freeWorks' = freeWorks + 1 /\ gceRef' = gceRef - 1
  /\ UNCHANGED <<stream, requests, compose, record, handler, runQ, enabled,
                 flushed, hardware>>

-----------------------------------------------------------------------------
(* The command queue: imgsys_cmdq_task_cb, imgsys_cmdq_cb_work,             *)
(* imgsys_mdp_cb_func and the time-out path.                               *)

\* A hanging task is reported by a work of its own, before its call-back is
\* queued; without a stream it is not.
TaskDone(g) ==
  /\ done[g] < flushed[g]
  /\ done' = [done EXCEPT ![g] = @ + 1]
  /\ cbWq' = Append(cbWq, [group |-> g, task |-> done[g] + 1])
  /\ \/ UNCHANGED <<mdpcbWq, gceRef, faults>>
     \/ /\ Fault /\ streaming
        /\ mdpcbWq' = Append(mdpcbWq, g) /\ gceRef' = gceRef + 1
  /\ UNCHANGED <<stream, requests, compose, handling, running, cbCnt, failed, cb>>

\* cmdq_cb_timeout_worker
TimeoutWork ==
  /\ mdpcbWq # <<>>
  /\ failed' = IF streaming THEN failed \cup {Head(mdpcbWq)} ELSE failed
  /\ mdpcbWq' = Tail(mdpcbWq) /\ gceRef' = gceRef - 1
  /\ UNCHANGED <<stream, requests, compose, handling, running, done, cbCnt, cbWq, cb, faults>>

\* total_taskcnt: known once the last task was given to the hardware.
Total(g) == IF flushed[g] = LastTask(g) THEN LastTask(g) ELSE 0

\* imgsys_cmdq_cb_work calls imgsys_mdp_cb_func for an early task and for the
\* last one; the call-back is counted, and the last one expected is to notify
\* while the pipe streams.
OneTooFew(r, n) == n + 1 = Expected(r) - 1                                \* fault
AllCalled(r, n) == n + 1 = Expected(r)
CbWork ==
  /\ cbWq # <<>> /\ cb = NoCb
  /\ LET t == Head(cbWq)
         g == t.group
         r == ReqOf[g]
         last == cbCnt[g] + 1 = Total(g)
         called == last \/ Tasks[g][t.task]
         notify == called /\ streaming /\ record[r] # None /\ AllCalled(r, record[r])
     IN /\ cbCnt' = [cbCnt EXCEPT ![g] = @ + 1]
        /\ record' = IF ~called \/ record[r] = None THEN record
                     ELSE [record EXCEPT ![r] = IF AllCalled(r, @) THEN None ELSE @ + 1]
        /\ hang' = IF called /\ g \in failed THEN hang \cup {r} ELSE hang
        /\ cb' = IF notify THEN [group |-> g, stage |-> IF last THEN "notifyLast" ELSE "notify"]
                 ELSE IF last THEN [group |-> g, stage |-> "put"] ELSE NoCb
  /\ cbWq' = Tail(cbWq)
  /\ UNCHANGED <<stream, born, bufs, wbuf, freeBufs, compose, group, handler,
                 running, done, failed, mdpcbWq, gceRef, faults>>

\* mtk_imgsys_notify up to the working buffer.
Notify ==
  /\ cb.stage \in {"notify", "notifyLast"}
  /\ numComposing' = numComposing - 1
  /\ FreeBuf(ReqOf[cb.group])
  /\ cb' = [cb EXCEPT !.stage = IF @ = "notify" THEN "finish" ELSE "finishLast"]
  /\ UNCHANGED <<stream, born, bufs, hang, enqueueWq, composer, sem, chan, handling,
                 running, done, cbCnt, failed, cbWq, mdpcbWq, gceRef, faults>>

\* A request whose hardware hung is not finished: its buffers stay.
NotifyFinish ==
  /\ cb.stage \in {"finish", "finishLast"}
  /\ IF ReqOf[cb.group] \in hang THEN UNCHANGED bufs ELSE Finish(ReqOf[cb.group], "done")
  /\ cb' = IF cb.stage = "finishLast" THEN [cb EXCEPT !.stage = "put"] ELSE NoCb
  /\ UNCHANGED <<stream, born, hang, wbuf, freeBufs, compose, handling, running,
                 done, cbCnt, failed, cbWq, mdpcbWq, gceRef, faults>>

\* cmdq_cb_done_worker and mtk_hcp_put_gce_buffer.
CbPut ==
  /\ cb.stage = "put"
  /\ gceRef' = gceRef - 1 /\ cb' = NoCb
  /\ UNCHANGED <<stream, requests, compose, handling, running, done, cbCnt, failed,
                 cbWq, mdpcbWq, faults>>

-----------------------------------------------------------------------------
(* STREAMOFF: mtk_imgsys_vb2_stop_streaming.                               *)

StopBegin ==
  /\ stop = "on" /\ stop' = "flush" /\ streaming' = FALSE
  /\ UNCHANGED <<session, requests, compose, handling, running, hardware, gceRef, faults>>

\* The hardware and its call-backs have nothing to do.
Quiet ==
  /\ \A g \in Groups : done[g] = flushed[g]
  /\ runQ = <<>> /\ runner = None /\ cbWq = <<>> /\ cb = NoCb /\ mdpcbWq = <<>>

\* The wait for num_composing ends, or times out: what the hardware has
\* finished meanwhile is not subtracted.  (The list of running jobs that it
\* would finish is empty: JOB_RUN is not defined.)
FlushAtOnce == TRUE                                                       \* fault
FlushForever == numComposing = 0                                          \* fault
Flushed == numComposing = 0 \/ Quiet
FlushEnd ==
  /\ stop = "flush" /\ Flushed
  /\ stop' = "deinit"
  /\ UNCHANGED <<session, streaming, requests, compose, handling, running, hardware,
                 gceRef, faults>>

\* HCP_IMGSYS_DEINIT and its answer, under hw_op_lock.
Deinit ==
  /\ stop = "deinit" /\ chan = <<>> /\ handler = None
  /\ group' = [g \in Groups |-> IF group[g] = "daemon" THEN "dropped" ELSE group[g]]
  /\ stop' = "disable"
  /\ UNCHANGED <<session, streaming, requests, compose, record, handler, running,
                 hardware, gceRef, faults>>

\* imgsys_queue_disable waits 300 ms for the queue to drain, then stops the
\* thread; what is queued then never runs.
QueueDisable ==
  /\ stop = "disable"
  /\ \/ runQ = <<>> /\ UNCHANGED faults
     \/ runQ # <<>> /\ Fault
  /\ enabled' = FALSE /\ stop' = "join"
  /\ UNCHANGED <<session, streaming, requests, compose, handling, freeWorks, runQ,
                 runner, flushed, hardware, gceRef>>

\* kthread_stop, the release of the working buffers, and the purge.
ReleaseBuffers ==
  /\ stop = "join" /\ runner = None
  /\ gceRef' = gceRef - 1 /\ chan' = <<>> /\ stop' = "return"
  /\ UNCHANGED <<session, streaming, requests, enqueueWq, composer, sem, numComposing,
                 handling, running, hardware, faults>>

\* mtk_imgsys_return_all_buffers
ReturnAll ==
  /\ stop = "return" /\ stop' = "off"
  /\ bufs' = [r \in Reqs |-> IF bufs[r] = "driver" THEN "error" ELSE bufs[r]]
  /\ UNCHANGED <<session, streaming, born, hang, wbuf, freeBufs, compose, handling,
                 running, hardware, gceRef, faults>>

Composer == ComposerDown \/ ComposerSend
Handler == \E g \in Groups : Announce(g) \/ HandlerQueue(g) \/ HandlerNoWork(g)
Runner == RunnerTake \/ RunnerFlush \/ RunnerEnd
CallBack == CbWork \/ Notify \/ NotifyFinish \/ CbPut
Stop == FlushEnd \/ Deinit \/ QueueDisable \/ ReleaseBuffers \/ ReturnAll

Next ==
  \/ StreamOn \/ StopBegin \/ \E r \in Reqs : Queue(r)
  \/ Composer \/ DaemonFetch \/ Handler \/ Runner
  \/ \E g \in Groups : TaskDone(g)
  \/ CallBack \/ TimeoutWork \/ Stop

Spec == Init /\ [][Next]_vars

\* Work queues and threads run, the daemon serves its messages and the
\* hardware finishes its tasks; user space promises nothing.
FairSpec ==
  /\ Spec
  /\ WF_vars(Composer) /\ WF_vars(DaemonFetch) /\ WF_vars(Handler) /\ WF_vars(Runner)
  /\ \A g \in Groups : WF_vars(TaskDone(g))
  /\ WF_vars(CallBack) /\ WF_vars(TimeoutWork) /\ WF_vars(Stop)

-----------------------------------------------------------------------------
CbStages == {"none", "notify", "notifyLast", "finish", "finishLast", "put"}

TypeOK ==
  /\ session \in 0 .. MaxSession /\ streaming \in BOOLEAN /\ stop \in Stops
  /\ born \in [Reqs -> 0 .. MaxSession]
  /\ bufs \in [Reqs -> {"user", "driver", "done", "error"}]
  /\ hang \subseteq Reqs /\ wbuf \subseteq Reqs /\ freeBufs \in 0 .. NBufs
  /\ enqueueWq \in Seq(Reqs) /\ composer \in {"idle", "send"}
  /\ sem \in Nat /\ numComposing \in Int /\ chan \in Seq(Reqs)
  /\ group \in [Groups -> GroupStates]
  /\ record \in [Reqs -> Nat \cup {None}] /\ handler \in Groups \cup {None}
  /\ freeWorks \in 0 .. NWorks /\ runQ \in Seq(Groups) /\ enabled \in BOOLEAN
  /\ runner \in Groups \cup {None}
  /\ flushed \in [Groups -> Nat] /\ done \in [Groups -> Nat] /\ cbCnt \in [Groups -> Nat]
  /\ failed \subseteq Groups
  /\ cbWq \in Seq([group : Groups, task : Nat]) /\ mdpcbWq \in Seq(Groups)
  /\ cb \in [group : Groups \cup {None}, stage : CbStages]
  /\ gceRef \in Nat /\ faults \in 0 .. MaxFault

\* The buffers of a request are reported done only when the hardware has
\* finished every task of every one of its groups, in whatever order the
\* call-backs of the groups come.
DoneIsComplete ==
  \A r \in Reqs : bufs[r] = "done" =>
    \A g \in GroupsOf(r) : cbCnt[g] = LastTask(g)

\* The GCE memory, which holds the commands and the frame information, is
\* not released while a group is with the runner, the hardware or a call-back.
UsesGce(g) ==
  \/ group[g] \in {"queued", "running"} /\ enabled
  \/ done[g] < flushed[g] \/ cb.group = g
  \/ \E i \in DOMAIN cbWq : cbWq[i].group = g
  \/ \E i \in DOMAIN mdpcbWq : mdpcbWq[i] = g
GceMemoryHeld == (\E g \in Groups : UsesGce(g)) => gceRef > 0

\* "The job may be aleady removed by streamoff, so I need to check it by id
\* here" (mtk_imgsys-sys.c:527): a request that is notified is one that was
\* queued in this stream and not yet returned by STREAMOFF.
NotifiedIsRunning ==
  cb.stage \in {"notify", "notifyLast"} =>
    LET r == ReqOf[cb.group] IN born[r] = session /\ bufs[r] = "driver"

\* STREAMOFF ends, whatever failed; and every request that got a working
\* buffer leaves the driver, unless something failed.  (Each request is queued
\* once and the sessions are bounded, so "eventually always" says it.)
AtRest ==
  /\ stop \in {"off", "on"}
  /\ faults > 0 \/ \A r \in wbuf : bufs[r] # "driver"
EveryRequestReturned == <>[]AtRest
=============================================================================
