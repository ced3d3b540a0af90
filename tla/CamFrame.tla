------------------------------ MODULE CamFrame ------------------------------
(***************************************************************************)
(* The frames of one streaming raw pipe with a sensor, from the enqueue of  *)
(* a request to the return of its buffers (camsys/src/mtk_cam-ctrl.c,       *)
(* mtk_cam.c, mtk_cam-raw.c): composer round trip, sensor setting, CQ load, *)
(* SOF, CQ-done and frame-done interrupts, the state E_STATE_* of each      *)
(* request.                                                                 *)
(*                                                                         *)
(* Configuration: feature_active = 0, USINGSCQ = 1, INITIAL_REQ_SYNC = 0,   *)
(* no exposure or sensor switch.  The threads are the holder of queue_lock, *)
(* composer_wq, the CCD thread that brings acks, the sensor kthread, the    *)
(* deadline timer, the threaded interrupt handler and frame_done_wq.        *)
(***************************************************************************)
EXTENDS Integers, Sequences, FiniteSets, SequencesExt

CONSTANTS
  MaxJobs,   \* RAW_PIPELINE_NUM * MTK_CAM_MAX_RUNNING_JOBS
  CqBufs,    \* CAM_CQ_BUF_NUM, the buffers of the pool
  FifoSize,  \* events msg_fifo can hold
  CntMod,    \* 2^8: the write counter the SOF interrupt reads is a byte
  KickAfter, \* 3: enqueue sets the sensor only for dequeued frames above it
  MaxFrame,  \* bound of the model: frames enqueued
  MaxFaults  \* bound of the model: SOFs that find the last frame unfinished,
             \* and events dropped by a full msg_fifo

ASSUME ConstantsAssumption ==
  /\ MaxJobs \in Nat \ {0} /\ CqBufs \in Nat \ {0} /\ FifoSize \in Nat \ {0} /\ CntMod \in Nat \ {0}
  /\ KickAfter \in Nat /\ MaxFrame \in Nat \ {0} /\ MaxFaults \in Nat
  /\ MaxJobs < CntMod   \* the counter tells the running jobs apart

Frames == 1 .. MaxFrame

\* enum MTK_CAMSYS_STATE_IDX; the code compares these numbers.
READY == 0          SENSOR == 2         CQ == 3              OUTER == 4
INNER == 7          DONE_NORMAL == 8    CQ_SCQ_DELAY == 9
OUTER_HW_DELAY == 11  INNER_HW_DELAY == 12  DONE_MISMATCH == 13
EStates == {READY, SENSOR, CQ, OUTER, INNER, DONE_NORMAL, CQ_SCQ_DELAY,
            OUTER_HW_DELAY, INNER_HW_DELAY, DONE_MISMATCH}

VARIABLES
  \* requests, by frame number: running_job_list, the states and their list,
  \* frame_done_work.is_queued, and the state of the returned buffers
  running, estate, stateList, isQueued, result,
  \* enqueued_frame_seq_no, dequeued_frame_seq_no, and of sensor_ctrl
  \* sensor_enq_seq_no, sensor_request_seq_no, isp_request_seq_no and
  \* last_drained_seq_no
  enqueued, dequeued, sensorEnq, sensorSeq, ispSeq, lastDrained,
  \* CQ buffers, by the frame they are filled for: waiting for composer_wq,
  \* using, composed and processing list, composed_frame_seq_no
  txWq, using, composedList, processing, composed,
  \* threads: the enqueuer, the sensor kthread and its work, the deadline timer,
  \* frame_done_wq and the frame it dequeues
  enq, worker, kwork, timer, doneWq, deq,
  \* interrupts: status bits not yet read, msg_fifo, the threaded handler
  bits, fifo, irq, initialCqDone, sofCount,
  \* the hardware: view finder, outer and inner FRAME_SEQ_NUM, the CQ being
  \* loaded and the SOFs since its start, exposure, last frame written
  vf, outer, inner, cq, cqAge, exposing, written,
  faults   \* how often the bounded steps were taken

requests == <<running, estate, stateList, isQueued, result>>
counters == <<enqueued, dequeued, sensorEnq, sensorSeq, ispSeq, lastDrained>>
buffers  == <<txWq, using, composedList, processing, composed>>
sensor   == <<enq, worker, kwork, timer>>
done     == <<doneWq, deq>>
irqs     == <<bits, fifo, irq, initialCqDone, sofCount>>
hw       == <<vf, outer, inner, cq, cqAge, exposing, written>>
vars     == <<requests, counters, buffers, sensor, done, irqs, hw, faults>>

NoBits == [cq |-> FALSE, done |-> FALSE, sof |-> FALSE]
\* The threaded handler between events. idx, wcnt, fbc0: frame_idx_inner,
\* write_cnt and fbc_cnt = 0 of the SOF; inner, outer: the requests state_handle
\* found in these states; rec0: state_rec[0]; rec1: state_rec[1] if que_cnt > 1.
IdleIrq == [pc |-> "idle", idx |-> 0, wcnt |-> 0, fbc0 |-> FALSE, inner |-> 0, outer |-> 0,
            rec0 |-> 0, rec1 |-> 0]

Init ==
  /\ running = {} /\ stateList = {}
  /\ estate = [f \in Frames |-> READY]
  /\ isQueued = [f \in Frames |-> FALSE]
  /\ result = [f \in Frames |-> "none"]
  /\ enqueued = 0 /\ dequeued = 0 /\ sensorEnq = 0
  /\ sensorSeq = 0 /\ ispSeq = 0 /\ lastDrained = 0
  /\ txWq = <<>> /\ using = <<>> /\ composedList = <<>> /\ processing = {}
  /\ composed = 0
  /\ enq = "idle" /\ worker = "idle" /\ kwork = FALSE
  /\ timer = FALSE
  /\ doneWq = <<>> /\ deq = 0
  /\ bits = NoBits /\ fifo = <<>> /\ irq = IdleIrq
  /\ initialCqDone = FALSE /\ sofCount = 0
  /\ vf = FALSE /\ outer = 0 /\ inner = 0 /\ cq = 0 /\ cqAge = 0
  /\ exposing = FALSE /\ written = 0
  /\ faults = 0

\* state_transition on the request of frame f; f = 0 is a NULL entry.
Transit(es, f, from, to) ==
  IF f # 0 /\ es[f] = from THEN [es EXCEPT ![f] = to] ELSE es

-----------------------------------------------------------------------------
(* mtk_cam_set_sensor_full: enlist the request, then program the sensor.   *)

EnlistState(f) ==
  /\ stateList' = stateList \cup {f}
  /\ sensorSeq' = f

SetSensor(f) ==
  /\ estate' = Transit(estate, f, READY, SENSOR)
  /\ vf' = (vf \/ (initialCqDone /\ f = 1))

-----------------------------------------------------------------------------
(* mtk_cam_dev_req_try_queue and mtk_cam_dev_req_enqueue of one request,   *)
(* under queue_lock.                                                       *)

EnqNumber ==
  /\ enq = "idle" /\ enqueued < MaxFrame
  /\ Cardinality(running) < MaxJobs
  /\ enqueued' = enqueued + 1
  /\ enq' = "link"
  /\ UNCHANGED <<requests, dequeued, sensorEnq, sensorSeq, ispSeq, lastDrained,
                 buffers, worker, kwork, timer, done, irqs, hw, faults>>

\* The last step: queue the frame work.
QueueCompose ==
  /\ txWq' = Append(txWq, enqueued)
  /\ enq' = "idle"

\* The sensor worker is kicked here if the timer found no request before.
EnqLink ==
  /\ enq = "link"
  /\ running' = running \cup {enqueued}
  /\ sensorEnq' = enqueued
  /\ kwork' = (kwork \/ (dequeued > KickAfter /\ enqueued = lastDrained))
  /\ IF enqueued <= 2 THEN enq' = "enlist" /\ UNCHANGED txWq ELSE QueueCompose
  /\ UNCHANGED <<estate, stateList, isQueued, result, enqueued, dequeued, sensorSeq,
                 ispSeq, lastDrained, using, composedList, processing, composed,
                 worker, timer, done, irqs, hw, faults>>

\* Frames 1 and 2: mtk_cam_initial_sensor_setup.
EnqEnlist ==
  /\ enq = "enlist"
  /\ EnlistState(enqueued)
  /\ enq' = "set"
  /\ UNCHANGED <<running, estate, isQueued, result, enqueued, dequeued, sensorEnq,
                 ispSeq, lastDrained, buffers, worker, kwork, timer, done,
                 irqs, hw, faults>>

EnqSetSensor ==
  /\ enq = "set"
  /\ SetSensor(enqueued)
  /\ QueueCompose
  /\ UNCHANGED <<running, stateList, isQueued, result, counters, using, composedList,
                 processing, composed, worker, kwork, timer, done, irqs, outer, inner, cq, cqAge,
                 exposing, written, faults>>

Enqueue == EnqNumber \/ EnqLink \/ EnqEnlist \/ EnqSetSensor

-----------------------------------------------------------------------------
(* Composer round trip. The daemon answers frames in the order they were    *)
(* sent to it (CcdEndpoint), so the next ack is for the head of the list.   *)

\* CQ buffers that are not in the pool.
BuffersOut == ToSet(using) \cup ToSet(composedList) \cup processing

\* isp_tx_frame_worker; without a buffer it gives up under a WARN.
TxFrame ==
  /\ txWq # <<>>
  /\ txWq' = Tail(txWq)
  /\ using' = IF Cardinality(BuffersOut) < CqBufs THEN Append(using, Head(txWq))
              ELSE using
  /\ UNCHANGED <<requests, counters, composedList, processing, composed,
                 sensor, done, irqs, hw, faults>>

\* isp_composer_handle_ack, under the lock of the using list; frame 1 is
\* applied at once.
Ack ==
  /\ using # <<>>
  /\ using' = Tail(using)
  /\ composed' = Head(using)
  /\ IF Head(using) = 1
     THEN /\ processing' = processing \cup {1} /\ cq' = 1 /\ cqAge' = 0
          /\ UNCHANGED composedList
     ELSE /\ composedList' = Append(composedList, Head(using))
          /\ UNCHANGED <<processing, cq, cqAge>>
  /\ UNCHANGED <<requests, counters, txWq, sensor, done, irqs, vf, outer, inner,
                 exposing, written, faults>>

Composer == TxFrame \/ Ack

-----------------------------------------------------------------------------
(* mtk_cam_try_set_sensor, run by the sensor kthread for frames above 2.    *)

\* The request before the last one set is listed and has not reached INNER.
PrevNotInner == sensorSeq - 1 \in stateList /\ estate[sensorSeq - 1] < INNER

\* The CQ of the last request set is still being loaded.
CqNotDone == sensorSeq \in stateList /\ estate[sensorSeq] = CQ /\ sensorSeq > 1

LastNotCheckedYet == FALSE                                               \* fault
\* No SOF has taken up the last request set.
LastNotApplied == sensorSeq \in stateList /\ estate[sensorSeq] <= SENSOR

\* mtk_cam_get_req_s_data finds the request of the next frame.
NextLinked == sensorSeq + 1 \in running

MaySetNext ==
  sensorSeq + 1 > 2 /\ ~PrevNotInner /\ ~CqNotDone /\ ~LastNotApplied /\ NextLinked

TrySetSensor ==
  /\ worker = "idle" /\ kwork
  /\ kwork' = FALSE
  /\ estate' = IF sensorSeq + 1 > 2 /\ ~PrevNotInner /\ CqNotDone
               THEN [estate EXCEPT ![sensorSeq] = CQ_SCQ_DELAY] ELSE estate
  /\ IF MaySetNext THEN EnlistState(sensorSeq + 1) /\ worker' = "set"
     ELSE UNCHANGED <<stateList, sensorSeq, worker>>
  /\ UNCHANGED <<running, isQueued, result, enqueued, dequeued, sensorEnq, ispSeq,
                 lastDrained, buffers, enq, timer, done, irqs, hw, faults>>

WorkerSetSensor ==
  /\ worker = "set"
  /\ SetSensor(sensorSeq)
  /\ worker' = "idle"
  /\ UNCHANGED <<running, stateList, isQueued, result, counters, buffers, enq,
                 kwork, timer, done, irqs, outer, inner, cq, cqAge,
                 exposing, written, faults>>

SensorWorker == TrySetSensor \/ WorkerSetSensor

-----------------------------------------------------------------------------
(* sensor_deadline_timer_handler, armed at every SOF.                      *)

Drained == sensorSeq + 1 > enqueued

\* Without a request the sensor is left to the enqueue of the next one.
DeadlineTimer ==
  /\ timer /\ timer' = FALSE
  /\ IF ~Drained /\ sensorEnq = enqueued
     THEN kwork' = TRUE /\ UNCHANGED lastDrained
     ELSE lastDrained' = sensorSeq + 1 /\ UNCHANGED kwork
  /\ UNCHANGED <<requests, enqueued, dequeued, sensorEnq, sensorSeq, ispSeq, buffers,
                 enq, worker, done, irqs, hw, faults>>

-----------------------------------------------------------------------------
(* The hardware, as the handlers take it to be. A CQ is loaded into the     *)
(* outer registers at the latest during the frame after the one it was      *)
(* applied in. The threaded handler takes up the event of a SOF before the  *)
(* next SOF, but may still be busy with it then. A SOF copies outer to      *)
(* inner, unless the last frame is not finished ("noDBLOAD"). A frame is    *)
(* written into its buffer once; the hardware repeats a frame, without      *)
(* writing, until the next CQ is there.                                     *)

HwCqLoad ==
  /\ cq # 0
  /\ outer' = cq /\ cq' = 0
  /\ bits' = [bits EXCEPT !.cq = TRUE]
  /\ UNCHANGED <<requests, counters, buffers, sensor, done, fifo, irq, initialCqDone,
                 sofCount, vf, inner, cqAge, exposing, written, faults>>

HwSofs ==
  /\ vf /\ ~bits.sof /\ (\A e \in ToSet(fifo) : ~e.sof) /\ ~(cq # 0 /\ cqAge = 1)
  /\ cqAge' = IF cq # 0 THEN 1 ELSE 0
  /\ bits' = [bits EXCEPT !.sof = TRUE]
  /\ UNCHANGED <<requests, counters, buffers, sensor, done, fifo, irq, initialCqDone,
                 sofCount, vf, outer, cq, written>>

HwSof ==
  /\ ~exposing /\ HwSofs
  /\ inner' = outer /\ exposing' = TRUE /\ UNCHANGED faults

HwLateSof ==
  /\ exposing /\ faults < MaxFaults /\ HwSofs
  /\ faults' = faults + 1 /\ UNCHANGED <<inner, exposing>>

HwDone ==
  /\ exposing /\ exposing' = FALSE
  /\ written' = IF inner > written THEN inner ELSE written
  /\ bits' = [bits EXCEPT !.done = TRUE]
  /\ UNCHANGED <<requests, counters, buffers, sensor, done, fifo, irq, initialCqDone,
                 sofCount, vf, outer, inner, cq, cqAge, faults>>

\* mtk_irq_raw: read the status bits and counters, push an event. The write
\* counter may be one behind fbc_cnt when all buffers have been used.
Irq ==
  /\ bits # NoBits /\ bits' = NoBits
  /\ sofCount' = IF bits.sof THEN 1 ELSE sofCount
  /\ IF Len(fifo) < FifoSize
     THEN \E lag \in (IF written = outer THEN {0, 1} ELSE {0}) :
            /\ fifo' = Append(fifo,
                 [cq |-> bits.cq, done |-> bits.done, sof |-> bits.sof,
                  outer |-> IF bits.cq THEN outer ELSE 0,
                  inner |-> IF bits.sof THEN inner ELSE 0,
                  wcnt |-> IF bits.sof THEN ((written + 1 - lag) % CntMod) - 1 ELSE 0,
                  fbc0 |-> bits.sof /\ written = outer])
            /\ UNCHANGED faults
     ELSE faults < MaxFaults /\ faults' = faults + 1 /\ UNCHANGED fifo
  /\ UNCHANGED <<requests, counters, buffers, sensor, done, irq, initialCqDone, hw>>

Hardware == HwCqLoad \/ HwSof \/ HwLateSof \/ HwDone \/ Irq

-----------------------------------------------------------------------------
(* mtk_thread_irq_raw, mtk_camsys_event_handle_raw.                        *)

\* mtk_camsys_frame_done: queue the done work of frame f, unless it is queued.
QueueDone(f) ==
  IF f \in running /\ ~isQueued[f]
  THEN isQueued' = [isQueued EXCEPT ![f] = TRUE] /\ doneWq' = Append(doneWq, f)
  ELSE UNCHANGED <<isQueued, doneWq>>

\* mtk_camsys_raw_cq_done: the first one turns the view finder on.
CqDone(f) ==
  /\ IF sofCount = 0
     THEN initialCqDone' = TRUE /\ vf' = (vf \/ estate[1] >= SENSOR)
     ELSE UNCHANGED <<initialCqDone, vf>>
  /\ estate' = IF f \in stateList /\ f > ispSeq
                  /\ (f = 1 \/ estate[f] \in {CQ, CQ_SCQ_DELAY})
               THEN [estate EXCEPT ![f] = OUTER] ELSE estate

\* CQ done, then frame done of the frame of the last SOF, then SOF.
IrqTake ==
  /\ irq.pc = "idle" /\ fifo # <<>>
  /\ fifo' = Tail(fifo)
  /\ LET ev == Head(fifo) IN
     /\ IF ev.cq THEN CqDone(ev.outer) ELSE UNCHANGED <<initialCqDone, vf, estate>>
     /\ IF ev.done THEN QueueDone(dequeued) ELSE UNCHANGED <<isQueued, doneWq>>
     /\ irq' = IF ev.sof /\ vf THEN [IdleIrq EXCEPT !.pc = "scan", !.idx = ev.inner,
                                                    !.wcnt = ev.wcnt, !.fbc0 = ev.fbc0]
               ELSE IdleIrq
  /\ UNCHANGED <<running, stateList, result, counters, buffers, sensor, deq, bits,
                 sofCount, outer, inner, cq, cqAge, exposing, written, faults>>

\* mtk_camsys_raw_state_handle, under camsys_state_lock: the last three requests.
Recent(S) ==
  LET fs == {f \in stateList : sensorSeq - f \in 0 .. 2 /\ estate[f] \in S}
  IN IF fs = {} THEN 0 ELSE CHOOSE f \in fs : \A g \in fs : g <= f

IrqScan ==
  /\ irq.pc = "scan"
  /\ dequeued' = irq.idx
  /\ LET in == Recent({INNER, INNER_HW_DELAY}) IN
     irq' = [IdleIrq EXCEPT !.pc = "decide", !.idx = irq.idx, !.inner = in,
       !.wcnt = IF in # 0 THEN irq.wcnt ELSE 0,
       !.fbc0 = in # 0 /\ irq.fbc0,
       !.outer = Recent({OUTER, OUTER_HW_DELAY}),
       !.rec0 = IF sensorSeq \in stateList THEN sensorSeq ELSE 0,
       !.rec1 = IF Cardinality(stateList) > 1 /\ sensorSeq - 1 \in stateList
                THEN sensorSeq - 1 ELSE 0]
  /\ UNCHANGED <<requests, enqueued, sensorEnq, sensorSeq, ispSeq, lastDrained, buffers,
                 sensor, done, bits, fifo, initialCqDone, sofCount, hw, faults>>

\* The number of the last frame written, as far as the byte counter tells.
WriteCnt == (ispSeq \div CntMod) * CntMod + irq.wcnt

\* What to do about a request still in INNER at the next SOF.
DoneOnItsWay == irq.idx > ispSeq \/ isQueued[irq.inner]
\* The frame whose done interrupt was lost, 0 if the hardware is late.
LostDoneTrustsFbc == IF irq.fbc0 \/ WriteCnt >= irq.inner - 1 THEN WriteCnt + 1 ELSE 0 \* fault
LostDone ==
  CASE WriteCnt >= irq.inner                        -> WriteCnt
    [] WriteCnt = irq.inner - 1 /\ irq.fbc0      -> WriteCnt + 1
    [] OTHER                                        -> 0
HwIncomplete == irq.inner # 0 /\ ~DoneOnItsWay /\ LostDone = 0
NoDbLoad == irq.outer > irq.idx
Loaded == irq.outer # 0 /\ irq.outer = irq.idx /\ irq.idx > ispSeq

\* mtk_cam_sof_timer_setup arms the deadline timer at every SOF.
ArmedIfLoaded == timer \/ Loaded                                          \* fault
Armed == TRUE

\* The hardware is late: leave the request alone for this frame.
IrqHwDelay ==
  /\ irq.pc = "decide" /\ HwIncomplete
  /\ estate' = Transit(Transit(estate, irq.inner, INNER, INNER_HW_DELAY),
                       irq.outer, OUTER, OUTER_HW_DELAY)
  /\ irq' = IdleIrq
  /\ UNCHANGED <<running, stateList, isQueued, result, counters, buffers, sensor, done,
                 bits, fifo, initialCqDone, sofCount, hw, faults>>

\* OUTER to INNER, timer, and whether a CQ is to be applied.
IrqDecide ==
  /\ irq.pc = "decide" /\ ~HwIncomplete
  /\ IF irq.inner # 0 /\ ~DoneOnItsWay THEN QueueDone(LostDone)
     ELSE UNCHANGED <<isQueued, doneWq>>
  /\ IF NoDbLoad
     THEN irq' = IdleIrq /\ UNCHANGED <<estate, ispSeq, timer>>
     ELSE LET loaded == IF ~Loaded THEN estate
                        ELSE Transit(Transit(estate, irq.outer, OUTER_HW_DELAY, INNER_HW_DELAY),
                                     irq.outer, OUTER, INNER)
              es == IF irq.rec1 = 1 THEN Transit(loaded, 1, SENSOR, INNER)
                    ELSE loaded
          IN /\ ispSeq' = IF Loaded THEN irq.idx ELSE ispSeq
             /\ timer' = Armed
             /\ estate' = Transit(es, irq.rec0, CQ_SCQ_DELAY, OUTER)
             /\ irq' = IF irq.rec0 # 0 /\ es[irq.rec0] = SENSOR
                       THEN [IdleIrq EXCEPT !.pc = "apply", !.idx = irq.idx, !.rec0 = irq.rec0]
                       ELSE IdleIrq
  /\ UNCHANGED <<running, stateList, result, enqueued, dequeued, sensorEnq, sensorSeq,
                 lastDrained, buffers, enq, worker, kwork, deq, bits, fifo,
                 initialCqDone, sofCount, hw, faults>>

\* The rest of mtk_camsys_raw_frame_start: apply the next composed CQ.
IrqApply ==
  /\ irq.pc = "apply" /\ irq' = IdleIrq
  /\ IF composed <= irq.idx \/ composedList = <<>>
     THEN UNCHANGED <<composedList, processing, cq, cqAge, estate>>
     ELSE /\ composedList' = Tail(composedList)
          /\ processing' = processing \cup {Head(composedList)}
          /\ cq' = Head(composedList) /\ cqAge' = 0
          /\ estate' = Transit(estate, irq.rec0, SENSOR, CQ)
  /\ UNCHANGED <<running, stateList, isQueued, result, counters, txWq, using, composed,
                 sensor, done, bits, fifo, initialCqDone, sofCount, vf,
                 outer, inner, exposing, written, faults>>

IrqThread == IrqTake \/ IrqScan \/ IrqHwDelay \/ IrqDecide \/ IrqApply

-----------------------------------------------------------------------------
(* mtk_cam_handle_frame_done, run by frame_done_wq.                        *)

DonePrepare ==
  /\ deq = 0 /\ doneWq # <<>>
  /\ deq' = Head(doneWq) /\ doneWq' = Tail(doneWq)
  /\ estate' = IF deq' \in stateList
               THEN LET es == Transit(Transit(estate, deq', INNER_HW_DELAY, DONE_MISMATCH),
                                      deq', INNER, DONE_NORMAL)
                    IN IF ispSeq = 0 THEN Transit(es, deq', CQ, OUTER) ELSE es
               ELSE estate
  /\ UNCHANGED <<running, stateList, isQueued, result, counters, buffers, sensor, irqs,
                 hw, faults>>

\* The requests mtk_cam_dequeue_req_frame returns: up to the one that is done.
Dequeued == {f \in running : f <= deq}
\* mtk_camsys_state_delete of each of them.
StateOfDoneDeleted == stateList \ {deq}                                   \* fault
StatesLeft == stateList \ Dequeued

\* The next use of a returned request finds it in READY again.
DoneDequeue ==
  /\ deq # 0 /\ deq' = 0
  /\ result' = [f \in Frames |->
       IF f \notin Dequeued THEN result[f]
       ELSE IF f < deq \/ estate[f] = DONE_MISMATCH THEN "ERROR" ELSE "DONE"]
  /\ stateList' = StatesLeft
  /\ processing' = processing \ Dequeued
  /\ running' = running \ Dequeued
  /\ estate' = [f \in Frames |-> IF f \in Dequeued THEN READY ELSE estate[f]]
  /\ UNCHANGED <<isQueued, counters, txWq, using, composedList, composed,
                 sensor, doneWq, irqs, hw, faults>>

FrameDone == DonePrepare \/ DoneDequeue

Next == Enqueue \/ Composer \/ SensorWorker \/ DeadlineTimer \/ Hardware
        \/ IrqThread \/ FrameDone
Spec == Init /\ [][Next]_vars

\* Threads and interrupts are served and the sensor delivers frames. Nothing
\* is assumed of user space (EnqNumber), nor of the bounded steps.
FairSpec ==
  /\ Spec
  /\ WF_vars(EnqLink \/ EnqEnlist \/ EnqSetSensor)
  /\ WF_vars(TxFrame) /\ WF_vars(Ack)
  /\ WF_vars(SensorWorker) /\ WF_vars(DeadlineTimer)
  /\ WF_vars(HwCqLoad) /\ WF_vars(HwSof) /\ WF_vars(HwDone)
  /\ WF_vars(Irq) /\ WF_vars(IrqThread) /\ WF_vars(FrameDone)

-----------------------------------------------------------------------------
\* state_rec is not initialised: the scan at SOF may use state_rec[1] only if
\* the request before the last one set is listed too.
StateRecDefined ==
  Cardinality(stateList) > 1 => {sensorSeq, sensorSeq - 1} \subseteq stateList

\* A buffer returned as DONE holds the frame the hardware wrote.
DoneWasWritten == \A f \in Frames : result[f] = "DONE" => f <= written

\* The hardware does not write into a buffer user space has back.
NoWriteAfterReturn == exposing /\ inner > written => result[inner] = "none"

\* The CQ applied at a SOF is that of the request that moves to state CQ.
AppliedMatchesState ==
  [][cq' \notin {0, 1, cq} => estate[cq'] = SENSOR /\ estate'[cq'] = CQ]_vars

\* Every frame enqueued is returned, whatever interrupts are merged or lost.
EveryFrameReturned ==
  <>[](\A f \in 1 .. enqueued : result[f] # "none")
=============================================================================
