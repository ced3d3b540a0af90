--------------------------- MODULE CamFrameProofs ---------------------------
(***************************************************************************)
(* What TLAPS proves of CamFrame, for any numbers of jobs, buffers and      *)
(* frames and any order of the interrupts and threads: what is returned was *)
(* written, the hardware does not write into it any more, the scan of the   *)
(* state list at a SOF reads only entries it has filled, and the CQ applied *)
(* at a SOF is that of the request it moves to state CQ.                    *)
(*                                                                         *)
(* The argument follows the numbers of the frames: down the composer and    *)
(* the CQ registers they only grow (Flow), an interrupt carries numbers the *)
(* hardware has reached (Seen), a done interrupt is consumed before the SOF *)
(* that follows it (DoneSafe), and the byte counter read at a SOF stands    *)
(* for a frame that was written by then (WriteInv). ApplyInv adds that the   *)
(* sensor is set for the frame that follows the last one applied.           *)
(***************************************************************************)
EXTENDS CamFrame, FiniteSetTheorems, TLAPS

\* The last frame whose work was given to composer_wq, and the last one that
\* was linked to running_job_list.
Sent == IF enq = "idle" THEN enqueued ELSE enqueued - 1
Linked == IF enq = "link" THEN enqueued - 1 ELSE enqueued

Event == [cq : BOOLEAN, done : BOOLEAN, sof : BOOLEAN, outer : Nat, inner : Nat,
          wcnt : Int, fbc0 : BOOLEAN]
Handler == [pc : {"idle", "scan", "decide", "apply"}, idx : Nat, wcnt : Int,
            fbc0 : BOOLEAN, inner : Nat, outer : Nat, rec0 : Nat, rec1 : Nat]

TypeInv ==
  /\ running \subseteq 1 .. Linked /\ stateList \subseteq 1 .. Linked
  /\ estate \in [Frames -> EStates]
  /\ isQueued \in [Frames -> BOOLEAN] /\ result \in [Frames -> {"none", "DONE", "ERROR"}]
  /\ enqueued \in 0 .. MaxFrame /\ dequeued \in Nat /\ sensorSeq \in Nat /\ ispSeq \in Nat
  /\ txWq \in Seq(Nat) /\ using \in Seq(Nat) /\ composedList \in Seq(Nat)
  /\ enq \in {"idle", "link", "enlist", "set"} /\ (enq # "idle" => enqueued > 0)
  /\ doneWq \in Seq(Nat) /\ deq \in Nat
  /\ bits \in [cq : BOOLEAN, done : BOOLEAN, sof : BOOLEAN]
  /\ fifo \in Seq(Event) /\ irq \in Handler
  /\ vf \in BOOLEAN /\ initialCqDone \in BOOLEAN /\ exposing \in BOOLEAN
  /\ outer \in Nat /\ inner \in Nat /\ cq \in Nat /\ written \in Nat

\* No more requests run than the job limit allows.
Jobs == Cardinality(running) + (IF enq = "link" THEN 1 ELSE 0) <= MaxJobs

\* Frames move in order: those not yet loaded lie above those that are.
Above(n, q) == \A i \in 1 .. Len(q) : n < q[i]
Increasing(q) == \A i, j \in 1 .. Len(q) : i < j => q[i] < q[j]
Before(p, q) == \A i \in 1 .. Len(p), j \in 1 .. Len(q) : p[i] < q[j]
UpTo(n, q) == \A i \in 1 .. Len(q) : q[i] <= n
Under(n, q) == \A i \in 1 .. Len(q) : q[i] < n
Queues ==
  /\ Increasing(composedList) /\ Increasing(using) /\ Increasing(txWq)
  /\ Before(composedList, using) /\ Before(composedList, txWq) /\ Before(using, txWq)
  /\ UpTo(Sent, composedList) /\ UpTo(Sent, using) /\ UpTo(Sent, txWq)
Registers ==
  /\ \A n \in {outer, cq} : Above(n, composedList) /\ Above(n, using) /\ Above(n, txWq)
  /\ cq # 0 => outer < cq
  /\ cq <= Sent /\ outer <= Sent /\ inner <= outer /\ written <= inner
  /\ ~exposing => written = inner
Flow == Queues /\ Registers

\* The view finder is on only when the first CQ is loaded.
Started ==
  /\ vf \/ initialCqDone \/ bits.cq => outer > 0
  /\ \A i \in 1 .. Len(fifo) : fifo[i].cq => outer > 0
  /\ bits.sof \/ exposing => inner > 0

\* A request whose frame is exposed was the frame of a SOF.
InnerUpTo(es, n) == \A f \in Frames : es[f] \in {INNER, INNER_HW_DELAY} => f <= n

\* What events and counters say has happened; one SOF is under way at a time
\* between the interrupt and the handler.
SeenEvents ==
  \A i \in 1 .. Len(fifo) :
    /\ fifo[i].inner <= inner
    /\ fifo[i].sof => /\ ~bits.sof /\ fifo[i].inner > 0
                      /\ dequeued <= fifo[i].inner /\ irq.idx <= fifo[i].inner
    /\ ~fifo[i].sof => fifo[i].inner = 0
OneSof == \A i, j \in 1 .. Len(fifo) : fifo[i].sof /\ fifo[j].sof => i = j
SeenHandler ==
  /\ irq.idx <= inner /\ dequeued <= inner /\ ispSeq <= dequeued
  /\ irq.pc # "idle" => irq.idx > 0 /\ dequeued <= irq.idx
  /\ irq.pc \in {"decide", "apply"} => dequeued = irq.idx
  /\ irq.pc = "idle" => irq.idx = 0
  /\ irq.pc = "decide" => irq.inner <= irq.idx
Seen == SeenEvents /\ OneSof /\ SeenHandler /\ InnerUpTo(estate, dequeued)

\* Whenever a done interrupt is consumed, the frame it is taken for is written.
DoneSafe ==
  /\ bits.done => /\ dequeued <= written /\ irq.idx <= written
                  /\ \A j \in 1 .. Len(fifo) : fifo[j].inner <= written
  /\ \A i \in 1 .. Len(fifo) : fifo[i].done =>
       /\ dequeued <= written /\ irq.idx <= written
       /\ \A j \in 1 .. i - 1 : fifo[j].inner <= written

\* Frames that are done, or on their way through frame_done_wq, are at most n.
QueuedUpTo(n) ==
  /\ UpTo(n, doneWq) /\ deq <= n
  /\ \A f \in 1 .. Linked : f \notin running => f <= n

Returned == QueuedUpTo(written) /\ \A f \in Frames : result[f] # "none" => f <= written

\* The byte read at a SOF, when w was the last frame written.
Counted(c, full, w) ==
  \E lag \in {0, 1} : c = ((w + 1 - lag) % CntMod) - 1 /\ (lag = 1 => full)

\* wi and we: the last frame written when the SOF in the handler, and the one in
\* msg_fifo, were read.
Scanning == irq.pc = "scan" \/ (irq.pc = "decide" /\ irq.inner # 0)
WrittenAt(wi, we) ==
  /\ Scanning => /\ Counted(irq.wcnt, irq.fbc0, wi) /\ QueuedUpTo(wi)
                 /\ irq.fbc0 => irq.idx <= wi
  /\ \A i \in 1 .. Len(fifo) : fifo[i].sof =>
       /\ Counted(fifo[i].wcnt, fifo[i].fbc0, we) /\ QueuedUpTo(we)
       /\ fifo[i].fbc0 => fifo[i].inner <= we
       /\ Scanning => wi <= we
       /\ \A j \in 1 .. i : fifo[j].done => dequeued <= we /\ irq.idx <= we
WriteInv == \E wi, we \in 0 .. written : WrittenAt(wi, we)

\* state_list holds the running requests up to the last one set, and they are
\* consecutive.
Listed ==
  /\ stateList = {f \in running : f <= sensorSeq}
  /\ \A f \in running : \A g \in f .. Linked : g \in running
  /\ sensorSeq <= Linked
  /\ enq \in {"enlist", "set"} => enqueued <= 2
  /\ enqueued <= 2 => sensorSeq = IF enq \in {"link", "enlist"} THEN enqueued - 1 ELSE enqueued

FrameInv ==
  TypeInv /\ Jobs /\ Flow /\ Started /\ Seen /\ DoneSafe /\ Returned /\ WriteInv /\ Listed

-----------------------------------------------------------------------------
(* Types.                                                                  *)

\* A step of the state machine keeps the states.
LEMMA TransitType ==
  ASSUME NEW es \in [Frames -> EStates], NEW f, NEW from, NEW to \in EStates
  PROVE  Transit(es, f, from, to) \in [Frames -> EStates]
  BY DEF Transit

\* Appending, and taking the head of, a list of a type.
LEMMA SeqType ==
  ASSUME NEW R, NEW q \in Seq(R)
  PROVE  /\ \A x \in R : Append(q, x) \in Seq(R)
         /\ q # <<>> => Head(q) \in R /\ Tail(q) \in Seq(R)
  OBVIOUS

\* The initial state satisfies the types.
LEMMA TypeInvInit == ASSUME Init PROVE TypeInv
<1>1. running \subseteq 1 .. Linked /\ stateList \subseteq 1 .. Linked
  BY DEF Init
<1>2. estate \in [Frames -> EStates] /\ isQueued \in [Frames -> BOOLEAN]
      /\ result \in [Frames -> {"none", "DONE", "ERROR"}]
  BY DEF Init, EStates
<1>3. bits \in [cq : BOOLEAN, done : BOOLEAN, sof : BOOLEAN] /\ irq \in Handler
  BY DEF Init, NoBits, IdleIrq, Handler
<1>4. enqueued \in 0 .. MaxFrame
  BY ConstantsAssumption DEF Init
<1>5. <<>> \in Seq(Nat) /\ <<>> \in Seq(Event)
  OBVIOUS
<1> QED BY <1>1, <1>2, <1>3, <1>4, <1>5 DEF Init, TypeInv

\* The enqueuer keeps the types.
LEMMA EnqueueType == ASSUME TypeInv, Enqueue PROVE TypeInv'
<1>a. MaxFrame \in Nat
  BY ConstantsAssumption
<1>b. SENSOR \in EStates
  BY DEF EStates
<1>c. Transit(estate, enqueued, READY, SENSOR) \in [Frames -> EStates]
  BY <1>b, TransitType DEF TypeInv
<1>1. CASE EnqNumber
  BY <1>1, <1>a DEF EnqNumber, TypeInv, Linked, requests, buffers, done, irqs, hw
<1>2. CASE EnqLink
  <2>1. running' \subseteq 1 .. Linked' /\ stateList' \subseteq 1 .. Linked'
    BY <1>2, <1>a DEF EnqLink, QueueCompose, TypeInv, Linked
  <2>2. txWq' \in Seq(Nat) /\ enq' \in {"enlist", "idle"}
    <3>1. txWq \in Seq(Nat) /\ enqueued \in Nat
      BY <1>a DEF TypeInv
    <3>2. txWq' = txWq \/ txWq' = Append(txWq, enqueued)
      BY <1>2 DEF EnqLink, QueueCompose
    <3>3. enq' \in {"enlist", "idle"}
      BY <1>2 DEF EnqLink, QueueCompose
    <3> QED BY <3>1, <3>2, <3>3
  <2>3. /\ UNCHANGED <<estate, isQueued, result, enqueued, dequeued, sensorSeq, ispSeq, using,
                       composedList, done, irqs, hw>>
        /\ enq = "link"
    BY <1>2 DEF EnqLink
  <2> QED BY <2>1, <2>2, <2>3 DEF TypeInv, irqs, hw, done
<1>3. CASE EnqEnlist
  BY <1>3 DEF EnqEnlist, EnlistState, TypeInv, Linked, buffers, irqs, hw, done
<1>4. CASE EnqSetSensor
  BY <1>4, <1>c DEF EnqSetSensor, SetSensor, QueueCompose, TypeInv, Linked, counters, irqs, done
<1> QED BY <1>1, <1>2, <1>3, <1>4 DEF Enqueue

\* So do the composer, the sensor worker and the timer.
LEMMA ComposerType ==
  ASSUME TypeInv, Composer \/ SensorWorker \/ DeadlineTimer PROVE TypeInv'
<1>b. SENSOR \in EStates /\ CQ_SCQ_DELAY \in EStates
  BY DEF EStates
<1>c. Transit(estate, sensorSeq, READY, SENSOR) \in [Frames -> EStates]
  BY <1>b, TransitType DEF TypeInv
<1>1. CASE TxFrame
  BY <1>1, SeqType DEF TxFrame, TypeInv, Linked, requests, counters, sensor, done, irqs, hw
<1>2. CASE Ack
  <2>1. using' \in Seq(Nat) /\ Head(using) \in Nat
    BY <1>2, SeqType DEF Ack, TypeInv
  <2>2. composedList' \in Seq(Nat) /\ cq' \in Nat
    <3>1. composedList \in Seq(Nat) /\ cq \in Nat
      BY DEF TypeInv
    <3>2. composedList' = composedList \/ composedList' = Append(composedList, Head(using))
      BY <1>2 DEF Ack
    <3>3. cq' = cq \/ cq' = 1
      BY <1>2 DEF Ack
    <3>4. composedList' \in Seq(Nat)
      <4>1. Append(composedList, Head(using)) \in Seq(Nat)
        BY <2>1, <3>1
      <4> QED BY <3>1, <3>2, <4>1
    <3> QED BY <3>1, <3>3, <3>4
  <2>3. UNCHANGED <<requests, counters, txWq, sensor, done, irqs, vf, outer, inner, exposing, written>>
    BY <1>2 DEF Ack
  <2> QED BY <2>1, <2>2, <2>3 DEF TypeInv, Linked, requests, counters, sensor, done, irqs
<1>3. CASE TrySetSensor
  <2>1. estate' \in [Frames -> EStates]
    BY <1>3, <1>b DEF TrySetSensor, TypeInv
  <2>2. UNCHANGED <<running, isQueued, result, enqueued, dequeued, ispSeq, buffers, enq, done, irqs, hw>>
    BY <1>3 DEF TrySetSensor
  <2>3. sensorSeq' \in Nat /\ stateList' \subseteq 1 .. Linked'
    <3>1. CASE MaySetNext
      <4>1. sensorSeq' = sensorSeq + 1 /\ stateList' = stateList \cup {sensorSeq + 1}
        BY <1>3, <3>1 DEF TrySetSensor, EnlistState
      <4>2. sensorSeq + 1 \in 1 .. Linked /\ Linked' = Linked
        BY <2>2, <3>1 DEF MaySetNext, NextLinked, TypeInv, Linked
      <4> QED BY <4>1, <4>2 DEF TypeInv
    <3>2. CASE ~MaySetNext
      BY <1>3, <2>2, <3>2 DEF TrySetSensor, TypeInv, Linked
    <3> QED BY <3>1, <3>2
  <2> QED BY <2>1, <2>2, <2>3 DEF TypeInv, Linked, buffers, done, irqs, hw
<1>4. CASE WorkerSetSensor
  BY <1>4, <1>c DEF WorkerSetSensor, SetSensor, TypeInv, Linked, counters, buffers, done, irqs
<1>5. CASE DeadlineTimer
  BY <1>5 DEF DeadlineTimer, TypeInv, Linked, requests, buffers, done, irqs, hw
<1> QED BY <1>1, <1>2, <1>3, <1>4, <1>5 DEF Composer, SensorWorker

\* So does the hardware.
LEMMA HardwareType == ASSUME TypeInv, Hardware PROVE TypeInv'
<1>1. CASE HwCqLoad
  BY <1>1 DEF HwCqLoad, TypeInv, Linked, requests, counters, buffers, sensor, done
<1>2. CASE HwSof \/ HwLateSof
  BY <1>2 DEF HwSof, HwLateSof, HwSofs, TypeInv, Linked, requests, counters, buffers, sensor, done
<1>3. CASE HwDone
  BY <1>3 DEF HwDone, TypeInv, Linked, requests, counters, buffers, sensor, done
<1>4. CASE Irq
  <2>1. NoBits \in [cq : BOOLEAN, done : BOOLEAN, sof : BOOLEAN]
    BY DEF NoBits
  <2>2. CASE UNCHANGED fifo
    BY <1>4, <2>1, <2>2 DEF Irq, TypeInv, Linked, requests, counters, buffers, sensor, done, hw
  <2>3. ASSUME NEW lag \in {0, 1},
               fifo' = Append(fifo,
                 [cq |-> bits.cq, done |-> bits.done, sof |-> bits.sof,
                  outer |-> IF bits.cq THEN outer ELSE 0,
                  inner |-> IF bits.sof THEN inner ELSE 0,
                  wcnt |-> IF bits.sof THEN ((written + 1 - lag) % CntMod) - 1 ELSE 0,
                  fbc0 |-> bits.sof /\ written = outer])
        PROVE  fifo' \in Seq(Event)
    <3>1. (written + 1 - lag) % CntMod \in Int
      BY ConstantsAssumption DEF TypeInv
    <3>2. [cq |-> bits.cq, done |-> bits.done, sof |-> bits.sof,
           outer |-> IF bits.cq THEN outer ELSE 0,
           inner |-> IF bits.sof THEN inner ELSE 0,
           wcnt |-> IF bits.sof THEN ((written + 1 - lag) % CntMod) - 1 ELSE 0,
           fbc0 |-> bits.sof /\ written = outer] \in Event
      BY <3>1 DEF TypeInv, Event
    <3> QED BY <2>3, <3>2 DEF TypeInv
  <2>4. CASE ~UNCHANGED fifo
    <3>1. fifo' \in Seq(Event)
      BY <1>4, <2>3, <2>4 DEF Irq
    <3> QED BY <1>4, <2>1, <3>1 DEF Irq, TypeInv, Linked, requests, counters, buffers, sensor, done, hw
  <2> QED BY <2>2, <2>4
<1> QED BY <1>1, <1>2, <1>3, <1>4 DEF Hardware

\* So does the interrupt handler.
LEMMA QueueDoneType ==
  ASSUME TypeInv, NEW f \in Int, QueueDone(f)
  PROVE  isQueued' \in [Frames -> BOOLEAN] /\ doneWq' \in Seq(Nat)
<1>1. CASE f \in running /\ ~isQueued[f]
  <2>1. f \in Nat
    BY <1>1 DEF TypeInv
  <2>2. doneWq \in Seq(Nat) /\ isQueued \in [Frames -> BOOLEAN]
    BY DEF TypeInv
  <2>3. isQueued' = [isQueued EXCEPT ![f] = TRUE] /\ doneWq' = Append(doneWq, f)
    BY <1>1 DEF QueueDone
  <2>4. doneWq' \in Seq(Nat)
    BY <2>1, <2>2, <2>3
  <2> QED BY <2>2, <2>3, <2>4
<1>2. CASE ~(f \in running /\ ~isQueued[f])
  BY <1>2 DEF QueueDone, TypeInv
<1> QED BY <1>1, <1>2

\* The numbers the handler computes from the byte counter.
LEMMA WriteCntType == ASSUME TypeInv PROVE WriteCnt \in Int /\ LostDone \in Int
<1>1. ispSeq \div CntMod \in Int /\ CntMod \in Nat /\ irq.wcnt \in Int
  BY ConstantsAssumption DEF TypeInv, Handler
<1>2. WriteCnt \in Int
  <2> DEFINE d == ispSeq \div CntMod
  <2>1. d \in Int
    BY <1>1
  <2> HIDE DEF d
  <2>2. d * CntMod \in Int
    BY <1>1, <2>1
  <2> QED BY <1>1, <2>2 DEF WriteCnt, d
<1> QED BY <1>2 DEF LostDone

\* The scan of the state list finds frames, or nothing.
LEMMA RecentType ==
  ASSUME TypeInv, NEW S
  PROVE  /\ Recent(S) \in Nat
         /\ Recent(S) # 0 => Recent(S) \in stateList /\ estate[Recent(S)] \in S
<1> DEFINE fs == {f \in stateList : sensorSeq - f \in 0 .. 2 /\ estate[f] \in S}
<1>1. Recent(S) = IF fs = {} THEN 0 ELSE CHOOSE f \in fs : \A g \in fs : g <= f
  BY DEF Recent
<1>2. ASSUME fs # {} PROVE \E f \in fs : \A g \in fs : g <= f
  <2>2. sensorSeq \in Nat /\ stateList \subseteq Nat
    BY DEF TypeInv, Linked
  <2>a. \A f \in Nat : sensorSeq - f \in 0 .. 2 =>
          f = sensorSeq \/ f = sensorSeq - 1 \/ f = sensorSeq - 2
    BY <2>2
  <2>1. fs \subseteq Nat /\ \A f \in fs : f = sensorSeq \/ f = sensorSeq - 1 \/ f = sensorSeq - 2
    BY <2>2, <2>a
  <2> HIDE DEF fs
  <2>3. CASE sensorSeq \in fs
    BY <2>1, <2>2, <2>3
  <2>4. CASE sensorSeq \notin fs /\ sensorSeq - 1 \in fs
    BY <2>1, <2>2, <2>4
  <2>5. CASE sensorSeq \notin fs /\ sensorSeq - 1 \notin fs
    <3>1. PICK f \in fs : TRUE
      BY <1>2
    <3>2. \A g \in fs : g = f
      BY <2>1, <2>5, <3>1
    <3> QED BY <2>1, <3>2
  <2> QED BY <2>3, <2>4, <2>5
<1>3. fs # {} => Recent(S) \in fs
  <2> HIDE DEF fs
  <2> QED BY <1>1, <1>2
<1>4. \A f \in fs : f \in stateList /\ f \in Nat /\ estate[f] \in S
  BY DEF TypeInv, Linked
<1>5. fs = {} => Recent(S) = 0
  BY <1>1
<1> HIDE DEF fs
<1> QED BY <1>3, <1>4, <1>5

\* What the scan leaves for the rest of the handler.
LEMMA ScanNumbers ==
  ASSUME TypeInv
  PROVE  /\ \A S : Recent(S) \in Nat
         /\ (IF sensorSeq \in stateList THEN sensorSeq ELSE 0) \in Nat
         /\ (IF Cardinality(stateList) > 1 /\ sensorSeq - 1 \in stateList
             THEN sensorSeq - 1 ELSE 0) \in Nat
<1>1. \A S : Recent(S) \in Nat
  BY RecentType
<1>2. stateList \subseteq Nat
  BY DEF TypeInv
<1> QED BY <1>1, <1>2

\* The record that leads to the applying of a CQ.
LEMMA ApplyType ==
  ASSUME NEW i \in Nat, NEW r \in Nat
  PROVE  [IdleIrq EXCEPT !.pc = "apply", !.idx = i, !.rec0 = r] \in Handler
<1>1. IdleIrq \in Handler
  BY DEF IdleIrq, Handler
<1> QED BY <1>1 DEF Handler

LEMMA IrqThreadType == ASSUME TypeInv, IrqThread PROVE TypeInv'
<1>a. /\ OUTER \in EStates /\ INNER \in EStates /\ CQ \in EStates
      /\ OUTER_HW_DELAY \in EStates /\ INNER_HW_DELAY \in EStates
  BY DEF EStates
<1>b. IdleIrq \in Handler
  BY DEF IdleIrq, Handler
<1>1. CASE IrqTake
  <2>1. Head(fifo) \in Event /\ fifo' \in Seq(Event)
    BY <1>1 DEF IrqTake, TypeInv
  <2>2. isQueued' \in [Frames -> BOOLEAN] /\ doneWq' \in Seq(Nat)
    BY <1>1, QueueDoneType DEF IrqTake, TypeInv
  <2>3. /\ estate' \in [Frames -> EStates]
        /\ vf' \in BOOLEAN /\ initialCqDone' \in BOOLEAN
    BY <1>1, <1>a, <2>1 DEF IrqTake, CqDone, TypeInv
  <2>4. irq' \in Handler
    BY <1>1, <1>b, <2>1 DEF IrqTake, IdleIrq, Handler, Event
  <2> QED BY <1>1, <2>1, <2>2, <2>3, <2>4 DEF IrqTake, TypeInv, Linked, counters, buffers, sensor
<1>2. CASE IrqScan
  <2>1. irq.pc = "scan" /\ irq.idx \in Nat /\ irq.wcnt \in Int /\ irq.fbc0 \in BOOLEAN
    BY <1>2 DEF IrqScan, TypeInv, Handler
  <2>2. PICK in \in Nat, out \in Nat, r0 \in Nat, r1 \in Nat :
          irq' = [IdleIrq EXCEPT !.pc = "decide", !.idx = irq.idx, !.inner = in,
                    !.wcnt = IF in # 0 THEN irq.wcnt ELSE 0, !.fbc0 = in # 0 /\ irq.fbc0,
                    !.outer = out, !.rec0 = r0, !.rec1 = r1]
    <3> DEFINE in == Recent({INNER, INNER_HW_DELAY})
               out == Recent({OUTER, OUTER_HW_DELAY})
               r0 == IF sensorSeq \in stateList THEN sensorSeq ELSE 0
               r1 == IF Cardinality(stateList) > 1 /\ sensorSeq - 1 \in stateList
                     THEN sensorSeq - 1 ELSE 0
    <3>1. in \in Nat /\ out \in Nat /\ r0 \in Nat /\ r1 \in Nat
      BY ScanNumbers
    <3>2. irq' = [IdleIrq EXCEPT !.pc = "decide", !.idx = irq.idx, !.inner = in,
                    !.wcnt = IF in # 0 THEN irq.wcnt ELSE 0, !.fbc0 = in # 0 /\ irq.fbc0,
                    !.outer = out, !.rec0 = r0, !.rec1 = r1]
      BY <1>2 DEF IrqScan
    <3> HIDE DEF in, out, r0, r1
    <3> QED BY <3>1, <3>2
  <2>3. irq' \in Handler
    <3>1. (in # 0 /\ irq.fbc0) \in BOOLEAN /\ (IF in # 0 THEN irq.wcnt ELSE 0) \in Int
      BY <2>1
    <3>2. irq' = [pc |-> "decide", idx |-> irq.idx, wcnt |-> IF in # 0 THEN irq.wcnt ELSE 0,
                  fbc0 |-> in # 0 /\ irq.fbc0, inner |-> in, outer |-> out,
                  rec0 |-> r0, rec1 |-> r1]
      BY <2>2 DEF IdleIrq
    <3> QED BY <2>1, <2>2, <3>1, <3>2 DEF Handler
  <2> QED BY <1>2, <2>1, <2>3 DEF IrqScan, TypeInv, Linked, requests, buffers, sensor, done, hw
<1>3. CASE IrqHwDelay
  <2>1. estate' \in [Frames -> EStates]
    BY <1>3, <1>a, TransitType DEF IrqHwDelay, TypeInv
  <2> QED BY <1>3, <1>b, <2>1 DEF IrqHwDelay, TypeInv, Linked, counters, buffers, sensor, done, hw
<1>4. CASE IrqDecide
  <2>1. isQueued' \in [Frames -> BOOLEAN] /\ doneWq' \in Seq(Nat)
    BY <1>4, QueueDoneType, WriteCntType DEF IrqDecide, TypeInv
  <2>2. estate' \in [Frames -> EStates]
    <3>1. PICK es1, es2, es3 :
            /\ es1 = estate \/ es1 = Transit(Transit(estate, irq.outer, OUTER_HW_DELAY, INNER_HW_DELAY),
                                             irq.outer, OUTER, INNER)
            /\ es2 = es1 \/ es2 = Transit(es1, 1, SENSOR, INNER)
            /\ es3 = estate \/ es3 = Transit(es2, irq.rec0, CQ_SCQ_DELAY, OUTER)
            /\ estate' = es3
      BY <1>4 DEF IrqDecide
    <3>2. estate \in [Frames -> EStates]
      BY DEF TypeInv
    <3>3. Transit(estate, irq.outer, OUTER_HW_DELAY, INNER_HW_DELAY) \in [Frames -> EStates]
      BY <1>a, <3>2, TransitType
    <3>4. es1 \in [Frames -> EStates]
      BY <1>a, <3>1, <3>2, <3>3, TransitType
    <3>5. es2 \in [Frames -> EStates]
      BY <1>a, <3>1, <3>4, TransitType
    <3>6. es3 \in [Frames -> EStates]
      BY <1>a, <3>1, <3>2, <3>5, TransitType
    <3> QED BY <3>1, <3>6
  <2>3. irq \in Handler
    BY DEF TypeInv
  <2>4. irq' \in Handler /\ ispSeq' \in Nat
    <3>1. irq' = IdleIrq \/ irq' = [IdleIrq EXCEPT !.pc = "apply", !.idx = irq.idx, !.rec0 = irq.rec0]
      BY <1>4 DEF IrqDecide
    <3>2. ispSeq' = ispSeq \/ ispSeq' = irq.idx
      BY <1>4 DEF IrqDecide
    <3>5. irq.idx \in Nat /\ irq.rec0 \in Nat
      BY <2>3 DEF Handler
    <3>6. [IdleIrq EXCEPT !.pc = "apply", !.idx = irq.idx, !.rec0 = irq.rec0] \in Handler
      BY <3>5, ApplyType
    <3>3. irq' \in Handler
      BY <1>b, <3>1, <3>6
    <3>4. irq.idx \in Nat /\ ispSeq \in Nat
      BY <2>3 DEF Handler, TypeInv
    <3> QED BY <3>2, <3>3, <3>4
  <2>5. UNCHANGED <<running, stateList, result, enqueued, dequeued, sensorSeq, buffers, enq, deq,
                    bits, fifo, initialCqDone, hw>>
    BY <1>4 DEF IrqDecide
  <2> QED BY <2>1, <2>2, <2>4, <2>5 DEF TypeInv, Linked, buffers, hw
<1>5. CASE IrqApply
  <2>1. composedList # <<>> => Head(composedList) \in Nat /\ Tail(composedList) \in Seq(Nat)
    BY SeqType DEF TypeInv
  <2>2. /\ estate' = estate \/ estate' = Transit(estate, irq.rec0, SENSOR, CQ)
        /\ \/ composedList' = composedList /\ cq' = cq
           \/ composedList # <<>> /\ composedList' = Tail(composedList) /\ cq' = Head(composedList)
    BY <1>5 DEF IrqApply
  <2>4. estate' \in [Frames -> EStates]
    <3>1. estate \in [Frames -> EStates]
      BY DEF TypeInv
    <3>2. Transit(estate, irq.rec0, SENSOR, CQ) \in [Frames -> EStates]
      BY <1>a, <3>1, TransitType
    <3> QED BY <2>2, <3>1, <3>2
  <2>3. /\ irq' = IdleIrq
        /\ UNCHANGED <<running, stateList, isQueued, result, counters, txWq, using,
                       sensor, done, bits, fifo, initialCqDone, vf, outer, inner, exposing, written>>
    BY <1>5 DEF IrqApply
  <2> QED BY <1>b, <2>1, <2>2, <2>3, <2>4 DEF TypeInv, Linked, counters, sensor, done
<1> QED BY <1>1, <1>2, <1>3, <1>4, <1>5 DEF IrqThread

\* So does frame_done_wq.
LEMMA FrameDoneType == ASSUME TypeInv, FrameDone PROVE TypeInv'
<1>a. /\ OUTER \in EStates /\ DONE_NORMAL \in EStates /\ DONE_MISMATCH \in EStates
      /\ READY \in EStates
  BY DEF EStates
<1>e. estate \in [Frames -> EStates]
  BY DEF TypeInv
<1>1. CASE DonePrepare
  <2>1. deq' \in Nat /\ doneWq' \in Seq(Nat)
    BY <1>1 DEF DonePrepare, TypeInv
  <2> DEFINE es1 == Transit(estate, deq', INNER_HW_DELAY, DONE_MISMATCH)
             es2 == Transit(es1, deq', INNER, DONE_NORMAL)
             es3 == Transit(es2, deq', CQ, OUTER)
  <2>2. estate' \in {estate, es2, es3}
    BY <1>1 DEF DonePrepare
  <2>3. es1 \in [Frames -> EStates]
    BY <1>a, <1>e, TransitType
  <2>4. es2 \in [Frames -> EStates]
    <3> HIDE DEF es1
    <3> QED BY <1>a, <2>3, TransitType
  <2>5. es3 \in [Frames -> EStates]
    <3> HIDE DEF es2
    <3> QED BY <1>a, <2>4, TransitType
  <2>6. UNCHANGED <<running, stateList, isQueued, result, counters, buffers, sensor, irqs, hw>>
    BY <1>1 DEF DonePrepare
  <2> HIDE DEF es2, es3
  <2>7. estate' \in [Frames -> EStates]
    BY <1>e, <2>2, <2>4, <2>5
  <2> QED BY <2>1, <2>6, <2>7 DEF TypeInv, Linked, counters, buffers, sensor, irqs, hw
<1>2. CASE DoneDequeue
  <2>1. result' \in [Frames -> {"none", "DONE", "ERROR"}]
    BY <1>2 DEF DoneDequeue, TypeInv
  <2>2. estate' \in [Frames -> EStates]
    BY <1>2, <1>a, <1>e DEF DoneDequeue
  <2>3. /\ running' \subseteq running /\ stateList' \subseteq stateList /\ deq' = 0
        /\ UNCHANGED <<isQueued, counters, txWq, using, composedList, sensor, doneWq, irqs, hw>>
    BY <1>2 DEF DoneDequeue, StatesLeft
  <2> QED BY <2>1, <2>2, <2>3 DEF TypeInv, Linked, counters, sensor, irqs, hw
<1> QED BY <1>1, <1>2 DEF FrameDone

\* What the steps of the enqueuer leave alone.
LEMMA EnqueueKeeps ==
  ASSUME Enqueue
  PROVE  UNCHANGED <<isQueued, result, dequeued, ispSeq, using, composedList, done, irqs,
                     outer, inner, cq, exposing, written>>
<1>1. CASE EnqNumber
  BY <1>1 DEF EnqNumber, requests, buffers, hw
<1>2. CASE EnqLink
  BY <1>2 DEF EnqLink, hw
<1>3. CASE EnqEnlist
  BY <1>3 DEF EnqEnlist, buffers, hw
<1>4. CASE EnqSetSensor
  BY <1>4 DEF EnqSetSensor, counters
<1> QED BY <1>1, <1>2, <1>3, <1>4 DEF Enqueue

\* What the steps of the sensor kthread and of the timer leave alone.
LEMMA SensorKeeps ==
  ASSUME SensorWorker \/ DeadlineTimer
  PROVE  UNCHANGED <<running, isQueued, result, enqueued, dequeued, ispSeq, buffers, enq, done,
                     irqs, outer, inner, cq, exposing, written>>
<1>1. CASE TrySetSensor
  BY <1>1 DEF TrySetSensor, hw
<1>2. CASE WorkerSetSensor
  BY <1>2 DEF WorkerSetSensor, counters
<1>3. CASE DeadlineTimer
  BY <1>3 DEF DeadlineTimer, requests, hw
<1> QED BY <1>1, <1>2, <1>3 DEF SensorWorker

\* What the steps of the hardware leave alone.
LEMMA HardwareKeeps ==
  ASSUME Hardware
  PROVE  UNCHANGED <<requests, counters, buffers, sensor, done, irq, initialCqDone, vf>>
  BY DEF Hardware, HwCqLoad, HwSof, HwLateSof, HwSofs, HwDone, Irq, hw

\* What the steps of the composer leave alone.
LEMMA ComposerKeeps ==
  ASSUME Composer
  PROVE  UNCHANGED <<requests, counters, sensor, done, irqs, vf, outer, inner, exposing, written>>
  BY DEF Composer, TxFrame, Ack, hw

\* What the threaded interrupt handler leaves alone.
LEMMA IrqThreadKeeps ==
  ASSUME IrqThread
  PROVE  UNCHANGED <<running, stateList, result, enqueued, sensorSeq, txWq, using, enq, deq, bits,
                     outer, inner, exposing, written>>
  BY DEF IrqThread, IrqTake, IrqScan, IrqHwDelay, IrqDecide, IrqApply, requests, counters, buffers,
         sensor, done, hw

\* What frame_done_wq leaves alone.
LEMMA FrameDoneKeeps ==
  ASSUME FrameDone
  PROVE  UNCHANGED <<isQueued, counters, txWq, using, composedList, sensor, irqs, hw>>
  BY DEF FrameDone, DonePrepare, DoneDequeue, buffers

\* Every step keeps the types.
LEMMA TypeInvStep == ASSUME TypeInv, [Next]_vars PROVE TypeInv'
<1>1. CASE UNCHANGED vars
  BY <1>1 DEF TypeInv, Linked, vars, requests, counters, buffers, sensor, done, irqs, hw
<1> QED BY <1>1, EnqueueType, ComposerType, HardwareType, IrqThreadType, FrameDoneType
        DEF Next

-----------------------------------------------------------------------------
(* The job limit.                                                          *)

\* Only the enqueuer and the end of a frame touch the running list.
LEMMA RunningSteps ==
  ASSUME [Next]_vars
  PROVE  Enqueue \/ DoneDequeue \/ UNCHANGED <<running, enqueued, enq>>
<1>1. CASE Composer \/ SensorWorker \/ DeadlineTimer
  BY <1>1 DEF Composer, SensorWorker, TxFrame, Ack, TrySetSensor, WorkerSetSensor, DeadlineTimer,
              requests, counters, sensor
<1>2. CASE Hardware
  BY <1>2 DEF Hardware, HwCqLoad, HwSof, HwLateSof, HwSofs, HwDone, Irq, requests, counters, sensor
<1>3. CASE IrqThread
  BY <1>3 DEF IrqThread, IrqTake, IrqScan, IrqHwDelay, IrqDecide, IrqApply, requests, counters, sensor
<1>4. CASE DonePrepare \/ UNCHANGED vars
  BY <1>4 DEF DonePrepare, vars, requests, counters, sensor
<1> QED BY <1>1, <1>2, <1>3, <1>4 DEF Next, FrameDone

\* The running list is finite.
LEMMA RunningFinite ==
  ASSUME TypeInv PROVE IsFiniteSet(running) /\ Cardinality(running) \in Nat
<1>1. Linked \in Int
  BY DEF TypeInv, Linked
<1>2. IsFiniteSet(1 .. Linked)
  BY <1>1, FS_Interval
<1> QED BY <1>2, FS_Subset, FS_CardinalityType DEF TypeInv

\* A request is linked only after the limit was looked at, under queue_lock.
LEMMA JobsStep == ASSUME TypeInv, Jobs, [Next]_vars PROVE Jobs'
<1>a. IsFiniteSet(running) /\ Cardinality(running) \in Nat
  BY RunningFinite
<1>b. MaxJobs \in Nat
  BY ConstantsAssumption
<1>1. CASE EnqNumber
  BY <1>1, <1>a, <1>b DEF EnqNumber, Jobs, requests
<1>2. CASE EnqLink
  <2>1. enq = "link" /\ running' = running \cup {enqueued} /\ enq' # "link"
    BY <1>2 DEF EnqLink, QueueCompose
  <2>2. enqueued \notin running
    BY <2>1 DEF TypeInv, Linked
  <2>3. Cardinality(running') = Cardinality(running) + 1
    BY <1>a, <2>1, <2>2, FS_AddElement
  <2> QED BY <1>a, <1>b, <2>1, <2>3 DEF Jobs
<1>3. CASE EnqEnlist \/ EnqSetSensor
  BY <1>3, <1>a DEF EnqEnlist, EnqSetSensor, QueueCompose, Jobs
<1>4. CASE DoneDequeue
  <2>1. running' \subseteq running /\ UNCHANGED enq
    BY <1>4 DEF DoneDequeue, sensor
  <2>2. Cardinality(running') <= Cardinality(running) /\ Cardinality(running') \in Nat
    BY <1>a, <2>1, FS_Subset, FS_CardinalityType
  <2> QED BY <1>a, <1>b, <2>1, <2>2 DEF Jobs
<1>5. CASE UNCHANGED <<running, enq>>
  BY <1>5 DEF Jobs
<1> QED BY <1>1, <1>2, <1>3, <1>4, <1>5, RunningSteps DEF Enqueue

-----------------------------------------------------------------------------
(* The order of the frames.                                                *)

\* What appending to a list of numbers does to its order.
LEMMA OrderAppend ==
  ASSUME NEW q \in Seq(Nat), NEW n \in Nat
  PROVE  /\ Increasing(q) /\ Under(n, q) => Increasing(Append(q, n))
         /\ \A m \in Nat : UpTo(m, q) /\ n <= m => UpTo(m, Append(q, n))
         /\ \A m \in Nat : Above(m, q) /\ m < n => Above(m, Append(q, n))
         /\ \A p \in Seq(Nat) : Before(p, q) /\ Under(n, p) => Before(p, Append(q, n))
         /\ \A p \in Seq(Nat) : Before(q, p) /\ Above(n, p) => Before(Append(q, n), p)
<1> DEFINE a == Append(q, n)
<1>1. /\ a \in Seq(Nat) /\ Len(q) \in Nat /\ Len(a) = Len(q) + 1
      /\ \A i \in 1 .. Len(q) : a[i] = q[i] /\ q[i] \in Nat
      /\ a[Len(q) + 1] = n
  OBVIOUS
<1>2. \A i \in 1 .. Len(a) : i \in 1 .. Len(q) \/ i = Len(q) + 1
  BY <1>1
<1> HIDE DEF a
<1>3. Increasing(q) /\ Under(n, q) => Increasing(a)
  <2> SUFFICES ASSUME Increasing(q), Under(n, q),
                      NEW i \in 1 .. Len(a), NEW j \in 1 .. Len(a), i < j
               PROVE  a[i] < a[j]
    BY DEF Increasing
  <2>1. i \in 1 .. Len(q)
    BY <1>1
  <2> QED BY <1>1, <1>2, <2>1 DEF Increasing, Under
<1>4. \A m \in Nat : UpTo(m, q) /\ n <= m => UpTo(m, a)
  BY <1>1, <1>2 DEF UpTo
<1>5. \A m \in Nat : Above(m, q) /\ m < n => Above(m, a)
  BY <1>1, <1>2 DEF Above
<1>6. \A p \in Seq(Nat) : Before(p, q) /\ Under(n, p) => Before(p, a)
  BY <1>1, <1>2 DEF Before, Under
<1>7. \A p \in Seq(Nat) : Before(q, p) /\ Above(n, p) => Before(a, p)
  BY <1>1, <1>2 DEF Before, Above
<1> QED BY <1>3, <1>4, <1>5, <1>6, <1>7 DEF a

\* What taking the head of a list does to its order.
LEMMA OrderTail ==
  ASSUME NEW q \in Seq(Nat), q # <<>>
  PROVE  /\ Head(q) \in Nat /\ Tail(q) \in Seq(Nat)
         /\ Increasing(q) => Increasing(Tail(q)) /\ Above(Head(q), Tail(q))
         /\ \A m \in Nat : UpTo(m, q) => UpTo(m, Tail(q)) /\ Head(q) <= m
         /\ \A m \in Nat : Above(m, q) => Above(m, Tail(q)) /\ m < Head(q)
         /\ \A p \in Seq(Nat) : Before(p, q) => Before(p, Tail(q)) /\ Under(Head(q), p)
         /\ \A p \in Seq(Nat) : Before(q, p) => Before(Tail(q), p) /\ Above(Head(q), p)
<1> DEFINE t == Tail(q)
<1>1. /\ t \in Seq(Nat) /\ Len(q) \in Nat /\ Len(t) = Len(q) - 1 /\ Head(q) = q[1]
      /\ \A i \in 1 .. Len(t) : t[i] = q[i + 1] /\ i + 1 \in 1 .. Len(q) /\ i < i + 1
      /\ \A i \in 1 .. Len(q) : q[i] \in Nat
      /\ 1 \in 1 .. Len(q)
  OBVIOUS
<1> HIDE DEF t
<1>3. Increasing(q) => Increasing(t) /\ Above(Head(q), t)
  <2> SUFFICES ASSUME Increasing(q) PROVE Increasing(t) /\ Above(Head(q), t)
    OBVIOUS
  <2>1. ASSUME NEW i \in 1 .. Len(t), NEW j \in 1 .. Len(t), i < j PROVE t[i] < t[j]
    <3>1. i + 1 \in 1 .. Len(q) /\ j + 1 \in 1 .. Len(q) /\ i + 1 < j + 1
      BY <1>1, <2>1
    <3>2. q[i + 1] < q[j + 1]
      BY <3>1 DEF Increasing
    <3> QED BY <1>1, <3>2
  <2>2. ASSUME NEW i \in 1 .. Len(t) PROVE q[1] < t[i]
    <3>1. i + 1 \in 1 .. Len(q) /\ 1 < i + 1
      BY <1>1
    <3>2. q[1] < q[i + 1]
      BY <1>1, <3>1 DEF Increasing
    <3> QED BY <1>1, <3>2
  <2> QED BY <1>1, <2>1, <2>2 DEF Increasing, Above
<1>4. \A m \in Nat : UpTo(m, q) => UpTo(m, t) /\ Head(q) <= m
  BY <1>1 DEF UpTo
<1>5. \A m \in Nat : Above(m, q) => Above(m, t) /\ m < Head(q)
  BY <1>1 DEF Above
<1>6. \A p \in Seq(Nat) : Before(p, q) => Before(p, t) /\ Under(Head(q), p)
  <2> SUFFICES ASSUME NEW p \in Seq(Nat), Before(p, q) PROVE Before(p, t) /\ Under(Head(q), p)
    OBVIOUS
  <2> QED BY <1>1 DEF Before, Under
<1>7. \A p \in Seq(Nat) : Before(q, p) => Before(t, p) /\ Above(Head(q), p)
  BY <1>1 DEF Before, Above
<1> QED BY <1>1, <1>3, <1>4, <1>5, <1>6, <1>7 DEF t

\* Bounds of a list may be loosened.
LEMMA OrderWeaken ==
  ASSUME NEW q \in Seq(Nat), NEW m \in Nat, NEW n \in Nat
  PROVE  /\ UpTo(m, q) /\ m <= n => UpTo(n, q)
         /\ UpTo(m, q) /\ m < n => Under(n, q)
         /\ Above(n, q) /\ m <= n => Above(m, q)
<1>1. \A i \in 1 .. Len(q) : q[i] \in Nat
  OBVIOUS
<1>2. UpTo(m, q) /\ m <= n => UpTo(n, q)
  BY <1>1 DEF UpTo
<1>3. UpTo(m, q) /\ m < n => Under(n, q)
  BY <1>1 DEF UpTo, Under
<1>4. Above(n, q) /\ m <= n => Above(m, q)
  BY <1>1 DEF Above
<1> QED BY <1>2, <1>3, <1>4

\* Numbers and lists the order is about.
LEMMA FlowTypes ==
  ASSUME TypeInv
  PROVE  /\ txWq \in Seq(Nat) /\ using \in Seq(Nat) /\ composedList \in Seq(Nat)
         /\ Sent \in Nat /\ enqueued \in Nat /\ outer \in Nat /\ inner \in Nat /\ cq \in Nat
         /\ written \in Nat
  BY ConstantsAssumption DEF TypeInv, Sent

\* Giving frame n + 1 to composer_wq after frame n.
LEMMA FlowSend ==
  ASSUME TypeInv, Flow, Sent' = Sent + 1, txWq' = Append(txWq, Sent + 1),
         UNCHANGED <<using, composedList, outer, inner, cq, written, exposing>>
  PROVE  Flow'
<1> DEFINE n == Sent + 1
<1>1. /\ txWq \in Seq(Nat) /\ using \in Seq(Nat) /\ composedList \in Seq(Nat)
      /\ Sent \in Nat /\ n \in Nat /\ Sent < n /\ Sent <= n
      /\ outer \in Nat /\ cq \in Nat /\ inner \in Nat /\ written \in Nat
  BY FlowTypes
<1>2. /\ Queues /\ Registers /\ Sent' = n /\ txWq' = Append(txWq, n)
      /\ UNCHANGED <<using, composedList, outer, inner, cq, written, exposing>>
  BY DEF Flow
<1> HIDE DEF n
<1>3. Under(n, txWq) /\ Under(n, using) /\ Under(n, composedList)
  BY <1>1, <1>2, OrderWeaken DEF Queues
<1>4. UpTo(n, txWq) /\ UpTo(n, using) /\ UpTo(n, composedList)
  BY <1>1, <1>2, OrderWeaken DEF Queues
<1>5. Queues'
  <2>1. Increasing(txWq') /\ UpTo(n, txWq')
    BY <1>1, <1>2, <1>3, <1>4, OrderAppend DEF Queues
  <2>2. Before(composedList, txWq') /\ Before(using, txWq')
    BY <1>1, <1>2, <1>3, OrderAppend DEF Queues
  <2> QED BY <1>2, <1>4, <2>1, <2>2 DEF Queues
<1>6. Registers'
  <2>1. outer < n /\ cq < n /\ cq <= n /\ outer <= n
    BY <1>1, <1>2 DEF Registers
  <2>2. Above(outer, txWq') /\ Above(cq, txWq')
    BY <1>1, <1>2, <2>1, OrderAppend DEF Registers
  <2> QED BY <1>2, <2>1, <2>2 DEF Registers
<1> QED BY <1>5, <1>6 DEF Flow

\* A list of the composer gets its next frame from the list before it.
LEMMA FlowTxFrame == ASSUME TypeInv, Flow, TxFrame PROVE Flow'
<1> DEFINE h == Head(txWq)  t == Tail(txWq)
<1>1. /\ txWq \in Seq(Nat) /\ using \in Seq(Nat) /\ composedList \in Seq(Nat)
      /\ Sent \in Nat /\ outer \in Nat /\ cq \in Nat
  BY FlowTypes
<1>2. /\ Queues /\ Registers /\ txWq # <<>> /\ txWq' = t
      /\ using' = using \/ using' = Append(using, h)
  BY DEF Flow, TxFrame
<1>3. UNCHANGED <<composedList, Sent, outer, inner, cq, written, exposing>>
  BY DEF TxFrame, Sent, sensor, hw, counters
<1>4. /\ h \in Nat /\ t \in Seq(Nat) /\ Increasing(t) /\ Above(h, t) /\ UpTo(Sent, t) /\ h <= Sent
      /\ Before(composedList, t) /\ Under(h, composedList)
      /\ Before(using, t) /\ Under(h, using)
      /\ Above(outer, t) /\ outer < h /\ Above(cq, t) /\ cq < h
  BY <1>1, <1>2, OrderTail DEF Queues, Registers
<1> HIDE DEF h, t
<1>5. /\ Increasing(using') /\ UpTo(Sent, using') /\ Before(composedList, using')
      /\ Before(using', t) /\ Above(outer, using') /\ Above(cq, using')
  <2>1. CASE using' = using
    BY <1>2, <1>4, <2>1 DEF Queues, Registers
  <2>2. CASE using' = Append(using, h)
    BY <1>1, <1>2, <1>4, <2>2, OrderAppend DEF Queues, Registers
  <2> QED BY <1>2, <2>1, <2>2
<1>6. Queues'
  BY <1>2, <1>3, <1>4, <1>5 DEF Queues
<1>7. Registers'
  BY <1>2, <1>3, <1>4, <1>5 DEF Registers
<1> QED BY <1>6, <1>7 DEF Flow

\* Frame 1 goes to the CQ register at once, and then nothing is composed.
LEMMA FlowAck == ASSUME TypeInv, Flow, Ack PROVE Flow'
<1> DEFINE h == Head(using)  t == Tail(using)
<1>1. /\ txWq \in Seq(Nat) /\ using \in Seq(Nat) /\ composedList \in Seq(Nat)
      /\ Sent \in Nat /\ outer \in Nat /\ cq \in Nat
  BY FlowTypes
<1>2. /\ Queues /\ Registers /\ using # <<>> /\ using' = t
      /\ \/ h = 1 /\ cq' = 1 /\ UNCHANGED composedList
         \/ composedList' = Append(composedList, h) /\ UNCHANGED cq
  BY DEF Flow, Ack
<1>3. UNCHANGED <<txWq, Sent, outer, inner, written, exposing>>
  BY DEF Ack, Sent, sensor, counters
<1>4. /\ h \in Nat /\ t \in Seq(Nat) /\ Increasing(t) /\ Above(h, t) /\ UpTo(Sent, t) /\ h <= Sent
      /\ Before(composedList, t) /\ Under(h, composedList)
      /\ Before(t, txWq) /\ Above(h, txWq)
      /\ Above(outer, t) /\ outer < h /\ Above(cq, t) /\ cq < h
  BY <1>1, <1>2, OrderTail DEF Queues, Registers
<1> HIDE DEF h, t
<1>5. CASE h = 1 /\ cq' = 1 /\ UNCHANGED composedList
  <2>1. Above(1, composedList)
    <3>1. ASSUME NEW i \in 1 .. Len(composedList) PROVE FALSE
      <4>1. composedList[i] < 1 /\ outer < composedList[i] /\ composedList[i] \in Nat
        BY <1>1, <1>2, <1>4, <1>5 DEF Under, Above, Registers
      <4> HIDE DEF t
      <4> QED BY <1>1, <4>1
    <3> QED BY <3>1 DEF Above
  <2>2. Queues'
    BY <1>2, <1>3, <1>4, <1>5 DEF Queues
  <2>3. Registers'
    BY <1>2, <1>3, <1>4, <1>5, <2>1 DEF Registers
  <2> QED BY <2>2, <2>3 DEF Flow
<1>6. CASE composedList' = Append(composedList, h) /\ UNCHANGED cq
  <2>1. /\ Increasing(composedList') /\ UpTo(Sent, composedList')
        /\ Before(composedList', t) /\ Before(composedList', txWq)
        /\ Above(outer, composedList') /\ Above(cq, composedList')
    BY <1>1, <1>2, <1>4, <1>6, OrderAppend DEF Queues, Registers
  <2>2. Queues'
    BY <1>2, <1>3, <1>4, <1>6, <2>1 DEF Queues
  <2>3. Registers'
    BY <1>2, <1>3, <1>4, <1>6, <2>1 DEF Registers
  <2> QED BY <2>2, <2>3 DEF Flow
<1> QED BY <1>2, <1>5, <1>6

\* The CQ applied at a SOF is the oldest composed one.
LEMMA FlowApply == ASSUME TypeInv, Flow, IrqApply PROVE Flow'
<1> DEFINE h == Head(composedList)  t == Tail(composedList)
<1>1. /\ txWq \in Seq(Nat) /\ using \in Seq(Nat) /\ composedList \in Seq(Nat)
      /\ Sent \in Nat /\ outer \in Nat /\ cq \in Nat
  BY FlowTypes
<1>2. Queues /\ Registers
  BY DEF Flow
<1>3. UNCHANGED <<txWq, using, Sent, outer, inner, written, exposing>>
  BY DEF IrqApply, Sent, sensor, counters
<1>4. CASE UNCHANGED <<composedList, cq>>
  BY <1>2, <1>3, <1>4 DEF Flow, Queues, Registers
<1>5. CASE composedList # <<>> /\ composedList' = t /\ cq' = h
  <2>1. /\ h \in Nat /\ Increasing(t) /\ Above(h, t) /\ UpTo(Sent, t) /\ h <= Sent
        /\ Before(t, using) /\ Above(h, using) /\ Before(t, txWq) /\ Above(h, txWq)
        /\ Above(outer, t) /\ outer < h
    BY <1>1, <1>2, <1>5, OrderTail DEF Queues, Registers
  <2> HIDE DEF h, t
  <2>2. Queues'
    BY <1>2, <1>3, <1>5, <2>1 DEF Queues
  <2>3. Registers'
    BY <1>2, <1>3, <1>5, <2>1 DEF Registers
  <2> QED BY <2>2, <2>3 DEF Flow
<1> QED BY <1>4, <1>5 DEF IrqApply

\* The order is kept: the lists are queues, and the registers are loaded from
\* their heads.
LEMMA FlowStep == ASSUME TypeInv, Flow, [Next]_vars PROVE Flow'
<1>t. /\ txWq \in Seq(Nat) /\ using \in Seq(Nat) /\ composedList \in Seq(Nat)
      /\ Sent \in Nat /\ enqueued \in Nat /\ outer \in Nat /\ inner \in Nat /\ cq \in Nat
      /\ written \in Nat
  BY FlowTypes
<1>u. CASE UNCHANGED <<txWq, using, composedList, Sent, outer, inner, cq, written, exposing>>
  BY <1>u DEF Flow, Queues, Registers
<1>1. CASE Enqueue
  <2>1. UNCHANGED <<using, composedList, outer, inner, cq, written, exposing>>
    BY <1>1 DEF Enqueue, EnqNumber, EnqLink, EnqEnlist, EnqSetSensor, QueueCompose, buffers, hw
  <2>2. CASE UNCHANGED txWq /\ enq' # "idle"
    <3>1. Sent' = Sent
      BY <1>1, <1>t, <2>2 DEF Enqueue, EnqNumber, EnqLink, EnqEnlist, EnqSetSensor, QueueCompose, Sent,
                 TypeInv
    <3> QED BY <1>u, <2>1, <2>2, <3>1
  <2>3. CASE QueueCompose /\ enq # "idle" /\ UNCHANGED enqueued
    <3>1. Sent' = Sent + 1 /\ txWq' = Append(txWq, Sent + 1)
      BY <1>t, <2>3 DEF QueueCompose, Sent
    <3> QED BY <2>1, <3>1, FlowSend
  <2> QED BY <1>1, <2>2, <2>3 DEF Enqueue, EnqNumber, EnqLink, EnqEnlist, EnqSetSensor, buffers, counters
<1>2. CASE TxFrame \/ Ack \/ IrqApply
  BY <1>2, FlowTxFrame, FlowAck, FlowApply
<1>3. CASE HwCqLoad
  <2>1. /\ cq # 0 /\ outer' = cq /\ cq' = 0
        /\ UNCHANGED <<txWq, using, composedList, Sent, inner, written, exposing>>
    BY <1>3 DEF HwCqLoad, buffers, counters, sensor, Sent
  <2>2. Above(0, composedList) /\ Above(0, using) /\ Above(0, txWq)
    BY <1>t, OrderWeaken DEF Flow, Registers
  <2> QED BY <1>t, <2>1, <2>2 DEF Flow, Queues, Registers
<1>4. CASE HwSof \/ HwLateSof
  <2>1. /\ UNCHANGED <<txWq, using, composedList, Sent, outer, cq, written>>
        /\ exposing' /\ inner' \in {inner, outer}
    BY <1>4 DEF HwSof, HwLateSof, HwSofs, buffers, counters, sensor, Sent
  <2> QED BY <1>t, <2>1 DEF Flow, Queues, Registers
<1>5. CASE HwDone
  <2>1. /\ UNCHANGED <<txWq, using, composedList, Sent, outer, cq, inner>>
        /\ written' = IF inner > written THEN inner ELSE written
    BY <1>5 DEF HwDone, buffers, counters, sensor, Sent
  <2>2. written' = inner
    BY <1>t, <2>1 DEF Flow, Registers
  <2> QED BY <1>t, <2>1, <2>2 DEF Flow, Queues, Registers
<1>6. CASE SensorWorker \/ DeadlineTimer
  <2>1. UNCHANGED <<txWq, using, composedList, Sent, outer, inner, cq, written, exposing>>
    BY <1>6, SensorKeeps DEF buffers, Sent
  <2> QED BY <1>u, <2>1
<1>7. CASE Irq \/ IrqTake \/ IrqScan \/ IrqHwDelay \/ IrqDecide
  BY <1>7, <1>u DEF Irq, IrqTake, IrqScan, IrqHwDelay, IrqDecide, buffers, counters, sensor, hw, Sent
<1>8. CASE FrameDone \/ UNCHANGED vars
  BY <1>8, <1>u DEF FrameDone, DonePrepare, DoneDequeue, vars, buffers, counters, sensor, hw, Sent
<1> QED BY <1>1, <1>2, <1>3, <1>4, <1>5, <1>6, <1>7, <1>8
        DEF Next, Composer, SensorWorker, Hardware, IrqThread

-----------------------------------------------------------------------------
(* The lists of events.                                                    *)

\* The entries of a list after appending to it.
LEMMA Appended ==
  ASSUME NEW R, NEW q \in Seq(R), NEW x \in R
  PROVE  /\ Len(q) \in Nat /\ Len(Append(q, x)) = Len(q) + 1 /\ Append(q, x)[Len(q) + 1] = x
         /\ \A i \in 1 .. Len(q) : i \in 1 .. Len(Append(q, x)) /\ Append(q, x)[i] = q[i]
         /\ \A i \in 1 .. Len(Append(q, x)) : i \in 1 .. Len(q) \/ i = Len(q) + 1
  OBVIOUS

\* The entries of a list after taking its head.
LEMMA Taken ==
  ASSUME NEW R, NEW q \in Seq(R), q # <<>>
  PROVE  /\ Len(q) \in Nat /\ Len(Tail(q)) = Len(q) - 1 /\ Head(q) = q[1] /\ 1 \in 1 .. Len(q)
         /\ \A i \in 1 .. Len(Tail(q)) : i + 1 \in 1 .. Len(q) /\ Tail(q)[i] = q[i + 1]
  OBVIOUS

\* Numbers of an event, and of the event in the handler.
LEMMA EventTypes ==
  ASSUME TypeInv
  PROVE  /\ fifo \in Seq(Event) /\ Len(fifo) \in Nat /\ dequeued \in Nat /\ ispSeq \in Nat
         /\ \A i \in 1 .. Len(fifo) : fifo[i].inner \in Nat /\ fifo[i] \in Event
         /\ irq.idx \in Nat /\ irq.inner \in Nat /\ irq.outer \in Nat
         /\ inner \in Nat /\ outer \in Nat /\ written \in Nat
<1>1. fifo \in Seq(Event)
  BY DEF TypeInv
<1>2. Len(fifo) \in Nat /\ \A i \in 1 .. Len(fifo) : fifo[i] \in Event
  BY <1>1
<1>3. \A e \in Event : e.inner \in Nat
  BY DEF Event
<1>4. irq.idx \in Nat /\ irq.inner \in Nat /\ irq.outer \in Nat
  BY DEF TypeInv, Handler
<1> QED BY <1>1, <1>2, <1>3, <1>4 DEF TypeInv

\* mtk_irq_raw copies the status bits and the counters into an event.
LEMMA IrqSteps ==
  ASSUME TypeInv, Irq
  PROVE  /\ bits' = NoBits
         /\ \/ UNCHANGED fifo
            \/ \E lag \in {0, 1}, e \in Event :
                 /\ fifo' = Append(fifo, e) /\ (lag = 1 => written = outer)
                 /\ e.cq = bits.cq /\ e.done = bits.done /\ e.sof = bits.sof
                 /\ e.inner = IF bits.sof THEN inner ELSE 0
                 /\ e.fbc0 = (bits.sof /\ written = outer)
                 /\ bits.sof => e.wcnt = ((written + 1 - lag) % CntMod) - 1
<1> SUFFICES ASSUME ~UNCHANGED fifo
             PROVE  \E lag \in {0, 1}, e \in Event :
                 /\ fifo' = Append(fifo, e) /\ (lag = 1 => written = outer)
                 /\ e.cq = bits.cq /\ e.done = bits.done /\ e.sof = bits.sof
                 /\ e.inner = IF bits.sof THEN inner ELSE 0
                 /\ e.fbc0 = (bits.sof /\ written = outer)
                 /\ bits.sof => e.wcnt = ((written + 1 - lag) % CntMod) - 1
  BY DEF Irq
<1> DEFINE ev(lag) == [cq |-> bits.cq, done |-> bits.done, sof |-> bits.sof,
                  outer |-> IF bits.cq THEN outer ELSE 0,
                  inner |-> IF bits.sof THEN inner ELSE 0,
                  wcnt |-> IF bits.sof THEN ((written + 1 - lag) % CntMod) - 1 ELSE 0,
                  fbc0 |-> bits.sof /\ written = outer]
<1>1. PICK lag \in (IF written = outer THEN {0, 1} ELSE {0}) : fifo' = Append(fifo, ev(lag))
  BY DEF Irq
<1>2. lag \in {0, 1} /\ (lag = 1 => written = outer)
  BY <1>1
<1>3. ((written + 1 - lag) % CntMod) - 1 \in Int
  BY <1>2, EventTypes, ConstantsAssumption
<1>4. bits.cq \in BOOLEAN /\ bits.done \in BOOLEAN /\ bits.sof \in BOOLEAN
  BY DEF TypeInv
<1>5. ev(lag) \in Event
  BY <1>3, <1>4, EventTypes DEF Event
<1>6. /\ ev(lag).cq = bits.cq /\ ev(lag).done = bits.done /\ ev(lag).sof = bits.sof
      /\ ev(lag).inner = IF bits.sof THEN inner ELSE 0
      /\ ev(lag).fbc0 = (bits.sof /\ written = outer)
      /\ bits.sof => ev(lag).wcnt = ((written + 1 - lag) % CntMod) - 1
  OBVIOUS
<1> HIDE DEF ev
<1> QED BY <1>1, <1>2, <1>5, <1>6

\* mtk_thread_irq_raw takes the first event.
LEMMA TakeSteps ==
  ASSUME TypeInv, IrqTake
  PROVE  /\ irq.pc = "idle" /\ fifo # <<>> /\ fifo' = Tail(fifo) /\ 1 \in 1 .. Len(fifo)
         /\ Len(fifo') = Len(fifo) - 1
         /\ \A i \in 1 .. Len(fifo') : i + 1 \in 1 .. Len(fifo) /\ fifo'[i] = fifo[i + 1]
         /\ fifo[1].cq => CqDone(fifo[1].outer)
         /\ ~fifo[1].cq => UNCHANGED <<initialCqDone, vf, estate>>
         /\ fifo[1].done => QueueDone(dequeued)
         /\ ~fifo[1].done => UNCHANGED <<isQueued, doneWq>>
         /\ \/ irq' = IdleIrq
            \/ /\ fifo[1].sof /\ irq'.pc = "scan" /\ irq'.idx = fifo[1].inner /\ irq'.inner = 0
               /\ irq'.wcnt = fifo[1].wcnt /\ irq'.fbc0 = fifo[1].fbc0
<1>1. fifo # <<>> /\ fifo' = Tail(fifo) /\ fifo \in Seq(Event)
  BY DEF IrqTake, TypeInv
<1>2. Head(fifo) = fifo[1]
  BY <1>1, Taken
<1>3. irq' = IdleIrq \/ (fifo[1].sof /\ irq' = [IdleIrq EXCEPT !.pc = "scan", !.idx = fifo[1].inner,
                                              !.wcnt = fifo[1].wcnt, !.fbc0 = fifo[1].fbc0])
  BY <1>2 DEF IrqTake
<1>4. \/ irq' = IdleIrq
      \/ /\ fifo[1].sof /\ irq'.pc = "scan" /\ irq'.idx = fifo[1].inner /\ irq'.inner = 0
         /\ irq'.wcnt = fifo[1].wcnt /\ irq'.fbc0 = fifo[1].fbc0
  BY <1>3 DEF IdleIrq
<1>5. /\ fifo[1].cq => CqDone(fifo[1].outer)
      /\ ~fifo[1].cq => UNCHANGED <<initialCqDone, vf, estate>>
      /\ fifo[1].done => QueueDone(dequeued)
      /\ ~fifo[1].done => UNCHANGED <<isQueued, doneWq>>
  BY <1>2 DEF IrqTake
<1> QED BY <1>1, <1>4, <1>5, Taken DEF IrqTake

-----------------------------------------------------------------------------
(* The view finder.                                                        *)

\* The CQ done interrupt of the first frame turns it on.
LEMMA StartedStep == ASSUME TypeInv, Flow, Started, [Next]_vars PROVE Started'
<1>a. /\ outer \in Nat /\ inner \in Nat /\ cq \in Nat /\ (cq # 0 => outer < cq)
      /\ inner <= outer /\ fifo \in Seq(Event) /\ Len(fifo) \in Nat
  BY FlowTypes, EventTypes DEF Flow, Registers
<1>u. CASE UNCHANGED <<vf, initialCqDone, bits, fifo, outer, inner, exposing>>
  BY <1>u DEF Started
<1>1. CASE Enqueue \/ SensorWorker \/ DeadlineTimer
  <2>1. UNCHANGED <<initialCqDone, bits, fifo, outer, inner, exposing>>
    BY <1>1, EnqueueKeeps, SensorKeeps DEF irqs
  <2>2. vf' => vf \/ initialCqDone
    BY <1>1 DEF Enqueue, EnqNumber, EnqLink, EnqEnlist, EnqSetSensor, SetSensor, SensorWorker,
                TrySetSensor, WorkerSetSensor, DeadlineTimer, hw
  <2> QED BY <2>1, <2>2 DEF Started
<1>2. CASE Composer
  BY <1>2, <1>u, ComposerKeeps DEF irqs
<1>3. CASE HwCqLoad
  <2>1. /\ outer' = cq /\ cq # 0 /\ bits'.sof = bits.sof
        /\ UNCHANGED <<vf, initialCqDone, fifo, inner, exposing>>
    BY <1>3 DEF HwCqLoad, TypeInv
  <2> QED BY <1>a, <2>1 DEF Started
<1>4. CASE HwSof \/ HwLateSof
  <2>1. /\ vf /\ bits'.cq = bits.cq /\ exposing' /\ inner' = (IF exposing THEN inner ELSE outer)
        /\ UNCHANGED <<vf, initialCqDone, fifo, outer>>
    BY <1>4 DEF HwSof, HwLateSof, HwSofs, TypeInv
  <2> QED BY <1>a, <2>1 DEF Started
<1>5. CASE HwDone
  <2>1. /\ bits'.cq = bits.cq /\ bits'.sof = bits.sof /\ ~exposing'
        /\ UNCHANGED <<vf, initialCqDone, fifo, outer, inner>>
    BY <1>5 DEF HwDone, TypeInv
  <2> QED BY <2>1 DEF Started
<1>6. CASE Irq
  <2>1. UNCHANGED <<vf, initialCqDone, outer, inner, exposing>>
    BY <1>6 DEF Irq, hw
  <2>2. bits' = NoBits
    BY <1>6, IrqSteps
  <2>3. ASSUME NEW i \in 1 .. Len(fifo'), fifo'[i].cq PROVE outer > 0
    <3>1. CASE UNCHANGED fifo
      BY <2>3, <3>1 DEF Started
    <3>2. CASE ~UNCHANGED fifo
      <4>1. PICK e \in Event : fifo' = Append(fifo, e) /\ e.cq = bits.cq
        BY <1>6, <3>2, IrqSteps
      <4>2. (i \in 1 .. Len(fifo) /\ fifo'[i] = fifo[i]) \/ fifo'[i] = e
        <5>1. i \in 1 .. Len(fifo) \/ i = Len(fifo) + 1
          BY <1>a, <4>1, Appended
        <5> QED BY <1>a, <4>1, <5>1, Appended
      <4> QED BY <2>3, <4>1, <4>2 DEF Started
    <3> QED BY <3>1, <3>2
  <2> QED BY <2>1, <2>2, <2>3 DEF Started, NoBits
<1>7. CASE IrqTake
  <2>1. UNCHANGED <<bits, outer, inner, exposing>>
    BY <1>7, IrqThreadKeeps DEF IrqThread
  <2>2. vf' \/ initialCqDone' => vf \/ initialCqDone \/ fifo[1].cq
    BY <1>7, TakeSteps DEF CqDone
  <2>3. vf' \/ initialCqDone' => outer > 0
    BY <1>7, <2>2, TakeSteps DEF Started
  <2>4. ASSUME NEW i \in 1 .. Len(fifo'), fifo'[i].cq PROVE outer > 0
    <3>1. i + 1 \in 1 .. Len(fifo) /\ fifo'[i] = fifo[i + 1]
      BY <1>7, TakeSteps
    <3> QED BY <2>4, <3>1 DEF Started
  <2> QED BY <2>1, <2>3, <2>4 DEF Started
<1>8. CASE IrqScan \/ IrqHwDelay \/ IrqDecide \/ IrqApply
  BY <1>8, <1>u DEF IrqScan, IrqHwDelay, IrqDecide, IrqApply, hw
<1>9. CASE FrameDone \/ UNCHANGED vars
  BY <1>9, <1>u, FrameDoneKeeps DEF irqs, hw, vars
<1> QED BY <1>1, <1>2, <1>3, <1>4, <1>5, <1>6, <1>7, <1>8, <1>9
        DEF Next, Hardware, IrqThread

-----------------------------------------------------------------------------
(* What events and states say has happened.                                *)

\* A transition exposes only a request that was exposed, or one up to n.
LEMMA TransitInner ==
  ASSUME NEW es \in [Frames -> EStates], NEW f, NEW from, NEW to, NEW n \in Nat,
         InnerUpTo(es, n),
         to \in {INNER, INNER_HW_DELAY} => from \in {INNER, INNER_HW_DELAY} \/ f <= n
  PROVE  InnerUpTo(Transit(es, f, from, to), n)
  BY DEF InnerUpTo, Transit

\* The states as the conditions of the code tell them apart.
LEMMA StateNumbers ==
  /\ {READY, SENSOR, CQ, OUTER, CQ_SCQ_DELAY, OUTER_HW_DELAY, DONE_NORMAL, DONE_MISMATCH}
       \cap {INNER, INNER_HW_DELAY} = {}
  /\ {READY, SENSOR, CQ, OUTER, INNER, DONE_NORMAL, CQ_SCQ_DELAY, OUTER_HW_DELAY, INNER_HW_DELAY,
      DONE_MISMATCH} \subseteq EStates
  BY DEF READY, SENSOR, CQ, OUTER, INNER, DONE_NORMAL, CQ_SCQ_DELAY, OUTER_HW_DELAY,
         INNER_HW_DELAY, DONE_MISMATCH, EStates

\* No step exposes a frame after the last one that had its SOF.
LEMMA InnerStep ==
  ASSUME TypeInv, Seen, [Next]_vars PROVE InnerUpTo(estate', dequeued')
<1>a. estate \in [Frames -> EStates] /\ dequeued \in Nat /\ InnerUpTo(estate, dequeued)
  BY DEF TypeInv, Seen
<1>u. CASE UNCHANGED <<estate, dequeued>>
  BY <1>a, <1>u
<1>t. ASSUME NEW f, NEW from, NEW to \in {SENSOR, CQ},
             estate' = Transit(estate, f, from, to), UNCHANGED dequeued
      PROVE  InnerUpTo(estate', dequeued')
  BY <1>a, <1>t, TransitInner, StateNumbers
<1>1. CASE Enqueue
  <2>1. UNCHANGED dequeued
    BY <1>1, EnqueueKeeps
  <2>2. UNCHANGED estate \/ estate' = Transit(estate, enqueued, READY, SENSOR)
    BY <1>1 DEF Enqueue, EnqNumber, EnqLink, EnqEnlist, EnqSetSensor, SetSensor, requests
  <2> QED BY <1>u, <1>t, <2>1, <2>2
<1>2. CASE SensorWorker \/ DeadlineTimer
  <2>1. UNCHANGED dequeued
    BY <1>2, SensorKeeps
  <2>2. CASE estate' = [estate EXCEPT ![sensorSeq] = CQ_SCQ_DELAY]
    BY <1>a, <2>1, <2>2, StateNumbers DEF InnerUpTo
  <2>3. \/ UNCHANGED estate \/ estate' = Transit(estate, sensorSeq, READY, SENSOR)
        \/ estate' = [estate EXCEPT ![sensorSeq] = CQ_SCQ_DELAY]
    BY <1>2 DEF SensorWorker, TrySetSensor, WorkerSetSensor, SetSensor, DeadlineTimer, requests
  <2> QED BY <1>u, <1>t, <2>1, <2>2, <2>3
<1>3. CASE Composer \/ Hardware \/ UNCHANGED vars
  BY <1>3, <1>u, ComposerKeeps, HardwareKeeps DEF requests, counters, vars
<1>4. CASE IrqTake
  <2>1. UNCHANGED dequeued
    BY <1>4 DEF IrqTake, counters
  <2>2. UNCHANGED estate \/ \E f \in stateList : estate' = [estate EXCEPT ![f] = OUTER]
    BY <1>4, TakeSteps DEF CqDone
  <2> QED BY <1>a, <2>1, <2>2, StateNumbers DEF InnerUpTo
<1>5. CASE IrqScan
  <2>1. UNCHANGED estate /\ dequeued' = irq.idx /\ dequeued <= irq.idx
    BY <1>5 DEF IrqScan, requests, Seen, SeenHandler
  <2>2. \A f \in Frames : f \in Nat
    BY DEF Frames
  <2>3. irq.idx \in Nat
    BY EventTypes
  <2> QED BY <1>a, <2>1, <2>2, <2>3 DEF InnerUpTo
<1>6. CASE IrqHwDelay
  <2> DEFINE e1 == Transit(estate, irq.inner, INNER, INNER_HW_DELAY)
  <2>1. UNCHANGED dequeued /\ estate' = Transit(e1, irq.outer, OUTER, OUTER_HW_DELAY)
    BY <1>6 DEF IrqHwDelay, counters
  <2>2. InnerUpTo(e1, dequeued) /\ e1 \in [Frames -> EStates]
    BY <1>a, TransitInner, TransitType, StateNumbers
  <2> HIDE DEF e1
  <2> QED BY <1>a, <2>1, <2>2, TransitInner, StateNumbers
<1>7. CASE IrqDecide
  <2> DEFINE e1 == Transit(estate, irq.outer, OUTER_HW_DELAY, INNER_HW_DELAY)
             e2 == IF ~Loaded THEN estate ELSE Transit(e1, irq.outer, OUTER, INNER)
             e3 == IF irq.rec1 = 1 THEN Transit(e2, 1, SENSOR, INNER) ELSE e2
  <2>1. /\ UNCHANGED dequeued
        /\ UNCHANGED estate \/ estate' = Transit(e3, irq.rec0, CQ_SCQ_DELAY, OUTER)
    BY <1>7 DEF IrqDecide
  <2>2. irq.pc = "decide" /\ dequeued = irq.idx /\ irq.idx > 0 /\ irq.idx \in Nat
    <3>1. irq.pc = "decide"
      BY <1>7 DEF IrqDecide
    <3> QED BY <3>1, <1>a DEF Seen, SeenHandler
  <2>3. Loaded => irq.outer <= dequeued
    BY <1>a, <2>2 DEF Loaded
  <2>4. Loaded => InnerUpTo(e1, dequeued) /\ e1 \in [Frames -> EStates]
    BY <1>a, <2>3, TransitInner, TransitType, StateNumbers
  <2> HIDE DEF e1
  <2>5. InnerUpTo(e2, dequeued) /\ e2 \in [Frames -> EStates]
    <3>1. CASE ~Loaded
      BY <1>a, <3>1
    <3>2. CASE Loaded
      <4>1. InnerUpTo(Transit(e1, irq.outer, OUTER, INNER), dequeued)
        BY <1>a, <2>3, <2>4, <3>2, TransitInner
      <4>2. Transit(e1, irq.outer, OUTER, INNER) \in [Frames -> EStates]
        BY <2>4, <3>2, TransitType, StateNumbers
      <4> QED BY <3>2, <4>1, <4>2
    <3> QED BY <3>1, <3>2
  <2> HIDE DEF e2
  <2>6. InnerUpTo(e3, dequeued) /\ e3 \in [Frames -> EStates]
    <3>1. 1 <= dequeued
      BY <2>2
    <3>2. InnerUpTo(Transit(e2, 1, SENSOR, INNER), dequeued)
      BY <1>a, <2>5, <3>1, TransitInner
    <3>3. Transit(e2, 1, SENSOR, INNER) \in [Frames -> EStates]
      BY <2>5, TransitType, StateNumbers
    <3> QED BY <2>5, <3>2, <3>3
  <2> HIDE DEF e3
  <2>7. InnerUpTo(Transit(e3, irq.rec0, CQ_SCQ_DELAY, OUTER), dequeued)
    BY <1>a, <2>6, TransitInner, StateNumbers
  <2> QED BY <1>u, <2>1, <2>7
<1>8. CASE IrqApply
  <2>1. UNCHANGED dequeued /\ (UNCHANGED estate \/ estate' = Transit(estate, irq.rec0, SENSOR, CQ))
    BY <1>8 DEF IrqApply, counters
  <2> QED BY <1>u, <1>t, <2>1
<1>9. CASE DonePrepare
  <2> DEFINE e1 == Transit(estate, deq', INNER_HW_DELAY, DONE_MISMATCH)
             e2 == Transit(e1, deq', INNER, DONE_NORMAL)
             e3 == Transit(e2, deq', CQ, OUTER)
  <2>1. UNCHANGED dequeued /\ estate' \in {estate, e2, e3}
    BY <1>9 DEF DonePrepare, counters
  <2>2. InnerUpTo(e1, dequeued) /\ e1 \in [Frames -> EStates]
    BY <1>a, TransitInner, TransitType, StateNumbers
  <2> HIDE DEF e1
  <2>3. InnerUpTo(e2, dequeued) /\ e2 \in [Frames -> EStates]
    BY <1>a, <2>2, TransitInner, TransitType, StateNumbers
  <2> HIDE DEF e2
  <2>4. InnerUpTo(e3, dequeued)
    BY <1>a, <2>3, TransitInner, StateNumbers
  <2> HIDE DEF e3
  <2> QED BY <1>a, <2>1, <2>3, <2>4
<1>10. CASE DoneDequeue
  <2>1. /\ UNCHANGED dequeued
        /\ estate' = [f \in Frames |-> IF f \in Dequeued THEN READY ELSE estate[f]]
    BY <1>10 DEF DoneDequeue, counters
  <2> QED BY <1>a, <2>1, StateNumbers DEF InnerUpTo
<1> QED BY <1>1, <1>2, <1>3, <1>4, <1>5, <1>6, <1>7, <1>8, <1>9, <1>10
        DEF Next, IrqThread, FrameDone

\* The handler between two events.
LEMMA HandlerFields == IdleIrq.pc = "idle" /\ IdleIrq.idx = 0 /\ IdleIrq.inner = 0
  BY DEF IdleIrq

\* What the scan of the state list hands to the decision.
LEMMA ScanSteps ==
  ASSUME IrqScan
  PROVE  /\ irq.pc = "scan" /\ dequeued' = irq.idx
         /\ irq'.pc = "decide" /\ irq'.idx = irq.idx
         /\ irq'.inner = Recent({INNER, INNER_HW_DELAY})
         /\ irq'.inner # 0 => irq'.wcnt = irq.wcnt
         /\ irq'.fbc0 = (irq'.inner # 0 /\ irq.fbc0)
         /\ UNCHANGED <<running, isQueued, result, enqueued, ispSeq, enq, doneWq, deq, bits, fifo,
                        outer, inner, exposing, written>>
  BY DEF IrqScan, IdleIrq, requests, counters, buffers, sensor, done, hw

\* After the decision the handler keeps the frame or goes idle.
LEMMA DecideSteps ==
  ASSUME IrqDecide
  PROVE  /\ irq.pc = "decide" /\ ~HwIncomplete
         /\ \/ irq' = IdleIrq
            \/ irq'.pc = "apply" /\ irq'.idx = irq.idx
         /\ ispSeq' = ispSeq \/ ispSeq' = irq.idx
         /\ \/ irq.inner # 0 /\ ~DoneOnItsWay /\ QueueDone(LostDone)
            \/ UNCHANGED <<isQueued, doneWq>>
         /\ UNCHANGED <<running, result, enqueued, dequeued, enq, deq, bits, fifo, outer, inner,
                        exposing, written>>
<1>1. irq' = IdleIrq \/ irq' = [IdleIrq EXCEPT !.pc = "apply", !.idx = irq.idx, !.rec0 = irq.rec0]
  BY DEF IrqDecide
<1>2. irq' = IdleIrq \/ (irq'.pc = "apply" /\ irq'.idx = irq.idx)
  BY <1>1 DEF IdleIrq
<1>3. UNCHANGED <<running, result, enqueued, dequeued, enq, deq, bits, fifo, outer, inner,
                  exposing, written>>
  BY DEF IrqDecide, hw
<1> QED BY <1>2, <1>3 DEF IrqDecide

\* The handler goes idle without queueing anything.
LEMMA RestSteps ==
  ASSUME IrqHwDelay \/ IrqApply
  PROVE  /\ irq.pc # "idle" /\ irq' = IdleIrq
         /\ UNCHANGED <<running, isQueued, result, enqueued, dequeued, ispSeq, enq, doneWq, deq, bits,
                        fifo, outer, inner, exposing, written>>
  BY DEF IrqHwDelay, IrqApply, counters, buffers, sensor, done, hw

\* Requests that the scan reports in INNER have had their SOF.
LEMMA ScanInner ==
  ASSUME TypeInv, Seen, IrqScan PROVE irq'.inner <= irq.idx
<1> DEFINE S == {INNER, INNER_HW_DELAY}
           fs == {f \in stateList : sensorSeq - f \in 0 .. 2 /\ estate[f] \in S}
<1>1. irq'.inner = (IF fs = {} THEN 0 ELSE CHOOSE f \in fs : \A g \in fs : g <= f)
  BY ScanSteps DEF Recent
<1>2. irq.idx \in Nat /\ dequeued \in Nat /\ dequeued <= irq.idx
  BY EventTypes, ScanSteps DEF Seen, SeenHandler
<1>3. \A f \in fs : f \in Frames /\ f \in Nat
  BY ConstantsAssumption DEF TypeInv, Frames, Linked
<1>4. \A f \in fs : f <= dequeued
  BY <1>3 DEF Seen, InnerUpTo
<1>5. CASE fs = {}
  BY <1>1, <1>2, <1>5
<1>6. CASE fs # {}
  <2>1. \E f \in fs : \A g \in fs : g <= f
    <3>1. sensorSeq \in Nat
      BY DEF TypeInv
    <3>2. \A f \in fs : f \in sensorSeq - 2 .. sensorSeq
      BY <1>3, <3>1
    <3> HIDE DEF fs
    <3>3. CASE sensorSeq \in fs
      BY <1>3, <3>1, <3>2, <3>3
    <3>4. CASE sensorSeq \notin fs /\ sensorSeq - 1 \in fs
      BY <1>3, <3>1, <3>2, <3>4
    <3>5. CASE sensorSeq \notin fs /\ sensorSeq - 1 \notin fs
      BY <1>3, <1>6, <3>1, <3>2, <3>5
    <3> QED BY <3>3, <3>4, <3>5
  <2>2. irq'.inner \in fs
    BY <1>1, <1>6, <2>1
  <2> HIDE DEF fs
  <2> QED BY <1>2, <1>3, <1>4, <2>2
<1> QED BY <1>5, <1>6

\* One SOF is under way at a time, and what it says has happened.
LEMMA SeenStep == ASSUME TypeInv, Flow, Started, Seen, [Next]_vars PROVE Seen'
<1>a. /\ fifo \in Seq(Event) /\ Len(fifo) \in Nat /\ dequeued \in Nat /\ ispSeq \in Nat
      /\ irq.idx \in Nat /\ inner \in Nat /\ outer \in Nat /\ inner <= outer
  BY EventTypes DEF Flow, Registers
<1>b. \A i \in 1 .. Len(fifo) : fifo[i].inner \in Nat
  BY EventTypes
<1>c. InnerUpTo(estate, dequeued)'
  BY InnerStep
<1>u. ASSUME UNCHANGED <<fifo, irq, dequeued, ispSeq>>, bits'.sof = bits.sof,
             inner <= inner', inner' \in Nat
      PROVE  Seen'
  <2>1. SeenEvents'
    BY <1>a, <1>b, <1>u DEF Seen, SeenEvents
  <2>2. OneSof' /\ SeenHandler'
    BY <1>a, <1>u DEF Seen, OneSof, SeenHandler
  <2> QED BY <1>c, <2>1, <2>2 DEF Seen
<1>1. CASE Enqueue \/ SensorWorker \/ DeadlineTimer \/ Composer \/ FrameDone \/ UNCHANGED vars
  <2>1. UNCHANGED <<fifo, irq, dequeued, ispSeq, bits, inner>>
    BY <1>1, EnqueueKeeps, SensorKeeps, ComposerKeeps, FrameDoneKeeps DEF irqs, counters, hw, vars
  <2> QED BY <1>a, <1>u, <2>1
<1>2. CASE HwCqLoad \/ HwDone
  <2>1. UNCHANGED <<fifo, irq, dequeued, ispSeq, inner>> /\ bits'.sof = bits.sof
    BY <1>2 DEF HwCqLoad, HwDone, counters, TypeInv
  <2> QED BY <1>a, <1>u, <2>1
<1>3. CASE HwSof \/ HwLateSof
  <2>1. /\ UNCHANGED <<fifo, irq, dequeued, ispSeq>> /\ inner' \in {inner, outer}
        /\ \A e \in ToSet(fifo) : ~e.sof
    BY <1>3 DEF HwSof, HwLateSof, HwSofs, counters
  <2>2. \A i \in 1 .. Len(fifo) : ~fifo[i].sof
    BY <1>a, <2>1 DEF ToSet
  <2>3. SeenEvents' /\ OneSof'
    <3>1. inner <= inner' /\ inner' \in Nat /\ \A i \in 1 .. Len(fifo) : fifo[i].inner <= inner
      BY <1>a, <2>1 DEF Seen, SeenEvents
    <3>2. SeenEvents'
      BY <1>a, <1>b, <2>1, <2>2, <3>1 DEF Seen, SeenEvents
    <3>3. OneSof'
      BY <2>1, <2>2 DEF OneSof
    <3> QED BY <3>2, <3>3
  <2>4. SeenHandler'
    BY <1>a, <2>1 DEF Seen, SeenHandler
  <2> QED BY <1>c, <2>3, <2>4 DEF Seen
<1>4. CASE Irq
  <2>1. UNCHANGED <<irq, dequeued, ispSeq, inner>> /\ bits' = NoBits
    BY <1>4, IrqSteps DEF Irq, counters, hw
  <2>2. CASE UNCHANGED fifo
    <3>1. SeenEvents' /\ OneSof' /\ SeenHandler'
      BY <2>1, <2>2 DEF Seen, SeenEvents, OneSof, SeenHandler, NoBits
    <3> QED BY <1>c, <3>1 DEF Seen
  <2>3. CASE ~UNCHANGED fifo
    <3>1. PICK e \in Event : /\ fifo' = Append(fifo, e) /\ e.sof = bits.sof
                             /\ e.inner = IF bits.sof THEN inner ELSE 0
      BY <1>4, <2>3, IrqSteps
    <3>2. /\ Len(fifo') = Len(fifo) + 1 /\ fifo'[Len(fifo) + 1] = e
          /\ \A i \in 1 .. Len(fifo) : fifo'[i] = fifo[i]
          /\ \A i \in 1 .. Len(fifo') : i \in 1 .. Len(fifo) \/ i = Len(fifo) + 1
      BY <1>a, <3>1, Appended
    <3>3. ~bits'.sof
      BY <2>1 DEF NoBits
    <3>4. bits.sof => inner > 0
      BY DEF Started
    <3>5. SeenEvents'
      <4> SUFFICES ASSUME NEW i \in 1 .. Len(fifo')
                   PROVE  /\ fifo'[i].inner <= inner
                          /\ fifo'[i].sof => /\ fifo'[i].inner > 0 /\ dequeued <= fifo'[i].inner
                                             /\ irq.idx <= fifo'[i].inner
                          /\ ~fifo'[i].sof => fifo'[i].inner = 0
        BY <2>1, <3>3 DEF SeenEvents
      <4>1. CASE i \in 1 .. Len(fifo)
        BY <3>2, <4>1 DEF Seen, SeenEvents
      <4>2. CASE i = Len(fifo) + 1
        BY <1>a, <3>1, <3>2, <3>4, <4>2 DEF Seen, SeenHandler
      <4> QED BY <3>2, <4>1, <4>2
    <3>6. OneSof'
      <4> SUFFICES ASSUME NEW i \in 1 .. Len(fifo'), NEW j \in 1 .. Len(fifo'),
                          fifo'[i].sof, fifo'[j].sof
                   PROVE  i = j
        BY DEF OneSof
      <4>1. bits.sof => \A k \in 1 .. Len(fifo) : ~fifo[k].sof
        BY DEF Seen, SeenEvents
      <4> QED BY <3>1, <3>2, <4>1 DEF Seen, OneSof
    <3>7. SeenHandler'
      BY <2>1 DEF Seen, SeenHandler
    <3> QED BY <1>c, <3>5, <3>6, <3>7 DEF Seen
  <2> QED BY <2>2, <2>3
<1>5. CASE IrqTake
  <2>1. /\ irq.pc = "idle" /\ 1 \in 1 .. Len(fifo) /\ Len(fifo') = Len(fifo) - 1
        /\ \A i \in 1 .. Len(fifo') : i + 1 \in 1 .. Len(fifo) /\ fifo'[i] = fifo[i + 1]
        /\ irq' = IdleIrq \/ (fifo[1].sof /\ irq'.pc = "scan" /\ irq'.idx = fifo[1].inner)
    BY <1>5, TakeSteps
  <2>2. UNCHANGED <<dequeued, ispSeq, bits, inner>>
    BY <1>5 DEF IrqTake, counters
  <2>3. OneSof'
    <3> SUFFICES ASSUME NEW i \in 1 .. Len(fifo'), NEW j \in 1 .. Len(fifo'),
                        fifo'[i].sof, fifo'[j].sof
                 PROVE  i = j
      BY DEF OneSof
    <3>1. i + 1 = j + 1
      BY <2>1 DEF Seen, OneSof
    <3> QED BY <1>a, <2>1, <3>1
  <2>4. fifo[1].sof => \A i \in 1 .. Len(fifo') : ~fifo'[i].sof
    <3> SUFFICES ASSUME fifo[1].sof, NEW i \in 1 .. Len(fifo'), fifo'[i].sof PROVE FALSE
      OBVIOUS
    <3>1. i + 1 = 1
      BY <2>1 DEF Seen, OneSof
    <3> QED BY <1>a, <2>1, <3>1
  <2>5. irq'.idx = 0 \/ (fifo[1].sof /\ irq'.idx = fifo[1].inner)
    BY <2>1, HandlerFields
  <2>6. SeenEvents'
    <3> SUFFICES ASSUME NEW i \in 1 .. Len(fifo')
                 PROVE  /\ fifo'[i].inner <= inner'
                        /\ fifo'[i].sof => /\ ~bits'.sof /\ fifo'[i].inner > 0
                                           /\ dequeued' <= fifo'[i].inner /\ irq'.idx <= fifo'[i].inner
                        /\ ~fifo'[i].sof => fifo'[i].inner = 0
      BY DEF SeenEvents
    <3>1. i + 1 \in 1 .. Len(fifo) /\ fifo'[i] = fifo[i + 1]
      BY <2>1
    <3>2. fifo'[i].sof => irq'.idx = 0
      BY <2>4, <2>5
    <3> QED BY <2>2, <3>1, <3>2, <1>b DEF Seen, SeenEvents
  <2>7. SeenHandler'
    BY <1>a, <1>b, <2>1, <2>2, HandlerFields DEF Seen, SeenEvents, SeenHandler
  <2> QED BY <1>c, <2>3, <2>6, <2>7 DEF Seen
<1>6. CASE IrqScan
  <2>1. SeenHandler'
    BY <1>6, <1>a, ScanInner, ScanSteps DEF Seen, SeenHandler
  <2>2. SeenEvents' /\ OneSof'
    BY <1>6, <1>a, ScanSteps DEF Seen, SeenEvents, OneSof
  <2> QED BY <1>c, <2>1, <2>2 DEF Seen
<1>7. CASE IrqDecide
  <2>1. /\ irq.pc = "decide" /\ (irq' = IdleIrq \/ (irq'.pc = "apply" /\ irq'.idx = irq.idx))
        /\ (ispSeq' = ispSeq \/ ispSeq' = irq.idx) /\ UNCHANGED <<dequeued, bits, fifo, inner>>
    BY <1>7, DecideSteps
  <2>2. SeenHandler'
    BY <1>a, <2>1, HandlerFields DEF Seen, SeenHandler
  <2>3. irq'.idx \in {0, irq.idx}
    BY <2>1, HandlerFields
  <2>4. SeenEvents' /\ OneSof'
    BY <1>a, <1>b, <2>1, <2>3 DEF Seen, SeenEvents, OneSof
  <2> QED BY <1>c, <2>2, <2>4 DEF Seen
<1>8. CASE IrqHwDelay \/ IrqApply
  <2>1. SeenHandler'
    BY <1>8, <1>a, RestSteps, HandlerFields DEF Seen, SeenHandler
  <2>2. irq'.idx = 0 /\ UNCHANGED <<dequeued, bits, fifo, inner>>
    BY <1>8, RestSteps, HandlerFields
  <2>3. SeenEvents' /\ OneSof'
    BY <1>a, <1>b, <2>2 DEF Seen, SeenEvents, OneSof
  <2> QED BY <1>c, <2>1, <2>3 DEF Seen
<1> QED BY <1>1, <1>2, <1>3, <1>4, <1>5, <1>6, <1>7, <1>8 DEF Next, Hardware, IrqThread

-----------------------------------------------------------------------------
(* Done interrupts.                                                        *)

\* The done of a frame is read before the next SOF makes another frame current.
LEMMA DoneSafeStep ==
  ASSUME TypeInv, Flow, Seen, DoneSafe, [Next]_vars PROVE DoneSafe'
<1>a. /\ fifo \in Seq(Event) /\ Len(fifo) \in Nat /\ dequeued \in Nat /\ irq.idx \in Nat
      /\ inner \in Nat /\ written \in Nat /\ written <= inner
  BY EventTypes DEF Flow, Registers
<1>b. \A i \in 1 .. Len(fifo) : fifo[i].inner \in Nat /\ fifo[i].inner <= inner
  BY EventTypes DEF Seen, SeenEvents
<1>u. ASSUME UNCHANGED <<fifo, written>>, bits'.done = bits.done,
             irq'.idx \in {0, irq.idx}, dequeued' \in {dequeued, irq.idx}
      PROVE  DoneSafe'
  BY <1>a, <1>b, <1>u DEF DoneSafe
<1>1. CASE Enqueue \/ SensorWorker \/ DeadlineTimer \/ Composer \/ FrameDone \/ UNCHANGED vars
  <2>1. UNCHANGED <<fifo, irq, dequeued, bits, written>>
    BY <1>1, EnqueueKeeps, SensorKeeps, ComposerKeeps, FrameDoneKeeps DEF irqs, counters, hw, vars
  <2> QED BY <1>u, <2>1
<1>2. CASE HwCqLoad \/ HwSof \/ HwLateSof
  <2>1. UNCHANGED <<fifo, irq, dequeued, written>> /\ bits'.done = bits.done
    BY <1>2 DEF HwCqLoad, HwSof, HwLateSof, HwSofs, counters, TypeInv
  <2> QED BY <1>u, <2>1
<1>3. CASE HwDone
  <2>1. UNCHANGED <<fifo, irq, dequeued>> /\ written' = inner
    BY <1>3, <1>a DEF HwDone, counters
  <2>2. dequeued <= inner /\ irq.idx <= inner
    BY DEF Seen, SeenHandler
  <2> QED BY <1>a, <1>b, <2>1, <2>2 DEF DoneSafe
<1>4. CASE Irq
  <2>1. UNCHANGED <<irq, dequeued, written>> /\ ~bits'.done
    BY <1>4, IrqSteps DEF Irq, counters, hw, NoBits
  <2>2. CASE UNCHANGED fifo
    BY <2>1, <2>2 DEF DoneSafe
  <2>3. CASE ~UNCHANGED fifo
    <3>1. PICK e \in Event : fifo' = Append(fifo, e) /\ e.done = bits.done
      BY <1>4, <2>3, IrqSteps
    <3>2. /\ Len(fifo') = Len(fifo) + 1 /\ fifo'[Len(fifo) + 1] = e
          /\ \A i \in 1 .. Len(fifo) : fifo'[i] = fifo[i]
          /\ \A i \in 1 .. Len(fifo') : i \in 1 .. Len(fifo) \/ i = Len(fifo) + 1
      BY <1>a, <3>1, Appended
    <3> SUFFICES ASSUME NEW i \in 1 .. Len(fifo'), fifo'[i].done
                 PROVE  /\ dequeued <= written /\ irq.idx <= written
                        /\ \A j \in 1 .. i - 1 : fifo'[j].inner <= written
      BY <2>1 DEF DoneSafe
    <3>3. CASE i \in 1 .. Len(fifo)
      <4>1. \A j \in 1 .. i - 1 : j \in 1 .. Len(fifo)
        BY <1>a, <3>3
      <4>2. fifo[i].done
        BY <3>2, <3>3
      <4> QED BY <3>2, <3>3, <4>1, <4>2 DEF DoneSafe
    <3>4. CASE i = Len(fifo) + 1
      <4>1. bits.done
        BY <3>1, <3>2, <3>4
      <4>2. \A j \in 1 .. i - 1 : j \in 1 .. Len(fifo)
        BY <1>a, <3>4
      <4> QED BY <3>2, <4>1, <4>2 DEF DoneSafe
    <3> QED BY <3>2, <3>3, <3>4
  <2> QED BY <2>2, <2>3
<1>5. CASE IrqTake
  <2>1. /\ 1 \in 1 .. Len(fifo) /\ Len(fifo') = Len(fifo) - 1
        /\ \A i \in 1 .. Len(fifo') : i + 1 \in 1 .. Len(fifo) /\ fifo'[i] = fifo[i + 1]
        /\ irq'.idx \in {0, fifo[1].inner}
    BY <1>5, TakeSteps, HandlerFields
  <2>2. UNCHANGED <<dequeued, bits, written>>
    BY <1>5 DEF IrqTake, counters
  <2>3. ASSUME bits.done PROVE irq'.idx <= written /\ \A j \in 1 .. Len(fifo') : fifo'[j].inner <= written
    <3>1. \A j \in 1 .. Len(fifo) : fifo[j].inner <= written
      BY <2>3 DEF DoneSafe
    <3> QED BY <1>a, <2>1, <3>1
  <2>4. ASSUME NEW i \in 1 .. Len(fifo'), fifo'[i].done
        PROVE  /\ dequeued <= written /\ irq'.idx <= written
               /\ \A j \in 1 .. i - 1 : fifo'[j].inner <= written
    <3>1. i + 1 \in 1 .. Len(fifo) /\ fifo[i + 1].done /\ 1 \in 1 .. (i + 1) - 1
      BY <2>1, <2>4
    <3>2. dequeued <= written /\ fifo[1].inner <= written
      BY <3>1 DEF DoneSafe
    <3>3. ASSUME NEW j \in 1 .. i - 1 PROVE fifo'[j].inner <= written
      <4>1. j + 1 \in 1 .. (i + 1) - 1 /\ j \in 1 .. Len(fifo')
        BY <1>a, <2>1
      <4> QED BY <2>1, <3>1, <4>1 DEF DoneSafe
    <3> QED BY <1>a, <2>1, <3>2, <3>3
  <2> QED BY <2>2, <2>3, <2>4 DEF DoneSafe
<1>6. CASE IrqScan \/ IrqDecide
  <2>1. irq'.idx \in {0, irq.idx} /\ dequeued' \in {dequeued, irq.idx} /\ UNCHANGED <<bits, fifo, written>>
    BY <1>6, ScanSteps, DecideSteps, HandlerFields
  <2> QED BY <1>u, <2>1
<1>7. CASE IrqHwDelay \/ IrqApply
  BY <1>7, <1>u, RestSteps, HandlerFields
<1> QED BY <1>1, <1>2, <1>3, <1>4, <1>5, <1>6, <1>7 DEF Next, Hardware, IrqThread

-----------------------------------------------------------------------------
(* The write counter.                                                      *)

\* Integer division.
LEMMA DivMod ==
  ASSUME NEW a \in Nat, NEW m \in Nat \ {0}
  PROVE  /\ a \div m \in Nat /\ a % m \in 0 .. m - 1
         /\ a = (a \div m) * m + (a % m)
  OBVIOUS

\* The smaller of two multiples has the smaller factor.
LEMMA Multiples ==
  ASSUME NEW p \in Nat, NEW q \in Nat, NEW m \in Nat \ {0}
  PROVE  /\ p * m \in Nat
         /\ p <= q => p * m <= q * m
         /\ p < q => p * m + m <= q * m
<1>1. p <= q => \E k \in Nat : q = p + k
  BY q = p + (q - p)
<1>2. \A k \in Nat : (p + k) * m = p * m + k * m /\ k * m \in Nat
  OBVIOUS
<1>3. p < q => \E k \in Nat : q = p + k + 1
  BY q = p + (q - p - 1) + 1
<1>4. \A k \in Nat : (p + k + 1) * m = p * m + k * m + m
  OBVIOUS
<1> QED BY <1>1, <1>2, <1>3, <1>4

\* Every request from the first to the last of a range runs: no more than the limit.
LEMMA RunningRange ==
  ASSUME TypeInv, Jobs, NEW a \in Nat, NEW b \in Nat, a .. b \subseteq running
  PROVE  b - a + 1 <= MaxJobs
<1>1. IsFiniteSet(a .. b) /\ Cardinality(a .. b) = IF a > b THEN 0 ELSE b - a + 1
  BY FS_Interval
<1>2. Cardinality(a .. b) <= Cardinality(running) /\ Cardinality(running) \in Nat
  BY RunningFinite, FS_Subset
<1>3. Cardinality(running) <= MaxJobs /\ MaxJobs \in Nat
  BY <1>2, ConstantsAssumption DEF Jobs
<1> QED BY <1>1, <1>2, <1>3

\* mtk_camsys_raw_state_handle: the frame whose done interrupt it takes for lost
\* was written. The last SOF fixes the high bits of the counter; were they too
\* high, a full turn of the counter of requests would still be running.
LEMMA LostDoneWritten ==
  ASSUME TypeInv, Jobs, Seen, irq.pc = "decide", irq.inner # 0, ~DoneOnItsWay,
         NEW w \in Nat, Counted(irq.wcnt, irq.fbc0, w), QueuedUpTo(w),
         irq.fbc0 => irq.idx <= w, LostDone \in running
  PROVE  LostDone <= w
<1>a. /\ irq.idx \in Nat /\ irq.inner \in Nat /\ ispSeq \in Nat /\ CntMod \in Nat \ {0}
      /\ MaxJobs \in Nat /\ MaxJobs < CntMod
  BY EventTypes, ConstantsAssumption
<1>1. ispSeq = irq.idx /\ irq.inner <= irq.idx
  BY <1>a DEF DoneOnItsWay, Seen, SeenHandler
<1>2. PICK lag \in {0, 1} : irq.wcnt = ((w + 1 - lag) % CntMod) - 1 /\ (lag = 1 => irq.fbc0)
  BY DEF Counted
<1> DEFINE x == w + 1 - lag
           q == ispSeq \div CntMod
           p == x \div CntMod
           r == x % CntMod
<1>3. x \in Nat /\ (irq.fbc0 => irq.idx <= w)
  BY <1>2
<1>4. q \in Nat /\ p \in Nat /\ r \in 0 .. CntMod - 1 /\ x = p * CntMod + r
      /\ q * CntMod <= ispSeq
  <2> HIDE DEF x
  <2>1. p \in Nat /\ r \in 0 .. CntMod - 1 /\ x = p * CntMod + r
    BY <1>a, <1>3, DivMod
  <2>2. /\ q \in Nat /\ ispSeq % CntMod \in 0 .. CntMod - 1
        /\ ispSeq = q * CntMod + (ispSeq % CntMod)
    BY <1>a, DivMod
  <2>3. q * CntMod \in Nat
    BY <1>a, <2>2, Multiples
  <2> HIDE DEF p, q, r
  <2> QED BY <1>a, <2>1, <2>2, <2>3
<1>5. WriteCnt = q * CntMod + r - 1
  BY <1>a, <1>2, <1>4 DEF WriteCnt
<1>6. q * CntMod \in Nat /\ p * CntMod \in Nat
  BY <1>a, <1>4, Multiples
<1>7. CASE WriteCnt >= irq.inner
  <2>1. LostDone = WriteCnt
    <3>1. WriteCnt \in Int
      BY <1>4, <1>5, <1>6
    <3> QED BY <1>7, <1>a, <3>1 DEF LostDone
  <2>2. CASE q <= p
    <3>1. q * CntMod <= p * CntMod
      BY <1>a, <1>4, <2>2, Multiples
    <3> HIDE DEF q, p, r
    <3> QED BY <1>a, <1>2, <1>4, <1>5, <1>6, <2>1, <3>1
  <2>3. CASE p < q
    <3>1. p * CntMod + CntMod <= q * CntMod
      BY <1>a, <1>4, <2>3, Multiples
    <3> HIDE DEF q, p, r
    <3>2. x < ispSeq
      BY <1>a, <1>4, <1>6, <3>1
    <3>3. lag = 0
      BY <1>a, <1>1, <1>2, <1>3, <3>2
    <3>4. LostDone >= w + CntMod /\ LostDone \in Nat
      BY <1>a, <1>4, <1>5, <1>6, <2>1, <3>1, <3>3
    <3>5. LostDone <= Linked /\ Linked \in Int
      BY DEF TypeInv, Linked
    <3>6. w + 1 .. LostDone \subseteq running
      BY <3>4, <3>5 DEF QueuedUpTo
    <3>7. LostDone - (w + 1) + 1 <= MaxJobs
      BY <3>4, <3>6, RunningRange
    <3> QED BY <1>a, <3>4, <3>7
  <2> QED BY <1>4, <2>2, <2>3
<1>8. CASE ~(WriteCnt >= irq.inner) /\ WriteCnt = irq.inner - 1 /\ irq.fbc0
  <2>1. WriteCnt \in Int
    BY <1>4, <1>5, <1>6
  <2>2. LostDone = irq.inner
    BY <1>a, <1>8, <2>1 DEF LostDone
  <2> QED BY <1>a, <1>1, <1>3, <1>8, <2>2
<1>9. CASE ~(WriteCnt >= irq.inner) /\ ~(WriteCnt = irq.inner - 1 /\ irq.fbc0)
  <2>1. LostDone = 0
    BY <1>9 DEF LostDone
  <2> QED BY <2>1
<1> QED BY <1>7, <1>8, <1>9

-----------------------------------------------------------------------------
(* What is done.                                                           *)

\* mtk_camsys_frame_done of a request up to n.
LEMMA QueueDoneUpTo ==
  ASSUME TypeInv, NEW n \in Nat, UpTo(n, doneWq), NEW f \in Int, f \in running => f <= n, QueueDone(f)
  PROVE  UpTo(n, doneWq)'
<1>1. CASE UNCHANGED doneWq
  BY <1>1 DEF UpTo
<1>2. CASE ~UNCHANGED doneWq
  <2>1. doneWq' = Append(doneWq, f) /\ f \in running
    BY <1>2 DEF QueueDone
  <2>2. f \in Nat /\ doneWq \in Seq(Nat)
    BY <2>1 DEF TypeInv, Linked
  <2>3. UpTo(n, Append(doneWq, f))
    BY <2>1, <2>2, OrderAppend
  <2> QED BY <2>1, <2>3 DEF UpTo
<1> QED BY <1>1, <1>2

\* Done requests stay below n if those newly queued do.
LEMMA QueuedStep ==
  ASSUME TypeInv, [Next]_vars, NEW n \in Nat, QueuedUpTo(n),
         IrqTake /\ fifo[1].done => dequeued <= n,
         IrqDecide /\ irq.inner # 0 /\ ~DoneOnItsWay /\ LostDone \in running => LostDone <= n
  PROVE  QueuedUpTo(n)'
<1>a. running \subseteq 1 .. Linked /\ Linked \in Int /\ doneWq \in Seq(Nat) /\ deq \in Nat
  BY DEF TypeInv, Linked
<1>u. ASSUME UNCHANGED <<running, doneWq, deq, Linked>> PROVE QueuedUpTo(n)'
  BY <1>u DEF QueuedUpTo, UpTo
<1>1. CASE Enqueue
  <2>1. UNCHANGED <<doneWq, deq>>
    BY <1>1, EnqueueKeeps DEF done
  <2>2. CASE EnqLink
    <3>1. running' = running \cup {enqueued} /\ enqueued' = enqueued /\ enq = "link" /\ enq' # "link"
      BY <2>2 DEF EnqLink, QueueCompose
    <3>2. Linked' = enqueued /\ Linked = enqueued - 1 /\ enqueued \in Nat
      BY <3>1 DEF Linked, TypeInv
    <3>3. \A f \in 1 .. Linked' : f \in 1 .. Linked \/ f = enqueued
      BY <3>2
    <3> QED BY <2>1, <3>1, <3>3 DEF QueuedUpTo, UpTo
  <2>3. CASE EnqNumber
    <3>1. enq = "idle" /\ enq' = "link" /\ enqueued' = enqueued + 1 /\ UNCHANGED running
      BY <2>3 DEF EnqNumber, requests
    <3>2. Linked' = Linked
      BY <3>1 DEF Linked, TypeInv
    <3> QED BY <1>u, <2>1, <3>1, <3>2
  <2>4. CASE EnqEnlist \/ EnqSetSensor
    <3>1. UNCHANGED <<running, enqueued>> /\ enq # "link" /\ enq' # "link"
      BY <2>4 DEF EnqEnlist, EnqSetSensor, QueueCompose, counters
    <3> QED BY <1>u, <2>1, <3>1 DEF Linked
  <2> QED BY <1>1, <2>2, <2>3, <2>4 DEF Enqueue
<1>2. CASE SensorWorker \/ DeadlineTimer \/ Composer \/ Hardware \/ UNCHANGED vars
  BY <1>2, <1>u, SensorKeeps, ComposerKeeps, HardwareKeeps
     DEF done, requests, counters, sensor, vars, Linked
<1>3. CASE IrqTake
  <2>1. UNCHANGED <<running, deq, Linked>>
    BY <1>3 DEF IrqTake, counters, sensor, Linked
  <2>2. UpTo(n, doneWq)'
    <3>1. CASE fifo[1].done
      BY <1>3, <3>1, TakeSteps, QueueDoneUpTo, EventTypes DEF QueuedUpTo
    <3>2. CASE ~fifo[1].done
      BY <1>3, <3>2, TakeSteps DEF QueuedUpTo, UpTo
    <3> QED BY <3>1, <3>2
  <2> QED BY <2>1, <2>2 DEF QueuedUpTo
<1>4. CASE IrqDecide
  <2>1. UNCHANGED <<running, deq, Linked>>
    BY <1>4, DecideSteps DEF Linked
  <2>2. UpTo(n, doneWq)'
    <3>1. CASE irq.inner # 0 /\ ~DoneOnItsWay /\ QueueDone(LostDone)
      <4>1. CASE LostDone \in running
        <5>1. LostDone \in Int
          BY <1>a, <4>1
        <5> QED BY <1>4, <3>1, <4>1, <5>1, QueueDoneUpTo DEF QueuedUpTo
      <4>2. CASE LostDone \notin running
        BY <3>1, <4>2 DEF QueuedUpTo, QueueDone, UpTo
      <4> QED BY <4>1, <4>2
    <3>2. CASE UNCHANGED doneWq
      BY <3>2 DEF QueuedUpTo, UpTo
    <3> QED BY <1>4, <3>1, <3>2, DecideSteps
  <2> QED BY <2>1, <2>2 DEF QueuedUpTo
<1>5. CASE IrqScan \/ IrqHwDelay \/ IrqApply
  BY <1>5, <1>u, ScanSteps, RestSteps DEF Linked
<1>6. CASE DonePrepare
  <2>1. doneWq # <<>> /\ deq' = Head(doneWq) /\ doneWq' = Tail(doneWq) /\ UNCHANGED <<running, Linked>>
    BY <1>6 DEF DonePrepare, counters, sensor, Linked
  <2>2. UpTo(n, Tail(doneWq)) /\ Head(doneWq) <= n
    BY <1>a, <2>1, OrderTail DEF QueuedUpTo
  <2> QED BY <2>1, <2>2 DEF QueuedUpTo, UpTo
<1>7. CASE DoneDequeue
  <2>1. UNCHANGED <<doneWq, Linked>> /\ deq' = 0 /\ running' = running \ {f \in running : f <= deq}
    BY <1>7 DEF DoneDequeue, Dequeued, counters, sensor, Linked
  <2>2. \A f \in 1 .. Linked : f \in running /\ f \notin running' => f <= n
    BY <1>a, <2>1 DEF QueuedUpTo
  <2> QED BY <2>1, <2>2 DEF QueuedUpTo, UpTo
<1> QED BY <1>1, <1>2, <1>3, <1>4, <1>5, <1>6, <1>7 DEF Next, IrqThread, FrameDone

\* Only frames the hardware has written are done, or returned.
LEMMA ReturnedStep ==
  ASSUME TypeInv, Jobs, Flow, Seen, DoneSafe, Returned, WriteInv, [Next]_vars PROVE Returned'
<1>a. /\ written \in Nat /\ inner \in Nat /\ written <= inner /\ deq \in Nat /\ doneWq \in Seq(Nat)
  BY FlowTypes DEF Flow, Registers, TypeInv
<1>1. written' \in Nat /\ written <= written'
  BY <1>a DEF Next, Enqueue, EnqNumber, EnqLink, EnqEnlist, EnqSetSensor, Composer, TxFrame, Ack,
      SensorWorker, TrySetSensor, WorkerSetSensor, DeadlineTimer, Hardware, HwCqLoad, HwSof, HwLateSof,
      HwSofs, HwDone, Irq, IrqThread, IrqTake, IrqScan, IrqHwDelay, IrqDecide, IrqApply, FrameDone,
      DonePrepare, DoneDequeue, vars, hw
<1>2. PICK n \in Nat : n = written
  BY <1>a
<1>3. IrqTake /\ fifo[1].done => dequeued <= n
  BY <1>2, TakeSteps DEF DoneSafe
<1>4. IrqDecide /\ irq.inner # 0 /\ ~DoneOnItsWay /\ LostDone \in running => LostDone <= n
  <2> SUFFICES ASSUME IrqDecide, irq.inner # 0, ~DoneOnItsWay, LostDone \in running
               PROVE  LostDone <= n
    OBVIOUS
  <2>1. PICK wi, we \in 0 .. written : WrittenAt(wi, we)
    BY DEF WriteInv
  <2>2. irq.pc = "decide"
    BY DecideSteps
  <2>3. wi \in Nat /\ wi <= n /\ LostDone \in Int
    BY <1>a, <1>2 DEF TypeInv, Linked
  <2>4. LostDone <= wi
    BY <2>1, <2>2, <2>3, LostDoneWritten DEF WrittenAt, Scanning
  <2> QED BY <2>3, <2>4
<1>5. QueuedUpTo(n)'
  BY <1>2, <1>3, <1>4, QueuedStep DEF Returned
<1>6. QueuedUpTo(written)'
  <2>1. n <= written'
    BY <1>1, <1>2
  <2>2. UpTo(n, doneWq)' /\ doneWq' \in Seq(Nat) /\ deq' \in Nat
    <3>1. TypeInv'
      BY TypeInvStep
    <3>2. doneWq' \in Seq(Nat) /\ deq' \in Nat
      BY <3>1 DEF TypeInv
    <3> QED BY <1>5, <3>2 DEF QueuedUpTo
  <2>3. UpTo(written, doneWq)'
    BY <1>1, <2>1, <2>2, OrderWeaken DEF UpTo
  <2> QED BY <1>1, <1>5, <2>1, <2>2, <2>3 DEF QueuedUpTo
<1>7. ASSUME NEW f \in Frames, result'[f] # "none" PROVE f <= written'
  <2>1. f \in Nat
    BY DEF Frames
  <2>2. CASE DoneDequeue
    <3>1. result'[f] = IF f \notin {g \in running : g <= deq} THEN result[f]
                       ELSE IF f < deq \/ estate[f] = DONE_MISMATCH THEN "ERROR" ELSE "DONE"
      BY <2>2 DEF DoneDequeue, Dequeued
    <3>2. deq <= written
      BY DEF Returned, QueuedUpTo
    <3> QED BY <1>1, <1>7, <1>a, <2>1, <3>1, <3>2 DEF Returned
  <2>3. CASE ~DoneDequeue
    <3>1. UNCHANGED result
      BY <2>3, EnqueueKeeps, SensorKeeps, ComposerKeeps, HardwareKeeps, IrqThreadKeeps
         DEF Next, FrameDone, DonePrepare, requests, vars
    <3> QED BY <1>1, <1>7, <1>a, <2>1, <3>1 DEF Returned
  <2> QED BY <2>2, <2>3
<1> QED BY <1>6, <1>7 DEF Returned

\* The frame the handler acts on, and the one of a later SOF, keep their count.
LEMMA WriteStep ==
  ASSUME TypeInv, Jobs, Flow, Started, Seen, DoneSafe, Returned, WriteInv, [Next]_vars
  PROVE  WriteInv'
<1>a. /\ written \in Nat /\ inner \in Nat /\ outer \in Nat /\ written <= inner /\ inner <= outer
      /\ fifo \in Seq(Event) /\ Len(fifo) \in Nat /\ dequeued \in Nat /\ irq.idx \in Nat
  BY EventTypes DEF Flow, Registers
<1>1. PICK wi, we \in 0 .. written : WrittenAt(wi, we)
  BY DEF WriteInv
<1>w. wi \in Nat /\ we \in Nat /\ wi <= written /\ we <= written
  BY <1>a
<1>2. written' \in Nat /\ written <= written'
  BY <1>a DEF Next, Enqueue, EnqNumber, EnqLink, EnqEnlist, EnqSetSensor, Composer, TxFrame, Ack,
      SensorWorker, TrySetSensor, WorkerSetSensor, DeadlineTimer, Hardware, HwCqLoad, HwSof, HwLateSof,
      HwSofs, HwDone, Irq, IrqThread, IrqTake, IrqScan, IrqHwDelay, IrqDecide, IrqApply, FrameDone,
      DonePrepare, DoneDequeue, vars, hw
<1>3. ASSUME NEW n \in Nat, QueuedUpTo(n), ~IrqTake, ~IrqDecide PROVE QueuedUpTo(n)'
  BY <1>3, QueuedStep
<1>4. WrittenAt(wi, we)' => WriteInv'
  <2>1. wi \in 0 .. written' /\ we \in 0 .. written'
    BY <1>a, <1>2, <1>w
  <2> QED BY <2>1 DEF WriteInv
<1>u. ASSUME UNCHANGED <<fifo, irq, dequeued>>, ~IrqTake, ~IrqDecide PROVE WriteInv'
  <2>1. Scanning' = Scanning
    BY <1>u DEF Scanning
  <2>2. Scanning => QueuedUpTo(wi)'
    BY <1>1, <1>3, <1>u, <1>w DEF WrittenAt
  <2>3. ASSUME NEW i \in 1 .. Len(fifo), fifo[i].sof PROVE QueuedUpTo(we)'
    BY <1>1, <1>3, <1>u, <1>w, <2>3 DEF WrittenAt
  <2>4. WrittenAt(wi, we)'
    BY <1>1, <1>u, <2>1, <2>2, <2>3 DEF WrittenAt, Counted
  <2> QED BY <1>4, <2>4
<1>5. CASE Enqueue \/ SensorWorker \/ DeadlineTimer \/ Composer \/ FrameDone \/ UNCHANGED vars
           \/ HwCqLoad \/ HwSof \/ HwLateSof \/ HwDone
  <2>1. UNCHANGED <<fifo, irq, dequeued>>
    BY <1>5, EnqueueKeeps, SensorKeeps, ComposerKeeps, FrameDoneKeeps
       DEF irqs, counters, vars, HwCqLoad, HwSof, HwLateSof, HwSofs, HwDone
  <2>2. IrqTake => fifo' # fifo
    <3>1. IrqTake => Len(fifo') = Len(fifo) - 1
      BY TakeSteps
    <3> QED BY <1>a, <3>1
  <2>3. IrqDecide => irq' # irq
    BY DecideSteps, HandlerFields
  <2> QED BY <1>u, <2>1, <2>2, <2>3
<1>6. CASE Irq
  <2>1. UNCHANGED <<irq, dequeued, written>>
    BY <1>6 DEF Irq, counters, hw
  <2>2. ~IrqTake /\ ~IrqDecide
    <3>1. IrqDecide => irq' # irq
      BY DecideSteps, HandlerFields
    <3>2. IrqTake => UNCHANGED bits
      BY DEF IrqTake
    <3>3. ~UNCHANGED bits
      BY <1>6 DEF Irq
    <3> QED BY <2>1, <3>1, <3>2, <3>3
  <2>3. CASE UNCHANGED fifo
    BY <1>u, <2>1, <2>2, <2>3
  <2>4. CASE ~UNCHANGED fifo
    <3>1. PICK lag \in {0, 1}, e \in Event :
                 /\ fifo' = Append(fifo, e) /\ (lag = 1 => written = outer)
                 /\ e.done = bits.done /\ e.sof = bits.sof
                 /\ e.inner = IF bits.sof THEN inner ELSE 0
                 /\ e.fbc0 = (bits.sof /\ written = outer)
                 /\ bits.sof => e.wcnt = ((written + 1 - lag) % CntMod) - 1
      BY <1>6, <2>4, IrqSteps
    <3>2. /\ Len(fifo') = Len(fifo) + 1 /\ fifo'[Len(fifo) + 1] = e
          /\ \A i \in 1 .. Len(fifo) : fifo'[i] = fifo[i]
          /\ \A i \in 1 .. Len(fifo') : i \in 1 .. Len(fifo) \/ i = Len(fifo) + 1
      BY <1>a, <3>1, Appended
    <3>3. Scanning' = Scanning
      BY <2>1 DEF Scanning
    <3>4. Scanning => /\ Counted(irq.wcnt, irq.fbc0, wi)' /\ QueuedUpTo(wi)'
                      /\ (irq.fbc0 => irq.idx <= wi)'
      BY <1>1, <1>3, <1>w, <2>1, <2>2 DEF WrittenAt, Counted
    <3>5. CASE bits.sof
      <4>1. PICK wn \in 0 .. written : wn = written
        BY <1>a
      <4>2. ASSUME NEW i \in 1 .. Len(fifo'), fifo'[i].sof PROVE i = Len(fifo) + 1
        <5>1. i \in 1 .. Len(fifo) => ~fifo[i].sof
          BY <3>5 DEF Seen, SeenEvents
        <5> QED BY <3>2, <4>2, <5>1
      <4>3. Counted(e.wcnt, e.fbc0, wn) /\ (e.fbc0 => e.inner <= wn)
        BY <1>a, <3>1, <3>5, <4>1 DEF Counted
      <4>4. QueuedUpTo(wn)'
        <5>1. wn \in Nat /\ QueuedUpTo(wn)
          BY <1>a, <4>1 DEF Returned
        <5> QED BY <1>3, <2>2, <5>1
      <4>5. ASSUME NEW j \in 1 .. Len(fifo'), fifo'[j].done PROVE dequeued <= wn /\ irq.idx <= wn
        BY <3>1, <3>2, <4>1, <4>5 DEF DoneSafe
      <4>6. WrittenAt(wi, wn)'
        <5> SUFFICES ASSUME NEW i \in 1 .. Len(fifo'), fifo'[i].sof
                     PROVE  /\ Counted(fifo[i].wcnt, fifo[i].fbc0, wn)' /\ QueuedUpTo(wn)'
                            /\ (fifo[i].fbc0 => fifo[i].inner <= wn)'
                            /\ (Scanning => wi <= wn)'
                            /\ (\A j \in 1 .. i : fifo[j].done => dequeued <= wn /\ irq.idx <= wn)'
          BY <3>3, <3>4 DEF WrittenAt
        <5>1. i = Len(fifo) + 1
          BY <4>2
        <5>2. \A j \in 1 .. i : j \in 1 .. Len(fifo')
          BY <1>a, <3>2, <5>1
        <5>3. fifo'[i] = e
          BY <3>2, <5>1
        <5> QED BY <1>w, <2>1, <4>1, <4>3, <4>4, <4>5, <5>2, <5>3 DEF Counted
      <4>7. wi \in 0 .. written' /\ wn \in 0 .. written'
        BY <2>1
      <4> QED BY <4>6, <4>7 DEF WriteInv
    <3>6. CASE ~bits.sof
      <4>1. ASSUME NEW i \in 1 .. Len(fifo'), fifo'[i].sof
            PROVE  i \in 1 .. Len(fifo) /\ fifo[i].sof /\ fifo'[i] = fifo[i]
        BY <3>1, <3>2, <3>6, <4>1
      <4>2. WrittenAt(wi, we)'
        <5> SUFFICES ASSUME NEW i \in 1 .. Len(fifo'), fifo'[i].sof
                     PROVE  /\ Counted(fifo[i].wcnt, fifo[i].fbc0, we)' /\ QueuedUpTo(we)'
                            /\ (fifo[i].fbc0 => fifo[i].inner <= we)'
                            /\ (Scanning => wi <= we)'
                            /\ (\A j \in 1 .. i : fifo[j].done => dequeued <= we /\ irq.idx <= we)'
          BY <3>3, <3>4 DEF WrittenAt
        <5>1. i \in 1 .. Len(fifo) /\ fifo[i].sof /\ fifo'[i] = fifo[i]
          BY <4>1
        <5>2. \A j \in 1 .. i : fifo'[j] = fifo[j]
          BY <1>a, <3>2, <5>1
        <5>3. QueuedUpTo(we)'
          BY <1>1, <1>3, <1>w, <2>2, <5>1 DEF WrittenAt
        <5> QED BY <1>1, <2>1, <3>3, <5>1, <5>2, <5>3 DEF WrittenAt, Counted
      <4> QED BY <1>4, <4>2
    <3> QED BY <3>5, <3>6
  <2> QED BY <2>3, <2>4
<1>7. CASE IrqTake
  <2>1. /\ irq.pc = "idle" /\ 1 \in 1 .. Len(fifo) /\ Len(fifo') = Len(fifo) - 1
        /\ \A i \in 1 .. Len(fifo') : i + 1 \in 1 .. Len(fifo) /\ fifo'[i] = fifo[i + 1]
        /\ \/ irq' = IdleIrq
           \/ /\ fifo[1].sof /\ irq'.pc = "scan" /\ irq'.idx = fifo[1].inner /\ irq'.inner = 0
              /\ irq'.wcnt = fifo[1].wcnt /\ irq'.fbc0 = fifo[1].fbc0
    BY <1>7, TakeSteps
  <2>2. UNCHANGED dequeued /\ irq.idx = 0
    BY <1>7, <2>1 DEF IrqTake, counters, Seen, SeenHandler
  <2>3. ASSUME NEW i \in 1 .. Len(fifo), fifo[i].sof PROVE QueuedUpTo(we)'
    <3>1. QueuedUpTo(we)
      BY <1>1, <2>3 DEF WrittenAt
    <3>2. fifo[1].done => dequeued <= we
      <4>1. 1 \in 1 .. i
        BY <1>a
      <4> QED BY <1>1, <2>3, <4>1 DEF WrittenAt
    <3>3. ~IrqDecide
      BY <2>1 DEF IrqDecide
    <3> QED BY <1>w, <3>1, <3>2, <3>3, QueuedStep
  <2>4. CASE fifo[1].sof
    <3>1. ASSUME NEW i \in 1 .. Len(fifo'), fifo'[i].sof PROVE FALSE
      <4>1. i + 1 = 1
        BY <2>1, <2>4, <3>1 DEF Seen, OneSof
      <4> QED BY <1>a, <2>1, <4>1
    <3>2. QueuedUpTo(we)' /\ Counted(fifo[1].wcnt, fifo[1].fbc0, we)
          /\ (fifo[1].fbc0 => fifo[1].inner <= we)
      BY <1>1, <2>1, <2>3, <2>4 DEF WrittenAt
    <3>3. CASE irq' = IdleIrq
      <4>1. ~Scanning'
        BY <3>3, HandlerFields DEF Scanning
      <4>2. WrittenAt(we, we)'
        BY <3>1, <4>1 DEF WrittenAt
      <4>3. we \in 0 .. written'
        BY <1>a, <1>2, <1>w
      <4> QED BY <4>2, <4>3 DEF WriteInv
    <3>4. CASE irq' # IdleIrq
      <4>1. WrittenAt(we, we)'
        BY <2>1, <3>1, <3>2, <3>4 DEF WrittenAt, Counted
      <4>2. we \in 0 .. written'
        BY <1>a, <1>2, <1>w
      <4> QED BY <4>1, <4>2 DEF WriteInv
    <3> QED BY <3>3, <3>4
  <2>5. CASE ~fifo[1].sof
    <3>1. irq' = IdleIrq
      BY <2>1, <2>5
    <3>2. ~Scanning' /\ irq'.idx = 0
      BY <3>1, HandlerFields DEF Scanning
    <3>3. WrittenAt(wi, we)'
      <4> SUFFICES ASSUME NEW i \in 1 .. Len(fifo'), fifo'[i].sof
                   PROVE  /\ Counted(fifo[i].wcnt, fifo[i].fbc0, we)' /\ QueuedUpTo(we)'
                          /\ (fifo[i].fbc0 => fifo[i].inner <= we)'
                          /\ (\A j \in 1 .. i : fifo[j].done => dequeued <= we /\ irq.idx <= we)'
        BY <3>2 DEF WrittenAt
      <4>1. i + 1 \in 1 .. Len(fifo) /\ fifo'[i] = fifo[i + 1] /\ fifo[i + 1].sof
        BY <2>1
      <4>2. ASSUME NEW j \in 1 .. i, fifo'[j].done PROVE dequeued <= we
        <5>1. j \in 1 .. Len(fifo') /\ j + 1 \in 1 .. i + 1
          BY <1>a, <2>1
        <5>2. fifo[j + 1].done
          BY <2>1, <4>2, <5>1
        <5> QED BY <1>1, <4>1, <5>1, <5>2 DEF WrittenAt
      <4>3. QueuedUpTo(we)'
        BY <2>3, <4>1
      <4> QED BY <1>1, <1>w, <2>2, <3>2, <4>1, <4>2, <4>3 DEF WrittenAt, Counted
    <3> QED BY <1>4, <3>3
  <2> QED BY <2>4, <2>5
<1>8. CASE IrqScan
  <2>1. /\ irq.pc = "scan" /\ dequeued' = irq.idx /\ irq'.pc = "decide" /\ irq'.idx = irq.idx
        /\ irq'.inner # 0 => irq'.wcnt = irq.wcnt
        /\ irq'.fbc0 = (irq'.inner # 0 /\ irq.fbc0) /\ UNCHANGED fifo
    BY <1>8, ScanSteps
  <2>2. ~IrqTake /\ ~IrqDecide /\ Scanning
    BY <2>1 DEF IrqTake, IrqDecide, Scanning
  <2>3. QueuedUpTo(wi)' /\ \A i \in 1 .. Len(fifo) : fifo[i].sof => QueuedUpTo(we)'
    BY <1>1, <1>3, <1>w, <2>2 DEF WrittenAt
  <2>4. Scanning' => irq'.inner # 0
    BY <2>1 DEF Scanning
  <2>5. (Scanning => /\ Counted(irq.wcnt, irq.fbc0, wi) /\ QueuedUpTo(wi)
                     /\ irq.fbc0 => irq.idx <= wi)'
    <3> SUFFICES ASSUME irq'.inner # 0
                 PROVE  Counted(irq'.wcnt, irq'.fbc0, wi) /\ (irq'.fbc0 => irq'.idx <= wi)
      BY <2>3, <2>4 DEF Counted
    <3>1. irq'.wcnt = irq.wcnt /\ (irq'.fbc0 <=> irq.fbc0) /\ irq'.idx = irq.idx
      BY <2>1
    <3>2. Counted(irq.wcnt, irq.fbc0, wi) /\ (irq.fbc0 => irq.idx <= wi)
      BY <1>1, <2>2 DEF WrittenAt
    <3> QED BY <3>1, <3>2 DEF Counted
  <2>6. WrittenAt(wi, we)'
    BY <1>1, <2>1, <2>2, <2>3, <2>5 DEF WrittenAt, Counted
  <2> QED BY <1>4, <2>6
<1>9. CASE IrqDecide \/ IrqHwDelay \/ IrqApply
  <2>1. irq'.idx \in {0, irq.idx} /\ ~Scanning' /\ UNCHANGED <<dequeued, fifo>>
    BY <1>9, DecideSteps, RestSteps, HandlerFields DEF Scanning
  <2>2. ASSUME NEW i \in 1 .. Len(fifo), fifo[i].sof PROVE QueuedUpTo(we)'
    <3>1. QueuedUpTo(we)
      BY <1>1, <2>2 DEF WrittenAt
    <3>2. ~IrqTake
      BY <1>9, DecideSteps, RestSteps DEF IrqTake
    <3>3. IrqDecide /\ irq.inner # 0 /\ ~DoneOnItsWay /\ LostDone \in running => LostDone <= we
      <4> SUFFICES ASSUME IrqDecide, irq.inner # 0, ~DoneOnItsWay, LostDone \in running
                   PROVE  LostDone <= we
        OBVIOUS
      <4>1. irq.pc = "decide" /\ LostDone \in Int
        BY DecideSteps DEF TypeInv, Linked
      <4>2. Scanning /\ wi <= we
        BY <1>1, <2>2, <4>1 DEF WrittenAt, Scanning
      <4>3. LostDone <= wi
        BY <1>1, <1>w, <4>1, <4>2, LostDoneWritten DEF WrittenAt
      <4> QED BY <1>w, <4>1, <4>2, <4>3
    <3> QED BY <1>w, <3>1, <3>2, <3>3, QueuedStep
  <2>3. WrittenAt(wi, we)'
    BY <1>1, <1>w, <2>1, <2>2 DEF WrittenAt, Counted
  <2> QED BY <1>4, <2>3
<1> QED BY <1>5, <1>6, <1>7, <1>8, <1>9 DEF Next, Hardware, IrqThread

-----------------------------------------------------------------------------
(* The state list.                                                         *)

\* What is linked stays linked until it, and all before it, are dequeued.
LEMMA ListedStep == ASSUME TypeInv, Flow, Returned, Listed, [Next]_vars PROVE Listed'
<1>a. /\ running \subseteq 1 .. Linked /\ enqueued \in Nat /\ sensorSeq \in Nat /\ Linked \in Int
      /\ written \in Nat /\ inner \in Nat /\ outer \in Nat /\ Sent \in Nat
      /\ written <= inner /\ inner <= outer /\ outer <= Sent
  BY FlowTypes DEF TypeInv, Linked, Flow, Registers
<1>u. CASE UNCHANGED <<running, stateList, sensorSeq, enqueued, enq>>
  BY <1>u DEF Listed, Linked
<1>1. CASE EnqNumber
  <2>1. /\ enq = "idle" /\ enq' = "link" /\ enqueued' = enqueued + 1
        /\ UNCHANGED <<running, stateList, sensorSeq>>
    BY <1>1 DEF EnqNumber, requests
  <2>2. Linked' = Linked
    BY <1>a, <2>1 DEF Linked
  <2> QED BY <1>a, <2>1, <2>2 DEF Listed
<1>2. CASE EnqLink
  <2>1. /\ enq = "link" /\ running' = running \cup {enqueued}
        /\ UNCHANGED <<enqueued, stateList, sensorSeq>>
        /\ IF enqueued <= 2 THEN enq' = "enlist" ELSE enq' = "idle"
    BY <1>2 DEF EnqLink, QueueCompose
  <2>2. Linked' = enqueued /\ Linked = enqueued - 1
    BY <2>1 DEF Linked
  <2>3. sensorSeq <= enqueued - 1 /\ stateList = {f \in running : f <= sensorSeq}
    BY <2>2 DEF Listed
  <2>4. stateList' = {f \in running' : f <= sensorSeq'}
    BY <1>a, <2>1, <2>3
  <2>5. ASSUME NEW f \in running', NEW g \in f .. enqueued PROVE g \in running'
    <3>1. CASE f = enqueued
      BY <1>a, <2>1, <3>1
    <3>2. CASE f \in running
      BY <1>a, <2>1, <2>2, <3>2 DEF Listed
    <3> QED BY <2>1, <3>1, <3>2
  <2> QED BY <1>a, <2>1, <2>2, <2>3, <2>4, <2>5 DEF Listed
<1>3. CASE EnqEnlist
  <2>1. /\ enq = "enlist" /\ enq' = "set" /\ UNCHANGED <<running, enqueued>>
        /\ stateList' = stateList \cup {enqueued} /\ sensorSeq' = enqueued
    BY <1>3 DEF EnqEnlist, EnlistState
  <2>2. /\ Linked = enqueued /\ Linked' = enqueued /\ Sent = enqueued - 1 /\ enqueued > 0
    BY <2>1 DEF Linked, Sent, TypeInv
  <2>3. enqueued <= 2 /\ sensorSeq = enqueued - 1 /\ stateList = {f \in running : f <= sensorSeq}
    BY <2>1 DEF Listed
  <2>4. enqueued \in running
    <3>1. enqueued \in 1 .. Linked /\ ~(enqueued <= written)
      BY <1>a, <2>2
    <3> QED BY <3>1 DEF Returned, QueuedUpTo
  <2>5. stateList' = {f \in running : f <= enqueued}
    <3>1. \A f \in running : f <= enqueued <=> f <= enqueued - 1 \/ f = enqueued
      BY <1>a
    <3> QED BY <2>1, <2>3, <2>4, <3>1
  <2> QED BY <1>a, <2>1, <2>2, <2>3, <2>5 DEF Listed
<1>4. CASE EnqSetSensor
  <2>1. enq = "set" /\ enq' = "idle" /\ UNCHANGED <<running, enqueued, stateList, sensorSeq>>
    BY <1>4 DEF EnqSetSensor, QueueCompose, counters
  <2>2. Linked' = Linked
    BY <2>1 DEF Linked
  <2> QED BY <2>1, <2>2 DEF Listed
<1>5. CASE SensorWorker \/ DeadlineTimer
  <2>1. UNCHANGED <<running, enqueued, enq>>
    BY <1>5, SensorKeeps
  <2>2. CASE UNCHANGED <<stateList, sensorSeq>>
    BY <1>u, <2>1, <2>2
  <2>3. CASE MaySetNext /\ stateList' = stateList \cup {sensorSeq + 1} /\ sensorSeq' = sensorSeq + 1
    <3>1. sensorSeq + 1 \in running /\ sensorSeq + 1 > 2 /\ sensorSeq + 1 <= Linked
      BY <1>a, <2>3 DEF MaySetNext, NextLinked
    <3>2. stateList' = {f \in running : f <= sensorSeq + 1}
      <4>1. \A f \in running : f <= sensorSeq + 1 <=> f <= sensorSeq \/ f = sensorSeq + 1
        BY <1>a
      <4>2. stateList = {f \in running : f <= sensorSeq}
        BY DEF Listed
      <4> QED BY <2>3, <3>1, <4>1, <4>2
    <3>3. Linked' = Linked /\ Linked <= enqueued
      BY <1>a, <2>1 DEF Linked
    <3>4. enqueued > 2
      BY <1>a, <3>1, <3>3
    <3> QED BY <1>a, <2>1, <2>3, <3>1, <3>2, <3>3, <3>4 DEF Listed
  <2>4. \/ UNCHANGED <<stateList, sensorSeq>>
        \/ MaySetNext /\ stateList' = stateList \cup {sensorSeq + 1} /\ sensorSeq' = sensorSeq + 1
    <3>1. CASE TrySetSensor
      BY <3>1 DEF TrySetSensor, EnlistState
    <3>2. CASE WorkerSetSensor \/ DeadlineTimer
      BY <3>2 DEF WorkerSetSensor, DeadlineTimer, counters, requests
    <3> QED BY <1>5, <3>1, <3>2 DEF SensorWorker
  <2> QED BY <2>2, <2>3, <2>4
<1>6. CASE Composer \/ Hardware \/ IrqThread \/ DonePrepare \/ UNCHANGED vars
  BY <1>6, <1>u, ComposerKeeps, HardwareKeeps, IrqThreadKeeps
     DEF DonePrepare, requests, counters, sensor, vars
<1>7. CASE DoneDequeue
  <2>1. /\ running' = running \ Dequeued /\ stateList' = stateList \ Dequeued
        /\ UNCHANGED <<sensorSeq, enqueued, enq>>
    BY <1>7 DEF DoneDequeue, StatesLeft, counters, sensor
  <2>2. Linked' = Linked
    BY <2>1 DEF Linked
  <2>3. stateList' = {f \in running' : f <= sensorSeq'}
    BY <2>1 DEF Listed
  <2>4. ASSUME NEW f \in running', NEW g \in f .. Linked PROVE g \in running'
    <3>1. f \in running /\ ~(f <= deq) /\ g \in running /\ f \in Int /\ g \in Int /\ deq \in Nat
      BY <1>a, <2>1 DEF Listed, Dequeued, TypeInv
    <3>2. ~(g <= deq)
      BY <1>a, <3>1
    <3> QED BY <2>1, <3>1, <3>2 DEF Dequeued
  <2> QED BY <2>1, <2>2, <2>3, <2>4 DEF Listed
<1> QED BY <1>1, <1>2, <1>3, <1>4, <1>5, <1>6, <1>7 DEF Next, Enqueue, FrameDone

-----------------------------------------------------------------------------
(* The CQ applied at a SOF.                                                *)

\* The last frame whose CQ was applied.
Applied == IF cq # 0 THEN cq ELSE outer

On(f, q) == \E i \in 1 .. Len(q) : q[i] = f
Waiting(f) == On(f, composedList) \/ On(f, using) \/ On(f, txWq)

\* No frame given to composer_wq is lost on its way, for there is a buffer for
\* each: what is out belongs to requests that run.
Complete == \A f \in 1 .. Sent : f > Applied => Waiting(f)
Pool == processing \subseteq running /\ \A f \in processing : f <= Applied

\* The sensor is set for at most one frame above the last one applied, but for
\* the two frames set at the start.
Cursor ==
  /\ Applied <= sensorSeq
  /\ sensorSeq <= Applied + 1 \/ (sensorSeq <= 2 /\ Applied = 0)
  /\ enqueued > 2 => sensorSeq > 0

\* The worker sets a frame that is not applied, and not set yet.
Setting == worker = "set" => sensorSeq > 2 /\ sensorSeq > Applied /\ estate[sensorSeq] # SENSOR

\* Before the first CQ done interrupt there is no SOF.
Boot ==
  ~initialCqDone =>
    /\ ~vf /\ ~bits.sof /\ sofCount = 0 /\ inner = 0 /\ irq.pc = "idle"
    /\ outer <= 1 /\ cq <= 1
    /\ \A i \in 1 .. Len(fifo) : fifo[i].cq => fifo[i].outer = 1

\* Above frame a nothing is past SENSOR; only frames above it, up to s, and at
\* boot the first one, are in that state.
Waits(es, a, s, boot) ==
  \A f \in Frames :
    /\ f > a => es[f] \in {READY, SENSOR}
    /\ es[f] = SENSOR => f <= s /\ (f > a \/ (f = 1 /\ boot))
States == Waits(estate, Applied, sensorSeq, ~initialCqDone)

\* What the handler is about to apply is the frame the sensor was set for.
Chosen ==
  /\ irq.pc = "decide" => irq.rec0 <= sensorSeq
  /\ irq.pc = "apply" => irq.rec0 = sensorSeq /\ sensorSeq \in Frames /\ estate[sensorSeq] = SENSOR

ApplyInv == Complete /\ Pool /\ Cursor /\ Setting /\ Boot /\ States /\ Chosen

\* The numbers these speak of.
LEMMA ApplyTypes ==
  ASSUME TypeInv, Flow
  PROVE  /\ Applied \in Nat /\ Applied <= Sent /\ Sent \in Nat /\ outer <= Applied
         /\ written <= Applied /\ inner <= Applied /\ written \in Nat /\ inner \in Nat
         /\ outer \in Nat /\ cq \in Nat /\ sensorSeq \in Nat /\ enqueued \in Nat
         /\ Sent <= Linked /\ Linked <= enqueued /\ Linked \in Nat
         /\ Above(Applied, composedList) /\ Above(Applied, using) /\ Above(Applied, txWq)
<1>1. /\ Sent \in Nat /\ outer \in Nat /\ cq \in Nat /\ written \in Nat /\ inner \in Nat
      /\ enqueued \in Nat /\ sensorSeq \in Nat
  BY FlowTypes DEF TypeInv
<1>2. /\ cq # 0 => outer < cq
      /\ cq <= Sent /\ outer <= Sent /\ inner <= outer /\ written <= inner
      /\ \A n \in {outer, cq} : Above(n, composedList) /\ Above(n, using) /\ Above(n, txWq)
  BY DEF Flow, Registers
<1>3. Sent <= Linked /\ Linked <= enqueued /\ Linked \in Nat
  BY <1>1 DEF Sent, Linked, TypeInv
<1> QED BY <1>1, <1>2, <1>3 DEF Applied

\* Two steps apply a CQ: the acknowledgement of frame 1, and the SOF handler.
LEMMA ApplySteps ==
  ASSUME TypeInv, Flow, [Next]_vars
  PROVE  \/ Applied' = Applied /\ (cq' = cq \/ HwCqLoad)
         \/ Ack /\ Applied = 0 /\ Applied' = 1 /\ Head(using) = 1 /\ cq' = 1
         \/ IrqApply /\ composedList # <<>> /\ Applied' = Head(composedList) /\ cq' = Applied'
<1>a. /\ outer \in Nat /\ cq \in Nat /\ txWq \in Seq(Nat) /\ using \in Seq(Nat)
      /\ composedList \in Seq(Nat) /\ Queues /\ Registers
  BY FlowTypes DEF Flow
<1>u. CASE UNCHANGED <<outer, cq>>
  BY <1>u DEF Applied
<1>1. CASE Ack
  <2>1. CASE Head(using) = 1 /\ cq' = 1
    <3>1. using # <<>> /\ outer' = outer
      BY <1>1 DEF Ack
    <3>2. outer < 1 /\ cq < 1
      BY <1>a, <2>1, <3>1, OrderTail DEF Registers
    <3> QED BY <1>1, <1>a, <2>1, <3>2 DEF Applied
  <2>2. CASE UNCHANGED cq
    BY <1>1, <1>u, <2>2 DEF Ack
  <2> QED BY <1>1, <2>1, <2>2 DEF Ack
<1>2. CASE IrqApply
  <2>1. CASE composedList # <<>> /\ cq' = Head(composedList)
    <3>1. cq' > 0
      BY <1>a, <2>1, OrderTail DEF Registers
    <3> QED BY <1>2, <2>1, <3>1 DEF Applied
  <2>2. CASE UNCHANGED cq
    BY <1>2, <1>u, <2>2 DEF IrqApply
  <2> QED BY <1>2, <2>1, <2>2 DEF IrqApply
<1>3. CASE HwCqLoad
  BY <1>3 DEF HwCqLoad, Applied
<1>4. CASE Enqueue \/ SensorWorker \/ DeadlineTimer \/ FrameDone \/ TxFrame \/ UNCHANGED vars
  BY <1>4, <1>u, EnqueueKeeps, SensorKeeps, FrameDoneKeeps DEF TxFrame, hw, vars
<1>5. CASE HwSof \/ HwLateSof \/ HwDone \/ Irq \/ IrqTake \/ IrqScan \/ IrqHwDelay \/ IrqDecide
  BY <1>5, <1>u DEF HwSof, HwLateSof, HwSofs, HwDone, Irq, IrqTake, IrqScan, IrqHwDelay, IrqDecide, hw
<1> QED BY <1>1, <1>2, <1>3, <1>4, <1>5 DEF Next, Composer, Hardware, IrqThread

\* A frame not yet applied is still running.
LEMMA Unapplied ==
  ASSUME TypeInv, Flow, Returned, NEW f \in Nat, f > Applied, f <= Linked
  PROVE  f \in running /\ ~(f <= deq)
<1>1. written \in Nat /\ written <= Applied /\ Applied \in Nat /\ Linked \in Nat /\ deq \in Nat
  BY ApplyTypes DEF TypeInv
<1>2. f \in 1 .. Linked /\ ~(f <= written)
  BY <1>1
<1> QED BY <1>1, <1>2 DEF Returned, QueuedUpTo

\* The oldest composed frame is the one after the last applied.
LEMMA NextComposed ==
  ASSUME TypeInv, Flow, Complete, composedList # <<>>
  PROVE  /\ Head(composedList) = Applied + 1 /\ Applied + 1 <= Sent
         /\ Above(Applied + 1, Tail(composedList))
<1> DEFINE h == Head(composedList)
<1>1. /\ Applied \in Nat /\ Sent \in Nat /\ composedList \in Seq(Nat) /\ using \in Seq(Nat)
      /\ txWq \in Seq(Nat) /\ Queues
      /\ Above(Applied, composedList)
  BY ApplyTypes, FlowTypes DEF Flow
<1>2. /\ h \in Nat /\ Applied < h /\ h <= Sent /\ Above(h, Tail(composedList))
      /\ Above(h, using) /\ Above(h, txWq) /\ Increasing(composedList)
  BY <1>1, OrderTail DEF Queues
<1>3. /\ h = composedList[1] /\ Len(composedList) \in Nat \ {0}
      /\ \A i \in 1 .. Len(composedList) : i = 1 \/ 1 < i
      /\ \A i \in 1 .. Len(composedList) : composedList[i] \in Nat
      /\ \A i \in 1 .. Len(using) : using[i] \in Nat
      /\ \A i \in 1 .. Len(txWq) : txWq[i] \in Nat
  BY <1>1
<1>4. 1 \in 1 .. Len(composedList)
  BY <1>3
<1> HIDE DEF h
<1>5. \A i \in 1 .. Len(composedList) : h <= composedList[i]
  BY <1>2, <1>3, <1>4 DEF Increasing
<1>6. Applied + 1 \in 1 .. Sent /\ Applied + 1 > Applied
  BY <1>1, <1>2
<1>7. Waiting(Applied + 1)
  BY <1>6 DEF Complete
<1>8. h <= Applied + 1
  BY <1>1, <1>2, <1>3, <1>5, <1>7 DEF Waiting, On, Above
<1>9. h = Applied + 1
  BY <1>1, <1>2, <1>8
<1> QED BY <1>2, <1>9, <1>6 DEF h

\* There is a buffer for every frame: those that are out belong to other requests.
LEMMA BufferLeft ==
  ASSUME MaxJobs <= CqBufs, TypeInv, Jobs, Flow, Returned, Pool, txWq # <<>>
  PROVE  Cardinality(BuffersOut) < CqBufs
<1> DEFINE h == Head(txWq)
<1>1. /\ Applied \in Nat /\ Sent \in Nat /\ Linked \in Nat /\ Sent <= Linked
      /\ composedList \in Seq(Nat) /\ using \in Seq(Nat) /\ txWq \in Seq(Nat) /\ Queues
      /\ Above(Applied, composedList) /\ Above(Applied, using) /\ Above(Applied, txWq)
  BY ApplyTypes, FlowTypes DEF Flow
<1>2. h \in Nat /\ Applied < h /\ h <= Sent /\ Under(h, using) /\ Under(h, composedList)
  BY <1>1, OrderTail DEF Queues
<1>3. h \in running
  BY <1>1, <1>2, Unapplied
<1>4. ASSUME NEW q \in {using, composedList}, NEW f \in ToSet(q) PROVE f \in running /\ f # h
  <2>1. PICK i \in 1 .. Len(q) : f = q[i]
    BY <1>1 DEF ToSet
  <2>2. f \in Nat /\ Applied < f /\ f <= Sent /\ f < h
    BY <1>1, <1>2, <1>4, <2>1 DEF Above, Under, UpTo, Queues
  <2> QED BY <1>1, <1>2, <2>2, Unapplied
<1>5. ASSUME NEW f \in processing PROVE f \in running /\ f # h
  BY <1>1, <1>2 DEF Pool, TypeInv
<1>6. BuffersOut \subseteq running \ {h}
  BY <1>4, <1>5 DEF BuffersOut
<1>7. IsFiniteSet(running) /\ Cardinality(running) \in Nat
  BY RunningFinite
<1>8. /\ Cardinality(running \ {h}) = Cardinality(running) - 1 /\ IsFiniteSet(running \ {h})
  BY <1>3, <1>7, FS_RemoveElement
<1>9. Cardinality(BuffersOut) <= Cardinality(running \ {h}) /\ Cardinality(BuffersOut) \in Nat
  BY <1>6, <1>8, FS_Subset, FS_CardinalityType
<1>10. Cardinality(running) <= MaxJobs
  BY <1>7, ConstantsAssumption DEF Jobs
<1> QED BY <1>7, <1>8, <1>9, <1>10, ConstantsAssumption

\* What is in a list after appending to it, or taking its head.
LEMMA OnAppend ==
  ASSUME NEW q \in Seq(Nat), NEW n \in Nat
  PROVE  On(n, Append(q, n)) /\ \A f : On(f, q) => On(f, Append(q, n))
<1>1. /\ Len(Append(q, n)) = Len(q) + 1 /\ Append(q, n)[Len(q) + 1] = n /\ Len(q) \in Nat
      /\ \A i \in 1 .. Len(q) : i \in 1 .. Len(q) + 1 /\ Append(q, n)[i] = q[i]
  OBVIOUS
<1> QED BY <1>1 DEF On
LEMMA OnTail ==
  ASSUME NEW q \in Seq(Nat), q # <<>>
  PROVE  \A f : On(f, q) => f = Head(q) \/ On(f, Tail(q))
<1>1. /\ Head(q) = q[1] /\ Len(q) \in Nat /\ Len(Tail(q)) = Len(q) - 1
      /\ \A i \in 1 .. Len(q) - 1 : Tail(q)[i] = q[i + 1]
  OBVIOUS
<1>2. \A i \in 1 .. Len(q) : i = 1 \/ (i - 1 \in 1 .. Len(q) - 1 /\ (i - 1) + 1 = i)
  BY <1>1
<1>3. ASSUME NEW f, NEW i \in 1 .. Len(q), q[i] = f PROVE f = Head(q) \/ On(f, Tail(q))
  <2>1. CASE i = 1
    BY <1>1, <1>3, <2>1
  <2>2. CASE i - 1 \in 1 .. Len(q) - 1 /\ (i - 1) + 1 = i
    BY <1>1, <1>3, <2>2 DEF On
  <2> QED BY <1>2, <2>1, <2>2
<1> QED BY <1>3 DEF On

\* No frame is lost on its way through the composer.
LEMMA CompleteStep ==
  ASSUME MaxJobs <= CqBufs, TypeInv, Jobs, Flow, Returned, Complete, Pool, [Next]_vars
  PROVE  Complete'
<1>a. /\ txWq \in Seq(Nat) /\ using \in Seq(Nat) /\ composedList \in Seq(Nat)
      /\ Sent \in Nat /\ enqueued \in Nat /\ Applied \in Nat
  BY FlowTypes, ApplyTypes
<1>u. ASSUME UNCHANGED <<txWq, using, composedList, Sent, Applied>> PROVE Complete'
  BY <1>u DEF Complete, Waiting
<1>1. CASE Enqueue
  <2>1. UNCHANGED <<using, composedList, Applied>>
    BY <1>1, EnqueueKeeps DEF Applied
  <2>2. CASE UNCHANGED txWq /\ enq' # "idle"
    <3>1. Sent' = Sent
      BY <1>1, <1>a, <2>2 DEF Enqueue, EnqNumber, EnqLink, EnqEnlist, EnqSetSensor, QueueCompose, Sent,
                 TypeInv
    <3> QED BY <1>u, <2>1, <2>2, <3>1
  <2>3. CASE QueueCompose /\ enq # "idle" /\ UNCHANGED enqueued
    <3>1. Sent' = Sent + 1 /\ txWq' = Append(txWq, Sent + 1)
      BY <1>a, <2>3 DEF QueueCompose, Sent
    <3>2. On(Sent + 1, txWq') /\ \A f : On(f, txWq) => On(f, txWq')
      BY <1>a, <3>1, OnAppend
    <3>3. \A f \in 1 .. Sent' : f = Sent + 1 \/ f \in 1 .. Sent
      BY <1>a, <3>1
    <3> QED BY <2>1, <3>2, <3>3 DEF Complete, Waiting
  <2> QED BY <1>1, <2>2, <2>3 DEF Enqueue, EnqNumber, EnqLink, EnqEnlist, EnqSetSensor, buffers, counters
<1>2. CASE TxFrame
  <2>1. /\ txWq # <<>> /\ txWq' = Tail(txWq) /\ using' = Append(using, Head(txWq))
        /\ UNCHANGED <<composedList, Sent, Applied>>
    BY <1>2, BufferLeft DEF TxFrame, counters, sensor, hw, Sent, Applied
  <2>2. Head(txWq) \in Nat
    BY <1>a, <2>1
  <2>3. /\ \A f : On(f, txWq) => On(f, using') \/ On(f, txWq')
        /\ \A f : On(f, using) => On(f, using')
    BY <1>a, <2>1, <2>2, OnTail, OnAppend
  <2> QED BY <2>1, <2>3 DEF Complete, Waiting
<1>3. CASE Ack
  <2>1. using # <<>> /\ using' = Tail(using) /\ UNCHANGED <<txWq, Sent>>
    BY <1>3 DEF Ack, counters, sensor, Sent
  <2>2. Head(using) \in Nat
    BY <1>a, <2>1
  <2>3. \A f : On(f, using) => f = Head(using) \/ On(f, using')
    BY <1>a, <2>1, OnTail
  <2>4. CASE Head(using) = 1
    <3>1. Applied' = 1 /\ UNCHANGED composedList
      BY <1>3, <2>4 DEF Ack, Applied
    <3>2. \A f \in 1 .. Sent : f > 1 => f > Applied
      <4>1. Applied = 0 \/ Applied' = Applied
        BY ApplySteps, <1>3, <1>a, <3>1 DEF Ack, IrqApply, irqs, buffers
      <4> QED BY <1>a, <3>1, <4>1
    <3>3. ASSUME NEW f \in 1 .. Sent, f > 1
          PROVE  On(f, composedList) \/ On(f, using') \/ On(f, txWq)
      BY <2>3, <2>4, <3>2, <3>3 DEF Complete, Waiting
    <3> QED BY <2>1, <3>1, <3>3 DEF Complete, Waiting
  <2>5. CASE Head(using) # 1
    <3>1. composedList' = Append(composedList, Head(using)) /\ UNCHANGED Applied
      BY <1>3, <2>5 DEF Ack, Applied
    <3>2. On(Head(using), composedList') /\ \A f : On(f, composedList) => On(f, composedList')
      BY <1>a, <2>2, <3>1, OnAppend
    <3> QED BY <2>1, <2>3, <3>1, <3>2 DEF Complete, Waiting
  <2> QED BY <2>4, <2>5
<1>4. CASE IrqApply
  <2>1. UNCHANGED <<txWq, using, Sent, outer>>
    BY <1>4 DEF IrqApply, counters, sensor, Sent
  <2>2. CASE UNCHANGED <<composedList, cq>>
    BY <1>u, <2>1, <2>2 DEF Applied
  <2>3. CASE composedList # <<>> /\ composedList' = Tail(composedList) /\ cq' = Head(composedList)
    <3>1. Head(composedList) = Applied + 1
      BY <2>3, NextComposed
    <3>2. Applied' = Applied + 1
      BY <1>a, <2>3, <3>1 DEF Applied
    <3>3. \A f : On(f, composedList) => f = Applied + 1 \/ On(f, composedList')
      BY <1>a, <2>3, <3>1, OnTail
    <3> QED BY <1>a, <2>1, <3>2, <3>3 DEF Complete, Waiting
  <2> QED BY <1>4, <2>2, <2>3 DEF IrqApply
<1>5. CASE HwCqLoad
  BY <1>5, <1>u DEF HwCqLoad, buffers, counters, sensor, Sent, Applied
<1>6. CASE SensorWorker \/ DeadlineTimer
  <2>1. UNCHANGED <<txWq, using, composedList, Sent, Applied>>
    BY <1>6, SensorKeeps DEF buffers, Sent, Applied
  <2> QED BY <1>u, <2>1
<1>7. CASE HwSof \/ HwLateSof \/ HwDone \/ Irq \/ IrqTake \/ IrqScan \/ IrqHwDelay \/ IrqDecide
  BY <1>7, <1>u DEF HwSof, HwLateSof, HwSofs, HwDone, Irq, IrqTake, IrqScan, IrqHwDelay, IrqDecide,
                    buffers, counters, sensor, hw, Sent, Applied
<1>8. CASE FrameDone \/ UNCHANGED vars
  BY <1>8, <1>u DEF FrameDone, DonePrepare, DoneDequeue, vars, buffers, counters, sensor, hw, Sent, Applied
<1> QED BY <1>1, <1>2, <1>3, <1>4, <1>5, <1>6, <1>7, <1>8
        DEF Next, Composer, SensorWorker, Hardware, IrqThread

\* What is loaded belongs to a request that runs.
LEMMA PoolStep ==
  ASSUME TypeInv, Flow, Returned, Complete, Pool, [Next]_vars PROVE Pool'
<1>a. /\ Applied \in Nat /\ Sent \in Nat /\ Linked \in Nat /\ Sent <= Linked
      /\ using \in Seq(Nat) /\ running \subseteq Nat
  BY ApplyTypes, FlowTypes DEF TypeInv
<1>u. ASSUME UNCHANGED <<processing, Applied>>, running \subseteq running' PROVE Pool'
  BY <1>u DEF Pool
<1>1. CASE Enqueue
  <2>1. UNCHANGED <<processing, Applied>>
    BY <1>1, EnqueueKeeps DEF Enqueue, EnqNumber, EnqLink, EnqEnlist, EnqSetSensor, buffers, Applied
  <2>2. running \subseteq running'
    BY <1>1 DEF Enqueue, EnqNumber, EnqLink, EnqEnlist, EnqSetSensor, requests
  <2> QED BY <1>u, <2>1, <2>2
<1>2. CASE TxFrame
  BY <1>2, <1>u DEF TxFrame, requests, hw, Applied
<1>3. CASE Ack
  <2>1. using # <<>> /\ running' = running
    BY <1>3 DEF Ack, requests
  <2>2. CASE Head(using) = 1
    <3>1. processing' = processing \cup {1} /\ Applied' = 1
      BY <1>3, <2>2 DEF Ack, Applied
    <3>2. Applied < 1 /\ 1 <= Sent
      BY <1>a, <2>1, <2>2, OrderTail, ApplyTypes DEF Flow, Queues
    <3>3. 1 \in running
      BY <1>a, <3>2, Unapplied
    <3> QED BY <1>a, <2>1, <3>1, <3>2, <3>3 DEF Pool
  <2>3. CASE Head(using) # 1
    BY <1>3, <1>u, <2>1, <2>3 DEF Ack, Applied
  <2> QED BY <2>2, <2>3
<1>4. CASE IrqApply
  <2>1. UNCHANGED <<running, outer>>
    BY <1>4 DEF IrqApply
  <2>2. CASE UNCHANGED <<processing, cq>>
    BY <1>u, <2>1, <2>2 DEF Applied
  <2>3. CASE /\ composedList # <<>> /\ cq' = Head(composedList)
             /\ processing' = processing \cup {Head(composedList)}
    <3>1. Head(composedList) = Applied + 1 /\ Applied + 1 <= Sent
      BY <2>3, NextComposed
    <3>2. Applied' = Applied + 1
      BY <1>a, <2>3, <3>1 DEF Applied
    <3>3. Applied + 1 \in running
      BY <1>a, <3>1, Unapplied
    <3>4. \A f \in processing : f <= Applied + 1
      BY <1>a DEF Pool
    <3>5. processing' = processing \cup {Applied + 1}
      BY <2>3, <3>1
    <3> QED BY <1>a, <2>1, <3>2, <3>3, <3>4, <3>5 DEF Pool
  <2> QED BY <1>4, <2>2, <2>3 DEF IrqApply
<1>5. CASE HwCqLoad
  BY <1>5, <1>u DEF HwCqLoad, requests, buffers, Applied
<1>6. CASE SensorWorker \/ DeadlineTimer
  <2>1. UNCHANGED <<running, processing, Applied>>
    BY <1>6, SensorKeeps DEF buffers, Applied
  <2> QED BY <1>u, <2>1
<1>7. CASE HwSof \/ HwLateSof \/ HwDone \/ Irq \/ IrqTake \/ IrqScan \/ IrqHwDelay \/ IrqDecide
  BY <1>7, <1>u DEF HwSof, HwLateSof, HwSofs, HwDone, Irq, IrqTake, IrqScan, IrqHwDelay, IrqDecide,
                    requests, buffers, hw, Applied
<1>8. CASE DonePrepare \/ UNCHANGED vars
  BY <1>8, <1>u DEF DonePrepare, vars, requests, buffers, hw, Applied
<1>9. CASE DoneDequeue
  BY <1>9 DEF DoneDequeue, hw, Applied, Pool
<1> QED BY <1>1, <1>2, <1>3, <1>4, <1>5, <1>6, <1>7, <1>8, <1>9
        DEF Next, Composer, SensorWorker, Hardware, IrqThread, FrameDone

\* Once there are SOFs a frame in state SENSOR is the next to be applied.
LEMMA NextSet ==
  ASSUME TypeInv, Flow, Started, Cursor, Boot, States, irq.pc # "idle",
         NEW f \in Frames, f <= sensorSeq, estate[f] = SENSOR
  PROVE  f = sensorSeq /\ sensorSeq = Applied + 1 /\ Applied > 0
<1>1. Applied \in Nat /\ sensorSeq \in Nat /\ outer <= Applied /\ outer \in Nat /\ f \in Nat
  BY ApplyTypes DEF Frames
<1>2. initialCqDone
  BY DEF Boot
<1>3. Applied > 0
  BY <1>1, <1>2 DEF Started
<1>4. f > Applied
  BY <1>2 DEF States, Waits
<1> QED BY <1>1, <1>3, <1>4 DEF Cursor

\* The sensor worker waits until the last frame set was applied.
LEMMA SetsApplied ==
  ASSUME TypeInv, Flow, Returned, Listed, States, MaySetNext
  PROVE  sensorSeq <= Applied
<1>1. /\ Applied \in Nat /\ sensorSeq \in Nat /\ Linked \in Nat /\ enqueued \in Nat
      /\ Linked <= enqueued /\ enqueued <= MaxFrame /\ MaxFrame \in Nat /\ sensorSeq <= Linked
  BY ApplyTypes, ConstantsAssumption DEF TypeInv, Listed
<1> SUFFICES ASSUME sensorSeq > Applied PROVE FALSE
  BY <1>1
<1>2. sensorSeq \in running
  BY <1>1, Unapplied
<1>3. sensorSeq \in stateList /\ sensorSeq \in Frames
  BY <1>1, <1>2 DEF Listed, Frames
<1>4. estate[sensorSeq] \in {READY, SENSOR}
  BY <1>3 DEF States, Waits
<1>5. estate[sensorSeq] <= SENSOR
  BY <1>4 DEF READY, SENSOR
<1> QED BY <1>3, <1>5 DEF MaySetNext, LastNotApplied

\* The sensor stays one frame ahead.
LEMMA CursorStep ==
  ASSUME TypeInv, Flow, Started, Returned, Listed, Complete, Cursor, Boot, States, Chosen,
         [Next]_vars
  PROVE  Cursor'
<1>a. /\ Applied \in Nat /\ Sent \in Nat /\ enqueued \in Nat /\ sensorSeq \in Nat
      /\ Applied <= Sent /\ using \in Seq(Nat)
  BY ApplyTypes, FlowTypes
<1>u. ASSUME UNCHANGED <<Applied, sensorSeq, enqueued>> PROVE Cursor'
  BY <1>u DEF Cursor
<1>1. CASE EnqNumber
  <2>1. /\ enq = "idle" /\ enqueued' = enqueued + 1 /\ UNCHANGED <<Applied, sensorSeq>>
    BY <1>1 DEF EnqNumber, hw, Applied
  <2>2. enqueued' > 2 => sensorSeq > 0
    BY <1>a, <2>1 DEF Cursor, Listed
  <2> QED BY <2>1, <2>2 DEF Cursor
<1>2. CASE EnqLink \/ EnqSetSensor
  BY <1>2, <1>u DEF EnqLink, EnqSetSensor, counters, hw, Applied
<1>3. CASE EnqEnlist
  <2>1. /\ enq = "enlist" /\ sensorSeq' = enqueued /\ UNCHANGED <<Applied, enqueued>>
    BY <1>3 DEF EnqEnlist, EnlistState, hw, Applied
  <2>2. sensorSeq = enqueued - 1 /\ enqueued <= 2 /\ Sent = enqueued - 1
    BY <2>1 DEF Listed, Sent
  <2>3. /\ Applied <= enqueued
        /\ enqueued <= Applied + 1 \/ (enqueued <= 2 /\ Applied = 0)
        /\ enqueued > 2 => enqueued > 0
    BY <1>a, <2>2
  <2> QED BY <2>1, <2>3 DEF Cursor
<1>4. CASE TrySetSensor
  <2>1. UNCHANGED <<Applied, enqueued>>
    BY <1>4 DEF TrySetSensor, hw, Applied
  <2>2. CASE MaySetNext
    <3>1. sensorSeq' = sensorSeq + 1
      BY <1>4, <2>2 DEF TrySetSensor, EnlistState
    <3>2. sensorSeq <= Applied
      BY <2>2, SetsApplied
    <3>3. /\ Applied <= sensorSeq + 1 /\ sensorSeq + 1 <= Applied + 1
          /\ sensorSeq + 1 > 0
      BY <1>a, <3>2 DEF Cursor
    <3> QED BY <2>1, <3>1, <3>3 DEF Cursor
  <2>3. CASE ~MaySetNext
    BY <1>4, <1>u, <2>1, <2>3 DEF TrySetSensor
  <2> QED BY <2>2, <2>3
<1>5. CASE WorkerSetSensor \/ DeadlineTimer
  BY <1>5, <1>u DEF WorkerSetSensor, DeadlineTimer, counters, hw, Applied
<1>6. CASE Ack \/ IrqApply
  <2>1. UNCHANGED <<sensorSeq, enqueued, outer>>
    BY <1>6 DEF Ack, IrqApply, counters, sensor
  <2>2. CASE Ack /\ Applied = 0 /\ Applied' = 1 /\ Head(using) = 1
    <3>1. 1 <= Sent
      BY <1>a, <2>2, OrderTail DEF Ack, Flow, Queues
    <3>2. /\ enq \in {"link", "enlist"} => Sent = enqueued - 1
          /\ Sent <= enqueued
      BY <1>a DEF Sent
    <3>3. sensorSeq > 0
      BY <1>a, <3>1, <3>2 DEF Listed, Cursor
    <3> QED BY <1>a, <2>1, <2>2, <3>3 DEF Cursor
  <2>3. CASE IrqApply /\ composedList # <<>> /\ Applied' = Head(composedList)
    <3>1. irq.pc = "apply"
      BY <2>3 DEF IrqApply
    <3>2. sensorSeq = Applied + 1
      BY <3>1, <1>a, NextSet DEF Chosen
    <3>3. Applied' = sensorSeq
      BY <2>3, <3>2, NextComposed
    <3> QED BY <1>a, <2>1, <3>2, <3>3 DEF Cursor
  <2>4. CASE Applied' = Applied
    BY <1>u, <2>1, <2>4
  <2> QED BY <2>2, <2>3, <2>4, ApplySteps
<1>7. CASE HwCqLoad
  BY <1>7, <1>u DEF HwCqLoad, counters, Applied
<1>8. CASE TxFrame \/ HwSof \/ HwLateSof \/ HwDone \/ Irq \/ IrqTake \/ IrqScan \/ IrqHwDelay \/ IrqDecide
  BY <1>8, <1>u DEF TxFrame, HwSof, HwLateSof, HwSofs, HwDone, Irq, IrqTake, IrqScan, IrqHwDelay,
                    IrqDecide, counters, sensor, hw, Applied
<1>9. CASE FrameDone \/ UNCHANGED vars
  BY <1>9, <1>u, FrameDoneKeeps DEF vars, counters, sensor, hw, Applied
<1> QED BY <1>1, <1>2, <1>3, <1>4, <1>5, <1>6, <1>7, <1>8, <1>9
        DEF Next, Enqueue, Composer, SensorWorker, Hardware, IrqThread

\* A request past SENSOR stays so, until it is returned.
Early == {READY, SENSOR}
Late(x, y) == y = x \/ (x \notin Early /\ y \notin Early)
LEMMA TransitLate ==
  ASSUME NEW es \in [Frames -> EStates], NEW k, NEW from, NEW to,
         from \notin Early, to \notin Early, NEW f \in Frames
  PROVE  Late(es[f], Transit(es, k, from, to)[f])
  BY DEF Transit, Late
LEMMA LateNumbers ==
  /\ Early = {READY, SENSOR} /\ READY # SENSOR
  /\ \A n \in {CQ, OUTER, INNER, DONE_NORMAL, CQ_SCQ_DELAY, OUTER_HW_DELAY, INNER_HW_DELAY,
               DONE_MISMATCH} : n \notin Early
  BY DEF READY, SENSOR, CQ, OUTER, INNER, DONE_NORMAL, CQ_SCQ_DELAY, OUTER_HW_DELAY,
         INNER_HW_DELAY, DONE_MISMATCH, Early

\* How the state of a request changes in a step.
LEMMA StateMoves ==
  ASSUME TypeInv, [Next]_vars, NEW f \in Frames
  PROVE  \/ Late(estate[f], estate'[f])
         \/ EnqSetSensor /\ f = enqueued /\ estate[f] = READY /\ estate'[f] = SENSOR
         \/ WorkerSetSensor /\ f = sensorSeq /\ estate[f] = READY /\ estate'[f] = SENSOR
         \/ IrqTake /\ f = 1 /\ fifo[1].cq /\ estate'[f] = OUTER
         \/ IrqDecide /\ f = 1 /\ estate'[f] \notin Early
         \/ /\ IrqApply /\ f = irq.rec0 /\ composedList # <<>>
            /\ cq' = Head(composedList) /\ estate[f] = SENSOR /\ estate'[f] = CQ
         \/ DoneDequeue /\ f \in Dequeued /\ estate'[f] = READY
<1>e. estate \in [Frames -> EStates]
  BY DEF TypeInv
<1>u. ASSUME estate'[f] = estate[f] PROVE Late(estate[f], estate'[f])
  BY <1>u DEF Late
<1>1. CASE EnqSetSensor
  <2>1. estate' = Transit(estate, enqueued, READY, SENSOR)
    BY <1>1 DEF EnqSetSensor, SetSensor
  <2> QED BY <1>1, <1>e, <1>u, <2>1 DEF Transit
<1>2. CASE WorkerSetSensor
  <2>1. estate' = Transit(estate, sensorSeq, READY, SENSOR)
    BY <1>2 DEF WorkerSetSensor, SetSensor
  <2> QED BY <1>2, <1>e, <1>u, <2>1 DEF Transit
<1>3. CASE TrySetSensor
  <2>1. \/ UNCHANGED estate
        \/ estate' = [estate EXCEPT ![sensorSeq] = CQ_SCQ_DELAY] /\ estate[sensorSeq] = CQ
    BY <1>3 DEF TrySetSensor, CqNotDone
  <2> QED BY <1>e, <1>u, <2>1, LateNumbers DEF Late
<1>4. CASE IrqTake
  <2>1. \/ UNCHANGED estate
        \/ /\ fifo[1].cq /\ CqDone(fifo[1].outer)
    BY <1>4, TakeSteps
  <2>2. CASE fifo[1].cq /\ CqDone(fifo[1].outer)
    <3>1. \/ UNCHANGED estate
          \/ /\ estate' = [estate EXCEPT ![fifo[1].outer] = OUTER]
             /\ fifo[1].outer = 1 \/ estate[fifo[1].outer] \in {CQ, CQ_SCQ_DELAY}
      BY <2>2 DEF CqDone
    <3> QED BY <1>4, <1>e, <1>u, <2>2, <3>1, LateNumbers DEF Late
  <2> QED BY <1>u, <2>1, <2>2
<1>5. CASE IrqHwDelay
  <2> DEFINE e1 == Transit(estate, irq.inner, INNER, INNER_HW_DELAY)
  <2>1. estate' = Transit(e1, irq.outer, OUTER, OUTER_HW_DELAY)
    BY <1>5 DEF IrqHwDelay
  <2>2. Late(estate[f], e1[f]) /\ e1 \in [Frames -> EStates]
    BY <1>e, TransitLate, TransitType, StateNumbers, LateNumbers
  <2> HIDE DEF e1
  <2>3. Late(e1[f], estate'[f])
    BY <2>1, <2>2, TransitLate, LateNumbers
  <2> QED BY <2>2, <2>3 DEF Late
<1>6. CASE IrqDecide
  <2> DEFINE e1 == Transit(estate, irq.outer, OUTER_HW_DELAY, INNER_HW_DELAY)
             e2 == IF ~Loaded THEN estate ELSE Transit(e1, irq.outer, OUTER, INNER)
             e3 == IF irq.rec1 = 1 THEN Transit(e2, 1, SENSOR, INNER) ELSE e2
  <2>1. UNCHANGED estate \/ estate' = Transit(e3, irq.rec0, CQ_SCQ_DELAY, OUTER)
    BY <1>6 DEF IrqDecide
  <2>2. Late(estate[f], e1[f]) /\ e1 \in [Frames -> EStates]
    BY <1>e, TransitLate, TransitType, StateNumbers, LateNumbers
  <2> HIDE DEF e1
  <2>3. Late(estate[f], e2[f]) /\ e2 \in [Frames -> EStates]
    <3>1. Late(e1[f], Transit(e1, irq.outer, OUTER, INNER)[f])
      BY <2>2, TransitLate, LateNumbers
    <3>2. Transit(e1, irq.outer, OUTER, INNER) \in [Frames -> EStates]
      BY <2>2, TransitType, StateNumbers
    <3>3. Late(estate[f], Transit(e1, irq.outer, OUTER, INNER)[f])
      BY <2>2, <3>1 DEF Late
    <3> QED BY <1>e, <3>2, <3>3 DEF Late
  <2> HIDE DEF e2
  <2>4. /\ e3 \in [Frames -> EStates]
        /\ e3[f] = e2[f] \/ (f = 1 /\ e3[f] = INNER)
    <3>1. Transit(e2, 1, SENSOR, INNER) \in [Frames -> EStates]
      BY <2>3, TransitType, StateNumbers
    <3>2. \/ Transit(e2, 1, SENSOR, INNER)[f] = e2[f]
          \/ f = 1 /\ Transit(e2, 1, SENSOR, INNER)[f] = INNER
      BY <2>3 DEF Transit
    <3> QED BY <2>3, <3>1, <3>2
  <2> HIDE DEF e3
  <2>5. Late(e3[f], Transit(e3, irq.rec0, CQ_SCQ_DELAY, OUTER)[f])
    BY <2>4, TransitLate, LateNumbers
  <2>6. CASE e3[f] = e2[f]
    BY <1>u, <2>1, <2>3, <2>5, <2>6 DEF Late
  <2>7. CASE f = 1 /\ e3[f] = INNER
    BY <1>6, <1>u, <2>1, <2>5, <2>7, LateNumbers DEF Late
  <2> QED BY <2>4, <2>6, <2>7
<1>7. CASE IrqApply
  <2>1. \/ UNCHANGED estate
        \/ /\ composedList # <<>> /\ cq' = Head(composedList)
           /\ estate' = Transit(estate, irq.rec0, SENSOR, CQ)
    BY <1>7 DEF IrqApply
  <2> QED BY <1>7, <1>e, <1>u, <2>1 DEF Transit
<1>8. CASE DonePrepare
  <2> DEFINE e1 == Transit(estate, deq', INNER_HW_DELAY, DONE_MISMATCH)
             e2 == Transit(e1, deq', INNER, DONE_NORMAL)
             e3 == Transit(e2, deq', CQ, OUTER)
  <2>1. estate' \in {estate, e2, e3}
    BY <1>8 DEF DonePrepare
  <2>2. Late(estate[f], e1[f]) /\ e1 \in [Frames -> EStates]
    BY <1>e, TransitLate, TransitType, StateNumbers, LateNumbers
  <2> HIDE DEF e1
  <2>3. Late(e1[f], e2[f]) /\ e2 \in [Frames -> EStates]
    BY <2>2, TransitLate, TransitType, StateNumbers, LateNumbers
  <2> HIDE DEF e2
  <2>4. Late(e2[f], e3[f])
    BY <2>3, TransitLate, LateNumbers
  <2> HIDE DEF e3
  <2>5. Late(estate[f], e2[f])
    BY <2>2, <2>3 DEF Late
  <2>6. Late(estate[f], e3[f])
    BY <2>4, <2>5 DEF Late
  <2> QED BY <1>u, <2>1, <2>5, <2>6
<1>9. CASE DoneDequeue
  <2>1. estate' = [k \in Frames |-> IF k \in Dequeued THEN READY ELSE estate[k]]
    BY <1>9 DEF DoneDequeue
  <2> QED BY <1>9, <1>u, <2>1
<1>10. CASE EnqNumber \/ EnqLink \/ EnqEnlist \/ Composer \/ DeadlineTimer \/ Hardware \/ IrqScan
            \/ UNCHANGED vars
  <2>1. UNCHANGED estate
    BY <1>10, ComposerKeeps, HardwareKeeps
       DEF EnqNumber, EnqLink, EnqEnlist, DeadlineTimer, IrqScan, requests, vars
  <2> QED BY <1>u, <2>1
<1> QED BY <1>1, <1>2, <1>3, <1>4, <1>5, <1>6, <1>7, <1>8, <1>9, <1>10
        DEF Next, Enqueue, SensorWorker, IrqThread, FrameDone

\* The CQ number an event carries is the one in the outer registers.
LEMMA IrqOuter ==
  ASSUME TypeInv, Irq, ~UNCHANGED fifo
  PROVE  \E e \in Event : fifo' = Append(fifo, e) /\ e.cq = bits.cq /\ (bits.cq => e.outer = outer)
<1> DEFINE ev(lag) == [cq |-> bits.cq, done |-> bits.done, sof |-> bits.sof,
                  outer |-> IF bits.cq THEN outer ELSE 0,
                  inner |-> IF bits.sof THEN inner ELSE 0,
                  wcnt |-> IF bits.sof THEN ((written + 1 - lag) % CntMod) - 1 ELSE 0,
                  fbc0 |-> bits.sof /\ written = outer]
<1>1. PICK lag \in (IF written = outer THEN {0, 1} ELSE {0}) : fifo' = Append(fifo, ev(lag))
  BY DEF Irq
<1>2. lag \in {0, 1}
  BY <1>1
<1>3. ((written + 1 - lag) % CntMod) - 1 \in Int
  BY <1>2, EventTypes, ConstantsAssumption
<1>4. bits.cq \in BOOLEAN /\ bits.done \in BOOLEAN /\ bits.sof \in BOOLEAN
  BY DEF TypeInv
<1>5. ev(lag) \in Event
  BY <1>3, <1>4, EventTypes DEF Event
<1>6. ev(lag).cq = bits.cq /\ (bits.cq => ev(lag).outer = outer)
  OBVIOUS
<1> HIDE DEF ev
<1> QED BY <1>1, <1>5, <1>6

\* There is no SOF before the first CQ done interrupt.
LEMMA BootStep ==
  ASSUME TypeInv, Flow, Started, Boot, [Next]_vars PROVE Boot'
<1> SUFFICES ASSUME ~initialCqDone' PROVE Boot'
  BY DEF Boot
<1>a. /\ outer \in Nat /\ cq \in Nat /\ fifo \in Seq(Event) /\ Len(fifo) \in Nat
  BY FlowTypes, EventTypes
<1>m. ~initialCqDone
  <2>1. CASE IrqTake
    BY <2>1 DEF IrqTake, CqDone
  <2>2. CASE Enqueue \/ SensorWorker \/ DeadlineTimer \/ Composer \/ Hardware \/ FrameDone
    BY <2>2, EnqueueKeeps, SensorKeeps, ComposerKeeps, HardwareKeeps, FrameDoneKeeps DEF irqs
  <2>3. CASE IrqScan \/ IrqHwDelay \/ IrqDecide \/ IrqApply \/ UNCHANGED vars
    BY <2>3 DEF IrqScan, IrqHwDelay, IrqDecide, IrqApply, irqs, vars
  <2> QED BY <2>1, <2>2, <2>3 DEF Next, IrqThread
<1>b. /\ ~vf /\ ~bits.sof /\ sofCount = 0 /\ inner = 0 /\ irq.pc = "idle"
      /\ outer <= 1 /\ cq <= 1
      /\ \A i \in 1 .. Len(fifo) : fifo[i].cq => fifo[i].outer = 1
  BY <1>m DEF Boot
<1>1. CASE Enqueue \/ SensorWorker \/ DeadlineTimer
  <2>1. UNCHANGED <<irqs, inner, outer, cq>>
    BY <1>1, EnqueueKeeps, SensorKeeps
  <2>2. vf' => vf \/ initialCqDone
    BY <1>1 DEF Enqueue, EnqNumber, EnqLink, EnqEnlist, EnqSetSensor, SetSensor, SensorWorker,
                TrySetSensor, WorkerSetSensor, DeadlineTimer, hw
  <2> QED BY <1>b, <1>m, <2>1, <2>2 DEF Boot, irqs
<1>2. CASE Composer
  <2>1. UNCHANGED <<irqs, vf, inner, outer>> /\ cq' \in {cq, 1}
    BY <1>2, ComposerKeeps DEF Composer, TxFrame, Ack, hw
  <2> QED BY <1>a, <1>b, <2>1 DEF Boot, irqs
<1>3. CASE HwCqLoad
  <2>1. /\ outer' = cq /\ cq' = 0 /\ bits'.sof = bits.sof
        /\ UNCHANGED <<vf, fifo, inner, irq, sofCount>>
    BY <1>3 DEF HwCqLoad, TypeInv
  <2> QED BY <1>a, <1>b, <2>1 DEF Boot
<1>4. CASE HwSof \/ HwLateSof
  BY <1>4, <1>b DEF HwSof, HwLateSof, HwSofs
<1>5. CASE HwDone
  <2>1. bits'.sof = bits.sof /\ UNCHANGED <<vf, fifo, inner, outer, cq, irq, sofCount>>
    BY <1>5 DEF HwDone, TypeInv
  <2> QED BY <1>b, <2>1 DEF Boot
<1>6. CASE Irq
  <2>1. UNCHANGED <<vf, inner, outer, cq, irq>> /\ ~bits'.sof /\ sofCount' = 0
    BY <1>6, <1>b DEF Irq, hw, NoBits
  <2>2. ASSUME NEW i \in 1 .. Len(fifo'), fifo'[i].cq PROVE fifo'[i].outer = 1
    <3>1. CASE UNCHANGED fifo
      BY <1>b, <2>2, <3>1
    <3>2. CASE ~UNCHANGED fifo
      <4>1. PICK e \in Event : /\ fifo' = Append(fifo, e) /\ e.cq = bits.cq
                               /\ bits.cq => e.outer = outer
        BY <1>6, <3>2, IrqOuter
      <4>2. (i \in 1 .. Len(fifo) /\ fifo'[i] = fifo[i]) \/ fifo'[i] = e
        <5>1. i \in 1 .. Len(fifo) \/ i = Len(fifo) + 1
          BY <1>a, <4>1, Appended
        <5> QED BY <1>a, <4>1, <5>1, Appended
      <4>3. CASE i \in 1 .. Len(fifo) /\ fifo'[i] = fifo[i]
        BY <1>b, <2>2, <4>3
      <4>4. CASE fifo'[i] = e
        <5>1. bits.cq /\ e.outer = outer /\ outer > 0
          BY <2>2, <4>1, <4>4 DEF Started
        <5>2. outer = 1
          BY <1>a, <1>b, <5>1
        <5> QED BY <4>4, <5>1, <5>2
      <4> QED BY <4>2, <4>3, <4>4
    <3> QED BY <3>1, <3>2
  <2> QED BY <1>b, <2>1, <2>2 DEF Boot
<1>7. CASE IrqTake
  <2>1. ~fifo[1].cq
    BY <1>7, <1>b, TakeSteps DEF CqDone
  <2>2. UNCHANGED <<vf, bits, inner, outer, cq, sofCount>> /\ irq' = IdleIrq
    BY <1>7, <1>b, <2>1, TakeSteps DEF IrqTake
  <2>3. ASSUME NEW i \in 1 .. Len(fifo'), fifo'[i].cq PROVE fifo'[i].outer = 1
    <3>1. i + 1 \in 1 .. Len(fifo) /\ fifo'[i] = fifo[i + 1]
      BY <1>7, TakeSteps
    <3> QED BY <1>b, <2>3, <3>1
  <2> QED BY <1>b, <2>2, <2>3, HandlerFields DEF Boot
<1>8. CASE IrqScan \/ IrqHwDelay \/ IrqDecide \/ IrqApply
  BY <1>8, <1>b DEF IrqScan, IrqHwDelay, IrqDecide, IrqApply
<1>9. CASE FrameDone \/ UNCHANGED vars
  BY <1>9, <1>b, FrameDoneKeeps DEF irqs, hw, vars, Boot
<1> QED BY <1>1, <1>2, <1>3, <1>4, <1>5, <1>6, <1>7, <1>8, <1>9
        DEF Next, Hardware, IrqThread

\* What never goes back.
LEMMA Onward ==
  ASSUME TypeInv, Flow, Listed, Complete, [Next]_vars
  PROVE  /\ Applied' \in Nat /\ Applied <= Applied'
         /\ sensorSeq' \in Nat /\ sensorSeq <= sensorSeq'
         /\ initialCqDone => initialCqDone'
<1>a. Applied \in Nat /\ sensorSeq \in Nat /\ enqueued \in Nat
  BY ApplyTypes
<1>1. Applied' \in Nat /\ Applied <= Applied'
  BY <1>a, ApplySteps, NextComposed
<1>2. sensorSeq' \in Nat /\ sensorSeq <= sensorSeq'
  <2>1. CASE EnqEnlist
    BY <1>a, <2>1 DEF EnqEnlist, EnlistState, Listed
  <2>2. CASE TrySetSensor
    BY <1>a, <2>2 DEF TrySetSensor, EnlistState
  <2>3. CASE EnqNumber \/ EnqLink \/ EnqSetSensor \/ WorkerSetSensor \/ DeadlineTimer
    BY <1>a, <2>3 DEF EnqNumber, EnqLink, EnqSetSensor, WorkerSetSensor, DeadlineTimer, counters
  <2>4. CASE Composer \/ Hardware \/ IrqThread \/ FrameDone \/ UNCHANGED vars
    BY <1>a, <2>4, ComposerKeeps, HardwareKeeps, IrqThreadKeeps, FrameDoneKeeps DEF counters, vars
  <2> QED BY <2>1, <2>2, <2>3, <2>4 DEF Next, Enqueue, SensorWorker
<1>3. initialCqDone => initialCqDone'
  <2>1. CASE IrqTake
    BY <2>1 DEF IrqTake, CqDone
  <2>2. CASE Enqueue \/ SensorWorker \/ DeadlineTimer \/ Composer \/ Hardware \/ FrameDone
    BY <2>2, EnqueueKeeps, SensorKeeps, ComposerKeeps, HardwareKeeps, FrameDoneKeeps DEF irqs
  <2>3. CASE IrqScan \/ IrqHwDelay \/ IrqDecide \/ IrqApply \/ UNCHANGED vars
    BY <2>3 DEF IrqScan, IrqHwDelay, IrqDecide, IrqApply, irqs, vars
  <2> QED BY <2>1, <2>2, <2>3 DEF Next, IrqThread
<1> QED BY <1>1, <1>2, <1>3

\* The first CQ done interrupt takes frame 1 out of SENSOR.
LEMMA FirstDone ==
  ASSUME TypeInv, Flow, Seen, Returned, Listed, Boot, States, [Next]_vars,
         ~initialCqDone, initialCqDone', 1 \in Frames, estate[1] = SENSOR
  PROVE  estate'[1] # SENSOR
<1>1. IrqTake
  <2>1. CASE Enqueue \/ SensorWorker \/ DeadlineTimer \/ Composer \/ Hardware \/ FrameDone
    BY <2>1, EnqueueKeeps, SensorKeeps, ComposerKeeps, HardwareKeeps, FrameDoneKeeps DEF irqs
  <2>2. CASE IrqScan \/ IrqHwDelay \/ IrqDecide \/ IrqApply \/ UNCHANGED vars
    BY <2>2 DEF IrqScan, IrqHwDelay, IrqDecide, IrqApply, irqs, vars
  <2> QED BY <2>1, <2>2 DEF Next, IrqThread
<1>2. fifo[1].cq /\ CqDone(fifo[1].outer) /\ 1 \in 1 .. Len(fifo)
  BY <1>1, TakeSteps DEF TypeInv
<1>3. fifo[1].outer = 1 /\ inner = 0
  BY <1>2 DEF Boot
<1>4. /\ 1 <= sensorSeq /\ sensorSeq \in Nat /\ Linked \in Nat /\ sensorSeq <= Linked
      /\ written \in Nat /\ written <= inner /\ dequeued \in Nat /\ ispSeq \in Nat
      /\ ispSeq <= dequeued /\ dequeued <= inner
  BY ApplyTypes, EventTypes DEF States, Waits, Listed, Flow, Registers, Seen, SeenHandler
<1>5. 1 \in 1 .. Linked /\ ~(1 <= written) /\ 1 > ispSeq
  BY <1>3, <1>4
<1>6. 1 \in running
  BY <1>5 DEF Returned, QueuedUpTo
<1>7. 1 \in stateList
  BY <1>4, <1>6 DEF Listed
<1>8. estate' = [estate EXCEPT ![1] = OUTER]
  BY <1>2, <1>3, <1>5, <1>7 DEF CqDone
<1> QED BY <1>8, LateNumbers DEF TypeInv

\* The handler applies the frame the sensor was set for.
LEMMA AppliesSet ==
  ASSUME TypeInv, Flow, Started, Complete, Cursor, Boot, States, Chosen, IrqApply,
         composedList # <<>>
  PROVE  /\ irq.rec0 = Applied + 1 /\ sensorSeq = Applied + 1 /\ Head(composedList) = Applied + 1
         /\ irq.rec0 \in Frames /\ estate[irq.rec0] = SENSOR /\ Applied > 0 /\ initialCqDone
<1>1. irq.pc = "apply" /\ sensorSeq \in Nat
  BY ApplyTypes DEF IrqApply
<1>2. irq.rec0 = sensorSeq /\ sensorSeq \in Frames /\ estate[sensorSeq] = SENSOR
  BY <1>1 DEF Chosen
<1>3. sensorSeq = Applied + 1 /\ Applied > 0
  BY <1>1, <1>2, NextSet
<1> QED BY <1>1, <1>2, <1>3, NextComposed DEF Boot

\* A frame whose state the step does not touch, or that is past SENSOR.
LEMMA StatesKept ==
  ASSUME TypeInv, Flow, Started, Seen, Returned, Listed, Complete, Cursor, Boot, States, Chosen,
         [Next]_vars, NEW f \in Frames, Late(estate[f], estate'[f])
  PROVE  /\ f > Applied' => estate'[f] \in Early
         /\ estate'[f] = SENSOR =>
              f <= sensorSeq' /\ (f > Applied' \/ (f = 1 /\ ~initialCqDone'))
<1>a. /\ Applied \in Nat /\ Applied' \in Nat /\ Applied <= Applied' /\ f \in Nat
      /\ sensorSeq \in Nat /\ sensorSeq' \in Nat /\ sensorSeq <= sensorSeq'
      /\ outer \in Nat /\ outer <= Applied
      /\ initialCqDone => initialCqDone'
  BY ApplyTypes, Onward DEF Frames
<1>1. estate'[f] \in Early => estate[f] = estate'[f]
  BY DEF Late
<1>2. ASSUME f > Applied' PROVE estate'[f] \in Early
  <2>1. f > Applied
    BY <1>a, <1>2
  <2> QED BY <2>1, LateNumbers DEF States, Waits, Late
<1>3. ASSUME estate'[f] = SENSOR
      PROVE  f <= sensorSeq' /\ (f > Applied' \/ (f = 1 /\ ~initialCqDone'))
  <2>1. estate[f] = SENSOR
    BY <1>1, <1>3, LateNumbers
  <2>2. f <= sensorSeq /\ (f > Applied \/ (f = 1 /\ ~initialCqDone))
    BY <2>1 DEF States, Waits
  <2>3. f <= sensorSeq'
    BY <1>a, <2>2
  <2>4. f = 1 /\ ~initialCqDone => ~initialCqDone'
    BY <1>3, <2>1, FirstDone
  <2>5. CASE Applied' = Applied
    BY <2>2, <2>3, <2>4, <2>5
  <2>6. CASE Ack /\ Applied = 0 /\ Applied' = 1
    <3>1. ~initialCqDone /\ initialCqDone' = initialCqDone
      BY <1>a, <2>6 DEF Started, Ack, irqs
    <3>2. f > 1 \/ f = 1
      BY <1>a, <2>2, <2>6
    <3> QED BY <2>3, <2>6, <3>1, <3>2
  <2>7. CASE IrqApply /\ composedList # <<>> /\ Applied' = Head(composedList) /\ cq' = Applied'
             /\ Applied' # Applied
    <3>1. /\ irq.rec0 = Applied + 1 /\ sensorSeq = Applied + 1 /\ initialCqDone
          /\ Applied' = Applied + 1 /\ estate[irq.rec0] = SENSOR /\ irq.rec0 \in Frames
      BY <2>7, AppliesSet
    <3>2. f = irq.rec0
      BY <1>a, <2>2, <3>1
    <3>3. estate' = Transit(estate, irq.rec0, SENSOR, CQ)
      <4>1. ~UNCHANGED cq
        BY <2>7 DEF IrqApply, Applied
      <4> QED BY <2>7, <4>1 DEF IrqApply
    <3>4. irq.rec0 # 0
      BY <3>1 DEF Frames
    <3>5. estate'[f] = CQ
      BY <3>1, <3>2, <3>3, <3>4 DEF Transit, TypeInv
    <3> QED BY <1>3, <3>5, LateNumbers
  <2> QED BY <2>5, <2>6, <2>7, ApplySteps
<1> QED BY <1>2, <1>3

\* Only frames that are to be applied wait in SENSOR.
LEMMA StatesStep ==
  ASSUME TypeInv, Flow, Started, Seen, Returned, Listed, Complete, Cursor, Setting, Boot, States,
         Chosen, [Next]_vars
  PROVE  States'
<1> SUFFICES ASSUME NEW f \in Frames
             PROVE  /\ f > Applied' => estate'[f] \in Early
                    /\ estate'[f] = SENSOR =>
                         f <= sensorSeq' /\ (f > Applied' \/ (f = 1 /\ ~initialCqDone'))
  BY DEF States, Waits, Early
<1>a. /\ Applied \in Nat /\ Applied' \in Nat /\ Applied <= Applied' /\ f \in Nat
      /\ sensorSeq \in Nat /\ sensorSeq' \in Nat /\ sensorSeq <= sensorSeq'
      /\ outer \in Nat /\ outer <= Applied /\ enqueued \in Nat /\ Applied <= Sent /\ Sent \in Nat
  BY ApplyTypes, Onward DEF Frames
<1>1. CASE Late(estate[f], estate'[f])
  BY <1>1, StatesKept
<1>2. CASE EnqSetSensor /\ f = enqueued /\ estate'[f] = SENSOR
  <2>1. enq = "set" /\ UNCHANGED <<sensorSeq, Applied>>
    BY <1>2 DEF EnqSetSensor, counters, Applied
  <2>2. sensorSeq = enqueued /\ Sent = enqueued - 1
    BY <2>1 DEF Listed, Sent
  <2>3. f <= sensorSeq' /\ f > Applied'
    BY <1>a, <1>2, <2>1, <2>2
  <2> QED BY <1>2, <2>3, LateNumbers
<1>3. CASE WorkerSetSensor /\ f = sensorSeq /\ estate'[f] = SENSOR
  <2>1. worker = "set" /\ UNCHANGED <<sensorSeq, Applied>>
    BY <1>3 DEF WorkerSetSensor, counters, Applied
  <2>2. f <= sensorSeq' /\ f > Applied'
    BY <1>a, <1>3, <2>1 DEF Setting
  <2> QED BY <1>3, <2>2, LateNumbers
<1>4. CASE IrqTake /\ f = 1 /\ fifo[1].cq /\ estate'[f] = OUTER
  <2>1. outer > 0
    BY <1>4, TakeSteps DEF Started
  <2>2. ~(f > Applied') /\ OUTER # SENSOR
    BY <1>a, <1>4, <2>1, LateNumbers
  <2> QED BY <1>4, <2>2
<1>5. CASE IrqDecide /\ f = 1 /\ estate'[f] \notin Early
  <2>1. irq.pc # "idle"
    BY <1>5 DEF IrqDecide
  <2>2. outer > 0
    BY <2>1 DEF Boot, Started
  <2>3. ~(f > Applied')
    BY <1>a, <1>5, <2>2
  <2> QED BY <1>5, <2>3, LateNumbers
<1>6. CASE /\ IrqApply /\ f = irq.rec0 /\ composedList # <<>>
           /\ cq' = Head(composedList) /\ estate'[f] = CQ
  <2>1. irq.rec0 = Applied + 1 /\ Head(composedList) = Applied + 1
    BY <1>6, AppliesSet
  <2>2. Applied' = Applied + 1
    BY <1>6, <1>a, <2>1 DEF Applied
  <2>3. ~(f > Applied')
    BY <1>6, <1>a, <2>1, <2>2
  <2> QED BY <1>6, <2>3, LateNumbers
<1>7. CASE DoneDequeue /\ estate'[f] = READY
  BY <1>7, LateNumbers
<1> QED BY <1>1, <1>2, <1>3, <1>4, <1>5, <1>6, <1>7, StateMoves

\* Who moves the last request set, the sensor worker and the handler.
LEMMA ThreadMoves ==
  ASSUME [Next]_vars
  PROVE  /\ \/ sensorSeq' = sensorSeq
            \/ EnqEnlist /\ sensorSeq' = enqueued
            \/ TrySetSensor /\ MaySetNext /\ sensorSeq' = sensorSeq + 1
         /\ \/ worker' = worker
            \/ TrySetSensor /\ MaySetNext
            \/ worker' = "idle"
         /\ irq' = irq \/ IrqThread
<1>1. CASE TrySetSensor
  BY <1>1 DEF TrySetSensor, EnlistState, irqs
<1>2. CASE WorkerSetSensor \/ DeadlineTimer
  BY <1>2 DEF WorkerSetSensor, DeadlineTimer, counters, irqs
<1>3. CASE EnqEnlist
  BY <1>3 DEF EnqEnlist, EnlistState, irqs
<1>4. CASE EnqNumber \/ EnqLink \/ EnqSetSensor
  BY <1>4 DEF EnqNumber, EnqLink, EnqSetSensor, counters, irqs
<1>5. CASE Composer \/ Hardware \/ FrameDone
  BY <1>5, ComposerKeeps, HardwareKeeps, FrameDoneKeeps DEF counters, sensor, irqs
<1>6. CASE IrqThread
  BY <1>6, IrqThreadKeeps DEF IrqThread, IrqTake, IrqScan, IrqHwDelay, IrqDecide, IrqApply, sensor
<1>7. CASE UNCHANGED vars
  BY <1>7 DEF vars, counters, sensor, irqs
<1> QED BY <1>1, <1>2, <1>3, <1>4, <1>5, <1>6, <1>7 DEF Next, Enqueue, SensorWorker

\* The request the worker sets stays above those applied, and not yet set.
LEMMA SettingStep ==
  ASSUME TypeInv, Flow, Started, Returned, Listed, Complete, Cursor, Setting, Boot, States,
         Chosen, [Next]_vars
  PROVE  Setting'
<1> SUFFICES ASSUME worker' = "set"
             PROVE  sensorSeq' > 2 /\ sensorSeq' > Applied' /\ estate'[sensorSeq'] # SENSOR
  BY DEF Setting
<1>a. /\ Applied \in Nat /\ sensorSeq \in Nat /\ enqueued \in Nat /\ Linked \in Nat
      /\ MaxFrame \in Nat /\ sensorSeq <= Linked /\ Linked <= MaxFrame /\ running \subseteq 1 .. Linked
  BY ApplyTypes, ConstantsAssumption DEF TypeInv, Listed
<1>1. CASE TrySetSensor /\ MaySetNext
  <2>1. sensorSeq' = sensorSeq + 1 /\ estate' = estate /\ Applied' = Applied
    BY <1>1 DEF TrySetSensor, EnlistState, MaySetNext, hw, Applied
  <2>2. sensorSeq <= Applied /\ Applied <= sensorSeq
    BY <1>1, SetsApplied DEF Cursor
  <2>3. sensorSeq + 1 > 2 /\ sensorSeq + 1 \in Frames
    BY <1>1, <1>a DEF MaySetNext, NextLinked, Frames
  <2>4. estate[sensorSeq + 1] # SENSOR
    BY <1>a, <2>3 DEF States, Waits
  <2> QED BY <1>a, <2>1, <2>2, <2>3, <2>4
<1>2. CASE worker = "set" /\ ~(TrySetSensor /\ MaySetNext)
  <2>1. sensorSeq > 2 /\ sensorSeq > Applied /\ estate[sensorSeq] # SENSOR
    BY <1>2 DEF Setting
  <2>2. sensorSeq' = sensorSeq
    BY <1>2, <1>a, <2>1, ThreadMoves DEF EnqEnlist, Listed
  <2>3. sensorSeq \in Frames /\ sensorSeq # 1
    BY <1>a, <2>1 DEF Frames
  <2>4. CASE UNCHANGED Applied
    <3>5. estate'[sensorSeq] # SENSOR
      <4>1. CASE Late(estate[sensorSeq], estate'[sensorSeq])
        BY <2>1, <4>1, LateNumbers DEF Late
      <4>2. CASE EnqSetSensor /\ sensorSeq = enqueued
        <5>1. enqueued <= 2
          BY <4>2 DEF EnqSetSensor, Listed
        <5> QED BY <1>a, <2>1, <4>2, <5>1
      <4>3. CASE WorkerSetSensor
        BY <4>3 DEF WorkerSetSensor
      <4>4. CASE estate'[sensorSeq] \in {READY, CQ}
        BY <4>4, LateNumbers
      <4> QED BY <2>3, <4>1, <4>2, <4>3, <4>4, StateMoves
    <3> QED BY <2>1, <2>2, <2>4, <3>5
  <2>5. CASE Applied = 0
    BY <1>a, <2>1, <2>5 DEF Cursor
  <2>6. CASE IrqApply /\ composedList # <<>>
    BY <2>1, <2>6, AppliesSet
  <2> QED BY <2>4, <2>5, <2>6, ApplySteps
<1> QED BY <1>1, <1>2, ThreadMoves

\* The frame chosen stays the one the sensor was set for.
LEMMA ChosenStep ==
  ASSUME TypeInv, Flow, Started, Returned, Listed, Complete, Cursor, Boot, States, Chosen,
         [Next]_vars
  PROVE  Chosen'
<1>a. /\ Applied \in Nat /\ sensorSeq \in Nat /\ enqueued \in Nat /\ Linked \in Nat
      /\ MaxFrame \in Nat /\ sensorSeq <= Linked /\ Linked <= MaxFrame
      /\ sensorSeq' \in Nat /\ sensorSeq <= sensorSeq' /\ irq.rec0 \in Nat
  <2>1. irq.rec0 \in Nat
    BY DEF TypeInv, Handler
  <2>2. Linked <= MaxFrame /\ MaxFrame \in Nat
    BY ApplyTypes, ConstantsAssumption DEF TypeInv
  <2> QED BY <2>1, <2>2, ApplyTypes, Onward DEF Listed
<1>1. CASE IrqThread
  <2>1. sensorSeq' = sensorSeq
    BY <1>1, IrqThreadKeeps
  <2>2. CASE IrqScan
    <3>1. irq'.pc = "decide" /\ irq'.rec0 \in {0, sensorSeq}
      BY <2>2 DEF IrqScan, IdleIrq
    <3> QED BY <1>a, <2>1, <3>1 DEF Chosen
  <2>3. CASE IrqDecide
    <3> DEFINE e1 == Transit(estate, irq.outer, OUTER_HW_DELAY, INNER_HW_DELAY)
               e2 == IF ~Loaded THEN estate ELSE Transit(e1, irq.outer, OUTER, INNER)
               e3 == IF irq.rec1 = 1 THEN Transit(e2, 1, SENSOR, INNER) ELSE e2
    <3>1. \/ irq' = IdleIrq
          \/ /\ estate' = Transit(e3, irq.rec0, CQ_SCQ_DELAY, OUTER)
             /\ irq.rec0 # 0 /\ e3[irq.rec0] = SENSOR
             /\ irq' = [IdleIrq EXCEPT !.pc = "apply", !.idx = irq.idx, !.rec0 = irq.rec0]
      BY <2>3 DEF IrqDecide
    <3>2. CASE irq' = IdleIrq
      BY <3>2, HandlerFields DEF Chosen
    <3>3. CASE /\ estate' = Transit(e3, irq.rec0, CQ_SCQ_DELAY, OUTER)
               /\ irq.rec0 # 0 /\ e3[irq.rec0] = SENSOR
               /\ irq' = [IdleIrq EXCEPT !.pc = "apply", !.idx = irq.idx, !.rec0 = irq.rec0]
      <4>1. irq.pc = "decide" /\ irq.rec0 <= sensorSeq
        BY <2>3 DEF IrqDecide, Chosen
      <4>2. irq.rec0 \in Frames
        BY <1>a, <3>3, <4>1 DEF Frames
      <4>3. e1 \in [Frames -> EStates] /\ Late(estate[irq.rec0], e1[irq.rec0])
        BY <4>2, TransitLate, TransitType, StateNumbers, LateNumbers DEF TypeInv
      <4> HIDE DEF e1
      <4>4. e2 \in [Frames -> EStates] /\ (e2[irq.rec0] = SENSOR => estate[irq.rec0] = SENSOR)
        <5>1. Late(e1[irq.rec0], Transit(e1, irq.outer, OUTER, INNER)[irq.rec0])
          BY <4>2, <4>3, TransitLate, LateNumbers
        <5>2. Transit(e1, irq.outer, OUTER, INNER) \in [Frames -> EStates]
          BY <4>3, TransitType, StateNumbers
        <5> QED BY <4>3, <5>1, <5>2, LateNumbers DEF Late, TypeInv
      <4> HIDE DEF e2
      <4>5. e3[irq.rec0] = SENSOR => e2[irq.rec0] = SENSOR
        BY <4>2, <4>4, LateNumbers DEF Transit
      <4>6. estate[irq.rec0] = SENSOR
        BY <3>3, <4>4, <4>5
      <4>7. irq.rec0 = sensorSeq
        BY <4>1, <4>2, <4>6, NextSet
      <4> HIDE DEF e3
      <4>8. estate' = e3
        BY <3>3, LateNumbers DEF Transit, SENSOR, CQ_SCQ_DELAY
      <4>9. irq'.pc = "apply" /\ irq'.rec0 = irq.rec0
        BY <3>3 DEF IdleIrq
      <4> QED BY <2>1, <3>3, <4>2, <4>7, <4>8, <4>9 DEF Chosen
    <3> QED BY <3>1, <3>2, <3>3
  <2>4. CASE IrqTake
    <3>1. irq' = IdleIrq \/ irq'.pc = "scan"
      BY <2>4, TakeSteps
    <3> QED BY <3>1, HandlerFields DEF Chosen
  <2>5. CASE IrqHwDelay \/ IrqApply
    BY <2>5, RestSteps, HandlerFields DEF Chosen
  <2> QED BY <1>1, <2>2, <2>3, <2>4, <2>5 DEF IrqThread
<1>2. CASE irq' = irq
  <2>1. irq'.pc = "decide" => irq'.rec0 <= sensorSeq'
    BY <1>a, <1>2 DEF Chosen
  <2>2. ASSUME irq.pc = "apply"
        PROVE  irq.rec0 = sensorSeq' /\ sensorSeq' \in Frames /\ estate'[sensorSeq'] = SENSOR
    <3>1. irq.rec0 = sensorSeq /\ sensorSeq \in Frames /\ estate[sensorSeq] = SENSOR
      BY <2>2 DEF Chosen
    <3>2. sensorSeq = Applied + 1 /\ Applied > 0
      BY <1>a, <2>2, <3>1, NextSet
    <3>3. ~(TrySetSensor /\ MaySetNext)
      BY <1>a, <3>2, SetsApplied
    <3>4. sensorSeq' = sensorSeq
      BY <1>a, <3>2, <3>3, ThreadMoves DEF EnqEnlist, Listed
    <3>5. ~(sensorSeq <= deq)
      BY <1>a, <3>2, Unapplied
    <3>6. estate'[sensorSeq] = SENSOR
      <4>1. CASE Late(estate[sensorSeq], estate'[sensorSeq])
        BY <3>1, <4>1, LateNumbers DEF Late
      <4>2. CASE IrqTake \/ IrqDecide
        BY <2>2, <4>2 DEF IrqTake, IrqDecide
      <4>3. CASE IrqApply
        BY <1>2, <2>2, <4>3, HandlerFields DEF IrqApply
      <4>4. CASE DoneDequeue /\ sensorSeq \in Dequeued
        BY <3>5, <4>4 DEF Dequeued
      <4> QED BY <3>1, <4>1, <4>2, <4>3, <4>4, StateMoves
    <3> QED BY <3>1, <3>4, <3>6
  <2> QED BY <1>2, <2>1, <2>2 DEF Chosen
<1> QED BY <1>1, <1>2, ThreadMoves

\* The initial state satisfies it, and every step keeps it.
LEMMA ApplyInvInit == ASSUME Init PROVE ApplyInv
<1>1. Applied = 0 /\ Sent = 0 /\ irq.pc = "idle" /\ irq.rec0 = 0
  BY DEF Init, Applied, Sent, IdleIrq
<1>2. Complete /\ Pool /\ Cursor /\ Setting
  BY <1>1 DEF Init, Complete, Pool, Cursor, Setting
<1>3. Boot /\ Chosen
  BY <1>1 DEF Init, Boot, Chosen, NoBits
<1>4. States
  BY LateNumbers DEF Init, States, Waits
<1> QED BY <1>2, <1>3, <1>4 DEF ApplyInv

\* See ApplyInvInit.
LEMMA ApplyInvStep ==
  ASSUME MaxJobs <= CqBufs, FrameInv, ApplyInv, [Next]_vars PROVE ApplyInv'
  BY CompleteStep, PoolStep, CursorStep, SettingStep, BootStep, StatesStep, ChosenStep
     DEF FrameInv, ApplyInv

-----------------------------------------------------------------------------
(* The theorems.                                                           *)

\* The initial state satisfies the invariant, and every step keeps it.
LEMMA FrameInvInit == ASSUME Init PROVE FrameInv
<1>1. TypeInv
  BY TypeInvInit
<1>2. Jobs
  BY FS_EmptySet, ConstantsAssumption DEF Init, Jobs
<1>3. Flow
  BY DEF Init, Flow, Queues, Registers, Increasing, Before, UpTo, Above, Sent
<1>4. Started /\ DoneSafe
  BY DEF Init, Started, DoneSafe, NoBits
<1>5. Seen
  <2>1. READY \notin {INNER, INNER_HW_DELAY}
    BY StateNumbers
  <2>2. SeenEvents /\ OneSof /\ SeenHandler
    BY HandlerFields DEF Init, SeenEvents, OneSof, SeenHandler
  <2> QED BY <2>1, <2>2 DEF Init, Seen, InnerUpTo
<1>6. Returned
  BY DEF Init, Returned, QueuedUpTo, UpTo, Linked
<1>7. WriteInv
  <2>1. WrittenAt(0, 0)
    BY HandlerFields DEF Init, WrittenAt, Scanning
  <2> QED BY <2>1 DEF Init, WriteInv
<1>8. Listed
  BY DEF Init, Listed, Linked
<1> QED BY <1>1, <1>2, <1>3, <1>4, <1>5, <1>6, <1>7, <1>8 DEF FrameInv

\* See FrameInvInit.
LEMMA FrameInvStep == ASSUME FrameInv, [Next]_vars PROVE FrameInv'
  BY TypeInvStep, JobsStep, FlowStep, StartedStep, SeenStep, DoneSafeStep, ReturnedStep, WriteStep,
     ListedStep DEF FrameInv

\* The invariant from which the theorems below follow.
THEOREM FrameInvariant == Spec => []FrameInv
<1>1. Init => FrameInv
  BY FrameInvInit
<1>2. FrameInv /\ [Next]_vars => FrameInv'
  BY FrameInvStep
<1> QED BY <1>1, <1>2, PTL DEF Spec

\* mtk_camsys_raw_state_handle reads state_rec[1] only if it was filled.
THEOREM ScanReadsFilledEntries == Spec => []StateRecDefined
<1>1. FrameInv => StateRecDefined
  <2> SUFFICES ASSUME FrameInv, Cardinality(stateList) > 1
               PROVE  {sensorSeq, sensorSeq - 1} \subseteq stateList
    BY DEF StateRecDefined
  <2>1. /\ TypeInv /\ Listed /\ Linked \in Int /\ sensorSeq \in Nat
        /\ running \subseteq 1 .. Linked /\ stateList \subseteq 1 .. Linked
    BY DEF FrameInv, TypeInv, Linked
  <2>2. \E a, b \in stateList : a < b
    <3>1. stateList # {}
      <4> SUFFICES ASSUME stateList = {} PROVE FALSE
        OBVIOUS
      <4> QED BY FS_EmptySet
    <3>2. PICK a \in stateList : TRUE
      BY <3>1
    <3>3. \E b \in stateList : b # a
      <4> SUFFICES ASSUME \A b \in stateList : b = a PROVE FALSE
        OBVIOUS
      <4>1. stateList = {a}
        OBVIOUS
      <4> QED BY <4>1, FS_Singleton
    <3> QED BY <2>1, <3>2, <3>3
  <2>3. PICK a \in stateList, b \in stateList : a < b
    BY <2>2
  <2>4. a \in running /\ b <= sensorSeq /\ a \in Int /\ b \in Int /\ sensorSeq <= Linked
    BY <2>1 DEF Listed
  <2>5. sensorSeq \in a .. Linked /\ sensorSeq - 1 \in a .. Linked
    BY <2>1, <2>3, <2>4
  <2> QED BY <2>1, <2>4, <2>5 DEF Listed
<1> QED BY <1>1, FrameInvariant, PTL

\* mtk_cam_handle_frame_done returns a buffer as DONE only when the hardware
\* has written the frame into it, whichever interrupts were merged or lost.
THEOREM DoneBuffersAreWritten == Spec => []DoneWasWritten
<1>1. FrameInv => DoneWasWritten
  BY DEF FrameInv, Returned, DoneWasWritten
<1> QED BY <1>1, FrameInvariant, PTL

\* The hardware writes no frame whose buffer user space has back.
THEOREM ReturnedBuffersStay == Spec => []NoWriteAfterReturn
<1>1. FrameInv => NoWriteAfterReturn
  <2> SUFFICES ASSUME FrameInv, inner > written PROVE result[inner] = "none"
    BY DEF NoWriteAfterReturn
  <2>1. /\ inner \in Nat /\ written \in Nat /\ outer \in Nat /\ Sent \in Nat
        /\ inner <= outer /\ outer <= Sent /\ Sent <= MaxFrame /\ MaxFrame \in Nat
    BY FlowTypes, ConstantsAssumption DEF FrameInv, TypeInv, Flow, Registers, Sent
  <2>2. inner \in Frames
    BY <2>1 DEF Frames
  <2> QED BY <2>1, <2>2 DEF FrameInv, Returned
<1> QED BY <1>1, FrameInvariant, PTL

\* The sensor is set for the frame that is applied next.
THEOREM ApplyInvariant == ASSUME MaxJobs <= CqBufs PROVE Spec => []ApplyInv
<1>1. Init => ApplyInv
  BY ApplyInvInit
<1>2. FrameInv /\ ApplyInv /\ [Next]_vars => ApplyInv'
  BY ApplyInvStep
<1> QED BY <1>1, <1>2, FrameInvariant, PTL DEF Spec

\* mtk_camsys_raw_frame_start applies the CQ of the request it moves to state
\* CQ, as long as the pool holds a CQ buffer for every running request.
THEOREM AppliedInOrder == ASSUME MaxJobs <= CqBufs PROVE Spec => AppliedMatchesState
<1>1. ASSUME FrameInv, ApplyInv, Next, cq' \notin {0, 1, cq}
      PROVE  estate[cq'] = SENSOR /\ estate'[cq'] = CQ
  <2>1. /\ TypeInv /\ Flow /\ Started /\ Complete /\ Cursor /\ Boot /\ States /\ Chosen
    BY <1>1 DEF FrameInv, ApplyInv
  <2>2. ~HwCqLoad /\ ~(cq' = 1)
    BY <1>1 DEF HwCqLoad
  <2>3. IrqApply /\ composedList # <<>> /\ cq' = Head(composedList)
    BY <1>1, <2>1, <2>2, ApplySteps
  <2>4. /\ irq.rec0 = Applied + 1 /\ Head(composedList) = Applied + 1
        /\ irq.rec0 \in Frames /\ estate[irq.rec0] = SENSOR
    BY <2>1, <2>3, AppliesSet
  <2>5. estate' = Transit(estate, irq.rec0, SENSOR, CQ) /\ irq.rec0 # 0
    BY <1>1, <2>3, <2>4 DEF IrqApply, Frames
  <2>6. estate'[irq.rec0] = CQ
    BY <2>1, <2>4, <2>5 DEF Transit, TypeInv
  <2> QED BY <2>3, <2>4, <2>6
<1>2. FrameInv /\ ApplyInv /\ [Next]_vars =>
        [cq' \notin {0, 1, cq} => estate[cq'] = SENSOR /\ estate'[cq'] = CQ]_vars
  BY <1>1
<1> QED BY <1>2, FrameInvariant, ApplyInvariant, PTL DEF Spec, AppliedMatchesState
=============================================================================
