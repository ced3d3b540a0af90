---------------------------- MODULE ImgsysProofs ----------------------------
(***************************************************************************)
(* What TLAPS proves of Imgsys, for any requests, groups and tasks and any  *)
(* sizes of the pools: a request is reported done only when the hardware    *)
(* has finished all of it; and, until the stream is started again, the GCE  *)
(* memory is held while it is used, the pools are never overdrawn, and only *)
(* a request that is still queued is notified.                             *)
(*                                                                         *)
(* A request travels once from enqueue_wq to the daemon (Journey), its      *)
(* groups once through the handler, the runner and the hardware (Groups),   *)
(* and their call-backs come in the order of the tasks (CbOrder), so that   *)
(* the counter of the request counts a set (Record).                       *)
(***************************************************************************)
EXTENDS Imgsys, FiniteSetTheorems, TLAPS

Distinct(q) == \A i, j \in 1 .. Len(q) : q[i] = q[j] => i = j
In(x, q) == \E i \in 1 .. Len(q) : q[i] = x

StreamTypes ==
  session \in 0 .. MaxSession /\ streaming \in BOOLEAN /\ stop \in Stops
RequestTypes ==
  /\ born \in [Reqs -> 0 .. MaxSession]
  /\ bufs \in [Reqs -> {"user", "driver", "done", "error"}]
  /\ hang \subseteq Reqs /\ wbuf \subseteq Reqs /\ freeBufs \in Nat
ComposeTypes ==
  /\ enqueueWq \in Seq(Reqs) /\ composer \in {"idle", "send"} /\ sem \in Nat
  /\ numComposing \in Int /\ chan \in Seq(Reqs)
HandlingTypes ==
  /\ group \in [Groups -> GroupStates] /\ record \in [Reqs -> Nat \cup {None}]
  /\ handler \in Groups \cup {None}
RunningTypes ==
  /\ freeWorks \in Nat /\ runQ \in Seq(Groups) /\ enabled \in BOOLEAN
  /\ runner \in Groups \cup {None} /\ flushed \in [Groups -> Nat]
HardwareTypes ==
  /\ done \in [Groups -> Nat] /\ cbCnt \in [Groups -> Nat] /\ failed \subseteq Groups
  /\ cbWq \in Seq([group : Groups, task : Nat]) /\ mdpcbWq \in Seq(Groups)
  /\ cb \in [group : Groups \cup {None}, stage : CbStages]
CountTypes == gceRef \in Int /\ faults \in 0 .. MaxFault
Types ==
  /\ StreamTypes /\ RequestTypes /\ ComposeTypes /\ HandlingTypes /\ RunningTypes
  /\ HardwareTypes /\ CountTypes

\* A request is composed, sent and fetched once.
Journey ==
  /\ Distinct(enqueueWq) /\ Distinct(chan)
  /\ \A r \in Reqs :
       /\ In(r, enqueueWq) => r \in wbuf /\ ~In(r, chan)
       /\ In(r, chan) => r \in wbuf
       /\ r \in wbuf => bufs[r] # "user"
  /\ \A g \in Groups : group[g] # "idle" =>
       ~In(ReqOf[g], enqueueWq) /\ ~In(ReqOf[g], chan) /\ bufs[ReqOf[g]] # "user"
  /\ composer = "send" => enqueueWq # <<>>

\* The groups of a request are fetched together, and its first one is
\* announced before the others.
Together ==
  \A g, h \in Groups : ReqOf[g] = ReqOf[h] =>
    /\ group[g] = "idle" => group[h] = "idle"
    /\ g \in Firsts /\ group[g] = "daemon" => group[h] = "daemon" /\ ReqOf[g] \in wbuf

\* A group goes through the handler, the runner and the hardware once.
Advance ==
  /\ \A g \in Groups :
       /\ cbCnt[g] <= done[g] /\ done[g] <= flushed[g] /\ flushed[g] <= LastTask(g)
       /\ group[g] \in {"idle", "daemon", "handler", "queued"} => flushed[g] = 0
       /\ group[g] = "running" => runner = g
       /\ handler = g => group[g] = "handler"
       /\ In(g, runQ) => group[g] = "queued"
       /\ In(g, mdpcbWq) => done[g] > 0
  /\ runner # None => group[runner] = "running"
  /\ Distinct(runQ)

\* Call-backs come in the order of the tasks, and none is lost.
Waits(g, k) == In([group |-> g, task |-> k], cbWq)
CbOrder ==
  /\ \A i \in 1 .. Len(cbWq) : /\ cbCnt[cbWq[i].group] < cbWq[i].task
                               /\ cbWq[i].task <= done[cbWq[i].group]
  /\ \A i, j \in 1 .. Len(cbWq) :
       i < j /\ cbWq[i].group = cbWq[j].group => cbWq[i].task < cbWq[j].task
  /\ \A g \in Groups : \A k \in cbCnt[g] + 1 .. done[g] : Waits(g, k)

\* The counter of a request is the number of its call-backs that came, and a
\* request is notified when all of them have come.
AllCbs(r) == UNION {CallBacks(g) : g \in GroupsOf(r)}
Came(r) == {c \in AllCbs(r) : c[2] <= cbCnt[c[1]]}
Record ==
  \A r \in Reqs : record[r] # None =>
    /\ record[r] = Cardinality(Came(r)) /\ r \in wbuf
    /\ \A g \in GroupsOf(r) : group[g] # "idle"
Complete(r) == \A g \in GroupsOf(r) : cbCnt[g] = LastTask(g)
Notifying ==
  /\ cb.group = None <=> cb.stage = "none"
  /\ cb.group # None => cbCnt[cb.group] = LastTask(cb.group)
  /\ cb.stage \in {"notify", "notifyLast"} =>
       Complete(ReqOf[cb.group]) /\ ReqOf[cb.group] \in wbuf /\ record[ReqOf[cb.group]] = None
  /\ cb.stage \in {"finish", "finishLast"} =>
       Complete(ReqOf[cb.group]) /\ ReqOf[cb.group] \notin wbuf
  /\ \A r \in Reqs : bufs[r] = "done" => Complete(r)

\* The works of gwork_pool; STREAMOFF joins the runner.
One(b) == IF b THEN 1 ELSE 0
Works ==
  /\ freeWorks + Len(runQ) + One(runner # None) <= NWorks
  /\ enabled => stop \in {"on", "flush", "deinit", "disable"}
  /\ runner # None => stop \notin {"return", "off"}
  /\ streaming => stop = "on"

\* The first stream: requests sent and not yet notified, and what holds the
\* GCE memory.
Sent(r) == In(r, chan) \/ \E g \in GroupsOf(r) : group[g] # "idle"
Pending == {r \in wbuf : Sent(r)}
Held == {g \in Groups : /\ group[g] \in {"queued", "running", "hw"} \/ flushed[g] > 0
                        /\ cbCnt[g] = LastTask(g) => cb.group = g}
BornHere == \A r \in Reqs : bufs[r] # "user" => born[r] = session
BufsCounted == freeBufs + Cardinality(wbuf) = NBufs
ComposingCounted == numComposing >= Cardinality(Pending)
Unreturned == stop \in {"on", "flush"} => \A r \in wbuf : bufs[r] = "driver"
NotifyInTime == cb.stage \in {"notify", "notifyLast"} => stop \in {"on", "flush"}
GceCounted ==
  gceRef >= Cardinality(Held) + One(runner # None) + Len(mdpcbWq)
            + One(stop \notin {"return", "off"})
FirstStream ==
  /\ session = 0 => stop = "off" /\ \A r \in Reqs : bufs[r] = "user"
  /\ session <= 1 =>
       /\ BornHere /\ BufsCounted /\ ComposingCounted /\ Unreturned /\ NotifyInTime
       /\ GceCounted

ImgsysInv ==
  /\ Types /\ Journey /\ Together /\ Advance /\ CbOrder /\ Record /\ Notifying /\ Works
  /\ FirstStream
-----------------------------------------------------------------------------
(* Types.                                                                  *)

\* Appending to, and taking the head of, a list of a type.
LEMMA SeqType ==
  ASSUME NEW R, NEW q \in Seq(R)
  PROVE  /\ Len(q) \in Nat
         /\ \A x \in R : Append(q, x) \in Seq(R) /\ Len(Append(q, x)) = Len(q) + 1
         /\ q # <<>> => /\ Head(q) \in R /\ Tail(q) \in Seq(R) /\ Head(q) = q[1]
                        /\ 1 \in 1 .. Len(q) /\ Len(Tail(q)) = Len(q) - 1
  OBVIOUS

\* A group has a last task, and its call-backs are tasks.
LEMMA TaskTypes ==
  ASSUME NEW g \in Groups
  PROVE  /\ Tasks[g] \in Seq(BOOLEAN) /\ LastTask(g) \in Nat \ {0} /\ ReqOf[g] \in Reqs
         /\ \A k \in 1 .. LastTask(g) : Tasks[g][k] \in BOOLEAN
<1>1. Tasks[g] \in Seq(BOOLEAN) /\ Tasks[g] # <<>> /\ ReqOf[g] \in Reqs
  BY ImgsysAssumption
<1>2. Len(Tasks[g]) \in Nat \ {0} /\ \A k \in 1 .. Len(Tasks[g]) : Tasks[g][k] \in BOOLEAN
  BY <1>1
<1> QED BY <1>1, <1>2 DEF LastTask

\* Variables that do not change keep their types.
LEMMA TypesKept ==
  ASSUME Types
  PROVE  /\ UNCHANGED stream => StreamTypes'
         /\ UNCHANGED requests => RequestTypes'
         /\ UNCHANGED compose => ComposeTypes'
         /\ UNCHANGED handling => HandlingTypes'
         /\ UNCHANGED running => RunningTypes'
         /\ UNCHANGED hardware => HardwareTypes'
         /\ UNCHANGED <<gceRef, faults>> => CountTypes'
<1>1. UNCHANGED stream => StreamTypes'
  BY DEF Types, StreamTypes, stream
<1>2. UNCHANGED requests => RequestTypes'
  BY DEF Types, RequestTypes, requests
<1>3. UNCHANGED compose => ComposeTypes'
  BY DEF Types, ComposeTypes, compose
<1>4. UNCHANGED handling => HandlingTypes'
  BY DEF Types, HandlingTypes, handling
<1>5. UNCHANGED running => RunningTypes'
  BY DEF Types, RunningTypes, running
<1>6. UNCHANGED hardware => HardwareTypes'
  BY DEF Types, HardwareTypes, hardware
<1>7. UNCHANGED <<gceRef, faults>> => CountTypes'
  BY DEF Types, CountTypes
<1> QED BY <1>1, <1>2, <1>3, <1>4, <1>5, <1>6, <1>7

\* The counters of the model and of the GCE memory are numbers.
LEMMA CountKept ==
  ASSUME Types, gceRef' \in {gceRef, gceRef + 1, gceRef - 1, 1}, UNCHANGED faults \/ Fault
  PROVE  CountTypes'
  BY ImgsysAssumption DEF Types, CountTypes, Fault

\* The initial state satisfies the types.
LEMMA TypesInit == ASSUME Init PROVE Types
<1>0. <<>> \in Seq(Reqs) /\ <<>> \in Seq(Groups) /\ <<>> \in Seq([group : Groups, task : Nat])
  OBVIOUS
<1>1. StreamTypes /\ CountTypes
  <2>1. MaxSession \in Nat /\ MaxFault \in Nat
    BY ImgsysAssumption
  <2>2. session = 0 /\ stop = "off" /\ gceRef = 0 /\ faults = 0
    BY DEF Init
  <2>3. streaming \in BOOLEAN
    BY DEF Init
  <2> QED BY <2>1, <2>2, <2>3 DEF StreamTypes, CountTypes, Stops
<1>6. RequestTypes
  <2>1. born \in [Reqs -> 0 .. MaxSession]
    BY ImgsysAssumption DEF Init
  <2>2. bufs \in [Reqs -> {"user", "driver", "done", "error"}]
    BY DEF Init
  <2>3. hang \subseteq Reqs /\ wbuf \subseteq Reqs /\ freeBufs \in Nat
    BY ImgsysAssumption DEF Init
  <2> QED BY <2>1, <2>2, <2>3 DEF RequestTypes
<1>2. ComposeTypes
  BY <1>0, ImgsysAssumption DEF Init, ComposeTypes
<1>3. HandlingTypes
  BY DEF Init, HandlingTypes, GroupStates
<1>4. RunningTypes
  BY <1>0 DEF Init, RunningTypes
<1>5. HardwareTypes
  BY <1>0 DEF Init, HardwareTypes, NoCb, CbStages
<1> QED BY <1>1, <1>2, <1>3, <1>4, <1>5, <1>6 DEF Types

\* User space and STREAMOFF keep the types.
LEMMA StopStepTypes ==
  ASSUME Types, StreamOn \/ StopBegin \/ Stop \/ \E r \in Reqs : Queue(r)
  PROVE  Types'
<1>0. <<>> \in Seq(Reqs) /\ <<>> \in Seq(Groups) /\ enqueueWq \in Seq(Reqs)
  BY DEF Types, ComposeTypes
<1>1. CASE StreamOn
  <2>1. StreamTypes' /\ RequestTypes' /\ CountTypes'
    BY <1>1, ImgsysAssumption DEF StreamOn, Types, StreamTypes, RequestTypes, CountTypes, Stops
  <2>2. ComposeTypes'
    BY <1>0, <1>1 DEF StreamOn, Types, ComposeTypes
  <2>3. RunningTypes'
    BY <1>0, <1>1, ImgsysAssumption DEF StreamOn, Types, RunningTypes
  <2>4. HandlingTypes' /\ HardwareTypes'
    BY <1>1, TypesKept DEF StreamOn
  <2> QED BY <2>1, <2>2, <2>3, <2>4 DEF Types
<1>2. CASE StopBegin \/ FlushEnd
  <2>1. StreamTypes'
    BY <1>2 DEF StopBegin, FlushEnd, Types, StreamTypes, Stops
  <2>2. UNCHANGED <<requests, compose, handling, running, hardware, gceRef, faults>>
    BY <1>2 DEF StopBegin, FlushEnd
  <2> QED BY <2>1, <2>2, TypesKept DEF Types
<1>3. ASSUME NEW r \in Reqs, Queue(r) PROVE Types'
  <2>1. RequestTypes'
    <3>1. born' \in [Reqs -> 0 .. MaxSession]
      BY <1>3 DEF Queue, Types, RequestTypes, StreamTypes
    <3>2. bufs' \in [Reqs -> {"user", "driver", "done", "error"}]
      BY <1>3 DEF Queue, Types, RequestTypes
    <3>3. freeBufs' \in Nat /\ wbuf' \subseteq Reqs /\ hang' \subseteq Reqs
      BY <1>3 DEF Queue, Types, RequestTypes
    <3> QED BY <3>1, <3>2, <3>3 DEF RequestTypes
  <2>2. ComposeTypes'
    <3>1. Append(enqueueWq, r) \in Seq(Reqs)
      BY <1>0
    <3> QED BY <1>3, <3>1 DEF Queue, Types, ComposeTypes
  <2>3. UNCHANGED <<stream, handling, running, hardware, gceRef, faults>>
    BY <1>3 DEF Queue
  <2> QED BY <2>1, <2>2, <2>3, TypesKept DEF Types
<1>4. CASE Deinit
  <2>1. StreamTypes'
    BY <1>4 DEF Deinit, Types, StreamTypes, Stops
  <2>2. HandlingTypes'
    BY <1>4 DEF Deinit, Types, HandlingTypes, GroupStates
  <2>3. UNCHANGED <<requests, compose, running, hardware, gceRef, faults>>
    BY <1>4 DEF Deinit
  <2> QED BY <2>1, <2>2, <2>3, TypesKept DEF Types
<1>5. CASE QueueDisable
  <2>1. StreamTypes' /\ CountTypes'
    BY <1>5, CountKept DEF QueueDisable, Types, StreamTypes, Stops
  <2>2. RunningTypes'
    BY <1>5 DEF QueueDisable, Types, RunningTypes
  <2>3. UNCHANGED <<requests, compose, handling, hardware>>
    BY <1>5 DEF QueueDisable
  <2> QED BY <2>1, <2>2, <2>3, TypesKept DEF Types
<1>6. CASE ReleaseBuffers
  <2>1. StreamTypes' /\ CountTypes'
    BY <1>6, CountKept DEF ReleaseBuffers, Types, StreamTypes, Stops
  <2>2. ComposeTypes'
    BY <1>0, <1>6 DEF ReleaseBuffers, Types, ComposeTypes
  <2>3. UNCHANGED <<requests, handling, running, hardware>>
    BY <1>6 DEF ReleaseBuffers
  <2> QED BY <2>1, <2>2, <2>3, TypesKept DEF Types
<1>7. CASE ReturnAll
  <2>1. StreamTypes' /\ RequestTypes'
    BY <1>7 DEF ReturnAll, Types, StreamTypes, RequestTypes, Stops
  <2>2. UNCHANGED <<compose, handling, running, hardware, gceRef, faults>>
    BY <1>7 DEF ReturnAll
  <2> QED BY <2>1, <2>2, TypesKept DEF Types
<1> QED BY <1>1, <1>2, <1>3, <1>4, <1>5, <1>6, <1>7 DEF Stop

\* The composer, the daemon and the handler keep the types.
LEMMA ComposeStepTypes ==
  ASSUME Types, Composer \/ DaemonFetch \/ Handler, composer = "send" => enqueueWq # <<>>
  PROVE  Types'
<1>a. enqueueWq \in Seq(Reqs) /\ chan \in Seq(Reqs) /\ runQ \in Seq(Groups)
  BY DEF Types, ComposeTypes, RunningTypes
<1>1. CASE ComposerDown
  <2>1. ComposeTypes'
    BY <1>1 DEF ComposerDown, Types, ComposeTypes
  <2> QED BY <1>1, <2>1, TypesKept DEF ComposerDown, Types
<1>2. CASE ComposerSend
  <2>1. Head(enqueueWq) \in Reqs /\ Tail(enqueueWq) \in Seq(Reqs)
    BY <1>2, <1>a DEF ComposerSend
  <2>2. Append(chan, Head(enqueueWq)) \in Seq(Reqs)
    BY <1>a, <2>1
  <2>3. UNCHANGED <<stream, handling, running, hardware, gceRef>>
    BY <1>2 DEF ComposerSend
  <2>4. ComposeTypes'
    <3>1. chan' = Append(chan, Head(enqueueWq)) \/ chan' = chan
      BY <1>2 DEF ComposerSend
    <3>2. enqueueWq' = Tail(enqueueWq) /\ composer' = "idle" /\ sem' = sem
          /\ numComposing' = numComposing + 1
      BY <1>2 DEF ComposerSend
    <3>3. chan' \in Seq(Reqs) /\ enqueueWq' \in Seq(Reqs)
      BY <1>a, <2>1, <2>2, <3>1, <3>2
    <3>4. sem' \in Nat /\ numComposing' \in Int /\ composer' \in {"idle", "send"}
      BY <3>2 DEF Types, ComposeTypes
    <3> QED BY <3>3, <3>4 DEF ComposeTypes
  <2>5. UNCHANGED requests \/ (/\ Finish(Head(enqueueWq), "error") /\ FreeBuf(Head(enqueueWq))
                               /\ UNCHANGED <<born, hang>>)
    BY <1>2 DEF ComposerSend
  <2>6. RequestTypes'
    <3> DEFINE r == Head(enqueueWq)
    <3> HIDE DEF r
    <3>1. CASE Finish(r, "error") /\ FreeBuf(r) /\ UNCHANGED <<born, hang>>
      <4>1. r \in Reqs
        BY <2>1 DEF r
      <4>2. bufs' \in [Reqs -> {"user", "driver", "done", "error"}]
        BY <4>1, <3>1 DEF Finish, Types, RequestTypes
      <4>3. freeBufs' \in Nat /\ wbuf' \subseteq Reqs
        BY <3>1 DEF FreeBuf, Types, RequestTypes
      <4> QED BY <3>1, <4>2, <4>3 DEF Types, RequestTypes
    <3> QED BY <2>5, <3>1, TypesKept DEF r
  <2>7. CountTypes'
    BY <1>2, <2>3, CountKept DEF ComposerSend, requests
  <2> QED BY <2>3, <2>4, <2>6, <2>7, TypesKept DEF Types
<1>3. CASE DaemonFetch
  <2>1. ComposeTypes'
    BY <1>3, <1>a DEF DaemonFetch, Types, ComposeTypes
  <2>2. HandlingTypes'
    BY <1>3 DEF DaemonFetch, Types, HandlingTypes, GroupStates
  <2> QED BY <1>3, <2>1, <2>2, TypesKept DEF DaemonFetch, Types
<1>4. ASSUME NEW g \in Groups, Announce(g) PROVE Types'
  <2>1. HandlingTypes'
    BY <1>4, TaskTypes DEF Announce, MadeByFirst, Types, HandlingTypes, GroupStates
  <2>2. ComposeTypes'
    BY <1>4 DEF Announce, Types, ComposeTypes
  <2> QED BY <1>4, <2>1, <2>2, TypesKept DEF Announce, Types
<1>5. ASSUME NEW g \in Groups, HandlerQueue(g) PROVE Types'
  <2>1. HandlingTypes'
    BY <1>5 DEF HandlerQueue, Types, HandlingTypes, GroupStates
  <2>2. RunningTypes'
    <3>1. Append(runQ, g) \in Seq(Groups)
      BY <1>a
    <3>2. runQ' \in Seq(Groups)
      BY <1>5, <1>a, <3>1 DEF HandlerQueue
    <3> QED BY <1>5, <3>2 DEF HandlerQueue, Types, RunningTypes
  <2>3. CountTypes'
    BY <1>5, CountKept DEF HandlerQueue, OneMore
  <2> QED BY <1>5, <2>1, <2>2, <2>3, TypesKept DEF HandlerQueue, Types
<1>6. ASSUME NEW g \in Groups, HandlerNoWork(g) PROVE Types'
  <2>1. HandlingTypes'
    BY <1>6 DEF HandlerNoWork, Types, HandlingTypes, GroupStates
  <2>2. CountTypes'
    BY <1>6, CountKept DEF HandlerNoWork
  <2> QED BY <1>6, <2>1, <2>2, TypesKept DEF HandlerNoWork, Types
<1> QED BY <1>1, <1>2, <1>3, <1>4, <1>5, <1>6 DEF Composer, Handler

\* The runner keeps the types.
LEMMA RunnerStepTypes == ASSUME Types, Runner PROVE Types'
<1>a. runQ \in Seq(Groups)
  BY DEF Types, RunningTypes
<1>1. CASE RunnerTake
  <2>1. Head(runQ) \in Groups /\ Tail(runQ) \in Seq(Groups)
    BY <1>1, <1>a DEF RunnerTake
  <2>2. HandlingTypes'
    BY <1>1, <2>1 DEF RunnerTake, Types, HandlingTypes, GroupStates
  <2>3. RunningTypes'
    BY <1>1, <2>1 DEF RunnerTake, Types, RunningTypes
  <2>4. CountTypes'
    BY <1>1, CountKept DEF RunnerTake
  <2> QED BY <1>1, <2>2, <2>3, <2>4, TypesKept DEF RunnerTake, Types
<1>2. CASE RunnerFlush
  <2>1. RunningTypes'
    BY <1>2 DEF RunnerFlush, Types, RunningTypes
  <2> QED BY <1>2, <2>1, TypesKept DEF RunnerFlush, Types
<1>3. CASE RunnerEnd
  <2>1. HandlingTypes'
    BY <1>3 DEF RunnerEnd, Types, HandlingTypes, GroupStates
  <2>2. RunningTypes'
    BY <1>3 DEF RunnerEnd, Types, RunningTypes
  <2>3. CountTypes'
    BY <1>3, CountKept DEF RunnerEnd
  <2>4. UNCHANGED <<stream, requests, compose, hardware>>
    BY <1>3 DEF RunnerEnd
  <2> QED BY <2>1, <2>2, <2>3, <2>4, TypesKept DEF Types
<1> QED BY <1>1, <1>2, <1>3 DEF Runner

\* The command queue and its works keep the types.
LEMMA HardwareStepTypes ==
  ASSUME Types, (\E g \in Groups : TaskDone(g)) \/ CallBack \/ TimeoutWork,
         cb.group = None <=> cb.stage = "none"
  PROVE  Types'
<1>a. /\ cbWq \in Seq([group : Groups, task : Nat]) /\ mdpcbWq \in Seq(Groups)
      /\ cb \in [group : Groups \cup {None}, stage : CbStages]
  BY DEF Types, HardwareTypes
<1>1. ASSUME NEW g \in Groups, TaskDone(g) PROVE Types'
  <2>1. done' \in [Groups -> Nat] /\ done[g] + 1 \in Nat
    BY <1>1 DEF TaskDone, Types, HardwareTypes
  <2>2. cbWq' \in Seq([group : Groups, task : Nat])
    <3> DEFINE t == [group |-> g, task |-> done[g] + 1]
    <3>1. t \in [group : Groups, task : Nat]
      BY <2>1
    <3>2. cbWq' = Append(cbWq, t)
      BY <1>1 DEF TaskDone
    <3> HIDE DEF t
    <3> QED BY <1>a, <3>1, <3>2
  <2>3. mdpcbWq' \in Seq(Groups)
    <3>1. Append(mdpcbWq, g) \in Seq(Groups)
      BY <1>a
    <3> QED BY <1>1, <1>a, <3>1 DEF TaskDone
  <2>4. UNCHANGED <<cbCnt, failed, cb, stream, requests, compose, handling, running>>
    BY <1>1 DEF TaskDone
  <2>5. HardwareTypes'
    BY <2>1, <2>2, <2>3, <2>4 DEF Types, HardwareTypes
  <2>6. CountTypes'
    BY <1>1, CountKept DEF TaskDone
  <2> QED BY <2>4, <2>5, <2>6, TypesKept DEF Types
<1>2. CASE CbWork
  <2> DEFINE t == Head(cbWq)
             g == t.group
             r == ReqOf[g]
  <2>1. t \in [group : Groups, task : Nat] /\ Tail(cbWq) \in Seq([group : Groups, task : Nat])
    <3>1. cbWq # <<>>
      BY <1>2 DEF CbWork
    <3> DEFINE T == [group : Groups, task : Nat]
    <3>2. cbWq \in Seq(T)
      BY <1>a
    <3> HIDE DEF T
    <3>3. Head(cbWq) \in T /\ Tail(cbWq) \in Seq(T)
      BY <3>1, <3>2
    <3> QED BY <3>3 DEF T
  <2>2. g \in Groups /\ r \in Reqs
    BY <2>1, TaskTypes
  <2>3. /\ cbCnt' = [cbCnt EXCEPT ![g] = @ + 1]
        /\ \/ record' = record \/ record' = [record EXCEPT ![r] = None]
           \/ record[r] # None /\ record' = [record EXCEPT ![r] = @ + 1]
        /\ hang' = hang \/ hang' = hang \cup {r}
        /\ cb' = NoCb \/ \E s \in CbStages : cb' = [group |-> g, stage |-> s]
        /\ cbWq' = Tail(cbWq)
        /\ UNCHANGED <<stream, born, bufs, wbuf, freeBufs, compose, group, handler,
                       running, done, failed, mdpcbWq, gceRef, faults>>
    BY <1>2 DEF CbWork, CbStages
  <2> HIDE DEF t, g, r
  <2>4. HandlingTypes'
    BY <2>2, <2>3 DEF Types, HandlingTypes
  <2>5. RequestTypes'
    BY <2>2, <2>3 DEF Types, RequestTypes
  <2>6. HardwareTypes'
    <3>1. cbCnt' \in [Groups -> Nat]
      BY <2>2, <2>3 DEF Types, HardwareTypes
    <3>2. cb' \in [group : Groups \cup {None}, stage : CbStages]
      BY <2>2, <2>3 DEF NoCb, CbStages
    <3>3. cbWq' \in Seq([group : Groups, task : Nat])
      BY <2>1, <2>3
    <3> QED BY <2>3, <3>1, <3>2, <3>3 DEF Types, HardwareTypes
  <2> QED BY <2>3, <2>4, <2>5, <2>6, TypesKept DEF Types
<1>3. CASE Notify
  <2>1. cb' \in [group : Groups \cup {None}, stage : CbStages]
    BY <1>3, <1>a DEF Notify, CbStages
  <2>2. HardwareTypes'
    BY <1>3, <2>1 DEF Notify, Types, HardwareTypes
  <2>3. RequestTypes'
    BY <1>3 DEF Notify, FreeBuf, Types, RequestTypes
  <2>4. ComposeTypes'
    BY <1>3 DEF Notify, Types, ComposeTypes
  <2> QED BY <1>3, <2>2, <2>3, <2>4, TypesKept DEF Notify, Types
<1>4. CASE NotifyFinish
  <2>1. cb.group \in Groups
    BY <1>4, <1>a DEF NotifyFinish
  <2>2. ReqOf[cb.group] \in Reqs
    BY <2>1, TaskTypes
  <2>3. RequestTypes'
    <3> DEFINE r == ReqOf[cb.group]
    <3>1. (UNCHANGED bufs \/ Finish(r, "done")) /\ UNCHANGED <<born, hang, wbuf, freeBufs>>
      BY <1>4 DEF NotifyFinish
    <3> HIDE DEF r
    <3> QED BY <2>2, <3>1 DEF Finish, Types, RequestTypes
  <2>4. cb' \in [group : Groups \cup {None}, stage : CbStages]
    BY <1>4, <1>a DEF NotifyFinish, NoCb, CbStages
  <2>5. HardwareTypes'
    BY <1>4, <2>4 DEF NotifyFinish, Types, HardwareTypes
  <2> QED BY <1>4, <2>3, <2>5, TypesKept DEF NotifyFinish, Types
<1>5. CASE CbPut
  <2>1. cb' \in [group : Groups \cup {None}, stage : CbStages]
    BY <1>5 DEF CbPut, NoCb, CbStages
  <2>2. HardwareTypes'
    BY <1>5, <2>1 DEF CbPut, Types, HardwareTypes
  <2>3. CountTypes'
    BY <1>5, CountKept DEF CbPut
  <2> QED BY <1>5, <2>2, <2>3, TypesKept DEF CbPut, Types
<1>6. CASE TimeoutWork
  <2>1. Head(mdpcbWq) \in Groups /\ Tail(mdpcbWq) \in Seq(Groups)
    BY <1>6, <1>a DEF TimeoutWork
  <2>2. HardwareTypes'
    BY <1>6, <2>1 DEF TimeoutWork, Types, HardwareTypes
  <2>3. CountTypes'
    BY <1>6, CountKept DEF TimeoutWork
  <2> QED BY <1>6, <2>2, <2>3, TypesKept DEF TimeoutWork, Types
<1> QED BY <1>1, <1>2, <1>3, <1>4, <1>5, <1>6 DEF CallBack

\* Every step keeps the types.
LEMMA TypesStep ==
  ASSUME Types, Journey, Notifying, [Next]_vars PROVE Types'
<1>1. CASE UNCHANGED vars
  BY <1>1, TypesKept DEF Types, vars
<1> QED BY <1>1, StopStepTypes, ComposeStepTypes, RunnerStepTypes, HardwareStepTypes
        DEF Next, Journey, Notifying

-----------------------------------------------------------------------------
(* Lists, and the steps of a group.                                        *)

\* What is in a list when an element is appended or the head is taken.
LEMMA ListSteps ==
  ASSUME NEW R, NEW q \in Seq(R)
  PROVE  /\ \A y \in R : /\ \A x : In(x, Append(q, y)) <=> In(x, q) \/ x = y
                         /\ Distinct(q) /\ ~In(y, q) => Distinct(Append(q, y))
         /\ q # <<>> => /\ \A x : In(x, q) <=> x = Head(q) \/ In(x, Tail(q))
                        /\ Distinct(q) => Distinct(Tail(q)) /\ ~In(Head(q), Tail(q))
<1>1. ASSUME NEW y \in R
      PROVE  /\ \A x : In(x, Append(q, y)) <=> In(x, q) \/ x = y
             /\ Distinct(q) /\ ~In(y, q) => Distinct(Append(q, y))
  <2> DEFINE p == Append(q, y)
  <2>1. /\ Len(q) \in Nat /\ Len(p) = Len(q) + 1 /\ p[Len(q) + 1] = y
        /\ \A i \in 1 .. Len(q) : p[i] = q[i]
    BY <1>1
  <2> HIDE DEF p
  <2>2. \A i \in 1 .. Len(p) : i \in 1 .. Len(q) \/ i = Len(q) + 1
    BY <2>1
  <2>3. \A i \in 1 .. Len(q) : i \in 1 .. Len(p)
    BY <2>1
  <2>4. Len(q) + 1 \in 1 .. Len(p)
    BY <2>1
  <2>5. \A x : In(x, p) <=> In(x, q) \/ x = y
    BY <2>1, <2>2, <2>3, <2>4 DEF In
  <2>6. ASSUME Distinct(q), ~In(y, q) PROVE Distinct(p)
    BY <2>1, <2>2, <2>6 DEF In, Distinct
  <2> QED BY <2>5, <2>6 DEF p
<1>2. ASSUME q # <<>>
      PROVE  /\ \A x : In(x, q) <=> x = Head(q) \/ In(x, Tail(q))
             /\ Distinct(q) => Distinct(Tail(q)) /\ ~In(Head(q), Tail(q))
  <2> DEFINE p == Tail(q)
             h == Head(q)
  <2>1. /\ Len(q) \in Nat \ {0} /\ Len(p) = Len(q) - 1 /\ h = q[1]
        /\ \A i \in 1 .. Len(p) : p[i] = q[i + 1]
    BY <1>2
  <2> HIDE DEF p, h
  <2>2. \A i \in 1 .. Len(q) : i = 1 \/ (i - 1 \in 1 .. Len(p) /\ p[i - 1] = q[i])
    <3> SUFFICES ASSUME NEW i \in 1 .. Len(q), i # 1
                 PROVE  i - 1 \in 1 .. Len(p) /\ p[i - 1] = q[i]
      OBVIOUS
    <3>1. i - 1 \in 1 .. Len(p)
      BY <2>1
    <3>2. p[i - 1] = q[(i - 1) + 1]
      BY <2>1, <3>1
    <3> QED BY <3>1, <3>2
  <2>3. \A i \in 1 .. Len(p) : i + 1 \in 1 .. Len(q) /\ p[i] = q[i + 1]
    BY <2>1
  <2>4. 1 \in 1 .. Len(q)
    BY <2>1
  <2>5. \A x : In(x, q) <=> x = h \/ In(x, p)
    BY <2>1, <2>2, <2>3, <2>4 DEF In
  <2>6. ASSUME Distinct(q) PROVE Distinct(p)
    <3> SUFFICES ASSUME NEW i \in 1 .. Len(p), NEW j \in 1 .. Len(p), p[i] = p[j] PROVE i = j
      BY DEF Distinct
    <3>1. i + 1 = j + 1
      BY <2>3, <2>6 DEF Distinct
    <3> QED BY <3>1
  <2>7. ASSUME Distinct(q) PROVE ~In(h, p)
    <3> SUFFICES ASSUME NEW i \in 1 .. Len(p), p[i] = h PROVE FALSE
      BY DEF In
    <3>1. i + 1 = 1
      BY <2>1, <2>3, <2>4, <2>7 DEF Distinct
    <3> QED BY <3>1
  <2> QED BY <2>5, <2>6, <2>7 DEF p, h
<1> QED BY <1>1, <1>2

\* Nothing is in the empty list.
LEMMA EmptyList == Distinct(<<>>) /\ \A x : ~In(x, <<>>)
  BY DEF Distinct, In

\* The steps that change how far a group is.
LEMMA GroupChanges ==
  ASSUME [Next]_vars
  PROVE  \/ DaemonFetch \/ UNCHANGED group \/ RunnerTake \/ RunnerEnd \/ Deinit
         \/ \E g \in Groups : Announce(g) \/ HandlerQueue(g) \/ HandlerNoWork(g)
<1>1. CASE StreamOn \/ StopBegin \/ \E r \in Reqs : Queue(r)
  BY <1>1 DEF StreamOn, StopBegin, Queue, handling
<1>2. CASE Composer \/ RunnerFlush \/ TimeoutWork \/ \E g \in Groups : TaskDone(g)
  BY <1>2 DEF Composer, ComposerDown, ComposerSend, RunnerFlush, TimeoutWork, TaskDone, handling
<1>3. CASE CallBack
  BY <1>3 DEF CallBack, CbWork, Notify, NotifyFinish, CbPut, handling
<1>4. CASE Stop
  BY <1>4 DEF Stop, FlushEnd, QueueDisable, ReleaseBuffers, ReturnAll, handling
<1>5. CASE UNCHANGED vars
  BY <1>5 DEF vars, handling
<1> QED BY <1>1, <1>2, <1>3, <1>4, <1>5 DEF Next, Handler, Runner

\* Only the daemon's fetching of a request takes its groups out of the idle
\* state, and no step takes one back.
GroupsStay ==
  \A g \in Groups : /\ group'[g] = "idle" <=> group[g] = "idle"
                    /\ group'[g] = "daemon" => group[g] = "daemon"
LEMMA GroupStep ==
  ASSUME Types, Advance, [Next]_vars
  PROVE  DaemonFetch \/ GroupsStay
<1>1. group \in [Groups -> GroupStates] /\ runQ \in Seq(Groups)
  BY DEF Types, HandlingTypes, RunningTypes
<1>2. CASE UNCHANGED group
  BY <1>2 DEF GroupsStay
<1>3. ASSUME NEW g \in Groups, NEW s \in {"handler", "queued", "running", "hw", "dropped"},
             group[g] # "idle", group' = [group EXCEPT ![g] = s]
      PROVE  GroupsStay
  BY <1>1, <1>3 DEF GroupsStay
<1>4. ASSUME NEW g \in Groups, Announce(g) \/ HandlerQueue(g) \/ HandlerNoWork(g) PROVE GroupsStay
  <2>1. group[g] # "idle"
    BY <1>4 DEF Announce, HandlerQueue, HandlerNoWork, Advance
  <2>2. \/ group' = [group EXCEPT ![g] = "handler"] \/ group' = [group EXCEPT ![g] = "queued"]
        \/ group' = [group EXCEPT ![g] = "dropped"]
    BY <1>4 DEF Announce, HandlerQueue, HandlerNoWork
  <2> QED BY <1>3, <2>1, <2>2
<1>5. CASE RunnerTake
  <2>1. Head(runQ) \in Groups /\ In(Head(runQ), runQ)
    BY <1>1, <1>5, ListSteps DEF RunnerTake
  <2>2. group[Head(runQ)] # "idle"
    BY <2>1 DEF Advance
  <2>3. group' = [group EXCEPT ![Head(runQ)] = "running"]
    BY <1>5 DEF RunnerTake
  <2> QED BY <1>3, <2>1, <2>2, <2>3
<1>6. CASE RunnerEnd
  <2>1. runner \in Groups /\ group[runner] # "idle"
    BY <1>6 DEF RunnerEnd, Types, RunningTypes, Advance
  <2>2. group' = [group EXCEPT ![runner] = "hw"] \/ group' = [group EXCEPT ![runner] = "dropped"]
    BY <1>6 DEF RunnerEnd
  <2> QED BY <1>3, <2>1, <2>2
<1>7. CASE Deinit
  BY <1>1, <1>7 DEF Deinit, GroupsStay
<1> QED BY <1>2, <1>4, <1>5, <1>6, <1>7, GroupChanges

\* An announced group stays announced until the handler or STREAMOFF takes it.
LEMMA DaemonLeft ==
  ASSUME Types, Advance, [Next]_vars, NEW g \in Groups,
         group[g] = "daemon", group'[g] # "daemon"
  PROVE  Announce(g) \/ Deinit
<1>1. group \in [Groups -> GroupStates] /\ runQ \in Seq(Groups)
  BY DEF Types, HandlingTypes, RunningTypes
<1>2. CASE DaemonFetch
  BY <1>2 DEF DaemonFetch
<1>3. ASSUME NEW h \in Groups, Announce(h) \/ HandlerQueue(h) \/ HandlerNoWork(h)
      PROVE  Announce(g)
  <2>1. h = g
    BY <1>1, <1>3 DEF Announce, HandlerQueue, HandlerNoWork
  <2>2. ~HandlerQueue(g) /\ ~HandlerNoWork(g)
    BY DEF HandlerQueue, HandlerNoWork, Advance
  <2> QED BY <1>3, <2>1, <2>2
<1>4. ~RunnerTake
  <2> SUFFICES ASSUME RunnerTake PROVE FALSE
    OBVIOUS
  <2>1. Head(runQ) \in Groups /\ In(Head(runQ), runQ)
    BY <1>1, ListSteps DEF RunnerTake
  <2>2. Head(runQ) # g
    BY <2>1 DEF Advance
  <2> QED BY <1>1, <2>1, <2>2 DEF RunnerTake
<1>5. ~RunnerEnd
  BY <1>1 DEF RunnerEnd, Advance, Types, RunningTypes
<1> QED BY <1>2, <1>3, <1>4, <1>5, GroupChanges

-----------------------------------------------------------------------------
(* Journey and Together.                                                   *)

\* Other steps than these leave the queues of requests alone, but that the
\* stream empties the channel; and no step gives buffers back unreported.
LEMMA JourneyOthers ==
  ASSUME Types, [Next]_vars, cb.group = None <=> cb.stage = "none"
  PROVE  \/ ComposerDown \/ ComposerSend \/ DaemonFetch \/ Notify \/ \E r \in Reqs : Queue(r)
         \/ /\ UNCHANGED <<enqueueWq, composer, wbuf>> /\ (chan' = chan \/ chan' = <<>>)
            /\ \A r \in Reqs : bufs'[r] = "user" => bufs[r] = "user"
<1>0. bufs \in [Reqs -> {"user", "driver", "done", "error"}]
  BY DEF Types, RequestTypes
<1> DEFINE Kept == /\ UNCHANGED <<enqueueWq, composer, wbuf>> /\ (chan' = chan \/ chan' = <<>>)
                   /\ \A r \in Reqs : bufs'[r] = "user" => bufs[r] = "user"
<1>1. CASE StreamOn \/ StopBegin \/ UNCHANGED vars
  BY <1>1 DEF StreamOn, StopBegin, compose, requests, vars
<1>2. CASE Handler \/ Runner \/ TimeoutWork \/ \E g \in Groups : TaskDone(g)
  <2>1. UNCHANGED <<enqueueWq, composer, wbuf, chan, bufs>>
    BY <1>2 DEF Handler, Announce, HandlerQueue, HandlerNoWork, Runner, RunnerTake,
       RunnerFlush, RunnerEnd, TimeoutWork, TaskDone, compose, requests
  <2> QED BY <2>1
<1>3. CASE CbWork \/ CbPut
  <2>1. UNCHANGED <<enqueueWq, composer, wbuf, chan, bufs>>
    BY <1>3 DEF CbWork, CbPut, compose, requests
  <2> QED BY <2>1
<1>4. CASE NotifyFinish
  <2>1. UNCHANGED <<enqueueWq, composer, wbuf, chan>>
    BY <1>4 DEF NotifyFinish, compose
  <2>2. UNCHANGED bufs \/ Finish(ReqOf[cb.group], "done")
    BY <1>4 DEF NotifyFinish
  <2>3. \A r \in Reqs : bufs'[r] = "user" => bufs[r] = "user"
    BY <1>0, <2>2 DEF Finish
  <2> QED BY <2>1, <2>3
<1>5. CASE FlushEnd \/ Deinit \/ QueueDisable \/ ReleaseBuffers
  BY <1>5 DEF FlushEnd, Deinit, QueueDisable, ReleaseBuffers, compose, requests
<1>6. CASE ReturnAll
  <2>1. UNCHANGED <<enqueueWq, composer, wbuf, chan>>
    BY <1>6 DEF ReturnAll, compose
  <2>2. \A r \in Reqs : bufs'[r] = "user" => bufs[r] = "user"
    BY <1>6 DEF ReturnAll
  <2> QED BY <2>1, <2>2
<1> QED BY <1>1, <1>2, <1>3, <1>4, <1>5, <1>6 DEF Next, Composer, CallBack, Stop

\* A request with a group that the hardware has worked for is with the daemon.
LEMMA WorkedFor ==
  ASSUME Types, Advance, NEW g \in Groups, cbCnt[g] > 0 \/ done[g] > 0 \/ flushed[g] > 0
  PROVE  group[g] \notin {"idle", "daemon", "handler", "queued"} /\ flushed[g] > 0
<1>1. cbCnt[g] \in Nat /\ done[g] \in Nat /\ flushed[g] \in Nat
  BY DEF Types, HardwareTypes, RunningTypes
<1>2. cbCnt[g] <= done[g] /\ done[g] <= flushed[g]
  BY DEF Advance
<1>3. flushed[g] > 0
  BY <1>1, <1>2
<1> QED BY <1>3 DEF Advance

\* A step keeps the journey of a request.
LEMMA JourneyStep ==
  ASSUME Types, Journey, Advance, Notifying, [Next]_vars
  PROVE  Journey'
<1>0. enqueueWq \in Seq(Reqs) /\ chan \in Seq(Reqs) /\ \A g \in Groups : ReqOf[g] \in Reqs
  BY TaskTypes DEF Types, ComposeTypes
<1>1. CASE \E r \in Reqs : Queue(r)
  <2> PICK r \in Reqs : Queue(r)
    BY <1>1
  <2>1. r \notin wbuf /\ ~In(r, enqueueWq) /\ ~In(r, chan)
        /\ \A g \in Groups : ReqOf[g] = r => group[g] = "idle"
    BY DEF Queue, Journey
  <2>2. /\ UNCHANGED <<chan, group, composer>> /\ bufs' = [bufs EXCEPT ![r] = "driver"]
        /\ \/ UNCHANGED <<wbuf, enqueueWq>>
           \/ wbuf' = wbuf \cup {r} /\ enqueueWq' = Append(enqueueWq, r)
    BY DEF Queue, handling
  <2>3. \A x \in Reqs : bufs'[x] = "user" => bufs[x] = "user" /\ x # r
    BY <2>2 DEF Types, RequestTypes
  <2>4. CASE UNCHANGED <<wbuf, enqueueWq>>
    BY <1>0, <2>2, <2>3, <2>4 DEF Journey
  <2>5. CASE wbuf' = wbuf \cup {r} /\ enqueueWq' = Append(enqueueWq, r)
    <3>1. Distinct(enqueueWq') /\ \A x : In(x, enqueueWq') <=> In(x, enqueueWq) \/ x = r
      BY <1>0, <2>1, <2>5, ListSteps DEF Journey
    <3>2. enqueueWq' # <<>>
      BY <1>0, <2>5
    <3> QED BY <1>0, <2>1, <2>2, <2>3, <2>5, <3>1, <3>2 DEF Journey
  <2> QED BY <2>2, <2>4, <2>5
<1>2. CASE ComposerDown
  BY <1>2 DEF ComposerDown, Journey, requests, handling
<1>3. CASE ComposerSend
  <2> DEFINE r == Head(enqueueWq)
  <2>1. enqueueWq # <<>>
    BY <1>3 DEF ComposerSend, Journey
  <2>2. r \in Reqs
    BY <1>0, <2>1
  <2>3. /\ UNCHANGED group /\ composer' = "idle" /\ enqueueWq' = Tail(enqueueWq)
        /\ \/ chan' = Append(chan, r) /\ UNCHANGED requests
           \/ Finish(r, "error") /\ FreeBuf(r) /\ UNCHANGED chan
    BY <1>3 DEF ComposerSend, handling
  <2>4. /\ \A x : In(x, enqueueWq) <=> x = r \/ In(x, enqueueWq')
        /\ Distinct(enqueueWq') /\ ~In(r, enqueueWq')
    BY <1>0, <2>1, <2>3, ListSteps DEF Journey
  <2>5. \A g \in Groups : group[g] # "idle" => ReqOf[g] # r
    BY <2>4 DEF Journey
  <2> HIDE DEF r
  <2>6. CASE chan' = Append(chan, r) /\ UNCHANGED requests
    <3>1. ~In(r, chan)
      BY <2>2, <2>4 DEF Journey
    <3>2. Distinct(chan') /\ \A x : In(x, chan') <=> In(x, chan) \/ x = r
      BY <1>0, <2>2, <2>6, <3>1, ListSteps DEF Journey
    <3> QED BY <1>0, <2>2, <2>3, <2>4, <2>5, <2>6, <3>2 DEF Journey, requests
  <2>7. CASE Finish(r, "error") /\ FreeBuf(r) /\ UNCHANGED chan
    <3>1. \A x \in Reqs : bufs'[x] = "user" => bufs[x] = "user"
      BY <2>7 DEF Finish, Types, RequestTypes
    <3>2. wbuf' = wbuf \ {r} /\ ~In(r, chan)
      BY <2>2, <2>4, <2>7 DEF Journey, FreeBuf
    <3> QED BY <1>0, <2>2, <2>3, <2>4, <2>7, <3>1, <3>2 DEF Journey
  <2> QED BY <2>3, <2>6, <2>7
<1>4. CASE DaemonFetch
  <2> DEFINE r == Head(chan)
  <2>1. chan # <<>> /\ UNCHANGED <<enqueueWq, wbuf, bufs, composer>> /\ chan' = Tail(chan)
        /\ group' = [g \in Groups |-> IF ReqOf[g] = r THEN "daemon" ELSE group[g]]
    BY <1>4 DEF DaemonFetch, requests
  <2>2. /\ r \in Reqs /\ \A x : In(x, chan) <=> x = r \/ In(x, chan')
        /\ Distinct(chan') /\ ~In(r, chan')
    BY <1>0, <2>1, ListSteps DEF Journey
  <2>3. ~In(r, enqueueWq) /\ bufs[r] # "user"
    BY <2>2 DEF Journey
  <2>4. \A g \in Groups : group'[g] # "idle" => group[g] # "idle" \/ ReqOf[g] = r
    BY <2>1
  <2> HIDE DEF r
  <2> QED BY <1>0, <2>1, <2>2, <2>3, <2>4 DEF Journey
<1>5. CASE Notify
  <2> DEFINE r == ReqOf[cb.group]
  <2>1. UNCHANGED <<enqueueWq, composer, chan, bufs, group>> /\ wbuf' = wbuf \ {r}
    BY <1>5 DEF Notify, FreeBuf, handling
  <2>2. cb.group \in Groups
    BY <1>5 DEF Notify, Notifying, Types, HardwareTypes
  <2>3. group[cb.group] # "idle"
    <3>1. cbCnt[cb.group] > 0
      BY <2>2, TaskTypes, <1>5 DEF Notify, Notifying
    <3> QED BY <2>2, <3>1, WorkedFor
  <2>4. ~In(r, enqueueWq) /\ ~In(r, chan)
    BY <2>2, <2>3 DEF Journey
  <2> HIDE DEF r
  <2> QED BY <2>1, <2>4 DEF Journey
<1>6. ASSUME UNCHANGED <<enqueueWq, composer, wbuf>>, chan' = chan \/ chan' = <<>>, ~DaemonFetch,
             \A r \in Reqs : bufs'[r] = "user" => bufs[r] = "user"
      PROVE  Journey'
  <2>1. \A g \in Groups : group'[g] = "idle" <=> group[g] = "idle"
    BY <1>6, GroupStep DEF GroupsStay
  <2>2. Distinct(chan') /\ \A x : In(x, chan') => In(x, chan)
    BY <1>6, EmptyList DEF Journey
  <2> QED BY <1>0, <1>6, <2>1, <2>2 DEF Journey
<1> QED BY <1>1, <1>2, <1>3, <1>4, <1>5, <1>6, JourneyOthers DEF Notifying

\* A step keeps the groups of a request together.
LEMMA TogetherStep ==
  ASSUME Types, Journey, Together, Advance, Notifying, [Next]_vars
  PROVE  Together'
<1>0. \A g \in Groups : ReqOf[g] \in Reqs
  BY TaskTypes
<1>1. CASE DaemonFetch
  <2> DEFINE r == Head(chan)
  <2>1. chan # <<>> /\ UNCHANGED wbuf
        /\ group' = [g \in Groups |-> IF ReqOf[g] = r THEN "daemon" ELSE group[g]]
    BY <1>1 DEF DaemonFetch, requests
  <2>2. chan \in Seq(Reqs)
    BY DEF Types, ComposeTypes
  <2>3. r \in Reqs /\ In(r, chan)
    BY <2>1, <2>2, ListSteps
  <2>4. r \in wbuf
    BY <2>3 DEF Journey
  <2> HIDE DEF r
  <2> QED BY <2>1, <2>4 DEF Together
<1>2. CASE GroupsStay
  <2> SUFFICES ASSUME NEW g \in Groups, NEW h \in Groups, ReqOf[g] = ReqOf[h]
               PROVE  /\ group'[g] = "idle" => group'[h] = "idle"
                      /\ g \in Firsts /\ group'[g] = "daemon" =>
                           group'[h] = "daemon" /\ ReqOf[g] \in wbuf'
    BY DEF Together
  <2>1. group'[g] = "idle" => group'[h] = "idle"
    BY <1>2 DEF GroupsStay, Together
  <2>2. ASSUME g \in Firsts, group'[g] = "daemon" PROVE group'[h] = "daemon"
    <3>1. group[g] = "daemon"
      BY <1>2, <2>2 DEF GroupsStay
    <3>2. group[h] = "daemon"
      BY <2>2, <3>1 DEF Together
    <3>3. ~Deinit
      BY <2>2 DEF Deinit
    <3>4. ~Announce(h)
      <4> SUFFICES ASSUME Announce(h) PROVE FALSE
        OBVIOUS
      <4>1. h # g
        BY <2>2, <3>1 DEF Announce, Types, HandlingTypes
      <4>2. h \notin Firsts
        BY <2>2, <4>1, ImgsysAssumption
      <4>3. g \in GroupsOf(ReqOf[h]) \cap Firsts
        BY <2>2 DEF GroupsOf
      <4> QED BY <3>1, <4>2, <4>3 DEF Announce
    <3> QED BY <3>2, <3>3, <3>4, DaemonLeft
  <2>3. ASSUME g \in Firsts, group'[g] = "daemon" PROVE ReqOf[g] \in wbuf'
    <3>1. group[g] = "daemon" /\ ReqOf[g] \in wbuf
      BY <1>2, <2>3 DEF GroupsStay, Together
    <3>2. CASE Notify
      <4>1. cb.group \in Groups /\ Complete(ReqOf[cb.group])
        BY <3>2 DEF Notify, Notifying, Types, HardwareTypes
      <4>2. ReqOf[cb.group] # ReqOf[g]
        <5> SUFFICES ASSUME ReqOf[cb.group] = ReqOf[g] PROVE FALSE
          OBVIOUS
        <5>1. cbCnt[g] = LastTask(g)
          BY <4>1 DEF Complete, GroupsOf
        <5>2. cbCnt[g] > 0
          BY <5>1, TaskTypes
        <5> QED BY <3>1, <5>2, WorkedFor
      <4> QED BY <3>1, <3>2, <4>2 DEF Notify, FreeBuf
    <3>3. CASE ComposerSend
      <4>1. enqueueWq # <<>> /\ enqueueWq \in Seq(Reqs)
        BY <3>3 DEF ComposerSend, Journey, Types, ComposeTypes
      <4>2. In(Head(enqueueWq), enqueueWq)
        BY <4>1, ListSteps
      <4>3. ReqOf[g] # Head(enqueueWq)
        BY <3>1, <4>2 DEF Journey
      <4>4. UNCHANGED wbuf \/ wbuf' = wbuf \ {Head(enqueueWq)}
        BY <3>3 DEF ComposerSend, FreeBuf, requests
      <4> QED BY <3>1, <4>3, <4>4
    <3>4. CASE ComposerDown \/ DaemonFetch \/ \E r \in Reqs : Queue(r)
      BY <3>1, <3>4 DEF ComposerDown, DaemonFetch, Queue, requests
    <3> QED BY <3>1, <3>2, <3>3, <3>4, JourneyOthers DEF Notifying
  <2> QED BY <2>1, <2>2, <2>3
<1> QED BY <1>1, <1>2, GroupStep

-----------------------------------------------------------------------------
(* Advance and CbOrder.                                                    *)

\* The daemon, the handler and STREAMOFF keep the way of the groups.
LEMMA AdvanceHandler ==
  ASSUME Types, Journey, Advance, DaemonFetch \/ Handler \/ Deinit
  PROVE  Advance'
<1>0. /\ group \in [Groups -> GroupStates] /\ runQ \in Seq(Groups) /\ chan \in Seq(Reqs)
      /\ None \notin Groups
  BY ImgsysAssumption DEF Types, HandlingTypes, RunningTypes, ComposeTypes
<1>1. CASE DaemonFetch
  <2> DEFINE r == Head(chan)
  <2>1. /\ chan # <<>> /\ UNCHANGED <<handler, running, hardware>>
        /\ group' = [g \in Groups |-> IF ReqOf[g] = r THEN "daemon" ELSE group[g]]
    BY <1>1 DEF DaemonFetch
  <2>2. r \in Reqs /\ In(r, chan)
    BY <1>0, <2>1, ListSteps
  <2>3. \A g \in Groups : ReqOf[g] = r => group[g] = "idle"
    BY <2>2 DEF Journey
  <2>4. runner # None => runner \in Groups
    BY DEF Types, RunningTypes
  <2>5. UNCHANGED <<runQ, runner, flushed, done, cbCnt, mdpcbWq>>
    BY <2>1 DEF running, hardware
  <2> HIDE DEF r
  <2> QED BY <2>1, <2>3, <2>4, <2>5 DEF Advance
<1>2. ASSUME NEW g \in Groups, Announce(g) PROVE Advance'
  <2>1. /\ UNCHANGED <<runQ, runner, flushed, done, cbCnt, mdpcbWq>> /\ group[g] = "daemon"
        /\ handler' = g /\ group' = [group EXCEPT ![g] = "handler"]
    BY <1>2 DEF Announce, running, hardware
  <2>2. flushed[g] = 0 /\ runner # g /\ ~In(g, runQ)
    BY <1>0, <2>1 DEF Advance
  <2>3. runner # None => runner \in Groups
    BY DEF Types, RunningTypes
  <2> QED BY <1>0, <2>1, <2>2, <2>3 DEF Advance
<1>3. ASSUME NEW g \in Groups, HandlerQueue(g) \/ HandlerNoWork(g) PROVE Advance'
  <2>1. /\ UNCHANGED <<runner, flushed, done, cbCnt, mdpcbWq>> /\ handler = g /\ handler' = None
        /\ \/ group' = [group EXCEPT ![g] = "dropped"] /\ UNCHANGED runQ
           \/ group' = [group EXCEPT ![g] = "queued"] /\ runQ' = Append(runQ, g)
    BY <1>3 DEF HandlerQueue, HandlerNoWork, running, hardware
  <2>2. group[g] = "handler" /\ flushed[g] = 0 /\ runner # g /\ ~In(g, runQ)
    BY <1>0, <2>1 DEF Advance
  <2>3. runner # None => runner \in Groups
    BY DEF Types, RunningTypes
  <2>4. CASE group' = [group EXCEPT ![g] = "dropped"] /\ UNCHANGED runQ
    BY <1>0, <2>1, <2>2, <2>3, <2>4 DEF Advance
  <2>5. CASE group' = [group EXCEPT ![g] = "queued"] /\ runQ' = Append(runQ, g)
    <3>1. Distinct(runQ') /\ \A x : In(x, runQ') <=> In(x, runQ) \/ x = g
      BY <1>0, <2>2, <2>5, ListSteps DEF Advance
    <3> QED BY <1>0, <2>1, <2>2, <2>3, <2>5, <3>1 DEF Advance
  <2> QED BY <2>1, <2>4, <2>5
<1>4. CASE Deinit
  <2>1. /\ UNCHANGED <<runQ, runner, flushed, done, cbCnt, mdpcbWq>> /\ handler' = None
        /\ handler = None
        /\ group' = [g \in Groups |-> IF group[g] = "daemon" THEN "dropped" ELSE group[g]]
    BY <1>4 DEF Deinit, running, hardware
  <2>2. runner # None => runner \in Groups
    BY DEF Types, RunningTypes
  <2> QED BY <1>0, <2>1, <2>2 DEF Advance
<1> QED BY <1>1, <1>2, <1>3, <1>4 DEF Handler

\* The runner and the hardware keep the way of the groups.
LEMMA AdvanceRunner ==
  ASSUME Types, Advance, CbOrder,
         Runner \/ TimeoutWork \/ CbWork \/ \E g \in Groups : TaskDone(g)
  PROVE  Advance'
<1>0. /\ group \in [Groups -> GroupStates] /\ runQ \in Seq(Groups) /\ mdpcbWq \in Seq(Groups)
      /\ None \notin Groups /\ flushed \in [Groups -> Nat] /\ done \in [Groups -> Nat]
      /\ cbCnt \in [Groups -> Nat] /\ (runner # None => runner \in Groups)
      /\ cbWq \in Seq([group : Groups, task : Nat])
  BY ImgsysAssumption DEF Types, HandlingTypes, RunningTypes, HardwareTypes
<1>a. \A g \in Groups : LastTask(g) \in Nat
  BY TaskTypes
<1>1. CASE RunnerTake
  <2> DEFINE h == Head(runQ)
  <2>1. /\ UNCHANGED <<handler, flushed, done, cbCnt, mdpcbWq>> /\ runner = None
        /\ runQ # <<>> /\ runQ' = Tail(runQ) /\ runner' = h
        /\ group' = [group EXCEPT ![h] = "running"]
    BY <1>1 DEF RunnerTake, hardware
  <2>2. /\ h \in Groups /\ \A x : In(x, runQ) <=> x = h \/ In(x, runQ')
        /\ Distinct(runQ') /\ ~In(h, runQ')
    BY <1>0, <2>1, ListSteps DEF Advance
  <2>3. group[h] = "queued"
    BY <2>2 DEF Advance
  <2> HIDE DEF h
  <2> QED BY <1>0, <2>1, <2>2, <2>3 DEF Advance
<1>2. CASE RunnerFlush
  <2>1. /\ UNCHANGED <<group, handler, runner, runQ, done, cbCnt, mdpcbWq>>
        /\ runner \in Groups /\ flushed[runner] < LastTask(runner)
        /\ flushed' = [flushed EXCEPT ![runner] = @ + 1]
    BY <1>0, <1>2 DEF RunnerFlush, handling, hardware
  <2>2. group[runner] = "running"
    BY <1>0, <2>1 DEF Advance
  <2> QED BY <1>0, <1>a, <2>1, <2>2 DEF Advance
<1>3. CASE RunnerEnd
  <2>1. /\ UNCHANGED <<handler, flushed, runQ, done, cbCnt, mdpcbWq>> /\ runner' = None
        /\ runner \in Groups
        /\ \/ group' = [group EXCEPT ![runner] = "hw"]
           \/ group' = [group EXCEPT ![runner] = "dropped"]
    BY <1>0, <1>3 DEF RunnerEnd, hardware
  <2>2. group[runner] = "running"
    BY <1>0, <2>1 DEF Advance
  <2> QED BY <1>0, <2>1, <2>2 DEF Advance
<1>4. CASE TimeoutWork
  <2>1. /\ UNCHANGED <<group, handler, running, done, cbCnt>> /\ mdpcbWq # <<>>
        /\ mdpcbWq' = Tail(mdpcbWq)
    BY <1>4 DEF TimeoutWork, handling
  <2>2. \A x : In(x, mdpcbWq') => In(x, mdpcbWq)
    BY <1>0, <2>1, ListSteps
  <2> QED BY <2>1, <2>2 DEF Advance, running
<1>5. CASE CbWork
  <2> DEFINE g == Head(cbWq).group
  <2>1. cbWq # <<>> /\ cbCnt' = [cbCnt EXCEPT ![g] = @ + 1]
        /\ UNCHANGED <<group, handler, running, done, mdpcbWq>>
    BY <1>5 DEF CbWork
  <2>2. Head(cbWq) \in [group : Groups, task : Nat] /\ Head(cbWq) = cbWq[1] /\ 1 \in 1 .. Len(cbWq)
    <3> DEFINE T == [group : Groups, task : Nat]
    <3>1. cbWq \in Seq(T)
      BY <1>0
    <3> HIDE DEF T
    <3>2. Head(cbWq) \in T /\ Head(cbWq) = cbWq[1] /\ 1 \in 1 .. Len(cbWq)
      BY <2>1, <3>1
    <3> QED BY <3>2 DEF T
  <2>3. g \in Groups /\ cbCnt[g] < Head(cbWq).task /\ Head(cbWq).task <= done[g]
        /\ Head(cbWq).task \in Nat
    BY <2>2 DEF CbOrder
  <2>4. cbCnt[g] + 1 <= done[g]
    BY <1>0, <2>3
  <2> HIDE DEF g
  <2> QED BY <1>0, <2>1, <2>3, <2>4 DEF Advance, running
<1>6. ASSUME NEW g \in Groups, TaskDone(g) PROVE Advance'
  <2>1. /\ UNCHANGED <<group, handler, running, cbCnt>> /\ done[g] < flushed[g]
        /\ done' = [done EXCEPT ![g] = @ + 1]
        /\ mdpcbWq' = mdpcbWq \/ mdpcbWq' = Append(mdpcbWq, g)
    BY <1>6 DEF TaskDone, handling
  <2>2. \A x : In(x, mdpcbWq') => In(x, mdpcbWq) \/ x = g
    <3>1. \A x : In(x, Append(mdpcbWq, g)) => In(x, mdpcbWq) \/ x = g
      BY <1>0, ListSteps
    <3> QED BY <2>1, <3>1
  <2> QED BY <1>0, <1>a, <2>1, <2>2 DEF Advance, running
<1> QED BY <1>1, <1>2, <1>3, <1>4, <1>5, <1>6 DEF Runner

\* A step keeps the way of the groups.
LEMMA AdvanceStep ==
  ASSUME Types, Journey, Advance, CbOrder, [Next]_vars PROVE Advance'
<1>1. CASE StreamOn
  BY <1>1, EmptyList DEF StreamOn, handling, hardware, Advance
<1>2. CASE StopBegin \/ (\E r \in Reqs : Queue(r)) \/ Composer \/ UNCHANGED vars
  BY <1>2 DEF StopBegin, Queue, Composer, ComposerDown, ComposerSend, vars, handling, running,
     hardware, Advance
<1>3. CASE Notify \/ NotifyFinish \/ CbPut
  BY <1>3 DEF Notify, NotifyFinish, CbPut, handling, running, hardware, Advance
<1>4. CASE FlushEnd \/ QueueDisable \/ ReleaseBuffers \/ ReturnAll
  BY <1>4 DEF FlushEnd, QueueDisable, ReleaseBuffers, ReturnAll, handling, running, hardware,
     Advance
<1> QED BY <1>1, <1>2, <1>3, <1>4, AdvanceHandler, AdvanceRunner DEF Next, CallBack, Stop

\* The call-back at the head of the queue is the next one of its group.
LEMMA HeadTask ==
  ASSUME Types, CbOrder, cbWq # <<>>
  PROVE  /\ Head(cbWq).group \in Groups /\ Head(cbWq).task \in Nat
         /\ Head(cbWq) = [group |-> Head(cbWq).group, task |-> Head(cbWq).task]
         /\ Head(cbWq).task = cbCnt[Head(cbWq).group] + 1
         /\ Head(cbWq).task <= done[Head(cbWq).group]
<1> DEFINE T == [group : Groups, task : Nat]
           t == Head(cbWq)
<1>1. /\ cbWq \in Seq(T) /\ cbCnt \in [Groups -> Nat] /\ done \in [Groups -> Nat]
      /\ \A u \in T : u.group \in Groups /\ u.task \in Nat /\ u = [group |-> u.group, task |-> u.task]
  BY DEF Types, HardwareTypes
<1> HIDE DEF T
<1>2. t \in T /\ t = cbWq[1] /\ 1 \in 1 .. Len(cbWq) /\ \A i \in 1 .. Len(cbWq) : cbWq[i] \in T
  BY <1>1
<1>3. t.group \in Groups /\ t.task \in Nat /\ t = [group |-> t.group, task |-> t.task]
  BY <1>1, <1>2
<1>4. cbCnt[t.group] < t.task /\ t.task <= done[t.group]
  BY <1>2 DEF CbOrder
<1> DEFINE k == cbCnt[t.group] + 1
           n == [group |-> t.group, task |-> k]
<1>5. k \in cbCnt[t.group] + 1 .. done[t.group] /\ k \in Nat
  <2>1. cbCnt[t.group] \in Nat /\ done[t.group] \in Nat
    BY <1>1, <1>3
  <2> HIDE DEF t
  <2> QED BY <1>3, <1>4, <2>1
<1>6. n.group = t.group /\ n.task = k
  OBVIOUS
<1>7. In(n, cbWq)
  BY <1>3, <1>5 DEF CbOrder, Waits
<1> HIDE DEF t, n
<1>8. PICK j \in 1 .. Len(cbWq) : cbWq[j] = n
  BY <1>7 DEF In
<1>9. CASE j = 1
  BY <1>2, <1>3, <1>4, <1>6, <1>8, <1>9 DEF t
<1>10. CASE 1 < j
  <2>1. t.task < n.task
    BY <1>2, <1>6, <1>8, <1>10 DEF CbOrder
  <2>2. cbCnt[t.group] \in Nat
    BY <1>1, <1>3
  <2> QED BY <1>3, <1>4, <1>6, <2>1, <2>2
<1> QED BY <1>8, <1>9, <1>10

\* A step keeps the order of the call-backs.
LEMMA CbOrderStep ==
  ASSUME Types, Advance, CbOrder, [Next]_vars PROVE CbOrder'
<1> DEFINE T == [group : Groups, task : Nat]
<1>0. /\ cbWq \in Seq(T) /\ cbCnt \in [Groups -> Nat] /\ done \in [Groups -> Nat]
      /\ \A u \in T : u.group \in Groups /\ u.task \in Nat
      /\ \A g \in Groups, k \in Nat : [group |-> g, task |-> k] \in T
  BY DEF Types, HardwareTypes
<1> HIDE DEF T
<1>a. \A i \in 1 .. Len(cbWq) : cbWq[i].group \in Groups /\ cbWq[i].task \in Nat
  <2>1. \A i \in 1 .. Len(cbWq) : cbWq[i] \in T
    BY <1>0
  <2> QED BY <1>0, <2>1
<1>1. CASE UNCHANGED <<cbWq, cbCnt, done>>
  BY <1>1 DEF CbOrder, Waits
<1>2. ASSUME NEW g \in Groups, TaskDone(g) PROVE CbOrder'
  <2> DEFINE n == [group |-> g, task |-> done[g] + 1]
  <2>1. /\ cbWq' = Append(cbWq, n) /\ done' = [done EXCEPT ![g] = @ + 1] /\ UNCHANGED cbCnt
    BY <1>2 DEF TaskDone
  <2>2. n \in T /\ n.group = g /\ n.task = done[g] + 1 /\ done[g] \in Nat
    BY <1>0
  <2>9. \A x : In(x, cbWq') <=> In(x, cbWq) \/ x = n
    BY <1>0, <2>1, <2>2, ListSteps
  <2>b. \A k \in Nat : k = done[g] + 1 => [group |-> g, task |-> k] = n
    OBVIOUS
  <2> HIDE DEF n
  <2>3. /\ Len(cbWq) \in Nat /\ Len(cbWq') = Len(cbWq) + 1 /\ cbWq'[Len(cbWq) + 1] = n
        /\ \A i \in 1 .. Len(cbWq) : cbWq'[i] = cbWq[i]
    BY <1>0, <2>1, <2>2
  <2>4. \A i \in 1 .. Len(cbWq') : i \in 1 .. Len(cbWq) \/ i = Len(cbWq) + 1
    BY <2>3
  <2>5. \A h \in Groups : done[h] <= done'[h] /\ done'[h] \in Nat /\ done[h] \in Nat
                          /\ cbCnt[h] \in Nat /\ cbCnt[h] <= done[h]
    BY <1>0, <2>1 DEF Advance
  <2>6. \A i \in 1 .. Len(cbWq') : /\ cbCnt'[cbWq'[i].group] < cbWq'[i].task
                                   /\ cbWq'[i].task <= done'[cbWq'[i].group]
    <3> SUFFICES ASSUME NEW i \in 1 .. Len(cbWq')
                 PROVE  /\ cbCnt'[cbWq'[i].group] < cbWq'[i].task
                        /\ cbWq'[i].task <= done'[cbWq'[i].group]
      OBVIOUS
    <3>1. CASE i \in 1 .. Len(cbWq)
      <4> DEFINE u == cbWq[i]
      <4>1. cbWq'[i] = u /\ u.group \in Groups /\ u.task \in Nat
        BY <1>a, <2>3, <3>1
      <4>2. cbCnt[u.group] < u.task /\ u.task <= done[u.group]
        BY <3>1 DEF CbOrder
      <4> HIDE DEF u
      <4> QED BY <2>1, <2>5, <4>1, <4>2
    <3>2. CASE i = Len(cbWq) + 1
      <4>1. cbWq'[i].group = g /\ cbWq'[i].task = done[g] + 1
        BY <2>2, <2>3, <3>2
      <4>2. done'[g] = done[g] + 1
        BY <1>0, <2>1
      <4> QED BY <2>1, <2>5, <4>1, <4>2
    <3> QED BY <2>4, <3>1, <3>2
  <2>7. \A i, j \in 1 .. Len(cbWq') :
          i < j /\ cbWq'[i].group = cbWq'[j].group => cbWq'[i].task < cbWq'[j].task
    <3> SUFFICES ASSUME NEW i \in 1 .. Len(cbWq'), NEW j \in 1 .. Len(cbWq'),
                        i < j, cbWq'[i].group = cbWq'[j].group
                 PROVE  cbWq'[i].task < cbWq'[j].task
      OBVIOUS
    <3>1. i \in 1 .. Len(cbWq) /\ cbWq'[i] = cbWq[i]
      BY <2>3
    <3>2. CASE j \in 1 .. Len(cbWq)
      <4>1. cbWq'[j] = cbWq[j]
        BY <2>3, <3>2
      <4> QED BY <3>1, <3>2, <4>1 DEF CbOrder
    <3>3. CASE j = Len(cbWq) + 1
      <4>1. cbWq[i].group = g /\ cbWq'[j].task = done[g] + 1
        BY <2>2, <2>3, <3>1, <3>3
      <4>2. cbWq[i].task <= done[g] /\ cbWq[i].task \in Nat
        BY <1>a, <3>1, <4>1 DEF CbOrder
      <4> DEFINE a == cbWq[i].task
      <4>3. a < done[g] + 1
        <5>1. a <= done[g] /\ a \in Nat
          BY <4>2
        <5> HIDE DEF a
        <5> QED BY <2>2, <5>1
      <4> QED BY <3>1, <4>1, <4>3
    <3> QED BY <2>4, <3>2, <3>3
  <2>8. \A h \in Groups : \A k \in cbCnt'[h] + 1 .. done'[h] : Waits(h, k)'
    <3> TAKE h \in Groups
    <3> TAKE k \in cbCnt'[h] + 1 .. done'[h]
    <3>1. CASE k \in cbCnt[h] + 1 .. done[h]
      BY <2>9, <3>1 DEF CbOrder, Waits
    <3>2. CASE k \notin cbCnt[h] + 1 .. done[h]
      <4>1. h = g /\ k = done[g] + 1 /\ k \in Nat
        BY <1>0, <2>1, <2>5, <3>2
      <4> QED BY <2>b, <2>9, <4>1 DEF Waits
    <3> QED BY <3>1, <3>2
  <2> QED BY <2>6, <2>7, <2>8 DEF CbOrder
<1>3. CASE CbWork
  <2> DEFINE t == Head(cbWq)
             g == t.group
  <2>1. /\ cbWq # <<>> /\ cbWq' = Tail(cbWq) /\ cbCnt' = [cbCnt EXCEPT ![g] = @ + 1]
        /\ UNCHANGED done
    BY <1>3 DEF CbWork
  <2>2. /\ g \in Groups /\ t.task = cbCnt[g] + 1 /\ t = [group |-> g, task |-> t.task]
        /\ t.task \in Nat /\ cbCnt[g] \in Nat
    BY <1>0, <2>1, HeadTask
  <2>3. /\ Len(cbWq) \in Nat \ {0} /\ Len(cbWq') = Len(cbWq) - 1 /\ t = cbWq[1]
        /\ \A i \in 1 .. Len(cbWq') : cbWq'[i] = cbWq[i + 1]
    BY <1>0, <2>1
  <2>4. \A i \in 1 .. Len(cbWq') : i + 1 \in 1 .. Len(cbWq) /\ 1 < i + 1 /\ 1 \in 1 .. Len(cbWq)
    BY <2>3
  <2>5. \A x : In(x, cbWq) <=> x = t \/ In(x, cbWq')
    BY <1>0, <2>1, ListSteps
  <2> HIDE DEF t
  <2>6. \A i \in 1 .. Len(cbWq') : /\ cbCnt'[cbWq'[i].group] < cbWq'[i].task
                                   /\ cbWq'[i].task <= done'[cbWq'[i].group]
    <3> SUFFICES ASSUME NEW i \in 1 .. Len(cbWq')
                 PROVE  /\ cbCnt'[cbWq'[i].group] < cbWq'[i].task
                        /\ cbWq'[i].task <= done'[cbWq'[i].group]
      OBVIOUS
    <3> DEFINE u == cbWq[i + 1]
    <3>1. cbWq'[i] = u /\ u.group \in Groups /\ u.task \in Nat /\ cbCnt[u.group] < u.task
          /\ u.task <= done[u.group] /\ cbCnt[u.group] \in Nat
      BY <1>0, <1>a, <2>3, <2>4 DEF CbOrder
    <3>2. u.group = g => t.task < u.task
      BY <2>3, <2>4 DEF CbOrder
    <3> HIDE DEF u
    <3>3. cbCnt'[u.group] = IF u.group = g THEN cbCnt[g] + 1 ELSE cbCnt[u.group]
      BY <1>0, <2>1, <2>2, <3>1
    <3> QED BY <2>1, <2>2, <3>1, <3>2, <3>3
  <2>7. \A i, j \in 1 .. Len(cbWq') :
          i < j /\ cbWq'[i].group = cbWq'[j].group => cbWq'[i].task < cbWq'[j].task
    <3> SUFFICES ASSUME NEW i \in 1 .. Len(cbWq'), NEW j \in 1 .. Len(cbWq'),
                        i < j, cbWq'[i].group = cbWq'[j].group
                 PROVE  cbWq'[i].task < cbWq'[j].task
      OBVIOUS
    <3>1. cbWq'[i] = cbWq[i + 1] /\ cbWq'[j] = cbWq[j + 1] /\ i + 1 < j + 1
      BY <2>3
    <3> QED BY <2>4, <3>1 DEF CbOrder
  <2>8. \A h \in Groups : \A k \in cbCnt'[h] + 1 .. done'[h] : Waits(h, k)'
    <3> TAKE h \in Groups
    <3> TAKE k \in cbCnt'[h] + 1 .. done'[h]
    <3> DEFINE n == [group |-> h, task |-> k]
    <3>1. cbCnt[h] \in Nat /\ done[h] \in Nat
          /\ cbCnt'[h] = IF h = g THEN cbCnt[g] + 1 ELSE cbCnt[h]
      BY <1>0, <2>1, <2>2
    <3>2. k \in cbCnt[h] + 1 .. done[h] /\ (h = g => k # cbCnt[g] + 1)
      BY <2>1, <2>2, <3>1
    <3>3. In(n, cbWq)
      BY <3>2 DEF CbOrder, Waits
    <3>4. n.group = h /\ n.task = k
      OBVIOUS
    <3> HIDE DEF n
    <3>5. n # t
      BY <2>2, <3>2, <3>4
    <3>6. In(n, cbWq')
      BY <2>5, <3>3, <3>5
    <3> QED BY <3>6 DEF n, Waits
  <2> QED BY <2>6, <2>7, <2>8 DEF CbOrder
<1>4. CASE UNCHANGED hardware \/ TimeoutWork \/ Notify \/ NotifyFinish \/ CbPut
  BY <1>1, <1>4 DEF hardware, TimeoutWork, Notify, NotifyFinish, CbPut
<1>5. UNCHANGED hardware \/ TimeoutWork \/ CallBack \/ \E g \in Groups : TaskDone(g)
  <2>1. CASE StreamOn \/ StopBegin \/ (\E r \in Reqs : Queue(r)) \/ Composer \/ DaemonFetch
    BY <2>1 DEF StreamOn, StopBegin, Queue, Composer, ComposerDown, ComposerSend, DaemonFetch
  <2>2. CASE Handler \/ Runner
    BY <2>2 DEF Handler, Announce, HandlerQueue, HandlerNoWork, Runner, RunnerTake, RunnerFlush,
       RunnerEnd
  <2>3. CASE Stop
    BY <2>3 DEF Stop, FlushEnd, Deinit, QueueDisable, ReleaseBuffers, ReturnAll
  <2>4. CASE UNCHANGED vars
    BY <2>4 DEF vars
  <2> QED BY <2>1, <2>2, <2>3, <2>4 DEF Next
<1> QED BY <1>2, <1>3, <1>4, <1>5 DEF CallBack

-----------------------------------------------------------------------------
(* Record and Notifying.                                                   *)

\* The call-backs of a request: a finite set, as many as are expected.
LEMMA CbsOfRequest ==
  ASSUME NEW r \in Reqs
  PROVE  /\ IsFiniteSet(AllCbs(r)) /\ Expected(r) = Cardinality(AllCbs(r))
         /\ \A c : c \in AllCbs(r) <=>
              \E g \in GroupsOf(r) : \E k \in 1 .. LastTask(g) :
                c = <<g, k>> /\ (Tasks[g][k] \/ k = LastTask(g))
<1>1. \A g \in Groups : DOMAIN Tasks[g] = 1 .. LastTask(g) /\ LastTask(g) \in Nat
  BY TaskTypes DEF LastTask
<1>2. IsFiniteSet(GroupsOf(r)) /\ GroupsOf(r) \subseteq Groups
  BY ImgsysAssumption, FS_Subset DEF GroupsOf
<1>3. ASSUME NEW g \in Groups PROVE IsFiniteSet(CallBacks(g))
  <2> DEFINE K == {k \in 1 .. LastTask(g) : Tasks[g][k] \/ k = LastTask(g)}
             f == [k \in K |-> <<g, k>>]
  <2>1. IsFiniteSet(K)
    <3>1. IsFiniteSet(1 .. LastTask(g))
      BY <1>1, FS_Interval
    <3>2. K \in SUBSET (1 .. LastTask(g))
      OBVIOUS
    <3> HIDE DEF K
    <3> QED BY <3>1, <3>2, FS_Subset
  <2>2. CallBacks(g) = {<<g, k>> : k \in K}
    BY <1>1 DEF CallBacks
  <2>3. f \in Surjection(K, CallBacks(g))
    BY <2>2 DEF Surjection
  <2> QED BY <2>1, <2>3, FS_Surjection
<1> DEFINE S == {CallBacks(g) : g \in GroupsOf(r)}
<1>4. IsFiniteSet(S)
  <2> DEFINE f == [g \in GroupsOf(r) |-> CallBacks(g)]
  <2>1. f \in Surjection(GroupsOf(r), S)
    BY DEF Surjection
  <2> QED BY <1>2, <2>1, FS_Surjection
<1>5. IsFiniteSet(UNION S)
  BY <1>2, <1>3, <1>4, FS_UNION
<1>6. AllCbs(r) = UNION S /\ Expected(r) = Cardinality(AllCbs(r))
  BY DEF AllCbs, Expected
<1>7. \A g \in Groups : \A c : c \in CallBacks(g) <=>
        \E k \in 1 .. LastTask(g) : c = <<g, k>> /\ (Tasks[g][k] \/ k = LastTask(g))
  BY <1>1 DEF CallBacks
<1>8. \A c : c \in AllCbs(r) <=> \E g \in GroupsOf(r) : c \in CallBacks(g)
  BY DEF AllCbs
<1> QED BY <1>2, <1>5, <1>6, <1>7, <1>8

\* When as many call-backs came as are expected, all tasks are done.
LEMMA AllCame ==
  \A r \in Reqs : Types /\ Advance /\ Cardinality(Came(r)) = Expected(r) => Complete(r)
<1> SUFFICES ASSUME NEW r \in Reqs, Types, Advance, Cardinality(Came(r)) = Expected(r)
             PROVE  Complete(r)
  OBVIOUS
<1>1. Came(r) = AllCbs(r)
  BY CbsOfRequest, FS_Subset DEF Came
<1>2. ASSUME NEW g \in GroupsOf(r) PROVE cbCnt[g] = LastTask(g)
  <2>1. g \in Groups /\ LastTask(g) \in Nat \ {0}
    BY TaskTypes DEF GroupsOf
  <2> DEFINE c == <<g, LastTask(g)>>
  <2>2. c \in AllCbs(r)
    <3>1. LastTask(g) \in 1 .. LastTask(g)
      BY <2>1
    <3> QED BY <3>1, CbsOfRequest
  <2>3. c[2] <= cbCnt[c[1]]
    BY <1>1, <2>2 DEF Came
  <2>4. LastTask(g) <= cbCnt[g]
    BY <2>3
  <2>5. cbCnt[g] \in Nat /\ done[g] \in Nat /\ flushed[g] \in Nat
    BY <2>1 DEF Types, HardwareTypes, RunningTypes
  <2> QED BY <2>1, <2>4, <2>5 DEF Advance
<1> QED BY <1>2 DEF Complete

\* What the work of a finished task finds and does: g is its group.
LEMMA CbWorkStep ==
  ASSUME Types, Advance, CbOrder, CbWork,
         NEW g, g = Head(cbWq).group, NEW r, r = ReqOf[g]
  PROVE  /\ g \in Groups /\ r \in Reqs /\ cbCnt[g] \in Nat
         /\ cbCnt[g] + 1 <= LastTask(g) /\ cbCnt[g] + 1 \in 1 .. LastTask(g)
         /\ cbCnt' = [cbCnt EXCEPT ![g] = @ + 1]
         /\ cbWq # <<>> /\ cb = NoCb
         /\ UNCHANGED <<stream, born, bufs, wbuf, freeBufs, compose, group, handler,
                       running, done, failed, mdpcbWq, gceRef, faults>>
         /\ \E called, last \in BOOLEAN :
              /\ last <=> cbCnt[g] + 1 = LastTask(g)
              /\ called <=> cbCnt[g] + 1 = LastTask(g) \/ Tasks[g][cbCnt[g] + 1]
              /\ record' = IF ~called \/ record[r] = None THEN record
                           ELSE [record EXCEPT ![r] = IF AllCalled(r, @) THEN None ELSE @ + 1]
              /\ cb' = IF called /\ streaming /\ record[r] # None /\ AllCalled(r, record[r])
                       THEN [group |-> g, stage |-> IF last THEN "notifyLast" ELSE "notify"]
                       ELSE IF last THEN [group |-> g, stage |-> "put"] ELSE NoCb
<1>1. cbWq # <<>> /\ cb = NoCb /\ cbCnt' = [cbCnt EXCEPT ![g] = @ + 1]
      /\ UNCHANGED <<stream, born, bufs, wbuf, freeBufs, compose, group, handler,
                    running, done, failed, mdpcbWq, gceRef, faults>>
  BY DEF CbWork
<1>2. g \in Groups /\ Head(cbWq).task = cbCnt[g] + 1 /\ Head(cbWq).task <= done[g]
  BY <1>1, HeadTask
<1>3. r \in Reqs /\ cbCnt[g] \in Nat /\ done[g] \in Nat /\ flushed[g] \in Nat
      /\ LastTask(g) \in Nat
  BY <1>2, TaskTypes DEF Types, HardwareTypes, RunningTypes
<1>4. done[g] <= flushed[g] /\ flushed[g] <= LastTask(g)
  BY <1>2 DEF Advance
<1>5. cbCnt[g] + 1 <= LastTask(g) /\ cbCnt[g] + 1 \in 1 .. LastTask(g)
  BY <1>2, <1>3, <1>4
<1>6. cbCnt[g] + 1 = Total(g) <=> cbCnt[g] + 1 = LastTask(g)
  BY <1>2, <1>3, <1>4 DEF Total
<1> DEFINE last == cbCnt[g] + 1 = Total(g)
           called == last \/ Tasks[g][Head(cbWq).task]
<1>7. Tasks[g][Head(cbWq).task] \in BOOLEAN
  BY <1>2, <1>5, TaskTypes
<1>8. last \in BOOLEAN /\ called \in BOOLEAN
  BY <1>7
<1>9. /\ record' = IF ~called \/ record[r] = None THEN record
                   ELSE [record EXCEPT ![r] = IF AllCalled(r, @) THEN None ELSE @ + 1]
      /\ cb' = IF called /\ streaming /\ record[r] # None /\ AllCalled(r, record[r])
               THEN [group |-> g, stage |-> IF last THEN "notifyLast" ELSE "notify"]
               ELSE IF last THEN [group |-> g, stage |-> "put"] ELSE NoCb
  BY DEF CbWork
<1>10. called <=> cbCnt[g] + 1 = LastTask(g) \/ Tasks[g][cbCnt[g] + 1]
  BY <1>2, <1>6
<1> HIDE DEF last, called
<1>11. last <=> cbCnt[g] + 1 = LastTask(g)
  BY <1>6 DEF last
<1> QED BY <1>1, <1>2, <1>3, <1>5, <1>8, <1>9, <1>10, <1>11

\* The call-backs that came are one more when the work calls the request back,
\* and the same otherwise.
LEMMA CameStep ==
  ASSUME Types, Advance, CbOrder, CbWork,
         NEW g, g = Head(cbWq).group, NEW r \in Reqs
  PROVE  Cardinality(Came(r)') =
           Cardinality(Came(r)) + One(r = ReqOf[g] /\ (\/ cbCnt[g] + 1 = LastTask(g)
                                                       \/ Tasks[g][cbCnt[g] + 1]))
         /\ Cardinality(Came(r)) \in Nat
<1>0. /\ g \in Groups /\ cbCnt[g] \in Nat /\ cbCnt[g] + 1 \in 1 .. LastTask(g)
      /\ cbCnt' = [cbCnt EXCEPT ![g] = @ + 1] /\ cbCnt \in [Groups -> Nat]
  BY CbWorkStep DEF Types, HardwareTypes
<1>1. IsFiniteSet(Came(r)) /\ Cardinality(Came(r)) \in Nat
  BY CbsOfRequest, FS_Subset, FS_CardinalityType DEF Came
<1> DEFINE n == <<g, cbCnt[g] + 1>>
<1>2. \A c \in AllCbs(r) : c[1] \in Groups /\ c[2] \in Nat /\ c = <<c[1], c[2]>>
  BY CbsOfRequest DEF GroupsOf
<1>3. \A c \in AllCbs(r) : c[2] <= cbCnt'[c[1]] <=> c[2] <= cbCnt[c[1]] \/ c = n
  <2> SUFFICES ASSUME NEW c \in AllCbs(r)
               PROVE  c[2] <= cbCnt'[c[1]] <=> c[2] <= cbCnt[c[1]] \/ c = n
    OBVIOUS
  <2>1. c[1] \in Groups /\ c[2] \in Nat /\ c = <<c[1], c[2]>> /\ cbCnt[c[1]] \in Nat
    BY <1>0, <1>2
  <2>2. c = n <=> c[1] = g /\ c[2] = cbCnt[g] + 1
    BY <2>1
  <2>3. cbCnt'[c[1]] = IF c[1] = g THEN cbCnt[g] + 1 ELSE cbCnt[c[1]]
    BY <1>0, <2>1
  <2> HIDE DEF n
  <2> QED BY <1>0, <2>1, <2>2, <2>3
<1>4. n \notin Came(r)
  BY <1>0 DEF Came
<1>5. n \in AllCbs(r) <=> r = ReqOf[g] /\ (cbCnt[g] + 1 = LastTask(g) \/ Tasks[g][cbCnt[g] + 1])
  BY <1>0, CbsOfRequest DEF GroupsOf
<1> HIDE DEF n
<1>6. AllCbs(r)' = AllCbs(r)
  OBVIOUS
<1>7. Came(r)' = {c \in AllCbs(r) : c[2] <= cbCnt'[c[1]]}
  BY <1>6 DEF Came
<1>8. Came(r)' = IF n \in AllCbs(r) THEN Came(r) \cup {n} ELSE Came(r)
  BY <1>3, <1>7 DEF Came
<1>9. Cardinality(Came(r)') = IF n \in AllCbs(r) THEN Cardinality(Came(r)) + 1
                                                  ELSE Cardinality(Came(r))
  BY <1>1, <1>4, <1>8, FS_AddElement
<1>10. CASE n \in AllCbs(r)
  BY <1>1, <1>5, <1>9, <1>10 DEF One
<1>11. CASE n \notin AllCbs(r)
  BY <1>1, <1>5, <1>9, <1>11 DEF One
<1> QED BY <1>10, <1>11

\* A step takes no group back to the idle state.
LEMMA NeverBack ==
  ASSUME Types, Advance, [Next]_vars, NEW g \in Groups, group[g] # "idle"
  PROVE  group'[g] # "idle"
<1>1. CASE DaemonFetch
  BY <1>1 DEF DaemonFetch
<1>2. CASE GroupsStay
  BY <1>2 DEF GroupsStay
<1> QED BY <1>1, <1>2, GroupStep

\* A request that the composer sends has been worked for by nobody.
LEMMA SendFresh ==
  ASSUME Types, Journey, ComposerSend
  PROVE  /\ Head(enqueueWq) \in Reqs /\ In(Head(enqueueWq), enqueueWq) /\ enqueueWq # <<>>
         /\ \A g \in Groups : ReqOf[g] = Head(enqueueWq) => group[g] = "idle"
         /\ \/ UNCHANGED requests /\ chan' = Append(chan, Head(enqueueWq))
            \/ /\ wbuf' = wbuf \ {Head(enqueueWq)} /\ freeBufs' = freeBufs + 1
               /\ Finish(Head(enqueueWq), "error") /\ UNCHANGED <<chan, born, hang>>
<1>1. enqueueWq # <<>> /\ enqueueWq \in Seq(Reqs)
  BY DEF ComposerSend, Journey, Types, ComposeTypes
<1>2. Head(enqueueWq) \in Reqs /\ In(Head(enqueueWq), enqueueWq)
  BY <1>1, ListSteps
<1> QED BY <1>1, <1>2 DEF Journey, ComposerSend, FreeBuf

\* Other steps than these leave the record, the call-backs and the working
\* buffers alone.
LEMMA RecordOthers ==
  ASSUME [Next]_vars
  PROVE  \/ (\E g \in Groups : Announce(g)) \/ (\E r \in Reqs : Queue(r)) \/ ComposerSend
         \/ CallBack \/ ReturnAll
         \/ UNCHANGED <<record, cbCnt, wbuf, cb, bufs>>
<1>1. CASE StreamOn \/ StopBegin \/ ComposerDown \/ DaemonFetch \/ UNCHANGED vars
  BY <1>1 DEF StreamOn, StopBegin, ComposerDown, DaemonFetch, requests, handling, hardware, vars
<1>2. CASE Handler \/ Runner \/ TimeoutWork \/ \E g \in Groups : TaskDone(g)
  BY <1>2 DEF Handler, HandlerQueue, HandlerNoWork, Runner, RunnerTake, RunnerFlush, RunnerEnd,
     TimeoutWork, TaskDone, requests, handling, hardware
<1>3. CASE FlushEnd \/ Deinit \/ QueueDisable \/ ReleaseBuffers
  BY <1>3 DEF FlushEnd, Deinit, QueueDisable, ReleaseBuffers, requests, handling, hardware
<1> QED BY <1>1, <1>2, <1>3 DEF Next, Composer, Stop

\* A group that is announced as the first of its request: none of its
\* call-backs came.
LEMMA AnnounceFirst ==
  ASSUME Types, Together, Advance, NEW g \in Firsts, Announce(g)
  PROVE  /\ g \in Groups /\ ReqOf[g] \in Reqs /\ ReqOf[g] \in wbuf /\ Cardinality(Came(ReqOf[g])) = 0
         /\ \A h \in GroupsOf(ReqOf[g]) : group[h] = "daemon" /\ cbCnt[h] = 0
<1>1. g \in Groups /\ ReqOf[g] \in Reqs /\ group[g] = "daemon"
  BY ImgsysAssumption, TaskTypes DEF Announce
<1>2. ReqOf[g] \in wbuf
  BY <1>1 DEF Together
<1>3. ASSUME NEW h \in GroupsOf(ReqOf[g]) PROVE group[h] = "daemon" /\ cbCnt[h] = 0
  <2>1. h \in Groups /\ group[h] = "daemon"
    BY <1>1 DEF GroupsOf, Together
  <2>2. cbCnt[h] \in Nat
    BY <2>1 DEF Types, HardwareTypes
  <2> QED BY <2>1, <2>2, WorkedFor
<1>4. Came(ReqOf[g]) = {}
  <2> SUFFICES ASSUME NEW c \in AllCbs(ReqOf[g]), c[2] <= cbCnt[c[1]] PROVE FALSE
    BY DEF Came
  <2>1. PICK h \in GroupsOf(ReqOf[g]) : \E k \in 1 .. LastTask(h) : c = <<h, k>>
    BY <1>1, CbsOfRequest
  <2>2. h \in Groups
    BY DEF GroupsOf
  <2>3. c[1] = h /\ c[2] \in 1 .. LastTask(h) /\ LastTask(h) \in Nat
    BY <2>1, <2>2, TaskTypes
  <2> QED BY <1>3, <2>3
<1> QED BY <1>1, <1>2, <1>3, <1>4, FS_EmptySet

\* A step keeps the counters of the call-backs.
LEMMA RecordStep ==
  ASSUME Types, Journey, Together, Advance, CbOrder, Record, Notifying, [Next]_vars
  PROVE  Record'
<1> SUFFICES ASSUME NEW r \in Reqs, record'[r] # None
             PROVE  /\ record'[r] = Cardinality(Came(r)') /\ r \in wbuf'
                    /\ \A g \in GroupsOf(r) : group'[g] # "idle"
  BY DEF Record
<1>0. record \in [Reqs -> Nat \cup {None}]
  BY DEF Types, HandlingTypes
<1>a. UNCHANGED cbCnt => Came(r)' = Came(r)
  BY DEF Came, AllCbs, CallBacks, GroupsOf, LastTask
<1>b. (\A g \in GroupsOf(r) : group[g] # "idle") => \A g \in GroupsOf(r) : group'[g] # "idle"
  BY NeverBack DEF GroupsOf
<1>1. CASE UNCHANGED <<record, cbCnt, wbuf, cb, bufs>>
  BY <1>1, <1>a, <1>b DEF Record
<1>2. CASE \E x \in Reqs : Queue(x)
  <2>1. UNCHANGED <<record, cbCnt>> /\ wbuf \subseteq wbuf'
    BY <1>2 DEF Queue, handling, hardware
  <2> QED BY <2>1, <1>a, <1>b DEF Record
<1>3. CASE ComposerSend
  <2>1. UNCHANGED <<record, cbCnt, group>> /\ (wbuf' = wbuf \/ wbuf' = wbuf \ {Head(enqueueWq)})
    BY <1>3, SendFresh DEF ComposerSend, handling, hardware, requests
  <2>2. r # Head(enqueueWq)
    <3> SUFFICES ASSUME r = Head(enqueueWq) PROVE FALSE
      OBVIOUS
    <3>1. PICK g \in Groups : ReqOf[g] = r
      BY ImgsysAssumption
    <3>2. group[g] = "idle"
      BY <1>3, <3>1, SendFresh
    <3> QED BY <2>1, <3>1, <3>2 DEF Record, GroupsOf
  <2> QED BY <2>1, <2>2, <1>a, <1>b DEF Record
<1>4. ASSUME NEW g \in Groups, Announce(g) PROVE record'[r] = Cardinality(Came(r)') /\ r \in wbuf'
                                     /\ \A h \in GroupsOf(r) : group'[h] # "idle"
  <2>1. UNCHANGED <<cbCnt, wbuf>> /\ record' = MadeByFirst(g)
    BY <1>4 DEF Announce, hardware, requests
  <2>2. CASE g \in Firsts /\ r = ReqOf[g]
    <3>1. record'[r] = 0
      BY <1>0, <2>1, <2>2 DEF MadeByFirst
    <3> QED BY <1>4, <2>1, <2>2, <3>1, AnnounceFirst, <1>a, <1>b
  <2>3. CASE ~(g \in Firsts /\ r = ReqOf[g])
    <3>1. record'[r] = record[r]
      BY <1>0, <2>1, <2>3 DEF MadeByFirst
    <3> QED BY <2>1, <3>1, <1>a, <1>b DEF Record
  <2> QED BY <2>2, <2>3
<1>5. CASE CbWork
  <2> DEFINE g == Head(cbWq).group
             x == ReqOf[g]
  <2>1. x \in Reqs /\ UNCHANGED <<wbuf, group>> /\ cbCnt[g] \in Nat
    BY <1>5, CbWorkStep
  <2>2. PICK called \in BOOLEAN :
          /\ called <=> cbCnt[g] + 1 = LastTask(g) \/ Tasks[g][cbCnt[g] + 1]
          /\ record' = IF ~called \/ record[x] = None THEN record
                       ELSE [record EXCEPT ![x] = IF AllCalled(x, @) THEN None ELSE @ + 1]
    BY <1>5, CbWorkStep
  <2>3. Cardinality(Came(r)') = Cardinality(Came(r)) + One(r = x /\ called)
        /\ Cardinality(Came(r)) \in Nat
    BY <1>5, <2>2, CameStep
  <2> HIDE DEF x
  <2>4. CASE called /\ r = x
    <3>1. record[r] # None /\ record'[r] = record[r] + 1
      BY <1>0, <2>2, <2>4
    <3>2. record[r] = Cardinality(Came(r)) /\ r \in wbuf
          /\ \A h \in GroupsOf(r) : group[h] # "idle"
      BY <3>1 DEF Record
    <3>3. One(r = x /\ called) = 1
      BY <2>4 DEF One
    <3> QED BY <2>1, <2>3, <3>1, <3>2, <3>3
  <2>5. CASE ~(called /\ r = x)
    <3>1. record'[r] = record[r]
      BY <1>0, <2>2, <2>5
    <3>2. record[r] = Cardinality(Came(r)) /\ r \in wbuf
          /\ \A h \in GroupsOf(r) : group[h] # "idle"
      BY <3>1 DEF Record
    <3>3. One(r = x /\ called) = 0
      BY <2>5 DEF One
    <3> QED BY <2>1, <2>3, <3>1, <3>2, <3>3
  <2> QED BY <2>4, <2>5
<1>6. CASE Notify
  <2> DEFINE x == ReqOf[cb.group]
  <2>1. UNCHANGED <<record, cbCnt, group>> /\ wbuf' = wbuf \ {x}
    BY <1>6 DEF Notify, FreeBuf, handling
  <2>2. record[x] = None
    BY <1>6 DEF Notify, Notifying
  <2> QED BY <2>1, <2>2, <1>a, <1>b DEF Record
<1>7. CASE NotifyFinish \/ CbPut \/ ReturnAll
  <2>1. UNCHANGED <<record, cbCnt, wbuf>>
    BY <1>7 DEF NotifyFinish, CbPut, ReturnAll, handling, hardware, requests
  <2> QED BY <2>1, <1>a, <1>b DEF Record
<1> QED BY <1>1, <1>2, <1>3, <1>4, <1>5, <1>6, <1>7, RecordOthers DEF CallBack

\* A request all of whose tasks are done has no group that still waits for
\* the hardware.
LEMMA CompleteWorked ==
  ASSUME Types, Advance, NEW g \in Groups, Complete(ReqOf[g])
  PROVE  /\ group[g] \notin {"idle", "daemon", "handler", "queued"}
         /\ cbCnt[g] = LastTask(g) /\ cbCnt[g] > 0
<1>1. cbCnt[g] = LastTask(g)
  BY DEF Complete, GroupsOf
<1> QED BY <1>1, WorkedFor, TaskTypes

\* A step keeps what the call-backs have reported.
LEMMA NotifyingStep ==
  ASSUME Types, Journey, Together, Advance, CbOrder, Record, Notifying, [Next]_vars,
         Types', Advance', Record', CbWork => Record'
  PROVE  Notifying'
<1>0. /\ cb \in [group : Groups \cup {None}, stage : CbStages] /\ None \notin Groups
      /\ bufs \in [Reqs -> {"user", "driver", "done", "error"}]
      /\ record \in [Reqs -> Nat \cup {None}] /\ cbCnt \in [Groups -> Nat]
      /\ \A g \in Groups : ReqOf[g] \in Reqs
  BY ImgsysAssumption, TaskTypes DEF Types, HardwareTypes, RequestTypes, HandlingTypes
<1>a. ASSUME UNCHANGED cbCnt PROVE \A r \in Reqs : Complete(r)' <=> Complete(r)
  BY <1>a DEF Complete, GroupsOf, LastTask
<1>b. cb.stage # "none" => cb.group \in Groups /\ ReqOf[cb.group] \in Reqs
  BY <1>0 DEF Notifying
<1>1. CASE UNCHANGED <<record, cbCnt, wbuf, cb, bufs>>
  BY <1>1, <1>a, <1>b DEF Notifying
<1>2. CASE \E x \in Reqs : Queue(x)
  <2> PICK x \in Reqs : Queue(x)
    BY <1>2
  <2>1. /\ UNCHANGED <<record, cbCnt, cb>> /\ wbuf' \in {wbuf, wbuf \cup {x}}
        /\ bufs[x] = "user" /\ bufs' = [bufs EXCEPT ![x] = "driver"]
    BY DEF Queue, handling, hardware
  <2>2. cb.stage \in {"finish", "finishLast"} => ReqOf[cb.group] # x
    <3> SUFFICES ASSUME cb.stage \in {"finish", "finishLast"} PROVE ReqOf[cb.group] # x
      OBVIOUS
    <3>1. cb.group \in Groups /\ Complete(ReqOf[cb.group])
      BY <1>b DEF Notifying
    <3>2. group[cb.group] # "idle"
      BY <3>1, CompleteWorked
    <3> QED BY <2>1, <3>1, <3>2 DEF Journey
  <2>3. \A r \in Reqs : bufs'[r] = "done" => bufs[r] = "done"
    BY <1>0, <2>1
  <2> QED BY <2>1, <2>2, <2>3, <1>a, <1>b DEF Notifying
<1>3. CASE ComposerSend
  <2> DEFINE x == Head(enqueueWq)
  <2>1. UNCHANGED <<record, cbCnt, cb>> /\ wbuf' \in {wbuf, wbuf \ {x}}
        /\ \A r \in Reqs : bufs'[r] = "done" => bufs[r] = "done"
    BY <1>0, <1>3, SendFresh DEF ComposerSend, handling, hardware, requests, Finish
  <2>2. cb.stage \in {"notify", "notifyLast"} => ReqOf[cb.group] # x
    <3> SUFFICES ASSUME cb.stage \in {"notify", "notifyLast"} PROVE ReqOf[cb.group] # x
      OBVIOUS
    <3>1. cb.group \in Groups /\ Complete(ReqOf[cb.group])
      BY <1>b DEF Notifying
    <3>2. group[cb.group] # "idle"
      BY <3>1, CompleteWorked
    <3> QED BY <1>3, <3>1, <3>2, SendFresh
  <2> HIDE DEF x
  <2> QED BY <2>1, <2>2, <1>a, <1>b DEF Notifying
<1>4. ASSUME NEW g \in Groups, Announce(g) PROVE Notifying'
  <2>1. UNCHANGED <<cbCnt, wbuf, cb, bufs>> /\ record' = MadeByFirst(g) /\ group[g] = "daemon"
    BY <1>4 DEF Announce, hardware, requests
  <2>2. cb.stage \in {"notify", "notifyLast"} =>
          record'[ReqOf[cb.group]] = record[ReqOf[cb.group]]
    <3> SUFFICES ASSUME cb.stage \in {"notify", "notifyLast"}
                 PROVE  record'[ReqOf[cb.group]] = record[ReqOf[cb.group]]
      OBVIOUS
    <3>1. cb.group \in Groups /\ Complete(ReqOf[cb.group])
      BY <1>b DEF Notifying
    <3>2. ReqOf[g] # ReqOf[cb.group]
      <4> SUFFICES ASSUME ReqOf[g] = ReqOf[cb.group] PROVE FALSE
        OBVIOUS
      <4>1. group[g] # "daemon"
        BY <3>1, CompleteWorked
      <4> QED BY <2>1, <4>1
    <3> QED BY <1>0, <2>1, <3>1, <3>2 DEF MadeByFirst
  <2> QED BY <2>1, <2>2, <1>a, <1>b DEF Notifying
<1>5. CASE CbWork
  <2>0. PICK g \in Groups, x \in Reqs : g = Head(cbWq).group /\ x = ReqOf[g]
    BY <1>5, CbWorkStep
  <2>1. /\ g \in Groups /\ x \in Reqs /\ UNCHANGED <<wbuf, bufs>> /\ cbCnt[g] \in Nat
        /\ cbCnt[g] + 1 <= LastTask(g) /\ cbCnt' = [cbCnt EXCEPT ![g] = @ + 1]
    BY <1>5, <2>0, CbWorkStep
  <2>2. PICK called \in BOOLEAN, last \in BOOLEAN :
          /\ last <=> cbCnt[g] + 1 = LastTask(g)
          /\ called <=> cbCnt[g] + 1 = LastTask(g) \/ Tasks[g][cbCnt[g] + 1]
          /\ record' = IF ~called \/ record[x] = None THEN record
                       ELSE [record EXCEPT ![x] = IF AllCalled(x, @) THEN None ELSE @ + 1]
          /\ cb' = IF called /\ streaming /\ record[x] # None /\ AllCalled(x, record[x])
                   THEN [group |-> g, stage |-> IF last THEN "notifyLast" ELSE "notify"]
                   ELSE IF last THEN [group |-> g, stage |-> "put"] ELSE NoCb
    BY <1>5, <2>0, CbWorkStep
  <2>3. /\ called => Cardinality(Came(x)') = Cardinality(Came(x)) + 1
        /\ Cardinality(Came(x)) \in Nat
    BY <1>5, <2>0, <2>2, CameStep DEF One
  <2>4. LastTask(g) \in Nat /\ (last => cbCnt'[g] = LastTask(g))
    BY <1>0, <2>1, <2>2, TaskTypes
  <2>5. ASSUME NEW r \in Reqs, Complete(r) PROVE Complete(r)'
    <3>1. g \notin GroupsOf(r)
      <4> SUFFICES ASSUME g \in GroupsOf(r) PROVE FALSE
        OBVIOUS
      <4>1. cbCnt[g] = LastTask(g)
        BY <2>5 DEF Complete
      <4> QED BY <2>1, <2>4, <4>1
    <3>2. \A h \in GroupsOf(r) : h \in Groups /\ h # g
      BY <3>1 DEF GroupsOf
    <3>3. \A h \in GroupsOf(r) : cbCnt'[h] = LastTask(h)
      BY <1>0, <2>1, <2>5, <3>2 DEF Complete
    <3> QED BY <3>3 DEF Complete, GroupsOf, LastTask
  <2>6. CASE called /\ streaming /\ record[x] # None /\ AllCalled(x, record[x])
    <3>1. cb' = [group |-> g, stage |-> IF last THEN "notifyLast" ELSE "notify"]
          /\ record'[x] = None
      BY <1>0, <2>1, <2>2, <2>6
    <3>2. record[x] = Cardinality(Came(x)) /\ x \in wbuf
      BY <2>1, <2>6 DEF Record
    <3>3. Cardinality(Came(x)') = Expected(x)
      BY <2>3, <2>6, <3>2 DEF AllCalled
    <3>4. Complete(x)'
      <4>1. (\A r \in Reqs : Types /\ Advance /\ Cardinality(Came(r)) = Expected(r) => Complete(r))'
        BY AllCame, PTL
      <4>2. Expected(x)' = Expected(x)
        BY DEF Expected, CallBacks, GroupsOf, LastTask
      <4> QED BY <2>1, <3>3, <4>1, <4>2
    <3>5. cbCnt'[g] = LastTask(g)
      <4>1. g \in GroupsOf(x)
        BY <2>0, <2>1 DEF GroupsOf
      <4> QED BY <3>4, <4>1 DEF Complete, GroupsOf, LastTask
    <3>6. cb'.group = g /\ cb'.stage \in {"notify", "notifyLast"} /\ g # None
      BY <1>0, <2>1, <3>1
    <3>7. \A r \in Reqs : bufs'[r] = "done" => Complete(r)'
      BY <2>1, <2>5 DEF Notifying
    <3>8. (Complete(ReqOf[cb.group]))'
      <4>1. \A h \in Groups : ReqOf[h] = x => cbCnt'[h] = LastTask(h)
        BY <3>4 DEF Complete, GroupsOf, LastTask
      <4> QED BY <2>0, <3>6, <4>1 DEF Complete, GroupsOf, LastTask
    <3>9. ReqOf[cb'.group] \in wbuf' /\ record'[ReqOf[cb'.group]] = None
          /\ cbCnt'[cb'.group] = LastTask(g)
      BY <2>0, <2>1, <3>1, <3>2, <3>5, <3>6
    <3>10. cb'.group # None /\ cb'.stage \notin {"none", "finish", "finishLast"}
      BY <3>6
    <3> QED BY <3>6, <3>7, <3>8, <3>9, <3>10 DEF Notifying, LastTask
  <2>7. CASE ~(called /\ streaming /\ record[x] # None /\ AllCalled(x, record[x]))
    <3>1. cb' = IF last THEN [group |-> g, stage |-> "put"] ELSE NoCb
      BY <2>2, <2>7
    <3>2. \A r \in Reqs : bufs'[r] = "done" => Complete(r)'
      BY <2>1, <2>5 DEF Notifying
    <3>3. g # None
      BY <1>0, <2>1
    <3> QED BY <2>4, <3>1, <3>2, <3>3 DEF Notifying, NoCb, LastTask
  <2> QED BY <2>6, <2>7
<1>6. CASE Notify
  <2>1. /\ UNCHANGED <<record, cbCnt, bufs>> /\ wbuf' = wbuf \ {ReqOf[cb.group]}
        /\ cb.stage \in {"notify", "notifyLast"}
        /\ cb' = [cb EXCEPT !.stage = IF @ = "notify" THEN "finish" ELSE "finishLast"]
    BY <1>6 DEF Notify, FreeBuf, handling
  <2>2. cb'.group = cb.group /\ cb'.stage \in {"finish", "finishLast"}
    BY <1>0, <2>1
  <2> QED BY <2>1, <2>2, <1>a, <1>b DEF Notifying
<1>7. CASE NotifyFinish
  <2> DEFINE x == ReqOf[cb.group]
  <2>1. /\ UNCHANGED <<record, cbCnt, wbuf>> /\ cb.stage \in {"finish", "finishLast"}
        /\ UNCHANGED bufs \/ Finish(x, "done")
        /\ cb' = IF cb.stage = "finishLast" THEN [cb EXCEPT !.stage = "put"] ELSE NoCb
    BY <1>7 DEF NotifyFinish, handling
  <2>2. x \in Reqs /\ Complete(x) /\ cb.group # None
    BY <1>0, <1>b, <2>1 DEF Notifying
  <2>3. \A r \in Reqs : bufs'[r] = "done" => bufs[r] = "done" \/ r = x
    BY <1>0, <2>1, <2>2 DEF Finish
  <2>4. \A r \in Reqs : bufs'[r] = "done" => Complete(r)
    BY <2>2, <2>3 DEF Notifying
  <2>5. \/ cb' = NoCb
        \/ cb'.group = cb.group /\ cb'.stage = "put"
    BY <1>0, <2>1
  <2>6. cb.group # None => cbCnt[cb.group] = LastTask(cb.group)
    BY DEF Notifying
  <2> HIDE DEF x
  <2> QED BY <2>1, <2>2, <2>4, <2>5, <2>6, <1>a DEF Notifying, NoCb, LastTask
<1>8. CASE CbPut
  BY <1>8, <1>a DEF CbPut, NoCb, Notifying, handling, requests
<1>9. CASE ReturnAll
  <2>1. UNCHANGED <<record, cbCnt, wbuf, cb>> /\ \A r \in Reqs : bufs'[r] = "done" => bufs[r] = "done"
    BY <1>9 DEF ReturnAll, handling, hardware
  <2> QED BY <2>1, <1>a, <1>b DEF Notifying
<1> QED BY <1>1, <1>2, <1>3, <1>4, <1>5, <1>6, <1>7, <1>8, <1>9, RecordOthers DEF CallBack

-----------------------------------------------------------------------------
(* Works, and the first stream.                                            *)

\* A step keeps the count of the works, and STREAMOFF its order.
LEMMA WorksStep ==
  ASSUME Types, Works, [Next]_vars PROVE Works'
<1>0. /\ freeWorks \in Nat /\ runQ \in Seq(Groups) /\ streaming \in BOOLEAN
      /\ NWorks \in Nat /\ Len(runQ) \in Nat
  BY ImgsysAssumption DEF Types, RunningTypes, StreamTypes
<1>a. One(runner # None) \in {0, 1}
  BY DEF One
<1>1. CASE StreamOn
  <2>1. runner = None /\ UNCHANGED runner
    BY <1>1 DEF StreamOn, Works
  <2>2. freeWorks' = NWorks /\ Len(runQ') = 0 /\ stop' = "on"
    BY <1>1 DEF StreamOn
  <2>3. One(runner' # None) = 0
    BY <2>1 DEF One
  <2> QED BY <1>0, <2>1, <2>2, <2>3 DEF Works
<1>2. ASSUME UNCHANGED <<freeWorks, runQ, runner, enabled, streaming, stop>> PROVE Works'
  BY <1>2 DEF Works
<1>3. ASSUME NEW g \in Groups, HandlerQueue(g) PROVE Works'
  <2>1. /\ freeWorks > 0 /\ freeWorks' = freeWorks - 1 /\ UNCHANGED <<runner, enabled, streaming, stop>>
        /\ runQ' = Append(runQ, g) \/ runQ' = runQ
    BY <1>3 DEF HandlerQueue, stream
  <2>2. Len(Append(runQ, g)) = Len(runQ) + 1
    BY <1>0
  <2>3. Len(runQ') <= Len(runQ) + 1 /\ Len(runQ') \in Nat
    BY <1>0, <2>1, <2>2
  <2>4. freeWorks' + Len(runQ') + One(runner # None) <= NWorks
    BY <1>0, <1>a, <2>1, <2>3 DEF Works
  <2> QED BY <2>1, <2>4 DEF Works
<1>4. CASE RunnerTake
  <2>1. /\ enabled /\ runner = None /\ runQ # <<>> /\ runQ' = Tail(runQ) /\ runner' = Head(runQ)
        /\ UNCHANGED <<freeWorks, enabled, streaming, stop>>
    BY <1>4 DEF RunnerTake, stream
  <2>2. Len(runQ') = Len(runQ) - 1
    BY <1>0, <2>1
  <2>3. One(runner # None) = 0 /\ One(runner' # None) \in {0, 1}
    BY <2>1 DEF One
  <2>4. freeWorks' + Len(runQ') + One(runner' # None) <= NWorks
    BY <1>0, <2>1, <2>2, <2>3 DEF Works
  <2> QED BY <2>1, <2>4 DEF Works
<1>5. CASE RunnerEnd
  <2>1. /\ runner # None /\ runner' = None /\ freeWorks' = freeWorks + 1
        /\ UNCHANGED <<runQ, enabled, streaming, stop>>
    BY <1>5 DEF RunnerEnd, stream
  <2>2. One(runner # None) = 1 /\ One(runner' # None) = 0
    BY <2>1 DEF One
  <2>3. freeWorks' + Len(runQ') + One(runner' # None) <= NWorks
    BY <1>0, <2>1, <2>2 DEF Works
  <2> QED BY <2>1, <2>3 DEF Works
<1>6. CASE StopBegin \/ Stop
  <2>1. UNCHANGED <<freeWorks, runQ, runner>>
    BY <1>6 DEF StopBegin, Stop, FlushEnd, Deinit, QueueDisable, ReleaseBuffers, ReturnAll, running
  <2>2. freeWorks' + Len(runQ') + One(runner' # None) <= NWorks
    BY <2>1 DEF Works
  <2>3. enabled' => stop' \in {"on", "flush", "deinit", "disable"}
    BY <1>6 DEF StopBegin, Stop, FlushEnd, Deinit, QueueDisable, ReleaseBuffers, ReturnAll,
       running, Works
  <2>4. runner' # None => stop' \notin {"return", "off"}
    BY <1>6 DEF StopBegin, Stop, FlushEnd, Deinit, QueueDisable, ReleaseBuffers, ReturnAll,
       running, Works
  <2>5. streaming' => stop' = "on"
    BY <1>6 DEF StopBegin, Stop, FlushEnd, Deinit, QueueDisable, ReleaseBuffers, ReturnAll, Works
  <2> QED BY <2>2, <2>3, <2>4, <2>5 DEF Works
<1>7. CASE RunnerFlush \/ TimeoutWork \/ CallBack \/ \E g \in Groups : TaskDone(g)
  BY <1>2, <1>7 DEF RunnerFlush, TimeoutWork, CallBack, CbWork, Notify, NotifyFinish, CbPut,
     TaskDone, stream, running
<1>8. CASE (\E r \in Reqs : Queue(r)) \/ Composer \/ DaemonFetch \/ UNCHANGED vars
  BY <1>2, <1>8 DEF Queue, Composer, ComposerDown, ComposerSend, DaemonFetch, stream, running, vars
<1>9. CASE \E g \in Groups : Announce(g) \/ HandlerNoWork(g)
  BY <1>2, <1>9 DEF Announce, HandlerNoWork, stream, running
<1> QED BY <1>1, <1>3, <1>4, <1>5, <1>6, <1>7, <1>8, <1>9 DEF Next, Handler, Runner

\* What holds of a request that nobody has queued yet, and of a group that
\* the hardware has not worked for.
LEMMA Unqueued ==
  ASSUME Types, Journey, Advance, NEW r \in Reqs, bufs[r] = "user"
  PROVE  /\ r \notin wbuf /\ ~In(r, enqueueWq) /\ ~In(r, chan) /\ ~Sent(r)
         /\ \A g \in GroupsOf(r) : group[g] = "idle"
<1>1. r \notin wbuf /\ ~In(r, enqueueWq) /\ ~In(r, chan)
  BY DEF Journey
<1>2. \A g \in GroupsOf(r) : group[g] = "idle"
  BY DEF Journey, GroupsOf
<1> QED BY <1>1, <1>2 DEF Sent

\* The first stream starts with nothing queued and nothing running.
LEMMA FirstStart ==
  ASSUME ImgsysInv, StreamOn, session' <= 1
  PROVE  /\ session = 0 /\ session' = 1 /\ stop = "off" /\ stop' = "on" /\ wbuf = {} /\ wbuf' = {}
         /\ runner = None /\ runner' = None /\ mdpcbWq' = <<>> /\ cb' = cb /\ gceRef' = 1
         /\ freeBufs' = NBufs /\ numComposing' = 0 /\ bufs' = bufs
         /\ \A r \in Reqs : bufs[r] = "user"
         /\ \A g \in Groups : group[g] = "idle" /\ group'[g] = "idle" /\ flushed'[g] = 0
         /\ cb.group = None
<1>1. /\ session' = session + 1 /\ stop = "off" /\ stop' = "on" /\ freeBufs' = NBufs
      /\ numComposing' = 0 /\ gceRef' = 1
      /\ UNCHANGED <<bufs, wbuf, runner, group, flushed, mdpcbWq, cb>>
  BY DEF StreamOn, handling, hardware
<1>2. session = 0 /\ session' = 1
  <2>1. session \in Nat
    BY ImgsysAssumption DEF ImgsysInv, Types, StreamTypes
  <2> QED BY <1>1, <2>1
<1>3. \A r \in Reqs : bufs[r] = "user"
  BY <1>2 DEF ImgsysInv, FirstStream
<1>4. wbuf = {}
  BY <1>3 DEF ImgsysInv, Types, RequestTypes, Journey
<1>5. \A g \in Groups : group[g] = "idle"
  BY <1>3, TaskTypes DEF ImgsysInv, Journey
<1>6. \A g \in Groups : flushed[g] = 0
  BY <1>5 DEF ImgsysInv, Advance
<1>7. runner = None
  BY <1>1 DEF ImgsysInv, Works
<1>8. mdpcbWq = <<>>
  <2> SUFFICES ASSUME mdpcbWq # <<>> PROVE FALSE
    OBVIOUS
  <2>1. mdpcbWq \in Seq(Groups)
    BY DEF ImgsysInv, Types, HardwareTypes
  <2>2. Head(mdpcbWq) \in Groups /\ In(Head(mdpcbWq), mdpcbWq)
    BY <2>1, ListSteps
  <2>3. done[Head(mdpcbWq)] > 0
    BY <2>2 DEF ImgsysInv, Advance
  <2> QED BY <1>5, <2>2, <2>3, WorkedFor DEF ImgsysInv
<1>9. cb.group = None
  <2> SUFFICES ASSUME cb.group # None PROVE FALSE
    OBVIOUS
  <2>1. cb.group \in Groups /\ cbCnt[cb.group] = LastTask(cb.group)
    BY DEF ImgsysInv, Types, HardwareTypes, Notifying
  <2>2. cbCnt[cb.group] > 0
    BY <2>1, TaskTypes
  <2> QED BY <1>5, <2>1, <2>2, WorkedFor DEF ImgsysInv
<1> QED BY <1>1, <1>2, <1>3, <1>4, <1>5, <1>6, <1>7, <1>8, <1>9

\* The number of the stream and the place in STREAMOFF change together.
LEMMA StreamSteps ==
  ASSUME [Next]_vars
  PROVE  StreamOn \/ StopBegin \/ Stop \/ UNCHANGED <<session, stop>>
<1>1. CASE (\E r \in Reqs : Queue(r)) \/ Composer \/ DaemonFetch \/ UNCHANGED vars
  BY <1>1 DEF Queue, Composer, ComposerDown, ComposerSend, DaemonFetch, stream, vars
<1>2. CASE Handler \/ Runner
  BY <1>2 DEF Handler, Announce, HandlerQueue, HandlerNoWork, Runner, RunnerTake, RunnerFlush,
     RunnerEnd, stream
<1>3. CASE TimeoutWork \/ CallBack \/ \E g \in Groups : TaskDone(g)
  BY <1>3 DEF TimeoutWork, CallBack, CbWork, Notify, NotifyFinish, CbPut, TaskDone, stream
<1> QED BY <1>1, <1>2, <1>3 DEF Next

\* What a step does to the buffers of the requests.
LEMMA BufsSteps ==
  ASSUME Types, Notifying, [Next]_vars
  PROVE  \/ \E r \in Reqs : Queue(r)
         \/ /\ UNCHANGED born
            /\ UNCHANGED bufs \/ ComposerSend \/ NotifyFinish \/ ReturnAll
            /\ \A r \in Reqs : bufs'[r] = bufs[r] \/ (bufs[r] = "driver" /\ bufs'[r] # "user")
<1>0. bufs \in [Reqs -> {"user", "driver", "done", "error"}]
  BY DEF Types, RequestTypes
<1>1. CASE UNCHANGED <<born, bufs>>
  BY <1>1
<1>2. CASE ComposerSend
  <2>1. UNCHANGED born /\ (UNCHANGED bufs \/ Finish(Head(enqueueWq), "error"))
    BY <1>2 DEF ComposerSend, requests
  <2> QED BY <1>0, <1>2, <2>1 DEF Finish
<1>3. CASE NotifyFinish
  <2>1. UNCHANGED born /\ (UNCHANGED bufs \/ Finish(ReqOf[cb.group], "done"))
    BY <1>3 DEF NotifyFinish
  <2> QED BY <1>0, <1>3, <2>1 DEF Finish
<1>4. CASE ReturnAll
  BY <1>0, <1>4 DEF ReturnAll
<1>5. CASE StreamOn \/ StopBegin \/ ComposerDown \/ DaemonFetch \/ UNCHANGED vars
  BY <1>1, <1>5 DEF StreamOn, StopBegin, ComposerDown, DaemonFetch, requests, vars
<1>6. CASE Handler \/ Runner \/ TimeoutWork \/ \E g \in Groups : TaskDone(g)
  BY <1>1, <1>6 DEF Handler, Announce, HandlerQueue, HandlerNoWork, Runner, RunnerTake,
     RunnerFlush, RunnerEnd, TimeoutWork, TaskDone, requests
<1>7. CASE CbWork \/ Notify \/ CbPut \/ FlushEnd \/ Deinit \/ QueueDisable \/ ReleaseBuffers
  BY <1>1, <1>7 DEF CbWork, Notify, CbPut, FlushEnd, Deinit, QueueDisable, ReleaseBuffers, requests
<1> QED BY <1>2, <1>3, <1>4, <1>5, <1>6, <1>7 DEF Next, Composer, CallBack, Stop

\* Before the first stream nothing is queued, and what is queued in it belongs
\* to it.
LEMMA BornStep ==
  ASSUME ImgsysInv, [Next]_vars
  PROVE  /\ session' = 0 => stop' = "off" /\ \A r \in Reqs : bufs'[r] = "user"
         /\ session' <= 1 => BornHere'
<1>0. /\ session \in Nat /\ bufs \in [Reqs -> {"user", "driver", "done", "error"}]
      /\ born \in [Reqs -> 0 .. MaxSession] /\ MaxSession \in Nat
  BY ImgsysAssumption DEF ImgsysInv, Types, StreamTypes, RequestTypes
<1>1. CASE StreamOn
  <2>1. session' # 0
    BY <1>0, <1>1 DEF StreamOn
  <2>2. session' <= 1 => \A r \in Reqs : bufs'[r] = "user"
    BY <1>1, FirstStart
  <2> QED BY <2>1, <2>2 DEF BornHere
<1>2. CASE \E r \in Reqs : Queue(r)
  <2> PICK r \in Reqs : Queue(r)
    BY <1>2
  <2>1. /\ stop = "on" /\ UNCHANGED <<session, stop>> /\ born' = [born EXCEPT ![r] = session]
        /\ bufs' = [bufs EXCEPT ![r] = "driver"]
    BY DEF Queue, stream
  <2>2. session # 0
    BY <2>1 DEF ImgsysInv, FirstStream
  <2> QED BY <1>0, <2>1, <2>2 DEF ImgsysInv, FirstStream, BornHere
<1>3. ASSUME ~StreamOn, UNCHANGED born,
             \A r \in Reqs : bufs'[r] = bufs[r] \/ (bufs[r] = "driver" /\ bufs'[r] # "user")
      PROVE  /\ session' = 0 => stop' = "off" /\ \A r \in Reqs : bufs'[r] = "user"
             /\ session' <= 1 => BornHere'
  <2>1. UNCHANGED session /\ (UNCHANGED stop \/ stop # "off")
    BY <1>3, StreamSteps DEF StopBegin, Stop, FlushEnd, Deinit, QueueDisable, ReleaseBuffers,
       ReturnAll
  <2>2. CASE session = 0
    <3>1. \A r \in Reqs : bufs'[r] = "user"
      BY <1>3, <2>2 DEF ImgsysInv, FirstStream
    <3> QED BY <2>1, <2>2, <3>1 DEF ImgsysInv, FirstStream, BornHere
  <2>3. CASE session # 0
    BY <1>3, <2>1, <2>3 DEF ImgsysInv, FirstStream, BornHere
  <2> QED BY <2>2, <2>3
<1> QED BY <1>1, <1>2, <1>3, BufsSteps DEF ImgsysInv

\* The number of the stream never falls.
LEMMA SessionGrows ==
  ASSUME Types, [Next]_vars
  PROVE  session' >= session /\ session \in Nat /\ (StreamOn \/ session' = session)
<1>1. session \in Nat
  BY ImgsysAssumption DEF Types, StreamTypes
<1>2. StreamOn => session' = session + 1
  BY DEF StreamOn
<1>3. StopBegin \/ Stop => session' = session
  BY DEF StopBegin, Stop, FlushEnd, Deinit, QueueDisable, ReleaseBuffers, ReturnAll
<1>4. StreamOn \/ session' = session
  BY <1>3, StreamSteps
<1> QED BY <1>1, <1>2, <1>4

\* The working buffers are counted.
LEMMA BufsCountedStep ==
  ASSUME ImgsysInv, [Next]_vars, session' <= 1 PROVE BufsCounted'
<1>0. IsFiniteSet(wbuf) /\ Cardinality(wbuf) \in Nat /\ freeBufs \in Nat /\ NBufs \in Nat
  BY ImgsysAssumption, FS_Subset, FS_CardinalityType DEF ImgsysInv, Types, RequestTypes
<1>1. CASE StreamOn
  <2>1. freeBufs' = NBufs /\ wbuf' = {}
    BY <1>1, FirstStart
  <2>2. Cardinality(wbuf') = 0
    BY <2>1, FS_EmptySet
  <2> QED BY <1>0, <2>1, <2>2 DEF BufsCounted
<1>a. ~StreamOn => session <= 1 /\ BufsCounted
  BY SessionGrows DEF ImgsysInv, FirstStream
<1>2. ASSUME UNCHANGED <<freeBufs, wbuf>>, ~StreamOn PROVE BufsCounted'
  BY <1>2, <1>a DEF BufsCounted
<1>3. CASE \E r \in Reqs : Queue(r)
  <2> PICK r \in Reqs : Queue(r)
    BY <1>3
  <2>1. r \notin wbuf
    BY Unqueued DEF Queue, ImgsysInv
  <2>2. UNCHANGED <<freeBufs, wbuf>> \/ (freeBufs' = freeBufs - 1 /\ wbuf' = wbuf \cup {r})
    BY DEF Queue
  <2>3. BufsCounted
    BY <1>a DEF StreamOn, Queue
  <2>4. Cardinality(wbuf \cup {r}) = Cardinality(wbuf) + 1
    BY <1>0, <2>1, FS_AddElement
  <2>5. freeBufs' + Cardinality(wbuf') = NBufs
    <3>1. CASE UNCHANGED <<freeBufs, wbuf>>
      BY <2>3, <3>1 DEF BufsCounted
    <3>2. CASE freeBufs' = freeBufs - 1 /\ wbuf' = wbuf \cup {r}
      <4>1. Cardinality(wbuf') = Cardinality(wbuf) + 1
        BY <2>4, <3>2
      <4> QED BY <1>0, <2>3, <3>2, <4>1 DEF BufsCounted
    <3> QED BY <2>2, <3>1, <3>2
  <2> QED BY <2>5 DEF BufsCounted
<1>4. CASE ComposerSend
  <2> DEFINE x == Head(enqueueWq)
  <2>1. x \in wbuf
    BY <1>4, SendFresh DEF ImgsysInv, Journey
  <2>2. UNCHANGED <<freeBufs, wbuf>> \/ (freeBufs' = freeBufs + 1 /\ wbuf' = wbuf \ {x})
    BY <1>4, SendFresh DEF ImgsysInv, requests
  <2>3. BufsCounted
    BY <1>4, <1>a, SessionGrows DEF StreamOn, ComposerSend, stream, ImgsysInv, FirstStream
  <2> HIDE DEF x
  <2>4. Cardinality(wbuf \ {x}) = Cardinality(wbuf) - 1
    BY <1>0, <2>1, FS_RemoveElement
  <2>5. CASE UNCHANGED <<freeBufs, wbuf>>
    BY <2>3, <2>5 DEF BufsCounted
  <2>6. CASE freeBufs' = freeBufs + 1 /\ wbuf' = wbuf \ {x}
    <3>1. Cardinality(wbuf') = Cardinality(wbuf) - 1
      BY <2>4, <2>6
    <3> QED BY <1>0, <2>3, <2>6, <3>1 DEF BufsCounted
  <2> QED BY <2>2, <2>5, <2>6
<1>5. CASE Notify
  <2> DEFINE x == ReqOf[cb.group]
  <2>1. x \in wbuf
    BY <1>5 DEF ImgsysInv, Notifying, Notify
  <2>2. freeBufs' = freeBufs + 1 /\ wbuf' = wbuf \ {x}
    BY <1>5 DEF Notify, FreeBuf
  <2>3. BufsCounted
    BY <1>5, <1>a, SessionGrows DEF Notify, stream, ImgsysInv, FirstStream
  <2> HIDE DEF x
  <2>4. Cardinality(wbuf') = Cardinality(wbuf) - 1
    BY <1>0, <2>1, <2>2, FS_RemoveElement
  <2> QED BY <1>0, <2>2, <2>3, <2>4 DEF BufsCounted
<1>6. CASE StopBegin \/ Stop \/ ComposerDown \/ DaemonFetch \/ UNCHANGED vars
  <2>1. UNCHANGED <<freeBufs, wbuf>>
    BY <1>6 DEF StopBegin, Stop, FlushEnd, Deinit, QueueDisable, ReleaseBuffers, ReturnAll,
       ComposerDown, DaemonFetch, requests, vars
  <2> QED BY <1>1, <1>2, <2>1
<1>7. CASE Handler \/ Runner \/ TimeoutWork \/ \E g \in Groups : TaskDone(g)
  <2>1. UNCHANGED <<freeBufs, wbuf>>
    BY <1>7 DEF Handler, Announce, HandlerQueue, HandlerNoWork, Runner, RunnerTake, RunnerFlush,
       RunnerEnd, TimeoutWork, TaskDone, requests
  <2> QED BY <1>1, <1>2, <2>1
<1>8. CASE CbWork \/ NotifyFinish \/ CbPut
  <2>1. UNCHANGED <<freeBufs, wbuf>>
    BY <1>8 DEF CbWork, NotifyFinish, CbPut, requests
  <2> QED BY <1>1, <1>2, <2>1
<1> QED BY <1>1, <1>3, <1>4, <1>5, <1>6, <1>7, <1>8 DEF Next, Composer, CallBack

\* The requests sent and not yet notified are finitely many.
LEMMA PendingFinite ==
  ASSUME Types PROVE IsFiniteSet(Pending) /\ Cardinality(Pending) \in Nat
<1>1. Pending \subseteq Reqs
  BY DEF Pending, Types, RequestTypes
<1> QED BY <1>1, ImgsysAssumption, FS_Subset, FS_CardinalityType

\* num_composing is at least the number of requests sent and not yet notified.
LEMMA ComposingStep ==
  ASSUME ImgsysInv, [Next]_vars, session' <= 1, Types' PROVE ComposingCounted'
<1>0. /\ IsFiniteSet(Pending) /\ Cardinality(Pending) \in Nat /\ numComposing \in Int
      /\ chan \in Seq(Reqs) /\ Types /\ Journey /\ Advance /\ Notifying
  BY PendingFinite DEF ImgsysInv, Types, ComposeTypes
<1>a. ~StreamOn => ComposingCounted
  BY SessionGrows DEF ImgsysInv, FirstStream
<1>b. ASSUME Pending' \subseteq Pending, numComposing' = numComposing \/ numComposing' = numComposing + 1,
             ~StreamOn
      PROVE  ComposingCounted'
  <2>1. Cardinality(Pending') <= Cardinality(Pending) /\ Cardinality(Pending') \in Nat
    BY <1>0, <1>b, FS_Subset, FS_CardinalityType
  <2> QED BY <1>0, <1>a, <1>b, <2>1 DEF ComposingCounted
<1>c. ASSUME UNCHANGED <<wbuf, numComposing>>, chan' = chan \/ chan' = <<>>, ~DaemonFetch, ~StreamOn
      PROVE  ComposingCounted'
  <2>1. \A g \in Groups : group[g] = "idle" => group'[g] = "idle"
    BY <1>0, <1>c, GroupStep DEF GroupsStay
  <2>2. \A x : In(x, chan') => In(x, chan)
    BY <1>c, EmptyList
  <2>3. Pending' \subseteq Pending
    BY <1>c, <2>1, <2>2 DEF Pending, Sent, GroupsOf
  <2> QED BY <1>b, <1>c, <2>3
<1>1. CASE StreamOn
  <2>1. numComposing' = 0 /\ wbuf' = {}
    BY <1>1, FirstStart
  <2>2. Pending' = {}
    BY <2>1 DEF Pending
  <2> QED BY <2>1, <2>2, FS_EmptySet DEF ComposingCounted
<1>2. ASSUME NEW r \in Reqs, Queue(r) PROVE ComposingCounted'
  <2>1. ~Sent(r)
    BY <1>0, <1>2, Unqueued DEF Queue
  <2>2. UNCHANGED <<numComposing, chan, group>> /\ wbuf' \subseteq wbuf \cup {r}
    BY <1>2 DEF Queue, handling
  <2>3. ~StreamOn
    BY <1>2 DEF Queue, StreamOn
  <2>4. Pending' \subseteq Pending
    BY <2>1, <2>2 DEF Pending, Sent
  <2> QED BY <1>b, <2>2, <2>3, <2>4
<1>3. CASE ComposerSend
  <2> DEFINE x == Head(enqueueWq)
  <2>1. UNCHANGED group /\ numComposing' = numComposing + 1
    BY <1>3 DEF ComposerSend, handling
  <2>2. \/ UNCHANGED wbuf /\ chan' = Append(chan, x)
        \/ wbuf' \subseteq wbuf /\ UNCHANGED chan
    BY <1>0, <1>3, SendFresh DEF requests
  <2>3. x \in Reqs
    BY <1>0, <1>3, SendFresh
  <2> HIDE DEF x
  <2>4. \A r : In(r, chan') => In(r, chan) \/ r = x
    <3>1. \A r : In(r, Append(chan, x)) <=> In(r, chan) \/ r = x
      BY <1>0, <2>3, ListSteps
    <3> QED BY <2>2, <3>1
  <2>5. Pending' \subseteq Pending \cup {x}
    BY <2>1, <2>2, <2>4 DEF Pending, Sent
  <2>6. IsFiniteSet(Pending \cup {x}) /\ Cardinality(Pending \cup {x}) <= Cardinality(Pending) + 1
    <3>1. IsFiniteSet(Pending \cup {x})
          /\ Cardinality(Pending \cup {x}) = IF x \in Pending THEN Cardinality(Pending)
                                             ELSE Cardinality(Pending) + 1
      BY <1>0, FS_AddElement
    <3> QED BY <1>0, <3>1
  <2>7. Cardinality(Pending') <= Cardinality(Pending) + 1 /\ Cardinality(Pending') \in Nat
        /\ Cardinality(Pending \cup {x}) \in Nat
    <3>1. Cardinality(Pending') <= Cardinality(Pending \cup {x}) /\ IsFiniteSet(Pending')
      BY <2>5, <2>6, FS_Subset
    <3>2. Cardinality(Pending') \in Nat /\ Cardinality(Pending \cup {x}) \in Nat
      BY <2>6, <3>1, FS_CardinalityType
    <3> QED BY <1>0, <2>6, <3>1, <3>2
  <2>8. ComposingCounted
    BY <1>3, <1>a, SessionGrows DEF ComposerSend, stream, ImgsysInv, FirstStream
  <2> QED BY <1>0, <2>1, <2>7, <2>8 DEF ComposingCounted
<1>4. CASE DaemonFetch
  <2> DEFINE x == Head(chan)
  <2>1. /\ chan # <<>> /\ chan' = Tail(chan) /\ UNCHANGED <<wbuf, numComposing>> /\ stop # "off"
        /\ group' = [g \in Groups |-> IF ReqOf[g] = x THEN "daemon" ELSE group[g]]
    BY <1>4 DEF DaemonFetch, requests
  <2>2. \A r : In(r, chan) <=> r = x \/ In(r, chan')
    BY <1>0, <2>1, ListSteps
  <2> HIDE DEF x
  <2>3. \A r : \A g \in GroupsOf(r) : group'[g] # "idle" => group[g] # "idle" \/ r = x
    BY <2>1 DEF GroupsOf
  <2>4. Pending' \subseteq Pending
    BY <2>1, <2>2, <2>3 DEF Pending, Sent
  <2> QED BY <1>b, <2>1, <2>4 DEF StreamOn
<1>5. CASE Notify
  <2> DEFINE x == ReqOf[cb.group]
  <2>1. UNCHANGED <<chan, group>> /\ wbuf' = wbuf \ {x} /\ numComposing' = numComposing - 1
    BY <1>5 DEF Notify, FreeBuf, handling
  <2>2. x \in Pending
    <3>1. x \in wbuf /\ Complete(x) /\ cb.group \in Groups
      BY <1>5 DEF Notify, ImgsysInv, Notifying, Types, HardwareTypes
    <3>2. group[cb.group] # "idle"
      BY <1>0, <3>1, CompleteWorked
    <3> QED BY <3>1, <3>2 DEF Pending, Sent, GroupsOf
  <2> HIDE DEF x
  <2>3. Pending' = Pending \ {x}
    BY <2>1 DEF Pending, Sent
  <2>4. Cardinality(Pending') = Cardinality(Pending) - 1
    BY <1>0, <2>2, <2>3, FS_RemoveElement
  <2>5. ComposingCounted
    BY <1>5, <1>a, SessionGrows DEF Notify, stream, ImgsysInv, FirstStream
  <2> QED BY <1>0, <2>1, <2>4, <2>5 DEF ComposingCounted
<1>6. CASE StopBegin \/ Stop \/ ComposerDown \/ UNCHANGED vars
  <2>1. UNCHANGED <<wbuf, numComposing>> /\ (chan' = chan \/ chan' = <<>>)
    BY <1>6 DEF StopBegin, Stop, FlushEnd, Deinit, QueueDisable, ReleaseBuffers, ReturnAll,
       ComposerDown, requests, compose, vars
  <2> QED BY <1>1, <1>4, <1>c, <2>1
<1>7. CASE Handler \/ Runner \/ TimeoutWork \/ \E g \in Groups : TaskDone(g)
  <2>1. UNCHANGED <<wbuf, numComposing, chan>>
    BY <1>7 DEF Handler, Announce, HandlerQueue, HandlerNoWork, Runner, RunnerTake, RunnerFlush,
       RunnerEnd, TimeoutWork, TaskDone, requests, compose
  <2> QED BY <1>1, <1>4, <1>c, <2>1
<1>8. CASE CbWork \/ NotifyFinish \/ CbPut
  <2>1. UNCHANGED <<wbuf, numComposing, chan>>
    BY <1>8 DEF CbWork, NotifyFinish, CbPut, requests, compose
  <2> QED BY <1>1, <1>4, <1>c, <2>1
<1> QED BY <1>1, <1>2, <1>3, <1>4, <1>5, <1>6, <1>7, <1>8 DEF Next, Composer, CallBack

\* While the stream runs, and until STREAMOFF has flushed it, nobody has
\* taken back the buffers of a request with a working buffer.
LEMMA UnreturnedStep ==
  ASSUME ImgsysInv, [Next]_vars, session' <= 1 PROVE Unreturned'
<1>0. Types /\ Journey /\ Advance /\ Notifying /\ bufs \in [Reqs -> {"user", "driver", "done", "error"}]
      /\ wbuf \subseteq Reqs
  BY DEF ImgsysInv, Types, RequestTypes
<1> SUFFICES ASSUME stop' \in {"on", "flush"}, NEW r \in wbuf' PROVE bufs'[r] = "driver"
  BY DEF Unreturned
<1>a. ~StreamOn => Unreturned
  BY SessionGrows DEF ImgsysInv, FirstStream
<1>1. CASE StreamOn
  BY <1>1, FirstStart
<1>2. ~StreamOn => stop \in {"on", "flush"} /\ ~ReturnAll
  BY StreamSteps DEF StopBegin, Stop, FlushEnd, Deinit, QueueDisable, ReleaseBuffers, ReturnAll
<1>3. CASE \E x \in Reqs : Queue(x)
  <2> PICK x \in Reqs : Queue(x)
    BY <1>3
  <2>1. wbuf' \subseteq wbuf \cup {x} /\ bufs' = [bufs EXCEPT ![x] = "driver"] /\ ~StreamOn
    BY DEF Queue, StreamOn
  <2> QED BY <1>0, <1>2, <1>a, <2>1 DEF Unreturned
<1>4. CASE ComposerSend
  <2> DEFINE x == Head(enqueueWq)
  <2>1. ~StreamOn /\ x \in Reqs
    BY <1>0, <1>4, SendFresh DEF ComposerSend, StreamOn, compose
  <2>2. \/ UNCHANGED <<wbuf, bufs>>
        \/ wbuf' = wbuf \ {x} /\ Finish(x, "error")
    BY <1>0, <1>4, SendFresh DEF requests
  <2> HIDE DEF x
  <2> QED BY <1>0, <1>2, <1>a, <2>1, <2>2 DEF Unreturned, Finish
<1>5. CASE NotifyFinish
  <2> DEFINE x == ReqOf[cb.group]
  <2>1. x \notin wbuf /\ UNCHANGED wbuf /\ (UNCHANGED bufs \/ Finish(x, "done"))
    BY <1>5 DEF NotifyFinish, ImgsysInv, Notifying
  <2>2. stop \in {"on", "flush"} /\ Unreturned
    <3>1. ~StreamOn
      BY <1>5 DEF NotifyFinish, StreamOn, stream
    <3> QED BY <3>1, <1>2, <1>a
  <2> HIDE DEF x
  <2> QED BY <1>0, <2>1, <2>2 DEF Unreturned, Finish
<1>6. CASE UNCHANGED bufs /\ ~StreamOn /\ ~ComposerSend /\ ~\E x \in Reqs : Queue(x)
  <2>1. wbuf' \subseteq wbuf
    BY <1>0, <1>6, JourneyOthers DEF Notifying, ComposerDown, DaemonFetch, Notify, FreeBuf, requests
  <2> QED BY <1>2, <1>6, <1>a, <2>1 DEF Unreturned
<1> QED BY <1>0, <1>1, <1>2, <1>3, <1>4, <1>5, <1>6, BufsSteps

\* Notifying ends before STREAMOFF goes on from the flush.
LEMMA NotifyInTimeStep ==
  ASSUME ImgsysInv, [Next]_vars, session' <= 1 PROVE NotifyInTime'
<1>0. Types /\ Journey /\ Advance /\ Notifying
  BY DEF ImgsysInv
<1>a. ~StreamOn => NotifyInTime /\ ComposingCounted
  BY SessionGrows DEF ImgsysInv, FirstStream
<1>1. CASE StreamOn
  BY <1>1 DEF StreamOn, NotifyInTime
<1>2. CASE CbWork
  <2>1. stop' = stop /\ (cb'.stage \in {"notify", "notifyLast"} => streaming)
    BY <1>2 DEF CbWork, stream, NoCb
  <2> QED BY <2>1 DEF ImgsysInv, Works, NotifyInTime
<1>3. CASE Notify \/ NotifyFinish \/ CbPut
  <2>1. cb'.stage \notin {"notify", "notifyLast"}
    BY <1>3 DEF Notify, NotifyFinish, CbPut, NoCb, ImgsysInv, Types, HardwareTypes
  <2> QED BY <2>1 DEF NotifyInTime
<1>4. CASE StopBegin \/ Deinit \/ QueueDisable \/ ReleaseBuffers \/ ReturnAll
  <2>1. UNCHANGED cb /\ ~StreamOn
    BY <1>4 DEF StopBegin, Deinit, QueueDisable, ReleaseBuffers, ReturnAll, hardware, StreamOn
  <2>2. stop \notin {"on", "flush"} \/ stop' = "flush"
    BY <1>4 DEF StopBegin, Deinit, QueueDisable, ReleaseBuffers, ReturnAll
  <2> QED BY <1>a, <2>1, <2>2 DEF NotifyInTime
<1>5. CASE FlushEnd
  <2>1. UNCHANGED cb /\ ~StreamOn
    BY <1>5 DEF FlushEnd, hardware, StreamOn
  <2>2. ASSUME cb.stage \in {"notify", "notifyLast"} PROVE FALSE
    <3>1. cb # NoCb
      BY <2>2 DEF NoCb
    <3>2. numComposing = 0
      BY <1>5, <3>1 DEF FlushEnd, Flushed, Quiet
    <3>3. cb.group \in Groups /\ Complete(ReqOf[cb.group]) /\ ReqOf[cb.group] \in wbuf
      BY <2>2 DEF ImgsysInv, Notifying, Types, HardwareTypes
    <3>4. ReqOf[cb.group] \in Pending
      BY <1>0, <3>3, CompleteWorked DEF Pending, Sent, GroupsOf
    <3>5. IsFiniteSet(Pending) /\ Cardinality(Pending) \in Nat /\ Cardinality(Pending) # 0
      BY <1>0, <3>4, PendingFinite, FS_EmptySet
    <3> QED BY <1>a, <2>1, <3>2, <3>5 DEF ComposingCounted
  <2> QED BY <2>1, <2>2 DEF NotifyInTime
<1>6. CASE UNCHANGED <<cb, stop>>
  BY <1>1, <1>6, <1>a DEF NotifyInTime
<1>7. CASE (\E r \in Reqs : Queue(r)) \/ Composer \/ DaemonFetch \/ UNCHANGED vars
  BY <1>6, <1>7 DEF Queue, Composer, ComposerDown, ComposerSend, DaemonFetch, stream, hardware, vars
<1>8. CASE Handler \/ Runner \/ TimeoutWork \/ \E g \in Groups : TaskDone(g)
  BY <1>6, <1>8 DEF Handler, Announce, HandlerQueue, HandlerNoWork, Runner, RunnerTake, RunnerFlush,
     RunnerEnd, TimeoutWork, TaskDone, stream, hardware
<1> QED BY <1>1, <1>2, <1>3, <1>4, <1>5, <1>7, <1>8 DEF Next, CallBack, Stop

\* The groups that hold the GCE memory are finitely many.
LEMMA HeldFinite == IsFiniteSet(Held) /\ Cardinality(Held) \in Nat
<1>1. Held \subseteq Groups
  BY DEF Held
<1> QED BY <1>1, ImgsysAssumption, FS_Subset, FS_CardinalityType

\* A set that is part of a finite one, less or plus an element.
LEMMA SetSizes ==
  ASSUME NEW S, IsFiniteSet(S), Cardinality(S) \in Nat, NEW T, NEW x
  PROVE  /\ T \subseteq S => Cardinality(T) \in Nat /\ Cardinality(T) <= Cardinality(S)
         /\ T \subseteq S \cup {x} => Cardinality(T) \in Nat /\ Cardinality(T) <= Cardinality(S) + 1
         /\ x \in S /\ T \subseteq S \ {x} =>
              Cardinality(T) \in Nat /\ Cardinality(T) <= Cardinality(S) - 1
<1>1. ASSUME NEW U, IsFiniteSet(U), T \subseteq U
      PROVE  Cardinality(T) \in Nat /\ Cardinality(T) <= Cardinality(U)
  BY <1>1, FS_Subset, FS_CardinalityType
<1>2. T \subseteq S => Cardinality(T) \in Nat /\ Cardinality(T) <= Cardinality(S)
  BY <1>1
<1>3. ASSUME T \subseteq S \cup {x}
      PROVE  Cardinality(T) \in Nat /\ Cardinality(T) <= Cardinality(S) + 1
  <2>1. IsFiniteSet(S \cup {x})
        /\ Cardinality(S \cup {x}) = IF x \in S THEN Cardinality(S) ELSE Cardinality(S) + 1
    BY FS_AddElement
  <2>2. Cardinality(T) \in Nat /\ Cardinality(T) <= Cardinality(S \cup {x})
    BY <1>1, <1>3, <2>1
  <2> QED BY <2>1, <2>2
<1>4. ASSUME x \in S, T \subseteq S \ {x}
      PROVE  Cardinality(T) \in Nat /\ Cardinality(T) <= Cardinality(S) - 1
  <2>1. IsFiniteSet(S \ {x}) /\ Cardinality(S \ {x}) = Cardinality(S) - 1
    BY <1>4, FS_RemoveElement
  <2>2. Cardinality(T) \in Nat /\ Cardinality(T) <= Cardinality(S \ {x})
    BY <1>1, <1>4, <2>1
  <2> QED BY <2>1, <2>2
<1> QED BY <1>2, <1>3, <1>4

\* The runner and the command queue keep the count of the GCE memory.
LEMMA GceRunner ==
  ASSUME Types, Advance, CbOrder, Notifying, Works, GceCounted,
         (\E g \in Groups : HandlerQueue(g)) \/ Runner \/ TimeoutWork
           \/ (\E g \in Groups : TaskDone(g)) \/ CbWork \/ CbPut
  PROVE  GceCounted'
<1>0. /\ IsFiniteSet(Held) /\ Cardinality(Held) \in Nat /\ gceRef \in Int
      /\ group \in [Groups -> GroupStates] /\ mdpcbWq \in Seq(Groups) /\ Len(mdpcbWq) \in Nat
      /\ runQ \in Seq(Groups) /\ cb \in [group : Groups \cup {None}, stage : CbStages]
      /\ flushed \in [Groups -> Nat] /\ cbCnt \in [Groups -> Nat] /\ None \notin Groups
      /\ runner \in Groups \cup {None}
  <2>1. IsFiniteSet(Held) /\ Cardinality(Held) \in Nat /\ None \notin Groups
    BY HeldFinite, ImgsysAssumption
  <2>2. mdpcbWq \in Seq(Groups) /\ gceRef \in Int /\ runQ \in Seq(Groups)
        /\ runner \in Groups \cup {None} /\ flushed \in [Groups -> Nat]
        /\ group \in [Groups -> GroupStates]
    BY DEF Types, HandlingTypes, HardwareTypes, RunningTypes, CountTypes
  <2>3. cb \in [group : Groups \cup {None}, stage : CbStages] /\ cbCnt \in [Groups -> Nat]
    BY DEF Types, HardwareTypes
  <2>4. Len(mdpcbWq) \in Nat
    BY <2>2
  <2> QED BY <2>1, <2>2, <2>3, <2>4
<1>a. One(runner # None) \in {0, 1} /\ One(stop \notin {"return", "off"}) \in {0, 1}
  BY DEF One
<1>1. ASSUME NEW g \in Groups, HandlerQueue(g) PROVE GceCounted'
  <2>1. /\ gceRef' = gceRef + 1 /\ UNCHANGED <<runner, mdpcbWq, stop, cbCnt, cb, flushed>>
        /\ \/ group' = [group EXCEPT ![g] = "queued"]
           \/ group' = [group EXCEPT ![g] = "dropped"]
    BY <1>1 DEF HandlerQueue, OneMore, hardware, stream
  <2>2. Held' \subseteq Held \cup {g}
    BY <1>0, <2>1 DEF Held, LastTask
  <2>3. Cardinality(Held') \in Nat /\ Cardinality(Held') <= Cardinality(Held) + 1
    BY <1>0, <2>2, SetSizes
  <2> QED BY <1>0, <1>a, <2>1, <2>3 DEF GceCounted
<1>2. CASE RunnerTake
  <2> DEFINE h == Head(runQ)
  <2>1. /\ gceRef' = gceRef + 1 /\ UNCHANGED <<mdpcbWq, stop, cbCnt, cb, flushed>> /\ runner = None
        /\ group' = [group EXCEPT ![h] = "running"] /\ runQ # <<>>
    BY <1>2 DEF RunnerTake, hardware, stream
  <2>2. h \in Groups /\ In(h, runQ)
    BY <1>0, <2>1, ListSteps
  <2>3. group[h] = "queued"
    BY <2>2 DEF Advance
  <2> HIDE DEF h
  <2>4. Held' \subseteq Held
    BY <1>0, <2>1, <2>2, <2>3 DEF Held, LastTask
  <2>5. Cardinality(Held') \in Nat /\ Cardinality(Held') <= Cardinality(Held)
    BY <1>0, <2>4, SetSizes
  <2>6. One(runner # None) = 0 /\ One(runner' # None) \in {0, 1}
    BY <2>1 DEF One
  <2> QED BY <1>0, <1>a, <2>1, <2>5, <2>6 DEF GceCounted
<1>3. CASE RunnerFlush
  <2>1. /\ UNCHANGED <<gceRef, runner, mdpcbWq, stop, cbCnt, cb, group>> /\ runner \in Groups
        /\ flushed' = [flushed EXCEPT ![runner] = @ + 1]
    BY <1>0, <1>3 DEF RunnerFlush, handling, hardware, stream
  <2>2. group[runner] = "running"
    BY <1>0, <2>1 DEF Advance
  <2>3. Held' \subseteq Held
    BY <1>0, <2>1, <2>2 DEF Held, LastTask
  <2>4. Cardinality(Held') \in Nat /\ Cardinality(Held') <= Cardinality(Held)
    BY <1>0, <2>3, SetSizes
  <2> QED BY <1>0, <1>a, <2>1, <2>4 DEF GceCounted
<1>4. CASE RunnerEnd
  <2>1. /\ gceRef' = gceRef - 1 /\ UNCHANGED <<mdpcbWq, stop, cbCnt, cb, flushed>>
        /\ runner \in Groups /\ runner' = None
        /\ \/ group' = [group EXCEPT ![runner] = "hw"]
           \/ group' = [group EXCEPT ![runner] = "dropped"]
    BY <1>0, <1>4 DEF RunnerEnd, hardware, stream
  <2>2. group[runner] = "running"
    BY <1>0, <2>1 DEF Advance
  <2>3. Held' \subseteq Held
    BY <1>0, <2>1, <2>2 DEF Held, LastTask
  <2>4. Cardinality(Held') \in Nat /\ Cardinality(Held') <= Cardinality(Held)
    BY <1>0, <2>3, SetSizes
  <2>5. One(runner # None) = 1 /\ One(runner' # None) = 0
    BY <1>0, <2>1 DEF One
  <2> QED BY <1>0, <1>a, <2>1, <2>4, <2>5 DEF GceCounted
<1>5. CASE TimeoutWork
  <2>1. /\ mdpcbWq # <<>> /\ mdpcbWq' = Tail(mdpcbWq) /\ gceRef' = gceRef - 1
        /\ UNCHANGED <<runner, stop, cbCnt, cb, flushed, group>>
    BY <1>5 DEF TimeoutWork, handling, running, stream
  <2>2. Len(mdpcbWq') = Len(mdpcbWq) - 1
    BY <1>0, <2>1
  <2>3. Held' = Held
    BY <2>1 DEF Held, LastTask
  <2> QED BY <1>0, <1>a, <2>1, <2>2, <2>3 DEF GceCounted
<1>6. ASSUME NEW g \in Groups, TaskDone(g) PROVE GceCounted'
  <2>1. /\ UNCHANGED <<runner, stop, cbCnt, cb, flushed, group>>
        /\ \/ UNCHANGED <<mdpcbWq, gceRef>>
           \/ mdpcbWq' = Append(mdpcbWq, g) /\ gceRef' = gceRef + 1
    BY <1>6 DEF TaskDone, handling, running, stream
  <2>2. Len(Append(mdpcbWq, g)) = Len(mdpcbWq) + 1
    BY <1>0
  <2>3. Held' = Held
    BY <2>1 DEF Held, LastTask
  <2> QED BY <1>0, <1>a, <2>1, <2>2, <2>3 DEF GceCounted
<1>7. CASE CbWork
  <2>0. PICK g \in Groups, x \in Reqs : g = Head(cbWq).group /\ x = ReqOf[g]
    BY <1>7, CbWorkStep
  <2>1. /\ UNCHANGED <<runner, stop, gceRef, mdpcbWq, flushed, group>> /\ cb = NoCb
        /\ cbCnt[g] + 1 <= LastTask(g) /\ cbCnt' = [cbCnt EXCEPT ![g] = @ + 1]
    BY <1>7, <2>0, CbWorkStep DEF running, stream
  <2>2. (cbCnt[g] + 1 = LastTask(g) => cb'.group = g) /\ cb'.group \in {g, None}
    BY <1>7, <2>0, CbWorkStep DEF NoCb
  <2>3. flushed[g] > 0
    <3>1. cbWq # <<>>
      BY <1>7 DEF CbWork
    <3>2. Head(cbWq).task = cbCnt[g] + 1 /\ Head(cbWq).task <= done[g]
      BY <2>0, <3>1, HeadTask
    <3>3. cbCnt[g] \in Nat /\ done[g] \in Nat
      BY DEF Types, HardwareTypes
    <3>4. done[g] > 0
      BY <3>2, <3>3
    <3> QED BY <3>4, WorkedFor
  <2>4. LastTask(g) \in Nat /\ cbCnt[g] \in Nat
    BY <1>0, TaskTypes
  <2>5. g \in Held
    BY <2>1, <2>3, <2>4 DEF Held
  <2>6. Held' \subseteq Held
    <3> SUFFICES ASSUME NEW h \in Held' PROVE h \in Held
      OBVIOUS
    <3>1. /\ h \in Groups
          /\ group[h] \in {"queued", "running", "hw"} \/ flushed[h] > 0
          /\ cbCnt'[h] = LastTask(h) => cb'.group = h
      BY <2>1 DEF Held, LastTask
    <3>2. CASE h = g
      BY <2>5, <3>2
    <3>3. CASE h # g
      <4>1. cbCnt'[h] = cbCnt[h]
        BY <1>0, <2>1, <3>1, <3>3
      <4>2. cb'.group # h
        BY <1>0, <2>2, <3>1, <3>3
      <4> QED BY <3>1, <4>1, <4>2 DEF Held
    <3> QED BY <3>2, <3>3
  <2>7. Cardinality(Held') \in Nat /\ Cardinality(Held') <= Cardinality(Held)
    BY <1>0, <2>6, SetSizes
  <2> QED BY <1>0, <1>a, <2>1, <2>7 DEF GceCounted
<1>8. CASE CbPut
  <2>1. /\ UNCHANGED <<runner, stop, mdpcbWq, flushed, group, cbCnt>> /\ cb.stage = "put"
        /\ gceRef' = gceRef - 1 /\ cb' = NoCb
    BY <1>8 DEF CbPut, handling, running, stream
  <2>2. cb.group \in Groups /\ cbCnt[cb.group] = LastTask(cb.group)
    BY <1>0, <2>1 DEF Notifying
  <2>3. flushed[cb.group] > 0
    <3>1. cbCnt[cb.group] > 0
      BY <2>2, TaskTypes
    <3> QED BY <2>2, <3>1, WorkedFor
  <2>4. cb.group \in Held
    BY <2>2, <2>3 DEF Held
  <2>5. Held' \subseteq Held \ {cb.group}
    BY <1>0, <2>1, <2>2 DEF Held, LastTask, NoCb
  <2>6. Cardinality(Held') \in Nat /\ Cardinality(Held') <= Cardinality(Held) - 1
    BY <1>0, <2>4, <2>5, SetSizes
  <2> QED BY <1>0, <1>a, <2>1, <2>6 DEF GceCounted
<1> QED BY <1>1, <1>2, <1>3, <1>4, <1>5, <1>6, <1>7, <1>8 DEF Runner

\* User space, STREAMOFF, the composer, the daemon and the notifying keep the
\* count of the GCE memory.
LEMMA GceOthers ==
  ASSUME ImgsysInv, session' <= 1,
         \/ StreamOn \/ StopBegin \/ Stop \/ (\E r \in Reqs : Queue(r)) \/ Composer \/ DaemonFetch
         \/ (\E g \in Groups : Announce(g) \/ HandlerNoWork(g)) \/ Notify \/ NotifyFinish
         \/ UNCHANGED vars,
         StreamOn \/ session <= 1
  PROVE  GceCounted'
<1>0. /\ Types /\ Journey /\ Advance /\ Notifying /\ Works /\ (~StreamOn => GceCounted)
      /\ IsFiniteSet(Held) /\ Cardinality(Held) \in Nat
  BY HeldFinite DEF ImgsysInv, FirstStream
<1>1. /\ group \in [Groups -> GroupStates] /\ None \notin Groups /\ chan \in Seq(Reqs)
      /\ mdpcbWq \in Seq(Groups) /\ Len(mdpcbWq) \in Nat /\ gceRef \in Int
      /\ cb \in [group : Groups \cup {None}, stage : CbStages]
  <2>1. group \in [Groups -> GroupStates] /\ None \notin Groups /\ chan \in Seq(Reqs)
    BY <1>0, ImgsysAssumption DEF Types, HandlingTypes, ComposeTypes
  <2>2. mdpcbWq \in Seq(Groups) /\ gceRef \in Int
        /\ cb \in [group : Groups \cup {None}, stage : CbStages]
    BY <1>0 DEF Types, HardwareTypes, CountTypes
  <2>3. Len(mdpcbWq) \in Nat
    BY <2>2
  <2> QED BY <2>1, <2>2, <2>3
<1>a. One(runner # None) \in {0, 1} /\ One(stop \notin {"return", "off"}) \in {0, 1}
  BY DEF One
<1>b. ASSUME ~StreamOn, Held' \subseteq Held, UNCHANGED <<gceRef, runner, mdpcbWq>>,
             (stop' \in {"return", "off"}) <=> (stop \in {"return", "off"})
      PROVE  GceCounted'
  <2>1. Cardinality(Held') \in Nat /\ Cardinality(Held') <= Cardinality(Held)
    BY <1>0, <1>b, SetSizes
  <2>2. One(stop' \notin {"return", "off"}) = One(stop \notin {"return", "off"})
    BY <1>b DEF One
  <2> QED BY <1>0, <1>1, <1>a, <1>b, <2>1, <2>2 DEF GceCounted
<1>c. ASSUME \A g \in Groups : group'[g] \in {"queued", "running", "hw"} => group'[g] = group[g],
             UNCHANGED <<flushed, cbCnt, cb>>
      PROVE  Held' \subseteq Held
  BY <1>c DEF Held, LastTask
<1>2. CASE StreamOn
  <2>1. /\ gceRef' = 1 /\ runner' = None /\ mdpcbWq' = <<>>
        /\ \A g \in Groups : group'[g] = "idle" /\ flushed'[g] = 0
    BY <1>2, FirstStart
  <2>2. Held' = {}
    BY <2>1 DEF Held
  <2>3. Cardinality(Held') = 0 /\ Len(mdpcbWq') = 0 /\ One(runner' # None) = 0
        /\ One(stop' \notin {"return", "off"}) \in {0, 1}
    BY <2>1, <2>2, FS_EmptySet DEF One
  <2> QED BY <2>1, <2>3 DEF GceCounted
<1>3. CASE (\E r \in Reqs : Queue(r)) \/ Composer \/ UNCHANGED vars
  <2>1. UNCHANGED <<group, flushed, cbCnt, cb, gceRef, runner, mdpcbWq, stop>>
    BY <1>3 DEF Queue, Composer, ComposerDown, ComposerSend, vars, handling, running, hardware, stream
  <2> QED BY <1>2, <1>b, <1>c, <2>1
<1>4. CASE DaemonFetch
  <2>1. UNCHANGED <<flushed, cbCnt, cb, gceRef, runner, mdpcbWq, stop>>
        /\ \A g \in Groups : group'[g] = "daemon" \/ group'[g] = group[g]
    BY <1>4 DEF DaemonFetch, running, hardware, stream
  <2>2. \A g \in Groups : group'[g] \in {"queued", "running", "hw"} => group'[g] = group[g]
    BY <2>1
  <2> QED BY <1>2, <1>b, <1>c, <2>1, <2>2
<1>5. ASSUME NEW g \in Groups, Announce(g) \/ HandlerNoWork(g) PROVE GceCounted'
  <2>1. /\ UNCHANGED <<flushed, cbCnt, cb, gceRef, runner, mdpcbWq, stop>>
        /\ \/ group' = [group EXCEPT ![g] = "handler"]
           \/ group' = [group EXCEPT ![g] = "dropped"]
    BY <1>5 DEF Announce, HandlerNoWork, running, hardware, stream
  <2>2. \A h \in Groups : group'[h] \in {"queued", "running", "hw"} => group'[h] = group[h]
    BY <1>1, <2>1
  <2> QED BY <1>2, <1>b, <1>c, <2>1, <2>2
<1>6. CASE StopBegin \/ FlushEnd \/ QueueDisable \/ ReturnAll
  <2>1. UNCHANGED <<group, flushed, cbCnt, cb, gceRef, runner, mdpcbWq>>
    BY <1>6 DEF StopBegin, FlushEnd, QueueDisable, ReturnAll, handling, running, hardware
  <2>2. (stop' \in {"return", "off"}) <=> (stop \in {"return", "off"})
    BY <1>6 DEF StopBegin, FlushEnd, QueueDisable, ReturnAll
  <2> QED BY <1>2, <1>b, <1>c, <2>1, <2>2
<1>7. CASE Deinit
  <2>1. UNCHANGED <<flushed, cbCnt, cb, gceRef, runner, mdpcbWq>> /\ stop = "deinit" /\ stop' = "disable"
        /\ \A g \in Groups : group'[g] = "dropped" \/ group'[g] = group[g]
    BY <1>7 DEF Deinit, running, hardware
  <2>2. \A g \in Groups : group'[g] \in {"queued", "running", "hw"} => group'[g] = group[g]
    BY <2>1
  <2> QED BY <1>2, <1>b, <1>c, <2>1, <2>2
<1>8. CASE ReleaseBuffers
  <2>1. /\ UNCHANGED <<group, flushed, cbCnt, cb, runner, mdpcbWq>> /\ gceRef' = gceRef - 1
        /\ stop = "join" /\ stop' = "return"
    BY <1>8 DEF ReleaseBuffers, handling, running, hardware
  <2>2. Cardinality(Held') \in Nat /\ Cardinality(Held') <= Cardinality(Held)
    BY <1>0, <1>c, <2>1, SetSizes
  <2>3. One(stop \notin {"return", "off"}) = 1 /\ One(stop' \notin {"return", "off"}) = 0
    BY <2>1 DEF One
  <2>4. GceCounted
    BY <1>0, <2>1 DEF StreamOn
  <2> QED BY <1>1, <1>0, <1>a, <2>1, <2>2, <2>3, <2>4 DEF GceCounted
<1>9. CASE Notify \/ NotifyFinish
  <2>1. /\ UNCHANGED <<group, flushed, cbCnt, gceRef, runner, mdpcbWq, stop>>
        /\ cb'.group = cb.group \/ cb'.group = None
    BY <1>1, <1>9 DEF Notify, NotifyFinish, NoCb, handling, running, stream
  <2>2. Held' \subseteq Held
    BY <1>1, <2>1 DEF Held, LastTask
  <2> QED BY <1>2, <1>b, <2>1, <2>2
<1> QED BY <1>2, <1>3, <1>4, <1>5, <1>6, <1>7, <1>8, <1>9 DEF Stop

\* A step keeps what is said of the first stream.
LEMMA FirstStreamStep ==
  ASSUME ImgsysInv, [Next]_vars, Types' PROVE FirstStream'
<1>1. /\ session' = 0 => stop' = "off" /\ \A r \in Reqs : bufs'[r] = "user"
      /\ session' <= 1 => BornHere'
  BY BornStep
<1>2. ASSUME session' <= 1
      PROVE  /\ BufsCounted' /\ ComposingCounted' /\ Unreturned' /\ NotifyInTime' /\ GceCounted'
  <2>1. StreamOn \/ session <= 1
    BY <1>2, SessionGrows DEF ImgsysInv
  <2>2. BufsCounted' /\ ComposingCounted' /\ Unreturned' /\ NotifyInTime'
    BY <1>2, BufsCountedStep, ComposingStep, UnreturnedStep, NotifyInTimeStep
  <2>3. GceCounted'
    <3>1. CASE StreamOn
      BY <1>2, <3>1, GceOthers
    <3>2. CASE session <= 1
      <4>1. Types /\ Advance /\ CbOrder /\ Notifying /\ Works /\ GceCounted
        BY <3>2 DEF ImgsysInv, FirstStream
      <4> QED BY <1>2, <2>1, <4>1, GceOthers, GceRunner DEF Next, Handler, CallBack
    <3> QED BY <2>1, <3>1, <3>2
  <2> QED BY <2>2, <2>3
<1> QED BY <1>1, <1>2 DEF FirstStream

-----------------------------------------------------------------------------
(* The theorems.                                                           *)

\* The inductive invariant holds when the driver starts.
LEMMA InvInit == ASSUME Init PROVE ImgsysInv
<1>1. Types
  BY TypesInit
<1>2. /\ session = 0 /\ stop = "off" /\ enqueueWq = <<>> /\ chan = <<>> /\ composer = "idle"
      /\ wbuf = {} /\ freeBufs = NBufs /\ numComposing = 0 /\ handler = None /\ freeWorks = 0
      /\ runQ = <<>> /\ runner = None /\ cbWq = <<>> /\ mdpcbWq = <<>> /\ gceRef = 0
    BY DEF Init
<1>3. \A r \in Reqs : bufs[r] = "user" /\ record[r] = None /\ born[r] = 0
  BY DEF Init
<1>4. \A g \in Groups : group[g] = "idle" /\ flushed[g] = 0 /\ done[g] = 0 /\ cbCnt[g] = 0
  BY DEF Init
<1>5. cb.group = None /\ cb.stage = "none"
  BY DEF Init, NoCb
<1>6. Journey
  BY <1>2, <1>3, <1>4, EmptyList DEF Journey
<1>7. Together
  BY <1>4 DEF Together
<1>8. Advance
  <2>1. \A g \in Groups : LastTask(g) \in Nat /\ g # None
    BY TaskTypes, ImgsysAssumption
  <2> QED BY <1>2, <1>4, <2>1, EmptyList DEF Advance
<1>9. CbOrder
  <2>1. Len(cbWq) = 0
    BY <1>2
  <2> QED BY <1>4, <2>1 DEF CbOrder
<1>10. Record
  BY <1>3 DEF Record
<1>11. Notifying
  BY <1>3, <1>5 DEF Notifying
<1>12. Works
  <2>1. Len(runQ) = 0 /\ One(runner # None) = 0 /\ NWorks \in Nat
    BY <1>2, ImgsysAssumption DEF One
  <2>2. enabled = FALSE /\ streaming = FALSE
    BY DEF Init
  <2> QED BY <1>2, <2>1, <2>2 DEF Works
<1>13. FirstStream
  <2>1. Pending = {} /\ Held = {}
    BY <1>2, <1>4 DEF Pending, Held
  <2>2. Cardinality(Pending) = 0 /\ Cardinality(Held) = 0 /\ Cardinality(wbuf) = 0
        /\ Len(mdpcbWq) = 0 /\ NBufs \in Nat
    BY <1>2, <2>1, FS_EmptySet, ImgsysAssumption
  <2>3. One(runner # None) = 0 /\ One(stop \notin {"return", "off"}) = 0
    BY <1>2 DEF One
  <2>4. BufsCounted /\ ComposingCounted /\ GceCounted
    BY <1>2, <2>2, <2>3 DEF BufsCounted, ComposingCounted, GceCounted
  <2>5. BornHere /\ Unreturned /\ NotifyInTime
    BY <1>2, <1>3, <1>5 DEF BornHere, Unreturned, NotifyInTime
  <2> QED BY <1>2, <1>3, <2>4, <2>5 DEF FirstStream
<1> QED BY <1>1, <1>6, <1>7, <1>8, <1>9, <1>10, <1>11, <1>12, <1>13 DEF ImgsysInv

\* The inductive invariant is kept by every step.
LEMMA InvStep == ASSUME ImgsysInv, [Next]_vars PROVE ImgsysInv'
<1>1. Types /\ Journey /\ Together /\ Advance /\ CbOrder /\ Record /\ Notifying /\ Works
  BY DEF ImgsysInv
<1>2. Types'
  BY <1>1, TypesStep
<1>3. Journey' /\ Together' /\ Advance' /\ CbOrder'
  BY <1>1, JourneyStep, TogetherStep, AdvanceStep, CbOrderStep
<1>4. Record' /\ Works'
  BY <1>1, RecordStep, WorksStep
<1>5. Notifying'
  BY <1>1, <1>2, <1>3, <1>4, NotifyingStep
<1>6. FirstStream'
  BY <1>2, FirstStreamStep
<1> QED BY <1>2, <1>3, <1>4, <1>5, <1>6 DEF ImgsysInv

\* A request travels once through the composer, the daemon, the runner and the
\* hardware, in every stream; the pools and the GCE memory are counted in the
\* first one.
THEOREM ImgsysInvariant == Spec => []ImgsysInv
  BY InvInit, InvStep, PTL DEF Spec

\* The buffers of a request are reported done only when the hardware has
\* finished every task of every group of it, however the call-backs of the
\* groups mix, whatever fails and however often the stream is stopped and
\* started.
THEOREM DoneAfterAllTasks == Spec => []DoneIsComplete
<1>1. ImgsysInv => DoneIsComplete
  BY DEF ImgsysInv, Notifying, DoneIsComplete, Complete
<1> QED BY <1>1, ImgsysInvariant, PTL

\* Until the stream is started again no pool is overdrawn and no reference of
\* the GCE memory is put that was not taken.
THEOREM FirstStreamTypes == Spec => [](session <= 1 => TypeOK)
<1>1. ASSUME ImgsysInv, session <= 1 PROVE TypeOK
  <2>1. Types /\ Works /\ BufsCounted /\ GceCounted
    BY <1>1 DEF ImgsysInv, FirstStream
  <2>2. freeBufs \in 0 .. NBufs
    <3>1. IsFiniteSet(wbuf) /\ freeBufs \in Nat /\ NBufs \in Nat
      BY <2>1, ImgsysAssumption, FS_Subset DEF Types, RequestTypes
    <3>2. Cardinality(wbuf) \in Nat
      BY <3>1, FS_CardinalityType
    <3>3. freeBufs <= NBufs
      BY <2>1, <3>1, <3>2 DEF BufsCounted
    <3> QED BY <3>1, <3>3
  <2>3. freeWorks \in 0 .. NWorks
    <3>1. freeWorks \in Nat /\ Len(runQ) \in Nat /\ One(runner # None) \in {0, 1} /\ NWorks \in Nat
      BY <2>1, ImgsysAssumption DEF Types, RunningTypes, One
    <3> QED BY <2>1, <3>1 DEF Works
  <2>4. gceRef \in Nat
    <3>1. gceRef \in Int /\ Len(mdpcbWq) \in Nat /\ One(runner # None) \in {0, 1}
          /\ One(stop \notin {"return", "off"}) \in {0, 1} /\ Cardinality(Held) \in Nat
      BY <2>1, HeldFinite DEF Types, CountTypes, HardwareTypes, One
    <3> QED BY <2>1, <3>1 DEF GceCounted
  <2> QED BY <2>1, <2>2, <2>3, <2>4 DEF TypeOK, Types, StreamTypes, RequestTypes, ComposeTypes,
          HandlingTypes, RunningTypes, HardwareTypes, CountTypes
<1> QED BY <1>1, ImgsysInvariant, PTL

\* Until the stream is started again the GCE memory is not released while a
\* group is with the runner, the hardware or a call-back.
THEOREM GceHeldInFirstStream == Spec => [](session <= 1 => GceMemoryHeld)
<1>1. ASSUME ImgsysInv, session <= 1 PROVE GceMemoryHeld
  <2> SUFFICES ASSUME NEW g \in Groups, UsesGce(g) PROVE gceRef > 0
    BY DEF GceMemoryHeld
  <2>1. Types /\ Advance /\ CbOrder /\ Notifying /\ GceCounted
    BY <1>1 DEF ImgsysInv, FirstStream
  <2>2. gceRef \in Int /\ Len(mdpcbWq) \in Nat /\ One(runner # None) \in {0, 1}
        /\ One(stop \notin {"return", "off"}) \in {0, 1} /\ Cardinality(Held) \in Nat
    BY <2>1, HeldFinite DEF Types, CountTypes, HardwareTypes, One
  <2>3. cbCnt[g] \in Nat /\ done[g] \in Nat /\ flushed[g] \in Nat /\ LastTask(g) \in Nat \ {0}
        /\ cbCnt[g] <= done[g] /\ done[g] <= flushed[g] /\ flushed[g] <= LastTask(g)
    BY <2>1, TaskTypes DEF Types, HardwareTypes, RunningTypes, Advance
  <2>4. CASE g \in Held
    <3>1. Cardinality(Held) # 0
      BY <2>4, HeldFinite, FS_EmptySet
    <3> QED BY <2>1, <2>2, <3>1 DEF GceCounted
  <2>5. CASE runner = g
    <3>1. One(runner # None) = 1
      BY <2>5, ImgsysAssumption DEF One
    <3> QED BY <2>1, <2>2, <3>1 DEF GceCounted
  <2>6. CASE group[g] \in {"queued", "running"}
    <3>1. CASE group[g] = "running"
      BY <2>1, <2>5, <3>1 DEF Advance
    <3>2. CASE group[g] = "queued"
      <4>1. flushed[g] = 0
        BY <2>1, <3>2 DEF Advance
      <4>2. cbCnt[g] # LastTask(g)
        BY <2>3, <4>1
      <4> QED BY <2>4, <3>2, <4>2 DEF Held
    <3> QED BY <2>6, <3>1, <3>2
  <2>7. CASE done[g] < flushed[g]
    <3>1. flushed[g] > 0 /\ cbCnt[g] # LastTask(g)
      BY <2>3, <2>7
    <3> QED BY <2>4, <3>1 DEF Held
  <2>8. CASE cb.group = g
    <3>1. cbCnt[g] = LastTask(g)
      BY <2>1, <2>8, ImgsysAssumption DEF Notifying
    <3>2. flushed[g] > 0
      BY <2>3, <3>1
    <3> QED BY <2>4, <2>8, <3>2 DEF Held
  <2>9. CASE \E i \in DOMAIN cbWq : cbWq[i].group = g
    <3>1. PICK i \in DOMAIN cbWq : cbWq[i].group = g
      BY <2>9
    <3>2. i \in 1 .. Len(cbWq) /\ cbWq[i].task \in Nat
      <4> DEFINE T == [group : Groups, task : Nat]
      <4>1. cbWq \in Seq(T) /\ \A u \in T : u.task \in Nat
        BY <2>1 DEF Types, HardwareTypes
      <4> HIDE DEF T
      <4>2. i \in 1 .. Len(cbWq) /\ cbWq[i] \in T
        BY <3>1, <4>1
      <4> QED BY <4>1, <4>2
    <3>3. cbCnt[g] < cbWq[i].task /\ cbWq[i].task <= done[g]
      BY <2>1, <3>1, <3>2 DEF CbOrder
    <3>4. flushed[g] > 0 /\ cbCnt[g] # LastTask(g)
      <4> DEFINE k == cbWq[i].task
      <4>1. k \in Nat /\ cbCnt[g] < k /\ k <= done[g]
        BY <3>2, <3>3
      <4> HIDE DEF k
      <4> QED BY <2>3, <4>1
    <3> QED BY <2>4, <3>4 DEF Held
  <2>10. CASE \E i \in DOMAIN mdpcbWq : mdpcbWq[i] = g
    <3>1. mdpcbWq \in Seq(Groups)
      BY <2>1 DEF Types, HardwareTypes
    <3>2. Len(mdpcbWq) > 0
      BY <2>10, <3>1
    <3> QED BY <2>1, <2>2, <3>2 DEF GceCounted
  <2> QED BY <2>6, <2>7, <2>8, <2>9, <2>10 DEF UsesGce
<1> QED BY <1>1, ImgsysInvariant, PTL

\* Until the stream is started again a request that is notified was queued in
\* this stream, and STREAMOFF has not returned it yet.
THEOREM NotifiedInFirstStream == Spec => [](session <= 1 => NotifiedIsRunning)
<1>1. ASSUME ImgsysInv, session <= 1 PROVE NotifiedIsRunning
  <2> SUFFICES ASSUME cb.stage \in {"notify", "notifyLast"}
               PROVE  born[ReqOf[cb.group]] = session /\ bufs[ReqOf[cb.group]] = "driver"
    BY DEF NotifiedIsRunning
  <2>1. cb.group \in Groups /\ ReqOf[cb.group] \in wbuf
    BY <1>1 DEF ImgsysInv, Notifying, Types, HardwareTypes
  <2>2. ReqOf[cb.group] \in Reqs
    BY <2>1, TaskTypes
  <2>3. stop \in {"on", "flush"}
    BY <1>1 DEF ImgsysInv, FirstStream, NotifyInTime
  <2>4. bufs[ReqOf[cb.group]] = "driver"
    BY <1>1, <2>1, <2>3 DEF ImgsysInv, FirstStream, Unreturned
  <2>5. born[ReqOf[cb.group]] = session
    BY <1>1, <2>2, <2>4 DEF ImgsysInv, FirstStream, BornHere
  <2> QED BY <2>4, <2>5
<1> QED BY <1>1, ImgsysInvariant, PTL

=============================================================================
