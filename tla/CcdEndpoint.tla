---------------------------- MODULE CcdEndpoint ----------------------------
(***************************************************************************)
(* One endpoint of the CCD rpmsg bus (drivers/rpmsg/mtk_ccd_rpmsg*.c): the  *)
(* queue through which a kernel client (the camera driver) sends commands  *)
(* to the user-space worker, the worker's blocking read, its write-back    *)
(* into the client's callback, and the destruction of the endpoint, which  *)
(* may run at any point of the others.                                     *)
(*                                                                         *)
(* Every thread has a program counter; a step is one critical section or   *)
(* one atomic_t access of the code.  Sequential consistency is assumed.    *)
(***************************************************************************)
EXTENDS Integers, Sequences, FiniteSets

CONSTANTS
  Readers,   \* worker threads that call IOCTL_CCD_WORKER_READ
  Writers,   \* worker threads that call IOCTL_CCD_WORKER_WRITE
  Senders,   \* kernel threads that call rpmsg_send on the endpoint
  MaxSend    \* bound of the model: messages sent in a behaviour

ASSUME ConstantsAssumption ==
  /\ MaxSend \in Nat
  /\ IsFiniteSet(Readers \cup Writers)
  /\ Readers \cap Writers = {}

VARIABLES
  quiesced,  \* who will destroy the endpoint: the client, when it has stopped
             \* sending, or (FALSE) the daemon's exit, under the client
  listed,    \* endpoints (the idr) maps the address to the device
  ept,       \* rpdev.ept: the client has created its endpoint
  mepState,  \* ccd_mep_state
  queue,     \* pending_sendq.queue, guarded by queue_lock
  cmdSent,   \* ccd_cmd_sent
  readRdy,   \* worker_read_rdy
  asleep,    \* readers blocked on worker_readwq
  refs,      \* ept.refcount; 0 once __ept_release ran
  rpc,       \* where each reader is in ccd_worker_read
  wpc,       \* where each writer is in ccd_worker_write
  spc,       \* where each sender is in rpmsg_ccd_ipi_send
  dpc,       \* where the destroying thread is in mtk_rpmsg_destroy_ept
  oops,      \* a list entry was taken from an empty queue, or freed memory
             \* was used: the kernel is in undefined behaviour and stops
  nSent,     \* history: messages sent; message k is the k-th one queued
  left       \* history: the messages that left the queue, oldest first

threads == <<rpc, wpc, spc, dpc>>
mailbox == <<mepState, queue, cmdSent, readRdy, asleep>>
life    == <<quiesced, listed, ept, refs>>
history == <<nSent, left>>
vars == <<threads, mailbox, life, history, oops>>

ReadPc  == {"idle", "entry", "count", "arm", "wait", "disarm", "abort",
            "recheck", "pop", "put"}
WritePc == {"idle", "entry", "call", "put"}
SendPc  == {"idle", "wake"}
DestroyPc == {"idle", "wake", "loop", "pop", "call", "unlist", "put", "done"}

\* Threads that hold a reference they took in their lookup.
Holders == {r \in Readers : rpc[r] # "idle"} \cup {w \in Writers : wpc[w] # "idle"}

Init ==
  /\ quiesced \in BOOLEAN
  /\ listed = TRUE /\ ept = FALSE /\ refs = 0
  /\ mepState = "CREATED" /\ queue = <<>> /\ cmdSent = 0
  /\ readRdy = 0 /\ asleep = {}
  /\ rpc = [r \in Readers |-> "idle"]
  /\ wpc = [w \in Writers |-> "idle"]
  /\ spc = [s \in Senders |-> "idle"]
  /\ dpc = "idle"
  /\ oops = FALSE /\ nSent = 0 /\ left = <<>>

-----------------------------------------------------------------------------
(* An operator marked "fault" is a plausible error in the code that the one *)
(* below it models: the properties are tested against it.                  *)

\* kref_get and kref_put.
RefForgotten == refs                                                   \* fault
RefTaken == refs + 1
RefLeaked == refs                                                      \* fault
RefDropped == refs - 1

\* list_add_tail.
QueuedAtHead(m) == <<m>> \o queue                                      \* fault
Queued(m) == Append(queue, m)

\* A wake-up is issued only if some reader has announced that it waits.
WakesNobody == UNCHANGED asleep                                        \* fault
WakeReaders == asleep' = IF readRdy = 1 THEN {} ELSE asleep

\* What the drain of a dying endpoint tests.
DrainOffByOne == cmdSent > 1                                           \* fault
MoreToDrain == cmdSent > 0

\* What a reader waits for.
WaitsForMessage == cmdSent > 0                                         \* fault
ReadCondition == cmdSent > 0 \/ mepState # "CREATED"

-----------------------------------------------------------------------------
(* The client: creation of the endpoint and sending.                       *)

\* __rpmsg_create_ept; the device was listed before it had an endpoint.
CreateEpt ==
  /\ ~ept /\ dpc = "idle"
  /\ ept' = TRUE /\ refs' = 1
  /\ UNCHANGED <<quiesced, listed, threads, mailbox, history, oops>>

\* Sending stops before the client's own destruction, not before the daemon's.
MaySend == ept /\ (quiesced => dpc = "idle")

\* The critical section of rpmsg_ccd_ipi_send. mep_state is not consulted.
Send(s) ==
  /\ spc[s] = "idle" /\ MaySend /\ nSent < MaxSend /\ refs > 0
  /\ nSent' = nSent + 1
  /\ queue' = Queued(nSent + 1)
  /\ cmdSent' = cmdSent + 1
  /\ spc' = [spc EXCEPT ![s] = "wake"]
  /\ UNCHANGED <<rpc, wpc, dpc, mepState, readRdy, asleep, life, left, oops>>

SendWake(s) ==
  /\ spc[s] = "wake" /\ refs > 0
  /\ WakeReaders
  /\ spc' = [spc EXCEPT ![s] = "idle"]
  /\ UNCHANGED <<rpc, wpc, dpc, mepState, queue, cmdSent, readRdy, life, history, oops>>

\* The sender still needs an endpoint that has been released under it.
SendFreed(s) ==
  /\ refs = 0
  /\ spc[s] = "wake" \/ (spc[s] = "idle" /\ MaySend /\ nSent < MaxSend)
  /\ oops' = TRUE
  /\ UNCHANGED <<threads, mailbox, life, history>>

-----------------------------------------------------------------------------
(* ccd_worker_read.                                                        *)

ReadGoto(r, to) == rpc' = [rpc EXCEPT ![r] = to]

\* Under endpoints_lock. A missing device or endpoint returns at once.
ReadLookup(r) ==
  /\ rpc[r] = "idle" /\ listed /\ ept
  /\ refs' = RefTaken
  /\ ReadGoto(r, "entry")
  /\ UNCHANGED <<wpc, spc, dpc, mailbox, quiesced, listed, ept, history, oops>>

ReadCheck(r) ==
  /\ rpc[r] = "entry"
  /\ ReadGoto(r, IF mepState = "DESTROY" THEN "put" ELSE "count")
  /\ UNCHANGED <<wpc, spc, dpc, mailbox, life, history, oops>>

ReadCount(r) ==
  /\ rpc[r] = "count"
  /\ ReadGoto(r, IF cmdSent = 0 THEN "arm" ELSE "recheck")
  /\ UNCHANGED <<wpc, spc, dpc, mailbox, life, history, oops>>

ReadArm(r) ==
  /\ rpc[r] = "arm"
  /\ readRdy' = 1
  /\ ReadGoto(r, "wait")
  /\ UNCHANGED <<wpc, spc, dpc, mepState, queue, cmdSent, asleep, life, history, oops>>

\* wait_event_interruptible queues the thread before it tests the condition,
\* so testing it and falling asleep are one step.
ReadWait(r) ==
  /\ rpc[r] = "wait" /\ r \notin asleep
  /\ IF ReadCondition
     THEN ReadGoto(r, "disarm") /\ UNCHANGED asleep
     ELSE asleep' = asleep \cup {r} /\ UNCHANGED rpc
  /\ UNCHANGED <<wpc, spc, dpc, mepState, queue, cmdSent, readRdy, life, history, oops>>

\* A signal ends the wait.
ReadInterrupted(r) ==
  /\ rpc[r] = "wait" /\ r \in asleep
  /\ asleep' = asleep \ {r}
  /\ ReadGoto(r, "abort")
  /\ UNCHANGED <<wpc, spc, dpc, mepState, queue, cmdSent, readRdy, life, history, oops>>

ReadDisarm(r) ==
  /\ rpc[r] \in {"disarm", "abort"}
  /\ readRdy' = 0
  /\ ReadGoto(r, IF rpc[r] = "abort" THEN "put" ELSE "recheck")
  /\ UNCHANGED <<wpc, spc, dpc, mepState, queue, cmdSent, asleep, life, history, oops>>

ReadRecheck(r) ==
  /\ rpc[r] = "recheck"
  /\ ReadGoto(r, IF mepState = "DESTROY" THEN "put" ELSE "pop")
  /\ UNCHANGED <<wpc, spc, dpc, mailbox, life, history, oops>>

\* list_first_entry, list_del, atomic_dec under queue_lock: the queue is not
\* tested again here, and deleting from an empty one is undefined.
TakeFirst ==
  /\ cmdSent' = cmdSent - 1
  /\ IF queue = <<>>
     THEN oops' = TRUE /\ UNCHANGED <<queue, left>>
     ELSE /\ queue' = Tail(queue)
          /\ left' = Append(left, Head(queue))
          /\ UNCHANGED oops
  /\ UNCHANGED nSent

ReadPop(r) ==
  /\ rpc[r] = "pop"
  /\ TakeFirst
  /\ ReadGoto(r, "put")
  /\ UNCHANGED <<wpc, spc, dpc, mepState, readRdy, asleep, life>>

ReadPut(r) ==
  /\ rpc[r] = "put"
  /\ refs' = RefDropped
  /\ ReadGoto(r, "idle")
  /\ UNCHANGED <<wpc, spc, dpc, mailbox, quiesced, listed, ept, history, oops>>

Read(r) ==
  \/ ReadLookup(r) \/ ReadCheck(r) \/ ReadCount(r) \/ ReadArm(r) \/ ReadWait(r)
  \/ ReadInterrupted(r) \/ ReadDisarm(r) \/ ReadRecheck(r) \/ ReadPop(r)
  \/ ReadPut(r)

\* The steps of a read that the scheduler owes the thread: all but starting
\* another one and being interrupted.
ReadStep(r) ==
  \/ ReadCheck(r) \/ ReadCount(r) \/ ReadArm(r) \/ ReadWait(r) \/ ReadDisarm(r)
  \/ ReadRecheck(r) \/ ReadPop(r) \/ ReadPut(r)

-----------------------------------------------------------------------------
(* ccd_worker_write.                                                       *)

WriteGoto(w, to) == wpc' = [wpc EXCEPT ![w] = to]

WriteLookup(w) ==
  /\ wpc[w] = "idle" /\ listed /\ ept
  /\ refs' = RefTaken
  /\ WriteGoto(w, "entry")
  /\ UNCHANGED <<rpc, spc, dpc, mailbox, quiesced, listed, ept, history, oops>>

WriteCheck(w) ==
  /\ wpc[w] = "entry"
  /\ WriteGoto(w, IF mepState = "DESTROY" THEN "put" ELSE "call")
  /\ UNCHANGED <<rpc, spc, dpc, mailbox, life, history, oops>>

\* The client's callback runs under cb_lock, as the drain's does.
WriteCall(w) ==
  /\ wpc[w] = "call"
  /\ WriteGoto(w, "put")
  /\ UNCHANGED <<rpc, spc, dpc, mailbox, life, history, oops>>

WritePut(w) ==
  /\ wpc[w] = "put"
  /\ refs' = RefDropped
  /\ WriteGoto(w, "idle")
  /\ UNCHANGED <<rpc, spc, dpc, mailbox, quiesced, listed, ept, history, oops>>

WriteStep(w) == WriteCheck(w) \/ WriteCall(w) \/ WritePut(w)

-----------------------------------------------------------------------------
(* mtk_rpmsg_destroy_ept.                                                  *)

DestroyBegin ==
  /\ dpc = "idle" /\ ept
  /\ quiesced => \A s \in Senders : spc[s] = "idle"
  /\ mepState' = "DESTROY"
  /\ dpc' = "wake"
  /\ UNCHANGED <<rpc, wpc, spc, queue, cmdSent, readRdy, asleep, life, history, oops>>

DestroyWake ==
  /\ dpc = "wake"
  /\ WakeReaders
  /\ dpc' = "loop"
  /\ UNCHANGED <<rpc, wpc, spc, mepState, queue, cmdSent, readRdy, life, history, oops>>

DestroyLoop ==
  /\ dpc = "loop"
  /\ dpc' = IF MoreToDrain THEN "pop" ELSE "unlist"
  /\ UNCHANGED <<rpc, wpc, spc, mailbox, life, history, oops>>

DestroyPop ==
  /\ dpc = "pop"
  /\ TakeFirst
  /\ dpc' = "call"
  /\ UNCHANGED <<rpc, wpc, spc, mepState, readRdy, asleep, life>>

\* The message is handed back through the client's callback.
DestroyCall ==
  /\ dpc = "call"
  /\ dpc' = "loop"
  /\ UNCHANGED <<rpc, wpc, spc, mailbox, life, history, oops>>

DestroyUnlist ==
  /\ dpc = "unlist"
  /\ listed' = FALSE
  /\ dpc' = "put"
  /\ UNCHANGED <<rpc, wpc, spc, mailbox, quiesced, ept, refs, history, oops>>

DestroyPut ==
  /\ dpc = "put"
  /\ refs' = RefDropped
  /\ dpc' = "done"
  /\ UNCHANGED <<rpc, wpc, spc, mailbox, quiesced, listed, ept, history, oops>>

DestroyStep ==
  \/ DestroyWake \/ DestroyLoop \/ DestroyPop \/ DestroyCall
  \/ DestroyUnlist \/ DestroyPut

-----------------------------------------------------------------------------

Next ==
  /\ ~oops
  /\ \/ CreateEpt
     \/ \E s \in Senders : Send(s) \/ SendWake(s) \/ SendFreed(s)
     \/ \E r \in Readers : Read(r)
     \/ \E w \in Writers : WriteLookup(w) \/ WriteStep(w)
     \/ DestroyBegin
     \/ DestroyStep

Spec == Init /\ [][Next]_vars

\* Kernel threads inside a call are scheduled; nobody owes another call, a
\* signal, a send or a destruction.
Fairness ==
  /\ \A r \in Readers : WF_vars(~oops /\ ReadStep(r))
  /\ \A w \in Writers : WF_vars(~oops /\ WriteStep(w))
  /\ \A s \in Senders : WF_vars(~oops /\ SendWake(s))
  /\ WF_vars(~oops /\ DestroyStep)

FairSpec == Spec /\ Fairness
-----------------------------------------------------------------------------
(* Properties.                                                             *)

TypeOK ==
  /\ quiesced \in BOOLEAN
  /\ listed \in BOOLEAN /\ ept \in BOOLEAN /\ refs \in Nat
  /\ mepState \in {"CREATED", "DESTROY"}
  /\ queue \in Seq(Nat) /\ cmdSent \in Int
  /\ readRdy \in {0, 1} /\ asleep \in SUBSET Readers
  /\ rpc \in [Readers -> ReadPc] /\ wpc \in [Writers -> WritePc]
  /\ spc \in [Senders -> SendPc] /\ dpc \in DestroyPc
  /\ oops \in BOOLEAN /\ nSent \in Nat /\ left \in Seq(Nat)

\* A thread inside the endpoint finds it allocated: the lookup takes its
\* reference before the destruction can drop the last one (endpoints_lock).
NoUseAfterRelease == Holders # {} \/ dpc \in DestroyPc \ {"idle", "done"} => refs > 0

\* The endpoint is released once its destruction is over and every thread that
\* looked it up has left, neither earlier nor never.
ReleasedExactlyOnce ==
  ept => (refs = 0 <=> dpc = "done" /\ Holders = {})

\* A reader blocked while there is something to read, or while the endpoint
\* is going away, still has a wake-up coming: some thread is past its update
\* and before its test of worker_read_rdy, and will find it set.
NoLostWakeup ==
  asleep # {} /\ ReadCondition =>
    /\ readRdy = 1
    /\ dpc = "wake" \/ \E s \in Senders : spc[s] = "wake"

\* Once the client has stopped sending and the endpoint is gone, no message is
\* left behind: each one was read by the worker or handed back.
NothingStranded == quiesced /\ dpc \in {"unlist", "put", "done"} => queue = <<>>

\* Channel semantics, stated by CcdChannel.
Channel == INSTANCE CcdChannel WITH sent <- nSent, left <- left,
                                    closing <- (mepState = "DESTROY")
ImplementsChannel == Channel!ChannelSpec

\* Destroying the endpoint releases every reader blocked in it.
BlockedReadersReleased ==
  \A r \in Readers : (mepState = "DESTROY" /\ rpc[r] # "idle") ~> (oops \/ rpc[r] = "idle")
=============================================================================
