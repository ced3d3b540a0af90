-------------------------------- MODULE Hcp --------------------------------
(***************************************************************************)
(* The messages of the HCP device (platform/mtk-isp/isp_70/mtk-hcp): kernel *)
(* threads take a message object from a pool, queue it on the channel of    *)
(* the image module and, in a synchronous send, wait for the answer; the    *)
(* threads of the daemon poll the channel, fetch the messages and return    *)
(* the objects to the pool.                                                *)
(*                                                                         *)
(* Each synchronous message id has one sender at a time (hw_op_lock for     *)
(* INIT and DEINIT, the ordered mdpcb_wq for the time-outs), so a sender    *)
(* stands for its id.  ack[s] is hcp_id_ack: 0, or the number of the        *)
(* message whose answer set it, which the code does not keep.               *)
(***************************************************************************)
EXTENDS Integers, FiniteSets, Sequences

CONSTANTS
  SyncSenders,   \* ids sent with mtk_hcp_send
  AsyncSenders,  \* ids sent with mtk_hcp_send_async
  Readers,       \* threads of the daemon
  Slots,         \* message objects, MSG_NR of them
  Batch,         \* IPI_MAX_BUFFER_COUNT: messages copied by one GET_OBJECT
  NoSlot,
  MaxSend,       \* bound of the model: messages sent
  MaxPurge,      \* bound of the model: calls of mtk_hcp_purge_msg
  MaxExit        \* bound of the model: exits of the daemon

Senders == SyncSenders \cup AsyncSenders

ASSUME HcpAssumption ==
  /\ IsFiniteSet(Slots) /\ NoSlot \notin Slots
  /\ SyncSenders \cap AsyncSenders = {} /\ Senders \cap Readers = {}
  /\ Batch \in Nat \ {0}
  /\ MaxSend \in Nat /\ MaxPurge \in Nat /\ MaxExit \in Nat

Numbers == 1 .. MaxSend
Msg == [no : Numbers, id : Senders, seq : Nat \ {0}]

VARIABLES
  msgList,   \* msg_list: the free objects
  chan,      \* chans[MODULE_IMG], oldest first
  body,      \* user_obj of each object in the channel or in a reader's hands
  seq,       \* hcp_dev->seq
  ack,       \* hcp_id_ack
  isOpen,    \* is_open
  pc,        \* of each thread: where it is
  held,      \* the object each thread has taken off its list
  copied,    \* of each reader: messages copied so far by this GET_OBJECT
  user,      \* messages the daemon has received and not answered
  cur,       \* of each sender: the number of its message
  stale,     \* of each sender: messages that could still be answered when
             \* it cleared the acknowledgement
  sent, purges, exits \* how often the bounded steps were taken

lists  == <<msgList, chan, body, seq>>
daemon == <<isOpen, copied, user>>
ghosts == <<cur, stale>>
bounds == <<sent, purges, exits>>
vars   == <<lists, ack, daemon, pc, held, ghosts, bounds>>

Init ==
  /\ msgList = Slots /\ chan = <<>> /\ seq = 0
  /\ body = [m \in Slots |-> [no |-> 0]]
  /\ ack = [s \in Senders |-> 0] /\ isOpen = FALSE
  /\ pc = [t \in Senders \cup Readers |-> IF t \in Senders THEN "idle" ELSE "closed"]
  /\ held = [t \in Senders \cup Readers |-> NoSlot]
  /\ copied = [r \in Readers |-> 0] /\ user = {}
  /\ cur = [s \in Senders |-> 0] /\ stale = [s \in Senders |-> {}]
  /\ sent = 0 /\ purges = 0 /\ exits = 0

Goto(t, where) == pc' = [pc EXCEPT ![t] = where]

\* wake_up(&msg_wq) and wake_up(&poll_wq): every sleeper tests its condition
\* again.
AfterWake == [waitSlot |-> "take", asleep |-> "poll"]
WakeNobody(t, where, places) == [pc EXCEPT ![t] = where]                   \* fault
Wake(t, where, places) ==
  [x \in DOMAIN pc |-> IF x = t THEN where
                       ELSE IF pc[x] \in places THEN AfterWake[pc[x]] ELSE pc[x]]

-----------------------------------------------------------------------------
(* hcp_send_internal                                                       *)

Send(s) ==
  /\ pc[s] = "idle" /\ isOpen /\ sent < MaxSend
  /\ sent' = sent + 1
  /\ cur' = [cur EXCEPT ![s] = sent + 1]
  /\ Goto(s, "take")
  /\ UNCHANGED <<lists, ack, daemon, held, stale, purges, exits>>

\* msg_pool_get
GetSlot(s) ==
  \E m \in msgList :
    /\ msgList' = msgList \ {m}
    /\ held' = [held EXCEPT ![s] = m]
    /\ Goto(s, "reset")
    /\ UNCHANGED <<chan, body, seq, ack, daemon, ghosts, bounds>>

TakeSlot(s) == pc[s] = "take" /\ GetSlot(s)

SleepForSlot(s) ==
  /\ pc[s] = "take" /\ msgList = {}
  /\ Goto(s, "waitSlot")
  /\ UNCHANGED <<lists, ack, daemon, held, ghosts, bounds>>

\* After four seconds the condition is tested once more.
SlotTimeout(s) ==
  /\ pc[s] = "waitSlot"
  /\ \/ GetSlot(s)
     \/ /\ msgList = {} /\ Goto(s, "idle")
        /\ UNCHANGED <<lists, ack, daemon, held, ghosts, bounds>>

\* The messages of a sender the daemon has still to answer.
Outstanding(s) ==
  {body[m].no : m \in {m \in Slots : body[m].no # 0 /\ body[m].id = s}}
    \cup {m.no : m \in {m \in user : m.id = s}}

AckKept(s) == ack[s]                                                     \* fault
NoAck(s) == 0
ResetAck(s) ==
  /\ pc[s] = "reset"
  /\ ack' = [ack EXCEPT ![s] = NoAck(s)]
  /\ stale' = [stale EXCEPT ![s] = Outstanding(s)]
  /\ Goto(s, "append")
  /\ UNCHANGED <<lists, daemon, held, cur, bounds>>

\* Under msglock the message gets its sequence number and joins the channel;
\* the pollers are woken.
AtTail(m) == Append(chan, m)
AppendMsg(s) ==
  /\ pc[s] = "append"
  /\ seq' = seq + 1
  /\ body' = [body EXCEPT ![held[s]] = [no |-> cur[s], id |-> s, seq |-> seq + 1]]
  /\ chan' = AtTail(held[s])
  /\ held' = [held EXCEPT ![s] = NoSlot]
  /\ pc' = Wake(s, IF s \in SyncSenders THEN "waitAck" ELSE "idle", {"asleep"})
  /\ UNCHANGED <<msgList, ack, daemon, ghosts, bounds>>

\* wait_event_timeout(ack_wq, atomic_cmpxchg(&ack, 1, 0)).
Acked(s) ==
  /\ pc[s] = "waitAck" /\ ack[s] # 0
  /\ ack' = [ack EXCEPT ![s] = 0]
  /\ Goto(s, "idle")
  /\ UNCHANGED <<lists, daemon, held, ghosts, bounds>>

AckTimeout(s) ==
  /\ pc[s] = "waitAck" /\ ack[s] = 0
  /\ Goto(s, "idle")
  /\ UNCHANGED <<lists, ack, daemon, held, ghosts, bounds>>

\* mtk_hcp_purge_msg, when the image system starts or stops: it wakes nobody.
ChanKept == chan                                                         \* fault
Purged == <<>>
Purge ==
  /\ purges < MaxPurge /\ purges' = purges + 1
  /\ msgList' = msgList \cup {chan[i] : i \in DOMAIN chan}
  /\ chan' = Purged /\ seq' = 0
  /\ body' = [m \in Slots |-> IF m \in {chan[i] : i \in DOMAIN chan} THEN [no |-> 0] ELSE body[m]]
  /\ UNCHANGED <<ack, daemon, pc, held, ghosts, sent, exits>>

-----------------------------------------------------------------------------
(* The daemon: open, poll, HCP_GET_OBJECT, HCP_COMPLETE, exit.              *)

Open ==
  /\ ~isOpen /\ isOpen' = TRUE
  /\ pc' = [t \in DOMAIN pc |-> IF t \in Readers THEN "poll" ELSE pc[t]]
  /\ UNCHANGED <<lists, ack, copied, user, held, ghosts, bounds>>

NoMoreThere == TRUE                                                      \* fault
ChanEmpty == chan = <<>>

\* mtk_hcp_poll looks before it joins the wait queue, and again after.
PollFirst(r) ==
  /\ pc[r] = "poll"
  /\ Goto(r, IF chan = <<>> THEN "looked" ELSE "fetch")
  /\ UNCHANGED <<lists, ack, daemon, held, ghosts, bounds>>

PollAgain(r) ==
  /\ pc[r] = "looked"
  /\ Goto(r, IF ChanEmpty THEN "asleep" ELSE "fetch")
  /\ UNCHANGED <<lists, ack, daemon, held, ghosts, bounds>>

RoomInPacket(r) == copied[r] < Batch

\* chan_pool_get
Fetch(r) ==
  /\ pc[r] = "fetch" /\ chan # <<>> /\ RoomInPacket(r)
  /\ held' = [held EXCEPT ![r] = Head(chan)]
  /\ chan' = Tail(chan)
  /\ Goto(r, "copy")
  /\ UNCHANGED <<msgList, body, seq, ack, daemon, ghosts, bounds>>

\* copy_to_user, then the object returns to the pool and wakes its waiters;
\* what it holds no longer matters.
SlotLeaked(m) == msgList                                                 \* fault
SlotReturned(m) == msgList \cup {m}
Copy(r) ==
  /\ pc[r] = "copy"
  /\ user' = user \cup {body[held[r]]}
  /\ msgList' = SlotReturned(held[r])
  /\ held' = [held EXCEPT ![r] = NoSlot]
  /\ copied' = [copied EXCEPT ![r] = @ + 1]
  /\ body' = [body EXCEPT ![held[r]] = [no |-> 0]]
  /\ pc' = Wake(r, "fetch", {"waitSlot"})
  /\ UNCHANGED <<chan, seq, ack, isOpen, ghosts, bounds>>

GetObjectEnd(r) ==
  /\ pc[r] = "fetch" /\ (chan = <<>> \/ ~RoomInPacket(r))
  /\ copied' = [copied EXCEPT ![r] = 0]
  /\ Goto(r, "poll")
  /\ UNCHANGED <<lists, ack, isOpen, user, held, ghosts, bounds>>

\* HCP_COMPLETE, by ioctl or in the packet of a GET_OBJECT: module_wake_up.
Complete ==
  \E m \in user :
    /\ user' = user \ {m}
    /\ ack' = [ack EXCEPT ![m.id] = m.no]
    /\ UNCHANGED <<lists, isOpen, copied, pc, held, ghosts, bounds>>

\* The daemon exits between two ioctls of its threads; what it had received
\* is never answered, what is in the channel waits for the next daemon.
Exit ==
  /\ isOpen /\ exits < MaxExit /\ exits' = exits + 1
  /\ \A r \in Readers : held[r] = NoSlot
  /\ isOpen' = FALSE /\ user' = {}
  /\ copied' = [r \in Readers |-> 0]
  /\ pc' = [t \in DOMAIN pc |-> IF t \in Readers THEN "closed" ELSE pc[t]]
  /\ UNCHANGED <<lists, ack, held, ghosts, sent, purges>>

Sender(s) ==
  \/ TakeSlot(s) \/ SleepForSlot(s) \/ SlotTimeout(s) \/ ResetAck(s)
  \/ AppendMsg(s) \/ Acked(s) \/ AckTimeout(s)
Reader(r) == PollFirst(r) \/ PollAgain(r) \/ Fetch(r) \/ Copy(r) \/ GetObjectEnd(r)

Next ==
  \/ \E s \in Senders : Send(s) \/ Sender(s)
  \/ \E r \in Readers : Reader(r)
  \/ Purge \/ Open \/ Exit \/ Complete

Spec == Init /\ [][Next]_vars

\* Threads run; nothing is promised of new sends, purges and exits, and a
\* daemon that exits is started again.
FairSpec ==
  /\ Spec
  /\ \A s \in Senders : WF_vars(Sender(s))
  /\ \A r \in Readers : WF_vars(Reader(r))
  /\ WF_vars(Open)

-----------------------------------------------------------------------------
SenderPcs == {"idle", "take", "waitSlot", "reset", "append", "waitAck"}
ReaderPcs == {"closed", "poll", "looked", "asleep", "fetch", "copy"}

TypeOK ==
  /\ msgList \subseteq Slots /\ chan \in Seq(Slots) /\ seq \in Nat
  /\ body \in [Slots -> Msg \cup {[no |-> 0]}]
  /\ ack \in [Senders -> 0 .. MaxSend] /\ isOpen \in BOOLEAN
  /\ pc \in [Senders \cup Readers -> SenderPcs \cup ReaderPcs]
  /\ \A s \in Senders : pc[s] \in SenderPcs
  /\ \A r \in Readers : pc[r] \in ReaderPcs
  /\ held \in [Senders \cup Readers -> Slots \cup {NoSlot}]
  /\ copied \in [Readers -> 0 .. Batch]
  /\ user \subseteq Msg
  /\ cur \in [Senders -> 0 .. MaxSend] /\ stale \in [Senders -> SUBSET Numbers]
  /\ sent \in 0 .. MaxSend /\ purges \in 0 .. MaxPurge /\ exits \in 0 .. MaxExit

InChan == {chan[i] : i \in DOMAIN chan}
InHand == {held[t] : t \in {t \in DOMAIN held : held[t] # NoSlot}}

\* No message object is lost or on two lists: each is in the pool, once in
\* the channel, or in the hands of one thread.
SlotsConserved ==
  /\ msgList \cup InChan \cup InHand = Slots
  /\ msgList \cap InChan = {} /\ msgList \cap InHand = {} /\ InChan \cap InHand = {}
  /\ \A i, j \in DOMAIN chan : chan[i] = chan[j] => i = j
  /\ \A t, u \in DOMAIN held : held[t] = held[u] /\ held[t] # NoSlot => t = u

\* While the objects of the pool are used up somebody is going to return one:
\* a sender asleep in msg_wq is not forgotten by a reader, except after a
\* purge, which wakes nobody.
NobodySleepsOnFullPool ==
  purges = 0 => \A s \in Senders : pc[s] = "waitSlot" => msgList = {}

\* The answer a synchronous sender finds is that of its own message, or of one
\* it gave up and the daemon had still to answer when the flag was cleared: an
\* answer that came before is forgotten.  One that comes later is taken for the
\* new message's: nothing is cleared after a time-out, although the comment at
\* mtk-hcp.c:532-533 says so.
AckIsOwn ==
  \A s \in SyncSenders : pc[s] = "waitAck" => ack[s] \in {0, cur[s]} \cup stale[s]

\* A message in the channel is fetched, or purged, if in the end a daemon
\* stays.
ChannelDrains == <>[]isOpen => []<>(chan = <<>>)
=============================================================================
