------------------------------- MODULE CcdBus -------------------------------
(***************************************************************************)
(* The rpmsg bus of the CCD (drivers/rpmsg/mtk_ccd_rpmsg.c,                 *)
(* mtk_ccd_rpmsg_ipi.c, drivers/remoteproc/mtk_ccd.c): a camera that starts *)
(* registers a message device and announces it to the daemon in a mailbox   *)
(* of one entry; one that stops announces and destroys it; the last close   *)
(* of the daemon destroys them all.                                         *)
(*                                                                         *)
(* STREAMON and STREAMOFF of all cameras are serialised by the media        *)
(* device's req_queue_mutex, so one thread, Client, stands for user space.  *)
(* Daemons are processes with one listening thread each.                    *)
(***************************************************************************)
EXTENDS Integers, FiniteSets

CONSTANTS
  Cams,       \* raw pipes 1 .. n; the message address of pipe c is c
  Daemons,    \* processes that open the CCD device
  Client,     \* the user of the cameras
  NoOne,      \* nobody holds the mutex
  MaxStart,   \* bound of the model: times a camera is started
  MaxSignal,  \* bound of the model: signals that interrupt the client
  MaxExit     \* bound of the model: times a daemon exits

ASSUME BusAssumption ==
  /\ Cams = 1 .. Cardinality(Cams) /\ IsFiniteSet(Cams)
  /\ IsFiniteSet(Daemons)
  /\ Client \notin Daemons /\ NoOne \notin Daemons \cup {Client}
  /\ MaxStart \in Nat /\ MaxSignal \in Nat /\ MaxExit \in Nat

Threads == Daemons \cup {Client}
Devs == 1 .. MaxStart
NoDev == 0
AddrRange == 5                        \* idr_alloc looks at src .. src + 4
Addrs == 1 .. Cardinality(Cams) + AddrRange
Listen == [cmd : {"NONE", "CREATE", "DESTROY"}, src : Addrs \cup {0}]

VARIABLES
  idr,       \* endpoints: the device of each address
  dev,       \* each device: pipe, address, on the bus, state of its endpoint
  made,      \* devices created so far
  ctxDev,    \* ctx->rpmsg_dev
  openMutex, \* g_ccd_open_mutex
  userCnt,   \* ccd_user_cnt
  ready,     \* listen_obj_rdy = CCD_LISTEN_OBJECT_READY
  listenObj, \* listen_obj
  pc, cam, find, \* of each thread: where it is, pipe and device it works on
  victims,   \* mchinfo_list: the devices ccd_master_destroy has still to destroy
  workers,   \* addresses the daemon has a worker for
  signals, exits \* how often the bounded steps were taken

registry == <<idr, dev, made, ctxDev>>
mailbox  == <<ready, listenObj, workers>>
opens    == <<openMutex, userCnt, victims>>
bounds   == <<signals, exits>>
vars     == <<registry, mailbox, opens, pc, cam, find, bounds>>

Init ==
  /\ idr = [a \in Addrs |-> NoDev]
  /\ dev = [d \in Devs |-> [cam |-> 0, src |-> 0, onBus |-> FALSE, ept |-> "none"]]
  /\ made = 0 /\ ctxDev = [c \in Cams |-> NoDev]
  /\ openMutex = NoOne /\ userCnt = 0 /\ victims = {}
  /\ ready = FALSE /\ listenObj = [cmd |-> "NONE", src |-> 0] /\ workers = {}
  /\ pc = [t \in Threads |-> IF t = Client THEN "idle" ELSE "closed"]
  /\ cam = [t \in Threads |-> 0] /\ find = [t \in Threads |-> NoDev]
  /\ signals = 0 /\ exits = 0

Goto(t, where) == pc' = [pc EXCEPT ![t] = where]

\* rpmsg_find_device: the device with the pipe's name and the pipe's address.
Found(c) ==
  LET ds == {d \in Devs : dev[d].onBus /\ dev[d].cam = c /\ dev[d].src = c}
  IN IF ds = {} THEN NoDev ELSE CHOOSE d \in ds : TRUE

\* idr_alloc takes the lowest free address from the pipe's on.
IsLowestFree(a, c) == idr[a] = NoDev /\ \A b \in c .. a - 1 : idr[b] # NoDev

-----------------------------------------------------------------------------
(* STREAMON: mtk_cam_vb2_start_streaming down to isp_composer_init, under   *)
(* ccd_open_mutex.                                                         *)

\* mtk_rpmsg_create_rpmsgdev; without a free address the start fails at once.
Start(c) ==
  /\ pc[Client] = "idle" /\ openMutex = NoOne /\ ctxDev[c] = NoDev /\ made < MaxStart
  /\ openMutex' = Client
  /\ made' = made + 1
  /\ \E a \in c .. c + AddrRange - 1 :
       /\ IsLowestFree(a, c)
       /\ idr' = [idr EXCEPT ![a] = made + 1]
       /\ dev' = [dev EXCEPT ![made + 1] = [cam |-> c, src |-> a, onBus |-> TRUE, ept |-> "none"]]
  /\ cam' = [cam EXCEPT ![Client] = c]
  /\ find' = [find EXCEPT ![Client] = made + 1]
  /\ Goto(Client, "announce")
  /\ UNCHANGED <<ctxDev, userCnt, victims, mailbox, bounds>>

\* Write the mailbox and wake the listener.
Announce(cmd, src, next) ==
  /\ ready' = TRUE /\ listenObj' = [cmd |-> cmd, src |-> src]
  /\ Goto(Client, next)
  /\ UNCHANGED <<registry, workers, opens, cam, find, bounds>>

\* What the client announces at each place, and where it goes then: its own
\* device, or the address in ctx->rpmsg_channel.
CmdAt == [announce |-> "CREATE", relock |-> "CREATE",
          announceStop |-> "DESTROY", relockStop |-> "DESTROY"]
SrcOfDevice(where) == dev[find[Client]].src                               \* fault
SrcAt(where) == IF CmdAt[where] = "CREATE" THEN dev[find[Client]].src ELSE cam[Client]
NextAt(where) == IF CmdAt[where] = "CREATE" THEN "createEpt" ELSE "destroy"

NotLooked == TRUE                                                        \* fault
MailboxEmpty == ~ready

\* Without a message in the way the mutex is kept until it is written.
AnnounceNow ==
  \E where \in {"announce", "announceStop"} :
    pc[Client] = where /\ MailboxEmpty /\ Announce(CmdAt[where], SrcAt(where), NextAt(where))

AnnounceWait ==
  \E where \in {"announce", "announceStop"} :
    /\ pc[Client] = where /\ ~MailboxEmpty
    /\ Goto(Client, IF where = "announce" THEN "wait" ELSE "waitStop")
    /\ UNCHANGED <<registry, mailbox, opens, cam, find, bounds>>

\* wait_event_interruptible(ccd_listen_wq, PREPARING).
AnnounceWoken ==
  \E where \in {"wait", "waitStop"} :
    /\ pc[Client] = where /\ ~ready
    /\ Goto(Client, IF where = "wait" THEN "relock" ELSE "relockStop")
    /\ UNCHANGED <<registry, mailbox, opens, cam, find, bounds>>

\* The mailbox is not looked at again under the mutex.
AnnounceRelocked ==
  \E where \in {"relock", "relockStop"} :
    pc[Client] = where /\ Announce(CmdAt[where], SrcAt(where), NextAt(where))

\* A signal: STREAMON leaves the device as it is ("TBD: free mdev").
StartInterrupted ==
  /\ pc[Client] = "wait" /\ signals < MaxSignal /\ signals' = signals + 1
  /\ openMutex' = NoOne
  /\ Goto(Client, "idle")
  /\ UNCHANGED <<registry, mailbox, userCnt, victims, cam, find, exits>>

\* rpmsg_create_ept at the pipe's address, then the session.
CreateEpt ==
  /\ pc[Client] = "createEpt"
  /\ dev' = [dev EXCEPT ![find[Client]].ept = "live"]
  /\ ctxDev' = [ctxDev EXCEPT ![cam[Client]] = find[Client]]
  /\ openMutex' = NoOne
  /\ Goto(Client, "idle")
  /\ UNCHANGED <<idr, made, mailbox, userCnt, victims, cam, find, bounds>>

-----------------------------------------------------------------------------
(* STREAMOFF: mtk_cam_stop_ctx calls isp_composer_uninit without the mutex. *)

Stop(c) ==
  /\ pc[Client] = "idle" /\ ctxDev[c] # NoDev
  /\ cam' = [cam EXCEPT ![Client] = c]
  /\ Goto(Client, IF Found(c) = NoDev THEN "stopped" ELSE "announceStop")
  /\ UNCHANGED <<registry, mailbox, opens, find, bounds>>

StopInterrupted ==
  /\ pc[Client] = "waitStop" /\ signals < MaxSignal /\ signals' = signals + 1
  /\ Goto(Client, "stopped")
  /\ UNCHANGED <<registry, mailbox, opens, cam, find, exits>>

Stopped ==
  /\ pc[Client] = "stopped"
  /\ ctxDev' = [ctxDev EXCEPT ![cam[Client]] = NoDev]
  /\ Goto(Client, "idle")
  /\ UNCHANGED <<idr, dev, made, mailbox, opens, cam, find, bounds>>

-----------------------------------------------------------------------------
(* mtk_rpmsg_destroy_rpmsgdev, by the client or by the closing daemon.     *)

\* Where a thread goes when the device is destroyed or was not found.
AfterDestroy(t) == IF t = Client THEN "stopped" ELSE "release"

DestroyFind(t) ==
  /\ pc[t] = "destroy"
  /\ find' = [find EXCEPT ![t] = Found(cam[t])]
  /\ Goto(t, IF Found(cam[t]) = NoDev THEN AfterDestroy(t) ELSE "unregister")
  /\ UNCHANGED <<registry, mailbox, opens, cam, bounds>>

Unregister(t) ==
  /\ pc[t] = "unregister"
  /\ dev' = [dev EXCEPT ![find[t]].onBus = FALSE]
  /\ Goto(t, "destroyEpt")
  /\ UNCHANGED <<idr, made, ctxDev, mailbox, opens, cam, find, bounds>>

\* mtk_rpmsg_destroy_ept: the address of the endpoint is the pipe's.
IdrKept(c) == idr                                                        \* fault
IdrWithout(c) == [idr EXCEPT ![c] = NoDev]
DestroyEpt(t) ==
  /\ pc[t] = "destroyEpt"
  /\ IF dev[find[t]].ept = "none" THEN UNCHANGED <<idr, dev>>
     ELSE /\ idr' = IdrWithout(dev[find[t]].cam)
          /\ dev' = [dev EXCEPT ![find[t]].ept = "gone"]
  /\ Goto(t, AfterDestroy(t))
  /\ UNCHANGED <<made, ctxDev, mailbox, opens, cam, find, bounds>>

Destroy(t) == DestroyFind(t) \/ Unregister(t) \/ DestroyEpt(t)

-----------------------------------------------------------------------------
(* The daemon: open, IOCTL_CCD_MASTER_LISTEN, exit, release.               *)

Open(d) ==
  /\ pc[d] = "closed" /\ openMutex = NoOne
  /\ userCnt' = userCnt + 1
  /\ Goto(d, "open")
  /\ UNCHANGED <<registry, mailbox, openMutex, victims, cam, find, bounds>>

\* ccd_master_listen: copy the announcement and empty the mailbox.
LeftFull == ready                                                        \* fault
Emptied == FALSE
Take(d) ==
  /\ workers' = IF listenObj.cmd = "CREATE" THEN workers \cup {listenObj.src}
                ELSE workers \ {listenObj.src}
  /\ ready' = Emptied
  /\ Goto(d, "open")
  /\ UNCHANGED <<registry, listenObj, opens, cam, find, bounds>>

ListenNow(d) == pc[d] = "open" /\ ready /\ Take(d)

ListenWait(d) ==
  /\ pc[d] = "open" /\ ~ready /\ Goto(d, "listen")
  /\ UNCHANGED <<registry, mailbox, opens, cam, find, bounds>>

ListenWoken(d) ==
  /\ pc[d] = "listen" /\ ready /\ Goto(d, "relisten")
  /\ UNCHANGED <<registry, mailbox, opens, cam, find, bounds>>

ListenRelocked(d) == pc[d] = "relisten" /\ Take(d)

\* The process exits; a listening thread is interrupted.
Exit(d) ==
  /\ pc[d] \in {"open", "listen"} /\ exits < MaxExit /\ exits' = exits + 1
  /\ Goto(d, "exit")
  /\ UNCHANGED <<registry, mailbox, opens, cam, find, signals>>

\* The pipes of the endpoints ccd_master_destroy finds in the idr.
Endpoints == {dev[idr[a]].cam : a \in {a \in Addrs : idr[a] # NoDev /\ dev[idr[a]].ept # "none"}}

CountKept == userCnt                                                     \* fault
OneUserLess == userCnt - 1

ReleaseBegin(d) ==
  /\ pc[d] = "exit" /\ openMutex = NoOne
  /\ userCnt' = OneUserLess
  /\ IF OneUserLess > 0 THEN Goto(d, "closed") /\ UNCHANGED <<openMutex, victims, workers>>
     ELSE /\ openMutex' = d /\ victims' = Endpoints /\ workers' = {}
          /\ Goto(d, "release")
  /\ UNCHANGED <<registry, ready, listenObj, cam, find, bounds>>

\* The device named by the next endpoint of the list.
ReleaseNext(d) ==
  /\ pc[d] = "release"
  /\ \E c \in victims :
       /\ \A other \in victims : c <= other
       /\ cam' = [cam EXCEPT ![d] = c] /\ victims' = victims \ {c}
  /\ Goto(d, "destroy")
  /\ UNCHANGED <<registry, mailbox, openMutex, userCnt, find, bounds>>

ReleaseEnd(d) ==
  /\ pc[d] = "release" /\ victims = {}
  /\ openMutex' = NoOne
  /\ Goto(d, "closed")
  /\ UNCHANGED <<registry, mailbox, userCnt, victims, cam, find, bounds>>

Camera ==
  \/ \E c \in Cams : Start(c) \/ Stop(c)
  \/ AnnounceNow \/ AnnounceWait \/ AnnounceWoken \/ AnnounceRelocked
  \/ StartInterrupted \/ StopInterrupted \/ CreateEpt \/ Stopped \/ Destroy(Client)
Daemon(d) ==
  \/ Open(d) \/ ListenNow(d) \/ ListenWait(d) \/ ListenWoken(d) \/ ListenRelocked(d)
  \/ Exit(d) \/ ReleaseBegin(d) \/ ReleaseNext(d) \/ ReleaseEnd(d) \/ Destroy(d)

Next == Camera \/ \E d \in Daemons : Daemon(d)
Spec == Init /\ [][Next]_vars

\* The threads run; user space need not start or stop, open or exit, and no
\* signal is promised.
FairSpec ==
  /\ Spec
  /\ WF_vars(AnnounceNow \/ AnnounceWait \/ AnnounceWoken \/ AnnounceRelocked
             \/ CreateEpt \/ Stopped \/ Destroy(Client))
  /\ \A d \in Daemons :
       /\ WF_vars(ListenNow(d) \/ ListenWait(d) \/ ListenWoken(d) \/ ListenRelocked(d))
       /\ WF_vars(ReleaseBegin(d) \/ ReleaseNext(d) \/ ReleaseEnd(d) \/ Destroy(d))

-----------------------------------------------------------------------------
ClientPcs == {"idle", "announce", "wait", "relock", "createEpt", "announceStop",
              "waitStop", "relockStop", "stopped", "destroy", "unregister", "destroyEpt"}
DaemonPcs == {"closed", "open", "listen", "relisten", "exit", "release", "destroy",
              "unregister", "destroyEpt"}

TypeOK ==
  /\ idr \in [Addrs -> Devs \cup {NoDev}]
  /\ dev \in [Devs -> [cam : Cams \cup {0}, src : Addrs \cup {0}, onBus : BOOLEAN,
                       ept : {"none", "live", "gone"}]]
  /\ made \in 0 .. MaxStart
  /\ ctxDev \in [Cams -> Devs \cup {NoDev}]
  /\ openMutex \in Threads \cup {NoOne} /\ userCnt \in 0 .. Cardinality(Daemons)
  /\ ready \in BOOLEAN /\ listenObj \in Listen /\ workers \subseteq Addrs
  /\ pc \in [Threads -> ClientPcs \cup DaemonPcs]
  /\ pc[Client] \in ClientPcs /\ \A d \in Daemons : pc[d] \in DaemonPcs
  /\ cam \in [Threads -> Cams \cup {0}] /\ find \in [Threads -> Devs \cup {NoDev}]
  /\ victims \subseteq Cams /\ signals \in 0 .. MaxSignal /\ exits \in 0 .. MaxExit

\* An announcement is not overwritten before a daemon has taken it, although
\* the client looks at the mailbox only before it waits.
MailboxNotOverwritten ==
  [][listenObj' # listenObj => ~ready]_vars

\* Every address in the idr is that of a device on the bus, or of one that is
\* just being destroyed, unless a signal interrupted a start.
IdrIsLive ==
  signals = 0 => \A a \in Addrs : idr[a] # NoDev =>
    /\ dev[idr[a]].src = a
    /\ dev[idr[a]].onBus \/ \E t \in Threads : pc[t] = "destroyEpt" /\ find[t] = idr[a]

\* Undisturbed, once the mailbox is empty and no camera starts or stops, the
\* daemon has workers for just the cameras that stream.
DaemonKnowsCameras ==
  (signals = 0 /\ exits = 0 /\ ~ready /\ pc[Client] = "idle") =>
    workers = {dev[ctxDev[c]].src : c \in {c \in Cams : ctxDev[c] # NoDev}}

\* "let's make sure no one deallocates ept while we use it"
\* (mtk_ccd_rpmsg_ipi.c:109): an endpoint is destroyed by one thread only.
EptDestroyedOnce ==
  \A t \in Threads : pc[t] = "destroyEpt" => dev[find[t]].ept # "gone"

\* A start or a stop ends if in the end some daemon keeps listening.
StartStopEnds ==
  (\E d \in Daemons : <>[](pc[d] \in {"open", "listen", "relisten"}))
    => (pc[Client] # "idle" ~> pc[Client] = "idle")
=============================================================================
