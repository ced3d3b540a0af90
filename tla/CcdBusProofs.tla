---------------------------- MODULE CcdBusProofs ----------------------------
(***************************************************************************)
(* Theorems about CcdBus, for any number of cameras and daemons and any    *)
(* number of starts, signals and exits.                                    *)
(***************************************************************************)
EXTENDS CcdBus, FiniteSetTheorems, TLAPS

-----------------------------------------------------------------------------
(* The inductive invariant.                                                *)

Starting == {"announce", "wait", "relock", "createEpt"}
Releasing == {"release", "destroy", "unregister", "destroyEpt"}
Users == {d \in Daemons : pc[d] \in {"open", "listen", "relisten", "exit"}}

Dev == [cam : Cams \cup {0}, src : Addrs \cup {0}, onBus : BOOLEAN,
        ept : {"none", "live", "gone"}]

\* TypeOK but for the bounds of the open count.
TypeInv ==
  /\ idr \in [Addrs -> Devs \cup {NoDev}]
  /\ dev \in [Devs -> Dev]
  /\ made \in 0 .. MaxStart
  /\ ctxDev \in [Cams -> Devs \cup {NoDev}]
  /\ openMutex \in Threads \cup {NoOne} /\ userCnt \in Nat
  /\ ready \in BOOLEAN /\ listenObj \in Listen /\ workers \subseteq Addrs
  /\ pc \in [Threads -> ClientPcs \cup DaemonPcs]
  /\ pc[Client] \in ClientPcs /\ \A d \in Daemons : pc[d] \in DaemonPcs
  /\ cam \in [Threads -> Cams \cup {0}] /\ find \in [Threads -> Devs \cup {NoDev}]
  /\ victims \subseteq Cams /\ signals \in 0 .. MaxSignal /\ exits \in 0 .. MaxExit

\* The mutex is held by a start until the endpoint exists and by a release.
MutexHeld ==
  /\ pc[Client] \in Starting <=> openMutex = Client
  /\ \A d \in Daemons : pc[d] \in Releasing <=> openMutex = d

\* The open count counts the daemons that have the device open.
Counted == userCnt = Cardinality(Users)

\* What a start is working on.
StartedDevice ==
  /\ listenObj.cmd = "CREATE" => listenObj.src \in Addrs
  /\ pc[Client] # "idle" => cam[Client] \in Cams
  /\ pc[Client] \in Starting =>
       /\ find[Client] \in Devs /\ dev[find[Client]].src \in Addrs
       /\ dev[find[Client]].cam = cam[Client] /\ ctxDev[cam[Client]] = NoDev

\* What a destruction is working on; endpoints belong to pipes.
DestroyedDevice ==
  /\ \A t \in Threads : pc[t] \in {"unregister", "destroyEpt"} => find[t] \in Devs
  /\ \A d \in Devs : dev[d].ept # "none" => dev[d].cam \in Cams

\* A device not created yet is blank.
Fresh ==
  \A d \in Devs : d > made => dev[d].cam = 0 /\ ~dev[d].onBus /\ dev[d].ept = "none"

\* The mailbox stays empty from the wake-up to the announcement.
EmptyWhenRelocked == pc[Client] \in {"relock", "relockStop"} => ~ready

BusInv ==
  /\ TypeInv /\ MutexHeld /\ Counted /\ StartedDevice /\ DestroyedDevice
  /\ Fresh /\ EmptyWhenRelocked

\* As long as no signal has interrupted a start or a stop: a device on the bus
\* has its pipe's address and is the one its context knows or is starting;
\* nothing of a pipe is left on the bus when its stop ends.
OnBusKnown ==
  \A d \in Devs : dev[d].onBus =>
    /\ dev[d].cam \in Cams /\ dev[d].src = dev[d].cam
    /\ dev[d].ept # "none" => ctxDev[dev[d].cam] = d
    /\ dev[d].ept = "none" => pc[Client] \in Starting /\ find[Client] = d
IdrKnown ==
  \A a \in Addrs : idr[a] # NoDev =>
    /\ dev[idr[a]].src = a /\ dev[idr[a]].cam = a
    /\ dev[idr[a]].onBus \/ \E t \in Threads : pc[t] = "destroyEpt" /\ find[t] = idr[a]
DestroyKnown ==
  \A t \in Threads : pc[t] \in {"unregister", "destroyEpt"} =>
    dev[find[t]].ept # "none" /\ dev[find[t]].src = dev[find[t]].cam
StopKnown ==
  /\ pc[Client] = "unregister" =>
       \A d \in Devs : dev[d].onBus /\ dev[d].cam = cam[Client] => d = find[Client]
  /\ pc[Client] \in {"destroyEpt", "stopped"} =>
       \A d \in Devs : dev[d].onBus => dev[d].cam # cam[Client]
Undisturbed ==
  signals = 0 => OnBusKnown /\ IdrKnown /\ DestroyKnown /\ StopKnown

-----------------------------------------------------------------------------
(* Type correctness.                                                       *)

\* The bounds of the sets the model is built from.
LEMMA Sizes ==
  /\ Cardinality(Cams) \in Nat /\ Cardinality(Daemons) \in Nat
  /\ Cams \subseteq Addrs /\ Cams \subseteq Nat \ {0}
  /\ \A c \in Cams : c .. c + AddrRange - 1 \subseteq Addrs
  /\ Client \in Threads /\ NoOne \notin Threads
<1>1. Cardinality(Cams) \in Nat /\ Cardinality(Daemons) \in Nat
  BY FS_CardinalityType, BusAssumption
<1> QED BY <1>1, BusAssumption DEF Addrs, AddrRange, Threads

\* A device whose place on the bus or whose endpoint changes is a device.
LEMMA DevChanged ==
  ASSUME NEW r \in Dev
  PROVE  /\ \A b \in BOOLEAN : [r EXCEPT !.onBus = b] \in Dev
         /\ \A e \in {"none", "live", "gone"} : [r EXCEPT !.ept = e] \in Dev
BY DEF Dev

\* The initial state satisfies the types.
LEMMA TypeInvInit == Init => TypeInv
<1> SUFFICES ASSUME Init PROVE TypeInv
  OBVIOUS
<1>1. pc \in [Threads -> ClientPcs \cup DaemonPcs]
      /\ pc[Client] \in ClientPcs /\ \A d \in Daemons : pc[d] \in DaemonPcs
  BY BusAssumption DEF Init, ClientPcs, DaemonPcs, Threads
<1>2. ready \in BOOLEAN
  BY Zenon DEF Init
<1> QED
  BY <1>1, <1>2, Sizes, BusAssumption DEF Init, TypeInv, Listen, Devs, Dev

\* Every step keeps the types.
LEMMA TypeInvStep == BusInv /\ [Next]_vars => TypeInv'
<1> SUFFICES ASSUME BusInv, [Next]_vars PROVE TypeInv'
  OBVIOUS
<1>a. TypeInv
  BY DEF BusInv
<1>b. Client \in Threads /\ Client \notin Daemons /\ Daemons \subseteq Threads
      /\ NoOne \notin Threads
  BY BusAssumption DEF Threads
<1> USE <1>a, <1>b
<1> USE DEF TypeInv, Goto, ClientPcs, DaemonPcs, registry, mailbox, opens, bounds
<1>1. ASSUME NEW c \in Cams, Start(c) PROVE TypeInv'
  <2>1. PICK a \in c .. c + AddrRange - 1 :
          /\ idr' = [idr EXCEPT ![a] = made + 1]
          /\ dev' = [dev EXCEPT ![made + 1] = [cam |-> c, src |-> a, onBus |-> TRUE, ept |-> "none"]]
    BY <1>1 DEF Start
  <2>2. a \in Addrs /\ made + 1 \in Devs /\ made' \in 0 .. MaxStart
    <3>1. c .. c + AddrRange - 1 \subseteq Addrs
      BY Sizes
    <3>2. MaxStart \in Nat /\ made < MaxStart /\ made' = made + 1
      BY <1>1, BusAssumption DEF Start
    <3> QED BY <3>1, <3>2 DEF Devs
  <2>3. [cam |-> c, src |-> a, onBus |-> TRUE, ept |-> "none"]
          \in Dev
    BY <2>2 DEF Dev
  <2>4. idr' \in [Addrs -> Devs \cup {NoDev}]
        /\ dev' \in [Devs -> Dev]
    BY <2>1, <2>2, <2>3
  <2> QED BY <1>1, <2>2, <2>4 DEF Start
<1>2. ASSUME NEW w \in {"announce", "relock", "announceStop", "relockStop"}, pc[Client] = w,
             Announce(CmdAt[w], SrcAt(w), NextAt(w))
      PROVE TypeInv'
  <2>1. CmdAt[w] \in {"CREATE", "DESTROY"} /\ NextAt(w) \in ClientPcs
    BY <1>2 DEF CmdAt, NextAt
  <2>2. SrcAt(w) \in Addrs \cup {0}
    <3>1. cam[Client] \in Addrs
      BY <1>2, Sizes DEF BusInv, StartedDevice
    <3>2. w \in {"announce", "relock"} => dev[find[Client]].src \in Addrs
      BY <1>2 DEF BusInv, StartedDevice, Starting
    <3> QED BY <1>2, <3>1, <3>2 DEF CmdAt, SrcAt
  <2>3. listenObj' \in Listen
    BY <1>2, <2>1, <2>2 DEF Announce, Listen
  <2> QED BY <1>2, <2>1, <2>3 DEF Announce
<1>3. CASE AnnounceNow \/ AnnounceRelocked
  BY <1>3, <1>2 DEF AnnounceNow, AnnounceRelocked
<1>4. CASE AnnounceWait \/ AnnounceWoken \/ StartInterrupted \/ StopInterrupted
  <2>1. CASE AnnounceWait BY <2>1 DEF AnnounceWait
  <2>2. CASE AnnounceWoken BY <2>2 DEF AnnounceWoken
  <2>3. CASE StartInterrupted BY <2>3, BusAssumption DEF StartInterrupted
  <2>4. CASE StopInterrupted BY <2>4, BusAssumption DEF StopInterrupted
  <2> QED BY <1>4, <2>1, <2>2, <2>3, <2>4
<1>5. CASE CreateEpt
  <2>1. find[Client] \in Devs
    BY <1>5 DEF CreateEpt, BusInv, StartedDevice, Starting
  <2>2. dev' = [dev EXCEPT ![find[Client]] = [dev[find[Client]] EXCEPT !.ept = "live"]]
    BY <1>5 DEF CreateEpt
  <2>3. dev' \in [Devs -> Dev]
    BY <2>1, <2>2, DevChanged
  <2>4. ctxDev' \in [Cams -> Devs \cup {NoDev}]
    BY <1>5, <2>1 DEF CreateEpt
  <2> QED BY <1>5, <2>3, <2>4 DEF CreateEpt
<1>6. ASSUME NEW c \in Cams, Stop(c) PROVE TypeInv'
  BY <1>6 DEF Stop
<1>7. CASE Stopped
  BY <1>7 DEF Stopped
<1>8. ASSUME NEW t \in Threads, Destroy(t) PROVE TypeInv'
  <2>0. AfterDestroy(t) \in ClientPcs \cup DaemonPcs
        /\ (t = Client => AfterDestroy(t) \in ClientPcs)
        /\ (t # Client => AfterDestroy(t) \in DaemonPcs)
    BY DEF AfterDestroy
  <2>1. CASE DestroyFind(t)
    <3>1. Found(cam[t]) \in Devs \cup {NoDev}
      BY DEF Found
    <3> QED BY <2>0, <2>1, <3>1 DEF DestroyFind
  <2>2. CASE Unregister(t)
    <3>1. find[t] \in Devs
      BY <2>2 DEF Unregister, BusInv, DestroyedDevice
    <3>2. dev' = [dev EXCEPT ![find[t]] = [dev[find[t]] EXCEPT !.onBus = FALSE]]
      BY <2>2 DEF Unregister
    <3>3. dev' \in [Devs -> Dev]
      BY <3>1, <3>2, DevChanged
    <3> QED BY <2>2, <3>3 DEF Unregister
  <2>3. CASE DestroyEpt(t)
    <3>1. find[t] \in Devs
      BY <2>3 DEF DestroyEpt, BusInv, DestroyedDevice
    <3>2. CASE dev[find[t]].ept = "none"
      BY <2>0, <2>3, <3>2 DEF DestroyEpt
    <3>3. CASE dev[find[t]].ept # "none"
      <4>1. dev' = [dev EXCEPT ![find[t]] = [dev[find[t]] EXCEPT !.ept = "gone"]]
        BY <2>3, <3>3 DEF DestroyEpt
      <4>2. dev' \in [Devs -> Dev]
        BY <3>1, <4>1, DevChanged
      <4>3. idr' \in [Addrs -> Devs \cup {NoDev}]
        BY <2>3, <3>3 DEF DestroyEpt, IdrWithout
      <4> QED BY <2>0, <2>3, <4>2, <4>3 DEF DestroyEpt
    <3> QED BY <3>2, <3>3
  <2> QED BY <1>8, <2>1, <2>2, <2>3 DEF Destroy
<1>9. ASSUME NEW d \in Daemons, Open(d) PROVE TypeInv'
  BY <1>9 DEF Open
<1>10. ASSUME NEW d \in Daemons, ListenNow(d) \/ ListenRelocked(d) PROVE TypeInv'
  <2>1. Take(d)
    BY <1>10 DEF ListenNow, ListenRelocked
  <2>2. listenObj.cmd = "CREATE" => listenObj.src \in Addrs
    BY DEF BusInv, StartedDevice
  <2>3. workers' \subseteq Addrs
    BY <2>1, <2>2 DEF Take
  <2>4. ready' \in BOOLEAN
    BY <2>1, Zenon DEF Take, Emptied
  <2> QED BY <2>1, <2>3, <2>4 DEF Take
<1>11. ASSUME NEW d \in Daemons, ListenWait(d) \/ ListenWoken(d) \/ Exit(d) PROVE TypeInv'
  <2>1. CASE ListenWait(d) BY <2>1 DEF ListenWait
  <2>2. CASE ListenWoken(d) BY <2>2 DEF ListenWoken
  <2>3. CASE Exit(d) BY <2>3, BusAssumption DEF Exit
  <2> QED BY <1>11, <2>1, <2>2, <2>3
<1>12. ASSUME NEW d \in Daemons, ReleaseBegin(d) PROVE TypeInv'
  <2>1. userCnt - 1 \in Nat
    <3>1. IsFiniteSet(Users) /\ d \in Users
      BY <1>12, FS_Subset, BusAssumption DEF ReleaseBegin, Users
    <3>2. Cardinality(Users) \in Nat /\ Cardinality(Users) # 0
      BY <3>1, FS_CardinalityType, FS_EmptySet
    <3> QED BY <3>2 DEF BusInv, Counted
  <2>2. Endpoints \subseteq Cams
    BY DEF BusInv, Endpoints, DestroyedDevice, NoDev
  <2>3. CASE userCnt - 1 > 0
    BY <1>12, <2>1, <2>3 DEF ReleaseBegin, OneUserLess
  <2>4. CASE ~(userCnt - 1 > 0)
    BY <1>12, <2>1, <2>2, <2>4 DEF ReleaseBegin, OneUserLess
  <2> QED BY <2>3, <2>4
<1>13. ASSUME NEW d \in Daemons, ReleaseNext(d) \/ ReleaseEnd(d) PROVE TypeInv'
  <2>1. CASE ReleaseNext(d)
    <3>1. PICK c \in victims : cam' = [cam EXCEPT ![d] = c] /\ victims' = victims \ {c}
      BY <2>1 DEF ReleaseNext
    <3> QED BY <2>1, <3>1 DEF ReleaseNext
  <2>2. CASE ReleaseEnd(d) BY <2>2 DEF ReleaseEnd
  <2> QED BY <1>13, <2>1, <2>2
<1>14. CASE UNCHANGED vars
  BY <1>14 DEF vars
<1> QED
  BY <1>1, <1>3, <1>4, <1>5, <1>6, <1>7, <1>8, <1>9, <1>10, <1>11, <1>12, <1>13, <1>14
  DEF Next, Camera, Daemon

-----------------------------------------------------------------------------
(* The other parts of the invariant.                                       *)

\* A start and a release exclude each other and themselves.
LEMMA MutexHeldStep == BusInv /\ [Next]_vars => MutexHeld'
<1> SUFFICES ASSUME BusInv, [Next]_vars PROVE MutexHeld'
  OBVIOUS
<1>a. TypeInv /\ MutexHeld
  BY DEF BusInv
<1>b. Client \in Threads /\ Client \notin Daemons /\ Daemons \subseteq Threads
      /\ NoOne \notin Threads
  BY BusAssumption DEF Threads
<1> USE <1>a, <1>b
<1> USE DEF TypeInv, Goto, registry, mailbox, opens, bounds, ClientPcs, DaemonPcs, MutexHeld, Starting, Releasing
<1>1. ASSUME NEW c \in Cams, Start(c) PROVE MutexHeld'
  BY <1>1 DEF Start
<1>2. CASE AnnounceNow \/ AnnounceWait \/ AnnounceWoken \/ AnnounceRelocked
  <2>1. CASE AnnounceNow
    BY <2>1 DEF AnnounceNow, Announce, CmdAt, NextAt
  <2>2. CASE AnnounceWait BY <2>2 DEF AnnounceWait
  <2>3. CASE AnnounceWoken BY <2>3 DEF AnnounceWoken
  <2>4. CASE AnnounceRelocked
    BY <2>4 DEF AnnounceRelocked, Announce, CmdAt, NextAt
  <2> QED BY <1>2, <2>1, <2>2, <2>3, <2>4
<1>3. CASE StartInterrupted \/ StopInterrupted
  <2>1. CASE StartInterrupted BY <2>1 DEF StartInterrupted
  <2>2. CASE StopInterrupted BY <2>2 DEF StopInterrupted
  <2> QED BY <1>3, <2>1, <2>2
<1>4. CASE CreateEpt \/ Stopped
  <2>1. CASE CreateEpt BY <2>1 DEF CreateEpt
  <2>2. CASE Stopped BY <2>2 DEF Stopped
  <2> QED BY <1>4, <2>1, <2>2
<1>5. ASSUME NEW c \in Cams, Stop(c) PROVE MutexHeld'
  BY <1>5 DEF Stop
<1>6. ASSUME NEW t \in Threads, DestroyFind(t) \/ Unregister(t) \/ DestroyEpt(t) PROVE MutexHeld'
  <2>1. CASE DestroyFind(t)
    BY <2>1 DEF DestroyFind, AfterDestroy
  <2>2. CASE Unregister(t) BY <2>2 DEF Unregister
  <2>3. CASE DestroyEpt(t)
    BY <2>3 DEF DestroyEpt, AfterDestroy
  <2> QED BY <1>6, <2>1, <2>2, <2>3
<1>7. ASSUME NEW d \in Daemons, Open(d) \/ Exit(d) PROVE MutexHeld'
  <2>1. CASE Open(d) BY <2>1 DEF Open
  <2>2. CASE Exit(d) BY <2>2 DEF Exit
  <2> QED BY <1>7, <2>1, <2>2
<1>8. ASSUME NEW d \in Daemons, ListenNow(d) \/ ListenWait(d) \/ ListenWoken(d) \/ ListenRelocked(d) PROVE MutexHeld'
  <2>1. CASE ListenNow(d)
    BY <2>1 DEF ListenNow, Take
  <2>2. CASE ListenWait(d) BY <2>2 DEF ListenWait
  <2>3. CASE ListenWoken(d) BY <2>3 DEF ListenWoken
  <2>4. CASE ListenRelocked(d)
    BY <2>4 DEF ListenRelocked, Take
  <2> QED BY <1>8, <2>1, <2>2, <2>3, <2>4
<1>9. ASSUME NEW d \in Daemons, ReleaseBegin(d) \/ ReleaseNext(d) \/ ReleaseEnd(d) PROVE MutexHeld'
  <2>1. CASE ReleaseBegin(d) BY <2>1 DEF ReleaseBegin
  <2>2. CASE ReleaseNext(d) BY <2>2 DEF ReleaseNext
  <2>3. CASE ReleaseEnd(d) BY <2>3 DEF ReleaseEnd
  <2> QED BY <1>9, <2>1, <2>2, <2>3
<1>10. CASE UNCHANGED vars
  BY <1>10 DEF vars
<1> QED
  BY <1>1, <1>2, <1>3, <1>4, <1>5, <1>6, <1>7, <1>8, <1>9, <1>10
  DEF Next, Camera, Daemon, Destroy

\* Nobody but the client fills the mailbox.
LEMMA EmptyStep == BusInv /\ [Next]_vars => EmptyWhenRelocked'
<1> SUFFICES ASSUME BusInv, [Next]_vars PROVE EmptyWhenRelocked'
  OBVIOUS
<1>a. TypeInv /\ EmptyWhenRelocked
  BY DEF BusInv
<1>b. Client \in Threads /\ Client \notin Daemons /\ Daemons \subseteq Threads
      /\ NoOne \notin Threads
  BY BusAssumption DEF Threads
<1> USE <1>a, <1>b
<1> USE DEF TypeInv, Goto, registry, mailbox, opens, bounds, ClientPcs, DaemonPcs, EmptyWhenRelocked
<1>1. ASSUME NEW c \in Cams, Start(c) PROVE EmptyWhenRelocked'
  BY <1>1 DEF Start
<1>2. CASE AnnounceNow \/ AnnounceWait \/ AnnounceWoken \/ AnnounceRelocked
  <2>1. CASE AnnounceNow
    BY <2>1 DEF AnnounceNow, Announce, CmdAt, NextAt
  <2>2. CASE AnnounceWait BY <2>2 DEF AnnounceWait
  <2>3. CASE AnnounceWoken BY <2>3 DEF AnnounceWoken
  <2>4. CASE AnnounceRelocked
    BY <2>4 DEF AnnounceRelocked, Announce, CmdAt, NextAt
  <2> QED BY <1>2, <2>1, <2>2, <2>3, <2>4
<1>3. CASE StartInterrupted \/ StopInterrupted
  <2>1. CASE StartInterrupted BY <2>1 DEF StartInterrupted
  <2>2. CASE StopInterrupted BY <2>2 DEF StopInterrupted
  <2> QED BY <1>3, <2>1, <2>2
<1>4. CASE CreateEpt \/ Stopped
  <2>1. CASE CreateEpt BY <2>1 DEF CreateEpt
  <2>2. CASE Stopped BY <2>2 DEF Stopped
  <2> QED BY <1>4, <2>1, <2>2
<1>5. ASSUME NEW c \in Cams, Stop(c) PROVE EmptyWhenRelocked'
  BY <1>5 DEF Stop
<1>6. ASSUME NEW t \in Threads, DestroyFind(t) \/ Unregister(t) \/ DestroyEpt(t) PROVE EmptyWhenRelocked'
  <2>1. CASE DestroyFind(t)
    BY <2>1 DEF DestroyFind, AfterDestroy
  <2>2. CASE Unregister(t) BY <2>2 DEF Unregister
  <2>3. CASE DestroyEpt(t)
    BY <2>3 DEF DestroyEpt, AfterDestroy
  <2> QED BY <1>6, <2>1, <2>2, <2>3
<1>7. ASSUME NEW d \in Daemons, Open(d) \/ Exit(d) PROVE EmptyWhenRelocked'
  <2>1. CASE Open(d) BY <2>1 DEF Open
  <2>2. CASE Exit(d) BY <2>2 DEF Exit
  <2> QED BY <1>7, <2>1, <2>2
<1>8. ASSUME NEW d \in Daemons, ListenNow(d) \/ ListenWait(d) \/ ListenWoken(d) \/ ListenRelocked(d) PROVE EmptyWhenRelocked'
  <2>1. CASE ListenNow(d)
    BY <2>1 DEF ListenNow, Take, Emptied
  <2>2. CASE ListenWait(d) BY <2>2 DEF ListenWait
  <2>3. CASE ListenWoken(d) BY <2>3 DEF ListenWoken
  <2>4. CASE ListenRelocked(d)
    BY <2>4 DEF ListenRelocked, Take, Emptied
  <2> QED BY <1>8, <2>1, <2>2, <2>3, <2>4
<1>9. ASSUME NEW d \in Daemons, ReleaseBegin(d) \/ ReleaseNext(d) \/ ReleaseEnd(d) PROVE EmptyWhenRelocked'
  <2>1. CASE ReleaseBegin(d) BY <2>1 DEF ReleaseBegin
  <2>2. CASE ReleaseNext(d) BY <2>2 DEF ReleaseNext
  <2>3. CASE ReleaseEnd(d) BY <2>3 DEF ReleaseEnd
  <2> QED BY <1>9, <2>1, <2>2, <2>3
<1>10. CASE UNCHANGED vars
  BY <1>10 DEF vars
<1> QED
  BY <1>1, <1>2, <1>3, <1>4, <1>5, <1>6, <1>7, <1>8, <1>9, <1>10
  DEF Next, Camera, Daemon, Destroy

\* An open adds a user, a release removes one, no other step does.
LEMMA CountedStep == BusInv /\ [Next]_vars => Counted'
<1> SUFFICES ASSUME BusInv, [Next]_vars PROVE Counted'
  OBVIOUS
<1>a. TypeInv /\ Counted
  BY DEF BusInv
<1>b. Client \in Threads /\ Client \notin Daemons /\ Daemons \subseteq Threads
      /\ NoOne \notin Threads
  BY BusAssumption DEF Threads
<1>c. IsFiniteSet(Users)
  BY FS_Subset, BusAssumption DEF Users
<1> USE <1>a, <1>b, <1>c
<1> USE DEF TypeInv, Goto, registry, mailbox, opens, bounds, ClientPcs, DaemonPcs, Counted
<1>1. ASSUME NEW c \in Cams, Start(c) PROVE Counted'
  BY <1>1 DEF Users, Start
<1>2. CASE AnnounceNow \/ AnnounceWait \/ AnnounceWoken \/ AnnounceRelocked
  <2>1. CASE AnnounceNow
    BY <2>1 DEF Users, AnnounceNow, Announce, CmdAt, NextAt
  <2>2. CASE AnnounceWait BY <2>2 DEF Users, AnnounceWait
  <2>3. CASE AnnounceWoken BY <2>3 DEF Users, AnnounceWoken
  <2>4. CASE AnnounceRelocked
    BY <2>4 DEF Users, AnnounceRelocked, Announce, CmdAt, NextAt
  <2> QED BY <1>2, <2>1, <2>2, <2>3, <2>4
<1>3. CASE StartInterrupted \/ StopInterrupted
  <2>1. CASE StartInterrupted BY <2>1 DEF Users, StartInterrupted
  <2>2. CASE StopInterrupted BY <2>2 DEF Users, StopInterrupted
  <2> QED BY <1>3, <2>1, <2>2
<1>4. CASE CreateEpt \/ Stopped
  <2>1. CASE CreateEpt BY <2>1 DEF Users, CreateEpt
  <2>2. CASE Stopped BY <2>2 DEF Users, Stopped
  <2> QED BY <1>4, <2>1, <2>2
<1>5. ASSUME NEW c \in Cams, Stop(c) PROVE Counted'
  BY <1>5 DEF Users, Stop
<1>6. ASSUME NEW t \in Threads, DestroyFind(t) \/ Unregister(t) \/ DestroyEpt(t) PROVE Counted'
  <2>1. CASE DestroyFind(t)
    BY <2>1 DEF Users, DestroyFind, AfterDestroy
  <2>2. CASE Unregister(t) BY <2>2 DEF Users, Unregister
  <2>3. CASE DestroyEpt(t)
    BY <2>3 DEF Users, DestroyEpt, AfterDestroy
  <2> QED BY <1>6, <2>1, <2>2, <2>3
<1>7. ASSUME NEW d \in Daemons, Open(d) \/ Exit(d) PROVE Counted'
  <2>1. CASE Open(d)
    <3>1. Users' = Users \cup {d} /\ d \notin Users
      BY <2>1 DEF Open, Users
    <3>2. Cardinality(Users') = Cardinality(Users) + 1
      BY <3>1, FS_AddElement
    <3> QED BY <2>1, <3>2 DEF Open
  <2>2. CASE Exit(d) BY <2>2 DEF Users, Exit
  <2> QED BY <1>7, <2>1, <2>2
<1>8. ASSUME NEW d \in Daemons, ListenNow(d) \/ ListenWait(d) \/ ListenWoken(d) \/ ListenRelocked(d) PROVE Counted'
  <2>1. CASE ListenNow(d)
    BY <2>1 DEF Users, ListenNow, Take
  <2>2. CASE ListenWait(d) BY <2>2 DEF Users, ListenWait
  <2>3. CASE ListenWoken(d) BY <2>3 DEF Users, ListenWoken
  <2>4. CASE ListenRelocked(d)
    BY <2>4 DEF Users, ListenRelocked, Take
  <2> QED BY <1>8, <2>1, <2>2, <2>3, <2>4
<1>9. ASSUME NEW d \in Daemons, ReleaseBegin(d) \/ ReleaseNext(d) \/ ReleaseEnd(d) PROVE Counted'
  <2>1. CASE ReleaseBegin(d)
    <3>1. Users' = Users \ {d} /\ d \in Users
      BY <2>1 DEF ReleaseBegin, Users
    <3>2. Cardinality(Users') = Cardinality(Users) - 1
      BY <3>1, FS_RemoveElement
    <3>3. userCnt' = userCnt - 1
      BY <2>1 DEF ReleaseBegin, OneUserLess
    <3> QED BY <3>2, <3>3
  <2>2. CASE ReleaseNext(d) BY <2>2 DEF Users, ReleaseNext
  <2>3. CASE ReleaseEnd(d) BY <2>3 DEF Users, ReleaseEnd
  <2> QED BY <1>9, <2>1, <2>2, <2>3
<1>10. CASE UNCHANGED vars
  BY <1>10 DEF Users, vars
<1> QED
  BY <1>1, <1>2, <1>3, <1>4, <1>5, <1>6, <1>7, <1>8, <1>9, <1>10
  DEF Next, Camera, Daemon, Destroy

\* A start keeps its device; no other pipe's context is touched.
LEMMA StartedDeviceStep == BusInv /\ [Next]_vars => StartedDevice'
<1> SUFFICES ASSUME BusInv, [Next]_vars PROVE StartedDevice'
  OBVIOUS
<1>a. TypeInv /\ StartedDevice
  BY DEF BusInv
<1>b. Client \in Threads /\ Client \notin Daemons /\ Daemons \subseteq Threads
      /\ NoOne \notin Threads
  BY BusAssumption DEF Threads
<1> USE <1>a, <1>b
<1> USE DEF TypeInv, Goto, registry, mailbox, opens, bounds, ClientPcs, DaemonPcs, StartedDevice, Starting
<1>1. ASSUME NEW c \in Cams, Start(c) PROVE StartedDevice'
  <2>1. PICK a \in c .. c + AddrRange - 1 :
          dev' = [dev EXCEPT ![made + 1] = [cam |-> c, src |-> a, onBus |-> TRUE, ept |-> "none"]]
    BY <1>1 DEF Start
  <2>2. a \in Addrs
    BY Sizes
  <2>3. made + 1 \in Devs
    BY <1>1, BusAssumption DEF Start, Devs
  <2> QED BY <1>1, <2>1, <2>2, <2>3 DEF Start
<1>2. CASE AnnounceNow \/ AnnounceWait \/ AnnounceWoken \/ AnnounceRelocked
  <2>1. CASE AnnounceNow
    <3>1. PICK w \in {"announce", "announceStop"} :
            pc[Client] = w /\ Announce(CmdAt[w], SrcAt(w), NextAt(w))
      BY <2>1 DEF AnnounceNow
    <3>2. listenObj'.cmd = "CREATE" => listenObj'.src \in Addrs
      BY <3>1 DEF Announce, CmdAt, SrcAt
    <3>3. pc'[Client] = NextAt(w) /\ NextAt(w) \in {"createEpt", "destroy"}
          /\ (NextAt(w) = "createEpt" => w \in Starting)
      BY <3>1 DEF Announce, CmdAt, NextAt
    <3>4. cam' = cam /\ find' = find /\ dev' = dev /\ ctxDev' = ctxDev
      BY <3>1 DEF Announce
    <3> QED BY <3>1, <3>2, <3>3, <3>4
  <2>2. CASE AnnounceWait BY <2>2 DEF AnnounceWait
  <2>3. CASE AnnounceWoken BY <2>3 DEF AnnounceWoken
  <2>4. CASE AnnounceRelocked
    <3>1. PICK w \in {"relock", "relockStop"} :
            pc[Client] = w /\ Announce(CmdAt[w], SrcAt(w), NextAt(w))
      BY <2>4 DEF AnnounceRelocked
    <3>2. listenObj'.cmd = "CREATE" => listenObj'.src \in Addrs
      BY <3>1 DEF Announce, CmdAt, SrcAt
    <3>3. pc'[Client] = NextAt(w) /\ NextAt(w) \in {"createEpt", "destroy"}
          /\ (NextAt(w) = "createEpt" => w \in Starting)
      BY <3>1 DEF Announce, CmdAt, NextAt
    <3>4. cam' = cam /\ find' = find /\ dev' = dev /\ ctxDev' = ctxDev
      BY <3>1 DEF Announce
    <3> QED BY <3>1, <3>2, <3>3, <3>4
  <2> QED BY <1>2, <2>1, <2>2, <2>3, <2>4
<1>3. CASE StartInterrupted \/ StopInterrupted
  <2>1. CASE StartInterrupted BY <2>1 DEF StartInterrupted
  <2>2. CASE StopInterrupted BY <2>2 DEF StopInterrupted
  <2> QED BY <1>3, <2>1, <2>2
<1>4. CASE CreateEpt \/ Stopped
  <2>1. CASE CreateEpt BY <2>1 DEF CreateEpt
  <2>2. CASE Stopped BY <2>2 DEF Stopped
  <2> QED BY <1>4, <2>1, <2>2
<1>5. ASSUME NEW c \in Cams, Stop(c) PROVE StartedDevice'
  BY <1>5 DEF Stop
<1>6. ASSUME NEW t \in Threads, DestroyFind(t) \/ Unregister(t) \/ DestroyEpt(t) PROVE StartedDevice'
  <2>1. CASE DestroyFind(t)
    BY <2>1 DEF DestroyFind, AfterDestroy
  <2>2. CASE Unregister(t) BY <2>2 DEF Unregister
  <2>3. CASE DestroyEpt(t)
    <3>1. \A e \in Devs : dev'[e].src = dev[e].src /\ dev'[e].cam = dev[e].cam
      BY <2>3 DEF DestroyEpt, Dev
    <3>2. pc'[Client] # "idle" => pc[Client] # "idle"
      BY <2>3 DEF DestroyEpt, AfterDestroy
    <3>3. pc'[Client] \in Starting => pc[Client] \in Starting
      BY <2>3 DEF DestroyEpt, AfterDestroy
    <3>4. find' = find /\ cam' = cam /\ listenObj' = listenObj /\ ctxDev' = ctxDev
      BY <2>3 DEF DestroyEpt
    <3> QED BY <3>1, <3>2, <3>3, <3>4
  <2> QED BY <1>6, <2>1, <2>2, <2>3
<1>7. ASSUME NEW d \in Daemons, Open(d) \/ Exit(d) PROVE StartedDevice'
  <2>1. CASE Open(d) BY <2>1 DEF Open
  <2>2. CASE Exit(d) BY <2>2 DEF Exit
  <2> QED BY <1>7, <2>1, <2>2
<1>8. ASSUME NEW d \in Daemons, ListenNow(d) \/ ListenWait(d) \/ ListenWoken(d) \/ ListenRelocked(d) PROVE StartedDevice'
  <2>1. CASE ListenNow(d)
    BY <2>1 DEF ListenNow, Take
  <2>2. CASE ListenWait(d) BY <2>2 DEF ListenWait
  <2>3. CASE ListenWoken(d) BY <2>3 DEF ListenWoken
  <2>4. CASE ListenRelocked(d)
    BY <2>4 DEF ListenRelocked, Take
  <2> QED BY <1>8, <2>1, <2>2, <2>3, <2>4
<1>9. ASSUME NEW d \in Daemons, ReleaseBegin(d) \/ ReleaseNext(d) \/ ReleaseEnd(d) PROVE StartedDevice'
  <2>1. CASE ReleaseBegin(d) BY <2>1 DEF ReleaseBegin
  <2>2. CASE ReleaseNext(d) BY <2>2 DEF ReleaseNext
  <2>3. CASE ReleaseEnd(d) BY <2>3 DEF ReleaseEnd
  <2> QED BY <1>9, <2>1, <2>2, <2>3
<1>10. CASE UNCHANGED vars
  BY <1>10 DEF vars
<1> QED
  BY <1>1, <1>2, <1>3, <1>4, <1>5, <1>6, <1>7, <1>8, <1>9, <1>10
  DEF Next, Camera, Daemon, Destroy

\* A destruction works on a device; endpoints are made for pipes.
LEMMA DestroyedDeviceStep == BusInv /\ [Next]_vars => DestroyedDevice'
<1> SUFFICES ASSUME BusInv, [Next]_vars PROVE DestroyedDevice'
  OBVIOUS
<1>a. TypeInv /\ StartedDevice /\ DestroyedDevice
  BY DEF BusInv
<1>b. Client \in Threads /\ Client \notin Daemons /\ Daemons \subseteq Threads
      /\ NoOne \notin Threads
  BY BusAssumption DEF Threads
<1> USE <1>a, <1>b
<1> USE DEF TypeInv, Goto, registry, mailbox, opens, bounds, ClientPcs, DaemonPcs, DestroyedDevice
<1>1. ASSUME NEW c \in Cams, Start(c) PROVE DestroyedDevice'
  <2>1. PICK a \in c .. c + AddrRange - 1 :
          dev' = [dev EXCEPT ![made + 1] = [cam |-> c, src |-> a, onBus |-> TRUE, ept |-> "none"]]
    BY <1>1 DEF Start
  <2>2. made + 1 \in Devs
    BY <1>1, BusAssumption DEF Start, Devs
  <2>3. \A t \in Threads : pc'[t] \in {"unregister", "destroyEpt"} =>
          pc[t] \in {"unregister", "destroyEpt"} /\ find'[t] = find[t]
    BY <1>1 DEF Start
  <2>4. \A e \in Devs : dev'[e].ept # "none" => dev[e].ept # "none" /\ dev'[e].cam = dev[e].cam
    BY <1>1, <2>1, <2>2 DEF Dev
  <2> QED BY <2>3, <2>4
<1>2. CASE AnnounceNow \/ AnnounceWait \/ AnnounceWoken \/ AnnounceRelocked
  <2>1. CASE AnnounceNow
    BY <2>1 DEF AnnounceNow, Announce, CmdAt, NextAt
  <2>2. CASE AnnounceWait BY <2>2 DEF AnnounceWait
  <2>3. CASE AnnounceWoken BY <2>3 DEF AnnounceWoken
  <2>4. CASE AnnounceRelocked
    BY <2>4 DEF AnnounceRelocked, Announce, CmdAt, NextAt
  <2> QED BY <1>2, <2>1, <2>2, <2>3, <2>4
<1>3. CASE StartInterrupted \/ StopInterrupted
  <2>1. CASE StartInterrupted BY <2>1 DEF StartInterrupted
  <2>2. CASE StopInterrupted BY <2>2 DEF StopInterrupted
  <2> QED BY <1>3, <2>1, <2>2
<1>4. CASE CreateEpt \/ Stopped
  <2>1. CASE CreateEpt
    <3>1. find[Client] \in Devs /\ dev[find[Client]].cam \in Cams
      BY <2>1 DEF CreateEpt, StartedDevice, Starting
    <3> QED BY <2>1, <3>1 DEF CreateEpt, Dev
  <2>2. CASE Stopped BY <2>2 DEF Stopped
  <2> QED BY <1>4, <2>1, <2>2
<1>5. ASSUME NEW c \in Cams, Stop(c) PROVE DestroyedDevice'
  BY <1>5 DEF Stop
<1>6. ASSUME NEW t \in Threads, DestroyFind(t) \/ Unregister(t) \/ DestroyEpt(t) PROVE DestroyedDevice'
  <2>1. CASE DestroyFind(t)
    <3>1. Found(cam[t]) # NoDev => Found(cam[t]) \in Devs
      BY DEF Found
    <3> QED BY <2>1, <3>1 DEF DestroyFind, AfterDestroy
  <2>2. CASE Unregister(t)
    <3>1. \A e \in Devs : dev'[e].ept = dev[e].ept /\ dev'[e].cam = dev[e].cam
      BY <2>2 DEF Unregister, Dev
    <3> QED BY <2>2, <3>1 DEF Unregister
  <2>3. CASE DestroyEpt(t)
    <3>1. \A e \in Devs : dev'[e].cam = dev[e].cam
                          /\ (dev'[e].ept # "none" => dev[e].ept # "none")
      BY <2>3 DEF DestroyEpt, Dev
    <3> QED BY <2>3, <3>1 DEF DestroyEpt, AfterDestroy
  <2> QED BY <1>6, <2>1, <2>2, <2>3
<1>7. ASSUME NEW d \in Daemons, Open(d) \/ Exit(d) PROVE DestroyedDevice'
  <2>1. CASE Open(d) BY <2>1 DEF Open
  <2>2. CASE Exit(d) BY <2>2 DEF Exit
  <2> QED BY <1>7, <2>1, <2>2
<1>8. ASSUME NEW d \in Daemons, ListenNow(d) \/ ListenWait(d) \/ ListenWoken(d) \/ ListenRelocked(d) PROVE DestroyedDevice'
  <2>1. CASE ListenNow(d)
    BY <2>1 DEF ListenNow, Take
  <2>2. CASE ListenWait(d) BY <2>2 DEF ListenWait
  <2>3. CASE ListenWoken(d) BY <2>3 DEF ListenWoken
  <2>4. CASE ListenRelocked(d)
    BY <2>4 DEF ListenRelocked, Take
  <2> QED BY <1>8, <2>1, <2>2, <2>3, <2>4
<1>9. ASSUME NEW d \in Daemons, ReleaseBegin(d) \/ ReleaseNext(d) \/ ReleaseEnd(d) PROVE DestroyedDevice'
  <2>1. CASE ReleaseBegin(d) BY <2>1 DEF ReleaseBegin
  <2>2. CASE ReleaseNext(d) BY <2>2 DEF ReleaseNext
  <2>3. CASE ReleaseEnd(d) BY <2>3 DEF ReleaseEnd
  <2> QED BY <1>9, <2>1, <2>2, <2>3
<1>10. CASE UNCHANGED vars
  BY <1>10 DEF vars
<1> QED
  BY <1>1, <1>2, <1>3, <1>4, <1>5, <1>6, <1>7, <1>8, <1>9, <1>10
  DEF Next, Camera, Daemon, Destroy

\* A device is blank until it is created.
LEMMA FreshStep == BusInv /\ [Next]_vars => Fresh'
<1> SUFFICES ASSUME BusInv, [Next]_vars PROVE Fresh'
  OBVIOUS
<1>a. TypeInv /\ StartedDevice /\ Fresh
  BY DEF BusInv
<1>b. Client \in Threads /\ Client \notin Daemons /\ Daemons \subseteq Threads
      /\ NoOne \notin Threads
  BY BusAssumption DEF Threads
<1> USE <1>a, <1>b
<1> USE DEF TypeInv, Goto, registry, mailbox, opens, bounds, ClientPcs, DaemonPcs, Fresh
<1>1. ASSUME NEW c \in Cams, Start(c) PROVE Fresh'
  <2>1. PICK a \in c .. c + AddrRange - 1 :
          dev' = [dev EXCEPT ![made + 1] = [cam |-> c, src |-> a, onBus |-> TRUE, ept |-> "none"]]
    BY <1>1 DEF Start
  <2>2. made + 1 \in Devs
    BY <1>1, BusAssumption DEF Start, Devs
  <2>3. made' = made + 1
    BY <1>1 DEF Start
  <2> QED BY <2>1, <2>2, <2>3, BusAssumption DEF Devs
<1>2. CASE AnnounceNow \/ AnnounceWait \/ AnnounceWoken \/ AnnounceRelocked
  <2>1. CASE AnnounceNow
    BY <2>1 DEF AnnounceNow, Announce, CmdAt, NextAt
  <2>2. CASE AnnounceWait BY <2>2 DEF AnnounceWait
  <2>3. CASE AnnounceWoken BY <2>3 DEF AnnounceWoken
  <2>4. CASE AnnounceRelocked
    BY <2>4 DEF AnnounceRelocked, Announce, CmdAt, NextAt
  <2> QED BY <1>2, <2>1, <2>2, <2>3, <2>4
<1>3. CASE StartInterrupted \/ StopInterrupted
  <2>1. CASE StartInterrupted BY <2>1 DEF StartInterrupted
  <2>2. CASE StopInterrupted BY <2>2 DEF StopInterrupted
  <2> QED BY <1>3, <2>1, <2>2
<1>4. CASE CreateEpt \/ Stopped
  <2>1. CASE CreateEpt
    <3>1. find[Client] \in Devs /\ dev[find[Client]].cam # 0
      BY <2>1, Sizes DEF CreateEpt, StartedDevice, Starting
    <3> QED BY <2>1, <3>1 DEF CreateEpt, Dev
  <2>2. CASE Stopped BY <2>2 DEF Stopped
  <2> QED BY <1>4, <2>1, <2>2
<1>5. ASSUME NEW c \in Cams, Stop(c) PROVE Fresh'
  BY <1>5 DEF Stop
<1>6. ASSUME NEW t \in Threads, DestroyFind(t) \/ Unregister(t) \/ DestroyEpt(t) PROVE Fresh'
  <2>1. CASE DestroyFind(t)
    BY <2>1 DEF DestroyFind, AfterDestroy
  <2>2. CASE Unregister(t)
    <3>1. made' = made /\ \A e \in Devs : dev'[e].ept = dev[e].ept /\ dev'[e].cam = dev[e].cam
                                        /\ (dev'[e].onBus => dev[e].onBus)
      BY <2>2 DEF Unregister, Dev
    <3> QED BY <3>1
  <2>3. CASE DestroyEpt(t)
    <3>1. made' = made /\ \A e \in Devs : dev'[e].cam = dev[e].cam /\ dev'[e].onBus = dev[e].onBus
                                        /\ (dev[e].ept = "none" => dev'[e].ept = "none")
      BY <2>3 DEF DestroyEpt, Dev
    <3> QED BY <3>1
  <2> QED BY <1>6, <2>1, <2>2, <2>3
<1>7. ASSUME NEW d \in Daemons, Open(d) \/ Exit(d) PROVE Fresh'
  <2>1. CASE Open(d) BY <2>1 DEF Open
  <2>2. CASE Exit(d) BY <2>2 DEF Exit
  <2> QED BY <1>7, <2>1, <2>2
<1>8. ASSUME NEW d \in Daemons, ListenNow(d) \/ ListenWait(d) \/ ListenWoken(d) \/ ListenRelocked(d) PROVE Fresh'
  <2>1. CASE ListenNow(d)
    BY <2>1 DEF ListenNow, Take
  <2>2. CASE ListenWait(d) BY <2>2 DEF ListenWait
  <2>3. CASE ListenWoken(d) BY <2>3 DEF ListenWoken
  <2>4. CASE ListenRelocked(d)
    BY <2>4 DEF ListenRelocked, Take
  <2> QED BY <1>8, <2>1, <2>2, <2>3, <2>4
<1>9. ASSUME NEW d \in Daemons, ReleaseBegin(d) \/ ReleaseNext(d) \/ ReleaseEnd(d) PROVE Fresh'
  <2>1. CASE ReleaseBegin(d) BY <2>1 DEF ReleaseBegin
  <2>2. CASE ReleaseNext(d) BY <2>2 DEF ReleaseNext
  <2>3. CASE ReleaseEnd(d) BY <2>3 DEF ReleaseEnd
  <2> QED BY <1>9, <2>1, <2>2, <2>3
<1>10. CASE UNCHANGED vars
  BY <1>10 DEF vars
<1> QED
  BY <1>1, <1>2, <1>3, <1>4, <1>5, <1>6, <1>7, <1>8, <1>9, <1>10
  DEF Next, Camera, Daemon, Destroy

\* The initial state satisfies the invariant.
LEMMA BusInvInit == Init => BusInv
<1> SUFFICES ASSUME Init PROVE BusInv
  OBVIOUS
<1>1. TypeInv
  BY TypeInvInit
<1>2. MutexHeld
  BY Sizes, BusAssumption DEF Init, MutexHeld, Starting, Releasing, Threads
<1>3. Counted
  <2>1. Users = {}
    BY BusAssumption DEF Init, Users, Threads
  <2> QED BY <2>1, FS_EmptySet DEF Init, Counted
<1>4. StartedDevice /\ DestroyedDevice
  BY BusAssumption DEF Init, StartedDevice, DestroyedDevice, Starting, Threads
<1>5. Fresh /\ EmptyWhenRelocked
  BY BusAssumption DEF Init, Fresh, EmptyWhenRelocked, Threads
<1> QED BY <1>1, <1>2, <1>3, <1>4, <1>5 DEF BusInv

\* Every step keeps the invariant.
LEMMA BusInvStep == BusInv /\ [Next]_vars => BusInv'
BY TypeInvStep, MutexHeldStep, CountedStep, StartedDeviceStep, DestroyedDeviceStep,
   FreshStep, EmptyStep DEF BusInv

\* The invariant holds in every behaviour.
LEMMA BusInvAlways == Spec => []BusInv
BY BusInvInit, BusInvStep, PTL DEF Spec

\* The variables keep their types, and the daemon's count of users stays
\* between nobody and everybody (ccd_open and ccd_release, mtk_ccd.c:171-218).
THEOREM TypeCorrect == Spec => []TypeOK
<1>1. BusInv => TypeOK
  <2> SUFFICES ASSUME BusInv PROVE TypeOK
    OBVIOUS
  <2>1. userCnt \in 0 .. Cardinality(Daemons)
    <3>1. Users \subseteq Daemons
      BY DEF Users
    <3>2. Cardinality(Users) <= Cardinality(Daemons) /\ Cardinality(Users) \in Nat
      BY <3>1, FS_Subset, FS_CardinalityType, BusAssumption
    <3> QED BY <3>2, Sizes DEF BusInv, Counted
  <2> QED BY <2>1 DEF BusInv, TypeInv, TypeOK, Dev
<1> QED BY <1>1, BusInvAlways, PTL

\* An announcement is not overwritten before a daemon has taken it, although
\* the client looks at the mailbox only before it waits for the mutex
\* (mtk_rpmsg_create_rpmsgdev, mtk_ccd_rpmsg.c:383-413).
THEOREM MailboxSafe == Spec => MailboxNotOverwritten
<1>1. BusInv /\ [Next]_vars => [listenObj' # listenObj => ~ready]_vars
  <2> SUFFICES ASSUME BusInv, [Next]_vars, listenObj' # listenObj PROVE ~ready
    OBVIOUS
  <2> USE DEF mailbox
  <2>1. AnnounceNow \/ AnnounceRelocked
    BY DEF vars, Next, Camera, Daemon, Destroy, Start, Stop, AnnounceWait, AnnounceWoken,
       StartInterrupted, StopInterrupted, CreateEpt, Stopped, DestroyFind, Unregister,
       DestroyEpt, Open, Exit, ListenNow, ListenWait, ListenWoken, ListenRelocked, Take,
       ReleaseBegin, ReleaseNext, ReleaseEnd
  <2>2. CASE AnnounceNow
    BY <2>2 DEF AnnounceNow, MailboxEmpty
  <2>3. CASE AnnounceRelocked
    BY <2>3 DEF AnnounceRelocked, BusInv, EmptyWhenRelocked
  <2> QED BY <2>1, <2>2, <2>3
<1> QED BY <1>1, BusInvAlways, PTL DEF Spec, MailboxNotOverwritten

-----------------------------------------------------------------------------
(* Without a signal the registry holds live devices only.                  *)

Known == OnBusKnown /\ IdrKnown /\ DestroyKnown /\ StopKnown

\* What Found finds, and what it means that it finds nothing.
LEMMA FoundIsFound ==
  ASSUME NEW c \in Cams
  PROVE  /\ Found(c) # NoDev => /\ Found(c) \in Devs /\ dev[Found(c)].onBus
                                /\ dev[Found(c)].cam = c /\ dev[Found(c)].src = c
         /\ Found(c) = NoDev =>
              \A e \in Devs : ~(dev[e].onBus /\ dev[e].cam = c /\ dev[e].src = c)
<1> DEFINE ds == {e \in Devs : dev[e].onBus /\ dev[e].cam = c /\ dev[e].src = c}
<1>1. CASE ds = {}
  BY <1>1 DEF Found
<1>2. CASE ds # {}
  <2>1. Found(c) = CHOOSE e \in ds : TRUE
    BY <1>2 DEF Found
  <2>2. Found(c) \in ds
    BY <1>2, <2>1
  <2> QED BY <2>2 DEF Devs, NoDev
<1> QED BY <1>1, <1>2

\* A step that leaves the devices, the contexts and what is being destroyed
\* as they are.
LEMMA QuietStep ==
  ASSUME Known, registry' = registry, find' = find,
         pc[Client] \in Starting => pc'[Client] \in Starting,
         \A t \in Threads : pc'[t] = "unregister" <=> pc[t] = "unregister",
         \A t \in Threads : pc'[t] = "destroyEpt" <=> pc[t] = "destroyEpt",
         pc'[Client] = "stopped" => pc[Client] = "stopped",
         cam'[Client] = cam[Client], Client \in Threads
  PROVE  Known'
<1> USE DEF Known, registry
<1>1. OnBusKnown' BY DEF OnBusKnown
<1>2. IdrKnown' BY DEF IdrKnown
<1>3. DestroyKnown' BY DEF DestroyKnown
<1>4. StopKnown' BY DEF StopKnown
<1> QED BY <1>1, <1>2, <1>3, <1>4

\* As long as no signal has interrupted the client, every step keeps Known.
LEMMA KnownStep == BusInv /\ Known /\ [Next]_vars /\ signals' = 0 => Known'
<1> SUFFICES ASSUME BusInv, Known, [Next]_vars, signals' = 0 PROVE Known'
  OBVIOUS
<1>a. TypeInv /\ MutexHeld /\ StartedDevice /\ DestroyedDevice /\ Fresh
  BY DEF BusInv
<1>b. Client \in Threads /\ Client \notin Daemons /\ Daemons \subseteq Threads
      /\ NoOne \notin Threads /\ Threads = Daemons \cup {Client}
  BY BusAssumption DEF Threads
<1> USE <1>b DEF Goto
<1>1. ASSUME NEW c \in Cams, Start(c) PROVE Known'
  <2>1. pc[Client] = "idle" /\ openMutex = NoOne /\ ctxDev[c] = NoDev
        /\ made + 1 \in Devs /\ made' = made + 1 /\ ctxDev' = ctxDev
        /\ find' = [find EXCEPT ![Client] = made + 1]
        /\ pc' = [pc EXCEPT ![Client] = "announce"]
    BY <1>1, BusAssumption, <1>a DEF Start, Devs, TypeInv
  <2>2. PICK a \in c .. c + AddrRange - 1 :
          /\ IsLowestFree(a, c)
          /\ idr' = [idr EXCEPT ![a] = made + 1]
          /\ dev' = [dev EXCEPT ![made + 1] = [cam |-> c, src |-> a, onBus |-> TRUE, ept |-> "none"]]
    BY <1>1 DEF Start
  <2>3. \A t \in Threads : pc[t] \notin Releasing
    BY <2>1, <1>a, BusAssumption DEF MutexHeld, TypeInv, Releasing
  <2>4. idr[c] = NoDev
    <3>1. SUFFICES ASSUME idr[c] # NoDev PROVE FALSE
      OBVIOUS
    <3>2. c \in Addrs /\ idr[c] \in Devs
      BY <3>1, <1>a, Sizes DEF TypeInv
    <3>3. dev[idr[c]].cam = c /\ dev[idr[c]].onBus
      BY <3>1, <3>2, <2>3 DEF Known, IdrKnown, Releasing
    <3>4. dev[idr[c]].ept # "none"
      BY <3>2, <3>3, <2>1 DEF Known, OnBusKnown, Starting
    <3> QED BY <3>1, <3>2, <3>3, <3>4, <2>1 DEF Known, OnBusKnown
  <2>5. a = c
    BY <2>2, <2>4, Sizes DEF IsLowestFree
  <2>6. c \in Addrs /\ c # 0
    BY Sizes
  <2>7. \A e \in Devs : e # made + 1 => dev'[e] = dev[e]
    BY <2>2, <1>a DEF TypeInv
  <2>8. dev'[made + 1] = [cam |-> c, src |-> c, onBus |-> TRUE, ept |-> "none"]
    BY <2>1, <2>2, <2>5, <1>a DEF TypeInv
  <2>9. OnBusKnown'
    <3> SUFFICES ASSUME NEW e \in Devs, dev'[e].onBus
        PROVE /\ dev'[e].cam \in Cams /\ dev'[e].src = dev'[e].cam
              /\ dev'[e].ept # "none" => ctxDev'[dev'[e].cam] = e
              /\ dev'[e].ept = "none" => pc'[Client] \in Starting /\ find'[Client] = e
      BY DEF OnBusKnown
    <3>1. CASE e = made + 1
      BY <3>1, <2>1, <2>8, <1>a DEF TypeInv, Starting
    <3>2. CASE e # made + 1
      <4>1. dev'[e] = dev[e]
        BY <3>2, <2>7
      <4>2. dev[e].ept # "none"
        BY <4>1, <2>1 DEF Known, OnBusKnown, Starting
      <4> QED BY <4>1, <4>2, <2>1 DEF Known, OnBusKnown
    <3> QED BY <3>1, <3>2
  <2>10. IdrKnown'
    <3> SUFFICES ASSUME NEW b \in Addrs, idr'[b] # NoDev
        PROVE dev'[idr'[b]].src = b /\ dev'[idr'[b]].cam = b /\ dev'[idr'[b]].onBus
      BY DEF IdrKnown
    <3>1. CASE b = c
      BY <3>1, <2>2, <2>5, <2>8, <1>a DEF TypeInv
    <3>2. CASE b # c
      <4>1. idr'[b] = idr[b] /\ idr[b] \in Devs
        BY <3>2, <2>2, <2>5, <1>a DEF TypeInv
      <4>2. dev[idr[b]].src = b /\ dev[idr[b]].cam = b /\ dev[idr[b]].onBus
        BY <4>1, <2>3 DEF Known, IdrKnown, Releasing
      <4>3. idr[b] # made + 1
        BY <4>1, <4>2, <2>1, <1>a DEF Fresh, TypeInv
      <4> QED BY <4>1, <4>2, <4>3, <2>7
    <3> QED BY <3>1, <3>2
  <2>11. pc'[Client] = "announce"
         /\ \A t \in Threads : pc'[t] # "unregister" /\ pc'[t] # "destroyEpt"
    <3>1. \A t \in Threads : t # Client => pc'[t] = pc[t]
      BY <2>1, <1>a DEF TypeInv
    <3>2. pc'[Client] = "announce"
      BY <2>1, <1>a DEF TypeInv
    <3> QED BY <3>1, <3>2, <2>3 DEF Releasing
  <2>12. DestroyKnown' /\ StopKnown'
    BY <2>11 DEF DestroyKnown, StopKnown
  <2> QED BY <2>9, <2>10, <2>12 DEF Known
<1>2. CASE AnnounceNow \/ AnnounceWait \/ AnnounceWoken \/ AnnounceRelocked
  <2> USE <1>a, QuietStep DEF TypeInv, Starting, registry
  <2>1. CASE AnnounceNow BY <2>1 DEF AnnounceNow, Announce, NextAt, CmdAt
  <2>2. CASE AnnounceWait BY <2>2 DEF AnnounceWait
  <2>3. CASE AnnounceWoken BY <2>3 DEF AnnounceWoken
  <2>4. CASE AnnounceRelocked BY <2>4 DEF AnnounceRelocked, Announce, NextAt, CmdAt
  <2> QED BY <1>2, <2>1, <2>2, <2>3, <2>4
<1>3. CASE StartInterrupted \/ StopInterrupted
  BY <1>3, <1>a DEF StartInterrupted, StopInterrupted, TypeInv
<1>4. CASE CreateEpt
  <2>0. pc[Client] = "createEpt" /\ idr' = idr /\ find' = find /\ cam' = cam
        /\ pc' = [pc EXCEPT ![Client] = "idle"]
    BY <1>4 DEF CreateEpt
  <2>1. find[Client] \in Devs /\ dev[find[Client]].cam = cam[Client] /\ cam[Client] \in Cams
        /\ ctxDev[cam[Client]] = NoDev
    BY <2>0, <1>a DEF StartedDevice, Starting
  <2>2. ctxDev'[cam[Client]] = find[Client]
        /\ \A c \in Cams : c # cam[Client] => ctxDev'[c] = ctxDev[c]
    BY <1>4, <2>1, <1>a DEF CreateEpt, TypeInv
  <2>3. \A e \in Devs : /\ dev'[e].cam = dev[e].cam /\ dev'[e].src = dev[e].src
                        /\ dev'[e].onBus = dev[e].onBus
                        /\ dev'[e].ept = IF e = find[Client] THEN "live" ELSE dev[e].ept
    BY <1>4, <2>1, <1>a DEF CreateEpt, TypeInv, Dev
  <2>4. \A t \in Threads : pc'[t] = "unregister" <=> pc[t] = "unregister"
    BY <2>0, <1>a DEF TypeInv
  <2>5. \A t \in Threads : pc'[t] = "destroyEpt" <=> pc[t] = "destroyEpt"
    BY <2>0, <1>a DEF TypeInv
  <2>6. pc'[Client] = "idle"
    BY <2>0, <1>a DEF TypeInv
  <2>7. OnBusKnown'
    <3> SUFFICES ASSUME NEW e \in Devs, dev'[e].onBus
        PROVE /\ dev'[e].cam \in Cams /\ dev'[e].src = dev'[e].cam
              /\ dev'[e].ept # "none" /\ ctxDev'[dev'[e].cam] = e
      BY DEF OnBusKnown
    <3>1. CASE e = find[Client]
      BY <3>1, <2>1, <2>2, <2>3 DEF Known, OnBusKnown
    <3>2. CASE e # find[Client]
      <4>1. dev[e].cam \in Cams /\ dev[e].src = dev[e].cam /\ dev[e].ept # "none"
            /\ ctxDev[dev[e].cam] = e
        BY <3>2, <2>3 DEF Known, OnBusKnown
      <4>2. dev[e].cam # cam[Client]
        BY <4>1, <2>1 DEF NoDev, Devs
      <4> QED BY <3>2, <4>1, <4>2, <2>2, <2>3
    <3> QED BY <3>1, <3>2
  <2>8. IdrKnown'
    <3> SUFFICES ASSUME NEW a \in Addrs, idr[a] # NoDev
        PROVE /\ dev'[idr[a]].src = a /\ dev'[idr[a]].cam = a
              /\ dev'[idr[a]].onBus \/ \E t \in Threads : pc'[t] = "destroyEpt" /\ find[t] = idr[a]
      BY <2>0 DEF IdrKnown
    <3>1. idr[a] \in Devs
      BY <1>a DEF TypeInv
    <3> QED BY <3>1, <2>3, <2>5 DEF Known, IdrKnown
  <2>9. DestroyKnown'
    BY <2>0, <2>3, <2>4, <2>5, <1>a DEF Known, DestroyKnown, DestroyedDevice
  <2>10. StopKnown'
    BY <2>6 DEF StopKnown
  <2> QED BY <2>7, <2>8, <2>9, <2>10 DEF Known
<1>5. ASSUME NEW c \in Cams, Stop(c) PROVE Known'
  <2>0. pc[Client] = "idle" /\ registry' = registry /\ find' = find
        /\ cam' = [cam EXCEPT ![Client] = c]
        /\ pc' = [pc EXCEPT ![Client] = IF Found(c) = NoDev THEN "stopped" ELSE "announceStop"]
    BY <1>5 DEF Stop
  <2>1. \A t \in Threads : /\ pc'[t] = "unregister" <=> pc[t] = "unregister"
                           /\ pc'[t] = "destroyEpt" <=> pc[t] = "destroyEpt"
    BY <2>0, <1>a DEF TypeInv
  <2>2. \A e \in Devs : dev[e].onBus => dev[e].ept # "none"
    BY <2>0 DEF Known, OnBusKnown, Starting
  <2>3. OnBusKnown'
    BY <2>0, <2>2 DEF Known, OnBusKnown, registry
  <2>4. IdrKnown'
    BY <2>0, <2>1 DEF Known, IdrKnown, registry
  <2>5. DestroyKnown'
    BY <2>0, <2>1 DEF Known, DestroyKnown, registry
  <2>6. StopKnown'
    <3>1. CASE Found(c) = NoDev
      BY <3>1, <2>0, FoundIsFound, <1>a DEF TypeInv, StopKnown, Known, OnBusKnown, registry
    <3>2. CASE Found(c) # NoDev
      BY <3>2, <2>0, <1>a DEF TypeInv, StopKnown
    <3> QED BY <3>1, <3>2
  <2> QED BY <2>3, <2>4, <2>5, <2>6 DEF Known
<1>6. CASE Stopped
  <2>0. pc[Client] = "stopped" /\ idr' = idr /\ dev' = dev /\ find' = find /\ cam' = cam
        /\ pc' = [pc EXCEPT ![Client] = "idle"]
        /\ ctxDev' = [ctxDev EXCEPT ![cam[Client]] = NoDev]
    BY <1>6 DEF Stopped
  <2>1. \A t \in Threads : /\ pc'[t] = "unregister" <=> pc[t] = "unregister"
                           /\ pc'[t] = "destroyEpt" <=> pc[t] = "destroyEpt"
    BY <2>0, <1>a DEF TypeInv
  <2>2. OnBusKnown'
    <3>1. \A e \in Devs : dev[e].onBus => dev[e].cam # cam[Client] /\ dev[e].ept # "none"
      BY <2>0 DEF Known, StopKnown, OnBusKnown, Starting
    <3> QED BY <3>1, <2>0, <1>a DEF Known, OnBusKnown, TypeInv
  <2>3. IdrKnown' /\ DestroyKnown'
    BY <2>0, <2>1 DEF Known, IdrKnown, DestroyKnown
  <2>4. StopKnown'
    BY <2>0, <1>a DEF TypeInv, StopKnown
  <2> QED BY <2>2, <2>3, <2>4 DEF Known
<1>7. ASSUME NEW t \in Threads, DestroyFind(t) PROVE Known'
  <2>0. /\ pc[t] = "destroy" /\ registry' = registry /\ cam' = cam
        /\ find' = [find EXCEPT ![t] = Found(cam[t])]
        /\ pc' = [pc EXCEPT ![t] = IF Found(cam[t]) = NoDev THEN AfterDestroy(t) ELSE "unregister"]
    BY <1>7 DEF DestroyFind
  <2>1. pc[Client] \notin Starting
    BY <2>0, <1>a DEF MutexHeld, Starting, Releasing
  <2>2. \A e \in Devs : dev[e].onBus =>
          dev[e].ept # "none" /\ dev[e].cam \in Cams /\ dev[e].src = dev[e].cam /\ ctxDev[dev[e].cam] = e
    BY <2>1 DEF Known, OnBusKnown
  <2>3. \A u \in Threads : u # t => pc'[u] = pc[u] /\ find'[u] = find[u]
    BY <2>0, <1>a DEF TypeInv
  <2>4. pc'[t] \in {"release", "stopped", "unregister"} /\ (pc'[t] = "release" => t # Client)
    BY <2>0, <1>a DEF TypeInv, AfterDestroy
  <2>5. OnBusKnown'
    BY <2>0, <2>2 DEF OnBusKnown, registry
  <2>6. IdrKnown'
    BY <2>0, <2>3, <2>4 DEF Known, IdrKnown, registry
  <2>7. t = Client => cam[t] \in Cams
    BY <2>0, <1>a DEF StartedDevice
  <2>8. CASE Found(cam[t]) = NoDev
    <3>1. pc'[t] # "unregister" /\ pc'[t] # "destroyEpt"
      BY <2>0, <2>8, <1>a DEF TypeInv, AfterDestroy
    <3>2. DestroyKnown'
      BY <2>0, <2>3, <3>1 DEF Known, DestroyKnown, registry
    <3>3. StopKnown'
      <4>1. CASE t = Client
        BY <4>1, <3>1, <2>0, <2>2, <2>7, <2>8, FoundIsFound DEF StopKnown, registry
      <4>2. CASE t # Client
        BY <4>2, <2>0, <2>3 DEF Known, StopKnown, registry
      <4> QED BY <4>1, <4>2
    <3> QED BY <3>2, <3>3, <2>5, <2>6 DEF Known
  <2>9. CASE Found(cam[t]) # NoDev
    <3>1. pc'[t] = "unregister" /\ find'[t] = Found(cam[t])
      BY <2>0, <2>9, <1>a DEF TypeInv
    <3>2. find'[t] \in Devs /\ dev[find'[t]].onBus
      BY <3>1, <2>9 DEF Found, NoDev
    <3>3. DestroyKnown'
      BY <2>0, <2>2, <2>3, <3>1, <3>2 DEF Known, DestroyKnown, registry
    <3>4. StopKnown'
      <4>1. CASE t = Client
        <5>1. dev[find'[t]].cam = cam[t]
          BY <4>1, <3>1, <2>7, <2>9, FoundIsFound
        <5> QED BY <4>1, <5>1, <2>0, <2>2, <3>1, <3>2 DEF StopKnown, registry
      <4>2. CASE t # Client
        BY <4>2, <2>0, <2>3 DEF Known, StopKnown, registry
      <4> QED BY <4>1, <4>2
    <3> QED BY <3>3, <3>4, <2>5, <2>6 DEF Known
  <2> QED BY <2>8, <2>9
<1>8. ASSUME NEW t \in Threads, Unregister(t) PROVE Known'
  <2>0. /\ pc[t] = "unregister" /\ idr' = idr /\ ctxDev' = ctxDev /\ cam' = cam /\ find' = find
        /\ pc' = [pc EXCEPT ![t] = "destroyEpt"]
    BY <1>8 DEF Unregister
  <2>1. find[t] \in Devs
    BY <2>0, <1>a DEF DestroyedDevice
  <2>2. \A e \in Devs : /\ dev'[e].cam = dev[e].cam /\ dev'[e].src = dev[e].src
                        /\ dev'[e].ept = dev[e].ept
                        /\ (dev'[e].onBus <=> (dev[e].onBus /\ e # find[t]))
    BY <1>8, <2>1, <1>a DEF Unregister, TypeInv, Dev
  <2>3. pc'[t] = "destroyEpt" /\ \A u \in Threads : u # t => pc'[u] = pc[u]
    BY <2>0, <1>a DEF TypeInv
  <2>4. pc[Client] \in Starting => pc'[Client] = pc[Client]
    BY <2>0, <2>3 DEF Starting
  <2>5. OnBusKnown'
    BY <2>0, <2>2, <2>4 DEF Known, OnBusKnown
  <2>6. IdrKnown'
    <3> SUFFICES ASSUME NEW a \in Addrs, idr[a] # NoDev
        PROVE /\ dev'[idr[a]].src = a /\ dev'[idr[a]].cam = a
              /\ dev'[idr[a]].onBus \/ \E u \in Threads : pc'[u] = "destroyEpt" /\ find[u] = idr[a]
      BY <2>0 DEF IdrKnown
    <3>1. idr[a] \in Devs
      BY <1>a DEF TypeInv
    <3>2. CASE idr[a] = find[t]
      BY <3>1, <3>2, <2>2, <2>3 DEF Known, IdrKnown
    <3>3. CASE idr[a] # find[t]
      BY <3>1, <3>3, <2>2, <2>3 DEF Known, IdrKnown
    <3> QED BY <3>2, <3>3
  <2>7. DestroyKnown'
    BY <2>0, <2>2, <2>3, <1>a DEF Known, DestroyKnown, DestroyedDevice
  <2>8. StopKnown'
    BY <2>0, <2>2, <2>3 DEF Known, StopKnown
  <2> QED BY <2>5, <2>6, <2>7, <2>8 DEF Known
<1>9. ASSUME NEW t \in Threads, DestroyEpt(t) PROVE Known'
  <2>0. /\ pc[t] = "destroyEpt" /\ ctxDev' = ctxDev /\ cam' = cam /\ find' = find
        /\ pc' = [pc EXCEPT ![t] = AfterDestroy(t)]
    BY <1>9 DEF DestroyEpt
  <2>1. find[t] \in Devs /\ dev[find[t]].ept # "none"
    BY <2>0, <1>a DEF DestroyedDevice, Known, DestroyKnown
  <2>2. idr' = [idr EXCEPT ![dev[find[t]].cam] = NoDev]
    BY <1>9, <2>1 DEF DestroyEpt, IdrWithout
  <2>3. \A e \in Devs : /\ dev'[e].cam = dev[e].cam /\ dev'[e].src = dev[e].src
                        /\ dev'[e].onBus = dev[e].onBus
                        /\ (dev'[e].ept = "none" <=> dev[e].ept = "none")
    BY <1>9, <2>1, <1>a DEF DestroyEpt, TypeInv, Dev
  <2>4. pc'[t] = AfterDestroy(t) /\ \A u \in Threads : u # t => pc'[u] = pc[u]
    BY <2>0, <1>a DEF TypeInv
  <2>5. /\ t = Client => AfterDestroy(t) = "stopped"
        /\ t # Client => AfterDestroy(t) = "release"
    BY DEF AfterDestroy
  <2>6. pc[Client] \in Starting => pc'[Client] = pc[Client]
    BY <2>0, <2>4 DEF Starting
  <2>7. OnBusKnown'
    BY <2>0, <2>3, <2>6 DEF Known, OnBusKnown
  <2>8. IdrKnown'
    <3> SUFFICES ASSUME NEW a \in Addrs, idr'[a] # NoDev
        PROVE /\ dev'[idr'[a]].src = a /\ dev'[idr'[a]].cam = a
              /\ dev'[idr'[a]].onBus \/ \E u \in Threads : pc'[u] = "destroyEpt" /\ find[u] = idr'[a]
      BY <2>0 DEF IdrKnown
    <3>1. idr'[a] = idr[a] /\ idr[a] \in Devs /\ a # dev[find[t]].cam
      BY <2>2, <1>a DEF TypeInv
    <3>2. dev[idr[a]].src = a /\ dev[idr[a]].cam = a
      BY <3>1 DEF Known, IdrKnown
    <3>3. idr[a] # find[t]
      BY <3>1, <3>2
    <3> QED BY <3>1, <3>2, <3>3, <2>3, <2>4 DEF Known, IdrKnown
  <2>9. DestroyKnown'
    BY <2>0, <2>3, <2>4, <2>5, <1>a DEF Known, DestroyKnown, DestroyedDevice
  <2>10. StopKnown'
    BY <2>0, <2>3, <2>4, <2>5 DEF Known, StopKnown
  <2> QED BY <2>7, <2>8, <2>9, <2>10 DEF Known
<1>10. ASSUME NEW d \in Daemons,
              \/ Open(d) \/ ListenNow(d) \/ ListenWait(d) \/ ListenWoken(d) \/ ListenRelocked(d)
              \/ Exit(d) \/ ReleaseBegin(d) \/ ReleaseNext(d) \/ ReleaseEnd(d)
       PROVE Known'
  <2> USE <1>a, QuietStep DEF TypeInv, registry
  <2>1. CASE Open(d) BY <2>1 DEF Open
  <2>2. CASE ListenNow(d) BY <2>2 DEF ListenNow, Take
  <2>3. CASE ListenWait(d) BY <2>3 DEF ListenWait
  <2>4. CASE ListenWoken(d) BY <2>4 DEF ListenWoken
  <2>5. CASE ListenRelocked(d) BY <2>5 DEF ListenRelocked, Take
  <2>6. CASE Exit(d) BY <2>6 DEF Exit
  <2>7. CASE ReleaseBegin(d) BY <2>7 DEF ReleaseBegin
  <2>8. CASE ReleaseNext(d)
    <3>1. PICK c \in victims : cam' = [cam EXCEPT ![d] = c]
      BY <2>8 DEF ReleaseNext
    <3>2. cam'[Client] = cam[Client]
      BY <3>1
    <3> QED BY <2>8, <3>2 DEF ReleaseNext
  <2>9. CASE ReleaseEnd(d) BY <2>9 DEF ReleaseEnd
  <2> QED BY <1>10, <2>1, <2>2, <2>3, <2>4, <2>5, <2>6, <2>7, <2>8, <2>9
<1>11. CASE UNCHANGED vars
  <2>1. registry' = registry /\ pc' = pc /\ find' = find /\ cam' = cam
    BY <1>11 DEF vars
  <2> QED BY <2>1, QuietStep
<1> QED
  BY <1>1, <1>2, <1>3, <1>4, <1>5, <1>6, <1>7, <1>8, <1>9, <1>10, <1>11
  DEF Next, Camera, Daemon, Destroy

\* A step that sees signals at zero afterwards saw it at zero before.
LEMMA SignalsGrow == BusInv /\ [Next]_vars /\ signals' = 0 => signals = 0
<1> SUFFICES ASSUME BusInv, [Next]_vars, signals' = 0 PROVE signals = 0
  OBVIOUS
<1>1. signals \in Nat
  BY BusAssumption DEF BusInv, TypeInv
<1>2. signals' = signals \/ signals' = signals + 1
  BY DEF bounds, vars, Next, Camera, Daemon, Destroy, Start, Stop, AnnounceNow,
     AnnounceWait, AnnounceWoken, AnnounceRelocked, Announce, StartInterrupted,
     StopInterrupted, CreateEpt, Stopped, DestroyFind, Unregister, DestroyEpt, Open, Exit,
     ListenNow, ListenWait, ListenWoken, ListenRelocked, Take, ReleaseBegin, ReleaseNext,
     ReleaseEnd
<1> QED BY <1>1, <1>2

\* Without a signal, every address in the idr is that of a device on the bus
\* or of one just being destroyed, for any number of cameras and daemons
\* (mtk_rpmsg_create_rpmsgdev and mtk_rpmsg_destroy_rpmsgdev).
THEOREM IdrSafe == Spec => []IdrIsLive
<1>1. Init => Undisturbed
  BY BusAssumption DEF Init, Undisturbed, OnBusKnown, IdrKnown, DestroyKnown, StopKnown, Threads
<1>2. BusInv /\ Undisturbed /\ [Next]_vars => Undisturbed'
  BY KnownStep, SignalsGrow DEF Undisturbed, Known
<1>3. Undisturbed => IdrIsLive
  BY DEF Undisturbed, IdrIsLive, IdrKnown
<1> QED BY <1>1, <1>2, <1>3, BusInvAlways, PTL DEF Spec

-----------------------------------------------------------------------------
(* Undisturbed by signals and exits, the daemon knows the cameras.         *)

Ending == {"destroy", "unregister", "destroyEpt", "stopped"}

\* No daemon is on its way out.
NoRelease == \A d \in Daemons : pc[d] \in {"closed", "open", "listen", "relisten"}

\* The device a context knows is that of its pipe, on the bus until the pipe's
\* own stop takes it off.
ContextsKnown ==
  \A c \in Cams : ctxDev[c] # NoDev =>
    /\ dev[ctxDev[c]].cam = c /\ dev[ctxDev[c]].src = c
    /\ \/ dev[ctxDev[c]].onBus
       \/ pc[Client] \in {"destroyEpt", "stopped"} /\ cam[Client] = c
ClientDevice ==
  /\ pc[Client] \in Starting => dev[find[Client]].onBus
  /\ pc[Client] = "unregister" => dev[find[Client]].cam = cam[Client]

\* The workers there are when the announcement in the mailbox is taken, once
\* or, by two listeners woken together, twice; and the cameras that have been
\* announced, which those that stream follow.
Told ==
  IF listenObj.cmd = "CREATE" THEN workers \cup {listenObj.src} ELSE workers \ {listenObj.src}
Streaming == {c \in Cams : ctxDev[c] # NoDev}
Announced ==
  {c \in Addrs : \/ c \in Streaming /\ ~(pc[Client] \in Ending /\ c = cam[Client])
                 \/ pc[Client] = "createEpt" /\ c = cam[Client]}
WorkersTold == Told = Announced /\ (~ready => workers = Announced)

Unbroken == NoRelease /\ ContextsKnown /\ ClientDevice /\ WorkersTold

\* A step that leaves registry and mailbox alone and keeps the client on its
\* side of the announcement.
LEMMA UnbrokenQuiet ==
  ASSUME Unbroken, registry' = registry, mailbox' = mailbox,
         find'[Client] = find[Client], cam'[Client] = cam[Client],
         pc'[Client] \in Starting => pc[Client] \in Starting,
         pc'[Client] \in Ending <=> pc[Client] \in Ending,
         pc'[Client] = "createEpt" <=> pc[Client] = "createEpt",
         pc'[Client] = "unregister" => pc[Client] = "unregister",
         pc[Client] \in {"destroyEpt", "stopped"} => pc'[Client] \in {"destroyEpt", "stopped"}
  PROVE  ContextsKnown' /\ ClientDevice' /\ WorkersTold'
<1> USE DEF Unbroken, registry, mailbox
<1>1. ContextsKnown' BY DEF ContextsKnown
<1>2. ClientDevice' BY DEF ClientDevice
<1>3. Told' = Told /\ Announced' = Announced
  BY DEF Told, Announced, Streaming
<1> QED BY <1>1, <1>2, <1>3 DEF WorkersTold

\* Writing the mailbox announces what the client is about to do.
LEMMA UnbrokenAnnounce ==
  ASSUME BusInv, Known, Unbroken, ~ready,
         NEW w \in {"announce", "relock", "announceStop", "relockStop"}, pc[Client] = w,
         Announce(CmdAt[w], SrcAt(w), NextAt(w))
  PROVE  Unbroken'
<1>a. TypeInv /\ StartedDevice /\ cam[Client] \in Cams /\ cam[Client] \in Addrs
  BY Sizes DEF BusInv, StartedDevice
<1>b. Client \in Threads /\ Client \notin Daemons /\ Daemons \subseteq Threads
  BY BusAssumption DEF Threads
<1>1. /\ registry' = registry /\ workers' = workers /\ cam' = cam /\ find' = find /\ ready'
      /\ listenObj' = [cmd |-> CmdAt[w], src |-> SrcAt(w)]
      /\ pc' = [pc EXCEPT ![Client] = NextAt(w)]
  BY DEF Announce, Goto
<1>2. pc'[Client] = NextAt(w) /\ \A d \in Daemons : pc'[d] = pc[d]
  BY <1>1, <1>a, <1>b DEF TypeInv
<1>3. workers = Announced
  BY DEF Unbroken, WorkersTold
<1>4. NoRelease'
  BY <1>2 DEF Unbroken, NoRelease
<1>5. CASE w \in {"announce", "relock"}
  <2>1. CmdAt[w] = "CREATE" /\ NextAt(w) = "createEpt"
    BY <1>5 DEF CmdAt, NextAt
  <2>2. SrcAt(w) = dev[find[Client]].src
    BY <2>1 DEF SrcAt
  <2>3. dev[find[Client]].src = cam[Client]
    BY <1>5, <1>a DEF StartedDevice, Starting, Unbroken, ClientDevice, Known, OnBusKnown
  <2>4. listenObj'.cmd = "CREATE" /\ listenObj'.src = cam[Client]
    BY <1>1, <2>1, <2>2, <2>3
  <2>5. ContextsKnown' /\ ClientDevice'
    BY <1>1, <1>2, <1>5, <2>1 DEF Unbroken, ContextsKnown, ClientDevice, Starting, registry
  <2>6. Announced' = Announced \cup {cam[Client]}
    BY <1>1, <1>2, <1>5, <1>a, <2>1 DEF Announced, Streaming, Ending, registry
  <2>7. Told' = workers \cup {cam[Client]}
    BY <1>1, <2>4 DEF Told
  <2> QED BY <1>1, <1>3, <1>4, <2>5, <2>6, <2>7 DEF Unbroken, WorkersTold
<1>6. CASE w \in {"announceStop", "relockStop"}
  <2>1. CmdAt[w] = "DESTROY" /\ NextAt(w) = "destroy"
    BY <1>6 DEF CmdAt, NextAt
  <2>2. SrcAt(w) = cam[Client]
    BY <2>1 DEF SrcAt
  <2>4. listenObj'.cmd = "DESTROY" /\ listenObj'.src = cam[Client]
    BY <1>1, <2>1, <2>2
  <2>5. ContextsKnown' /\ ClientDevice'
    BY <1>1, <1>2, <1>6, <2>1 DEF Unbroken, ContextsKnown, ClientDevice, Starting, registry
  <2>6. Announced' = Announced \ {cam[Client]}
    BY <1>1, <1>2, <1>6, <1>a, <2>1 DEF Announced, Streaming, Ending, registry
  <2>7. Told' = workers \ {cam[Client]}
    BY <1>1, <2>4 DEF Told
  <2> QED BY <1>1, <1>3, <1>4, <2>5, <2>6, <2>7 DEF Unbroken, WorkersTold
<1> QED BY <1>5, <1>6

\* Taking the announcement, a second time too, makes the workers those told.
LEMMA UnbrokenTake ==
  ASSUME BusInv, Unbroken, NEW d \in Daemons, pc[d] \in {"open", "relisten"}, Take(d)
  PROVE  Unbroken'
<1>1. /\ workers' = Told /\ listenObj' = listenObj /\ registry' = registry
      /\ cam' = cam /\ find' = find /\ pc' = [pc EXCEPT ![d] = "open"]
  BY DEF Take, Told, Goto, opens
<1>2. d # Client /\ d \in Threads /\ Client \in Threads /\ Daemons \subseteq Threads
  BY BusAssumption DEF Threads
<1>3. pc'[Client] = pc[Client]
  BY <1>1, <1>2 DEF BusInv, TypeInv
<1>4. NoRelease'
  BY <1>1, <1>2 DEF BusInv, TypeInv, Unbroken, NoRelease
<1>5. ContextsKnown' /\ ClientDevice'
  BY <1>1, <1>3 DEF Unbroken, ContextsKnown, ClientDevice, registry
<1>6. Announced' = Announced
  BY <1>1, <1>3 DEF Announced, Streaming, registry
<1>7. Told' = Told
  BY <1>1 DEF Told
<1> QED BY <1>1, <1>4, <1>5, <1>6, <1>7 DEF Unbroken, WorkersTold

\* A step that sees exits at zero afterwards saw it at zero before.
LEMMA ExitsGrow == BusInv /\ [Next]_vars /\ exits' = 0 => exits = 0
<1> SUFFICES ASSUME BusInv, [Next]_vars, exits' = 0 PROVE exits = 0
  OBVIOUS
<1>1. exits \in Nat
  BY BusAssumption DEF BusInv, TypeInv
<1>2. exits' = exits \/ exits' = exits + 1
  BY DEF bounds, vars, Next, Camera, Daemon, Destroy, Start, Stop, AnnounceNow,
     AnnounceWait, AnnounceWoken, AnnounceRelocked, Announce, StartInterrupted,
     StopInterrupted, CreateEpt, Stopped, DestroyFind, Unregister, DestroyEpt, Open, Exit,
     ListenNow, ListenWait, ListenWoken, ListenRelocked, Take, ReleaseBegin, ReleaseNext,
     ReleaseEnd
<1> QED BY <1>1, <1>2

\* While no daemon exits and no signal comes, every step keeps Unbroken.
LEMMA UnbrokenStep ==
  BusInv /\ Known /\ Unbroken /\ [Next]_vars /\ signals' = 0 /\ exits' = 0 => Unbroken'
<1> SUFFICES ASSUME BusInv, Known, Unbroken, [Next]_vars, signals' = 0, exits' = 0
             PROVE  Unbroken'
  OBVIOUS
<1>a. TypeInv /\ StartedDevice /\ DestroyedDevice /\ Fresh
  BY DEF BusInv
<1>b. Client \in Threads /\ Client \notin Daemons /\ Daemons \subseteq Threads
      /\ Threads = Daemons \cup {Client}
  BY BusAssumption DEF Threads
<1>c. Cams \subseteq Addrs /\ 0 \notin Cams
  BY Sizes
<1>d. \A d \in Daemons : pc[d] \in {"closed", "open", "listen", "relisten"}
  BY DEF Unbroken, NoRelease
<1>1. ASSUME NEW w, pc' = [pc EXCEPT ![Client] = w]
      PROVE  NoRelease' /\ pc'[Client] = w
  BY <1>1, <1>a, <1>b, <1>d DEF NoRelease, TypeInv
<1>2. ASSUME NEW d \in Daemons, NEW w \in {"open", "listen", "relisten"},
             pc' = [pc EXCEPT ![d] = w]
      PROVE  NoRelease' /\ pc'[Client] = pc[Client]
  BY <1>2, <1>a, <1>b, <1>d DEF NoRelease, TypeInv
<1>3. ASSUME NEW c \in Cams, Start(c) PROVE Unbroken'
  <2>1. /\ pc[Client] = "idle" /\ pc' = [pc EXCEPT ![Client] = "announce"]
        /\ made + 1 \in Devs /\ ctxDev' = ctxDev /\ mailbox' = mailbox
        /\ cam' = [cam EXCEPT ![Client] = c]
        /\ find' = [find EXCEPT ![Client] = made + 1]
    BY <1>3, BusAssumption, <1>a DEF Start, Devs, TypeInv, Goto
  <2>2. PICK a \in c .. c + AddrRange - 1 :
          dev' = [dev EXCEPT ![made + 1] = [cam |-> c, src |-> a, onBus |-> TRUE, ept |-> "none"]]
    BY <1>3 DEF Start
  <2>3. NoRelease' /\ pc'[Client] = "announce"
    BY <1>1, <2>1
  <2>4. find'[Client] = made + 1 /\ dev'[made + 1].onBus
    BY <2>1, <2>2, <1>a, <1>b DEF TypeInv
  <2>5. ContextsKnown'
    <3> SUFFICES ASSUME NEW x \in Cams, ctxDev[x] # NoDev
                 PROVE  dev'[ctxDev[x]].cam = x /\ dev'[ctxDev[x]].src = x /\ dev'[ctxDev[x]].onBus
      BY <2>1 DEF ContextsKnown
    <3>1. ctxDev[x] \in Devs
      BY <1>a DEF TypeInv
    <3>2. dev[ctxDev[x]].cam = x /\ dev[ctxDev[x]].src = x /\ dev[ctxDev[x]].onBus
      BY <2>1 DEF Unbroken, ContextsKnown
    <3>3. ctxDev[x] # made + 1
      <4>1. made + 1 > made
        BY <1>a DEF TypeInv
      <4> QED BY <4>1, <3>1, <3>2, <2>1, <1>a DEF Fresh
    <3> QED BY <3>1, <3>2, <3>3, <2>2, <1>a DEF TypeInv
  <2>6. Told' = Told
    BY <2>1 DEF Told, mailbox
  <2>7. Announced' = Announced
    BY <2>1, <2>3 DEF Announced, Streaming, Ending
  <2> QED
    BY <2>1, <2>3, <2>4, <2>5, <2>6, <2>7 DEF Unbroken, ClientDevice, WorkersTold, mailbox
<1>4. CASE AnnounceNow \/ AnnounceRelocked
  <2>1. PICK w \in {"announce", "relock", "announceStop", "relockStop"} :
          pc[Client] = w /\ Announce(CmdAt[w], SrcAt(w), NextAt(w))
    BY <1>4 DEF AnnounceNow, AnnounceRelocked
  <2>2. ~ready
    BY <1>4 DEF AnnounceNow, MailboxEmpty, AnnounceRelocked, BusInv, EmptyWhenRelocked
  <2> QED BY <2>1, <2>2, UnbrokenAnnounce
<1>5. CASE AnnounceWait \/ AnnounceWoken
  <2>1. PICK w \in {"wait", "waitStop", "relock", "relockStop"} :
          /\ pc' = [pc EXCEPT ![Client] = w]
          /\ w \in Starting <=> pc[Client] \in Starting
          /\ pc[Client] \in {"announce", "announceStop", "wait", "waitStop"}
    BY <1>5 DEF AnnounceWait, AnnounceWoken, Goto, Starting
  <2>2. UNCHANGED <<registry, mailbox, cam, find>>
    BY <1>5 DEF AnnounceWait, AnnounceWoken
  <2>3. NoRelease' /\ pc'[Client] = w
    BY <1>1, <2>1
  <2>4. ContextsKnown' /\ ClientDevice' /\ WorkersTold'
    BY <2>1, <2>2, <2>3, UnbrokenQuiet DEF Starting, Ending
  <2> QED BY <2>3, <2>4 DEF Unbroken
<1>6. CASE StartInterrupted \/ StopInterrupted
  BY <1>6, <1>a DEF StartInterrupted, StopInterrupted, TypeInv
<1>7. CASE CreateEpt
  <2>1. /\ pc[Client] = "createEpt" /\ pc' = [pc EXCEPT ![Client] = "idle"]
        /\ mailbox' = mailbox /\ cam' = cam
    BY <1>7 DEF CreateEpt, Goto
  <2>2. find[Client] \in Devs /\ cam[Client] \in Cams /\ dev[find[Client]].onBus
        /\ dev[find[Client]].cam = cam[Client] /\ dev[find[Client]].src = cam[Client]
    BY <2>1, <1>a DEF StartedDevice, Starting, Unbroken, ClientDevice, Known, OnBusKnown
  <2>3. ctxDev' = [ctxDev EXCEPT ![cam[Client]] = find[Client]]
        /\ \A e \in Devs : /\ dev'[e].cam = dev[e].cam /\ dev'[e].src = dev[e].src
                           /\ dev'[e].onBus = dev[e].onBus
    BY <1>7, <2>2, <1>a DEF CreateEpt, TypeInv, Dev
  <2>4. NoRelease' /\ pc'[Client] = "idle"
    BY <1>1, <2>1
  <2>5. ContextsKnown'
    <3> SUFFICES ASSUME NEW x \in Cams, ctxDev'[x] # NoDev
                 PROVE  dev'[ctxDev'[x]].cam = x /\ dev'[ctxDev'[x]].src = x /\ dev'[ctxDev'[x]].onBus
      BY DEF ContextsKnown
    <3>1. CASE x = cam[Client]
      BY <3>1, <2>2, <2>3, <1>a DEF TypeInv
    <3>2. CASE x # cam[Client]
      <4>1. ctxDev'[x] = ctxDev[x] /\ ctxDev[x] \in Devs
        BY <3>2, <2>3, <1>a DEF TypeInv
      <4> QED BY <4>1, <2>1, <2>3 DEF Unbroken, ContextsKnown
    <3> QED BY <3>1, <3>2
  <2>6. ClientDevice'
    BY <2>4 DEF ClientDevice, Starting
  <2>7. Streaming' = Streaming \cup {cam[Client]}
    BY <2>2, <2>3, <1>a DEF Streaming, TypeInv, Devs, NoDev
  <2>8. Announced' = Announced
    BY <2>1, <2>2, <2>4, <2>7, <1>c DEF Announced, Ending
  <2>9. Told' = Told
    BY <2>1 DEF Told, mailbox
  <2> QED BY <2>1, <2>4, <2>5, <2>6, <2>8, <2>9 DEF Unbroken, WorkersTold, mailbox
<1>8. ASSUME NEW c \in Cams, Stop(c) PROVE Unbroken'
  <2>1. /\ pc[Client] = "idle" /\ ctxDev[c] # NoDev /\ UNCHANGED <<registry, mailbox, find>>
        /\ pc' = [pc EXCEPT ![Client] = IF Found(c) = NoDev THEN "stopped" ELSE "announceStop"]
    BY <1>8 DEF Stop, Goto
  <2>2. Found(c) # NoDev
    <3>1. ctxDev[c] \in Devs
      BY <2>1, <1>a DEF TypeInv
    <3>2. dev[ctxDev[c]].cam = c /\ dev[ctxDev[c]].src = c /\ dev[ctxDev[c]].onBus
      BY <2>1 DEF Unbroken, ContextsKnown
    <3> QED BY <3>1, <3>2, FoundIsFound
  <2>3. NoRelease' /\ pc'[Client] = "announceStop"
    BY <1>1, <2>1, <2>2
  <2>4. ContextsKnown' /\ ClientDevice'
    BY <2>1, <2>3 DEF Unbroken, ContextsKnown, ClientDevice, Starting, registry
  <2>5. Announced' = Announced /\ Told' = Told
    BY <2>1, <2>3 DEF Announced, Streaming, Ending, Told, registry, mailbox
  <2> QED BY <2>1, <2>3, <2>4, <2>5 DEF Unbroken, WorkersTold, mailbox
<1>9. CASE Stopped
  <2>1. /\ pc[Client] = "stopped" /\ pc' = [pc EXCEPT ![Client] = "idle"]
        /\ UNCHANGED <<dev, mailbox, find, cam>>
        /\ ctxDev' = [ctxDev EXCEPT ![cam[Client]] = NoDev]
    BY <1>9 DEF Stopped, Goto
  <2>2. NoRelease' /\ pc'[Client] = "idle"
    BY <1>1, <2>1
  <2>3. Streaming' = Streaming \ {cam[Client]}
    BY <2>1, <1>a DEF Streaming, TypeInv
  <2>4. ContextsKnown'
    <3> SUFFICES ASSUME NEW x \in Cams, ctxDev'[x] # NoDev
                 PROVE  dev[ctxDev'[x]].cam = x /\ dev[ctxDev'[x]].src = x /\ dev[ctxDev'[x]].onBus
      BY <2>1 DEF ContextsKnown
    <3>1. x # cam[Client] /\ ctxDev'[x] = ctxDev[x]
      BY <2>1, <1>a DEF TypeInv
    <3> QED BY <3>1 DEF Unbroken, ContextsKnown
  <2>5. ClientDevice'
    BY <2>2 DEF ClientDevice, Starting
  <2>6. Announced' = Announced
    BY <2>1, <2>2, <2>3 DEF Announced, Ending
  <2>7. Told' = Told
    BY <2>1 DEF Told, mailbox
  <2> QED BY <2>1, <2>2, <2>4, <2>5, <2>6, <2>7 DEF Unbroken, WorkersTold, mailbox
<1>10. ASSUME NEW t \in Threads, Destroy(t) PROVE Unbroken'
  <2>0. t = Client
    BY <1>10, <1>b, <1>d DEF Destroy, DestroyFind, Unregister, DestroyEpt
  <2>1. CASE DestroyFind(t)
    <3>1. PICK w \in {"stopped", "unregister"} : pc' = [pc EXCEPT ![Client] = w]
      BY <2>0, <2>1 DEF DestroyFind, AfterDestroy, Goto
    <3>2. pc[Client] = "destroy" /\ UNCHANGED <<registry, mailbox, cam>>
      BY <2>0, <2>1 DEF DestroyFind
    <3>3. NoRelease' /\ pc'[Client] = w
      BY <1>1, <3>1
    <3>a. w = "unregister" => dev[find'[Client]].cam = cam[Client]
      <4>1. /\ find' = [find EXCEPT ![Client] = Found(cam[Client])]
            /\ pc' = [pc EXCEPT ![Client] =
                        IF Found(cam[Client]) = NoDev THEN "stopped" ELSE "unregister"]
        BY <2>0, <2>1 DEF DestroyFind, AfterDestroy, Goto
      <4>2. cam[Client] \in Cams
        BY <3>2, <1>a DEF StartedDevice
      <4>3. find'[Client] = Found(cam[Client]) /\ (w = "unregister" => Found(cam[Client]) # NoDev)
        BY <4>1, <3>3, <1>a, <1>b DEF TypeInv
      <4> QED BY <4>2, <4>3, FoundIsFound
    <3>4. ContextsKnown' /\ ClientDevice'
      BY <3>2, <3>3, <3>a DEF Unbroken, ContextsKnown, ClientDevice, Starting, registry
    <3>5. Announced' = Announced /\ Told' = Told
      BY <3>2, <3>3 DEF Announced, Streaming, Ending, Told, registry, mailbox
    <3> QED BY <3>2, <3>3, <3>4, <3>5 DEF Unbroken, WorkersTold, mailbox
  <2>2. CASE Unregister(t)
    <3>1. /\ pc[Client] = "unregister" /\ pc' = [pc EXCEPT ![Client] = "destroyEpt"]
          /\ UNCHANGED <<ctxDev, mailbox, cam>>
      BY <2>0, <2>2 DEF Unregister, Goto
    <3>2. find[Client] \in Devs
      BY <3>1, <1>a, <1>b DEF DestroyedDevice
    <3>3. \A e \in Devs : /\ dev'[e].cam = dev[e].cam /\ dev'[e].src = dev[e].src
                          /\ (dev'[e].onBus <=> (dev[e].onBus /\ e # find[Client]))
      BY <2>0, <2>2, <3>2, <1>a DEF Unregister, TypeInv, Dev
    <3>4. NoRelease' /\ pc'[Client] = "destroyEpt"
      BY <1>1, <3>1
    <3>5. ContextsKnown'
      <4> SUFFICES ASSUME NEW x \in Cams, ctxDev[x] # NoDev
                   PROVE  /\ dev'[ctxDev[x]].cam = x /\ dev'[ctxDev[x]].src = x
                          /\ dev'[ctxDev[x]].onBus \/ cam[Client] = x
        BY <3>1, <3>4 DEF ContextsKnown
      <4>1. ctxDev[x] \in Devs
        BY <1>a DEF TypeInv
      <4>2. dev[ctxDev[x]].cam = x /\ dev[ctxDev[x]].src = x /\ dev[ctxDev[x]].onBus
        BY <3>1 DEF Unbroken, ContextsKnown
      <4>3. ctxDev[x] = find[Client] => cam[Client] = x
        BY <4>2, <3>1 DEF Unbroken, ClientDevice
      <4> QED BY <4>1, <4>2, <4>3, <3>3
    <3>6. ClientDevice'
      BY <3>4 DEF ClientDevice, Starting
    <3>7. Announced' = Announced /\ Told' = Told
      BY <3>1, <3>4 DEF Announced, Streaming, Ending, Told, mailbox
    <3> QED BY <3>1, <3>4, <3>5, <3>6, <3>7 DEF Unbroken, WorkersTold, mailbox
  <2>3. CASE DestroyEpt(t)
    <3>1. /\ pc[Client] = "destroyEpt" /\ pc' = [pc EXCEPT ![Client] = "stopped"]
          /\ UNCHANGED <<ctxDev, mailbox, cam>>
      BY <2>0, <2>3 DEF DestroyEpt, AfterDestroy, Goto
    <3>2. \A e \in Devs : /\ dev'[e].cam = dev[e].cam /\ dev'[e].src = dev[e].src
                          /\ dev'[e].onBus = dev[e].onBus
      BY <2>3, <1>a DEF DestroyEpt, TypeInv, Dev
    <3>3. NoRelease' /\ pc'[Client] = "stopped"
      BY <1>1, <3>1
    <3>4. ContextsKnown'
      <4> SUFFICES ASSUME NEW x \in Cams, ctxDev[x] # NoDev
                   PROVE  /\ dev'[ctxDev[x]].cam = x /\ dev'[ctxDev[x]].src = x
                          /\ dev'[ctxDev[x]].onBus \/ cam[Client] = x
        BY <3>1, <3>3 DEF ContextsKnown
      <4>1. ctxDev[x] \in Devs
        BY <1>a DEF TypeInv
      <4> QED BY <4>1, <3>2 DEF Unbroken, ContextsKnown
    <3>5. ClientDevice'
      BY <3>3 DEF ClientDevice, Starting
    <3>6. Announced' = Announced /\ Told' = Told
      BY <3>1, <3>3 DEF Announced, Streaming, Ending, Told, mailbox
    <3> QED BY <3>1, <3>3, <3>4, <3>5, <3>6 DEF Unbroken, WorkersTold, mailbox
  <2> QED BY <1>10, <2>1, <2>2, <2>3 DEF Destroy
<1>11. ASSUME NEW d \in Daemons, ListenNow(d) \/ ListenRelocked(d) PROVE Unbroken'
  BY <1>11, UnbrokenTake DEF ListenNow, ListenRelocked
<1>12. ASSUME NEW d \in Daemons, Open(d) \/ ListenWait(d) \/ ListenWoken(d) PROVE Unbroken'
  <2>1. UNCHANGED <<registry, mailbox, cam, find>>
    BY <1>12 DEF Open, ListenWait, ListenWoken
  <2>2. PICK w \in {"open", "listen", "relisten"} : pc' = [pc EXCEPT ![d] = w]
    BY <1>12 DEF Open, ListenWait, ListenWoken, Goto
  <2>3. NoRelease' /\ pc'[Client] = pc[Client]
    BY <1>2, <2>2
  <2>4. ContextsKnown' /\ ClientDevice' /\ WorkersTold'
    BY <2>1, <2>3, UnbrokenQuiet
  <2> QED BY <2>3, <2>4 DEF Unbroken
<1>13. ASSUME NEW d \in Daemons, Exit(d) PROVE FALSE
  BY <1>13, <1>a DEF Exit, TypeInv
<1>14. ASSUME NEW d \in Daemons, ReleaseBegin(d) \/ ReleaseNext(d) \/ ReleaseEnd(d)
       PROVE  FALSE
  BY <1>14, <1>d DEF ReleaseBegin, ReleaseNext, ReleaseEnd
<1>15. CASE UNCHANGED vars
  <2>1. UNCHANGED <<registry, mailbox, cam, find, pc>>
    BY <1>15 DEF vars
  <2>2. ContextsKnown' /\ ClientDevice' /\ WorkersTold'
    BY <2>1, UnbrokenQuiet
  <2> QED BY <2>1, <2>2 DEF Unbroken, NoRelease
<1> QED
  BY <1>b, <1>3, <1>4, <1>5, <1>6, <1>7, <1>8, <1>9, <1>10, <1>11, <1>12, <1>13, <1>14, <1>15
  DEF Next, Camera, Daemon

\* While no signal and no exit disturbs them, the daemons' workers are those
\* of the cameras that stream as soon as the mailbox is empty, for any number
\* of cameras and daemons (ccd_master_listen, mtk_rpmsg_create_rpmsgdev): an
\* announcement is taken before the next one, and twice does no harm.
THEOREM WorkersFollow == Spec => []DaemonKnowsCameras
<1> DEFINE Inv == Undisturbed /\ (signals = 0 /\ exits = 0 => Unbroken)
<1>1. Init => Inv
  <2> SUFFICES ASSUME Init PROVE Inv
    OBVIOUS
  <2>1. Undisturbed
    BY BusAssumption DEF Init, Undisturbed, OnBusKnown, IdrKnown, DestroyKnown, StopKnown, Threads
  <2>2. pc[Client] = "idle" /\ \A d \in Daemons : pc[d] = "closed"
    BY BusAssumption DEF Init, Threads
  <2>3. \A c \in Cams : ctxDev[c] = NoDev
    BY DEF Init
  <2>4. Told = {} /\ Announced = {} /\ workers = {}
    BY <2>2, <2>3 DEF Init, Told, Announced, Streaming
  <2> QED
    BY <2>1, <2>2, <2>3, <2>4 DEF Unbroken, NoRelease, ContextsKnown, ClientDevice, Starting, WorkersTold
<1>2. BusInv /\ Inv /\ [Next]_vars => Inv'
  BY KnownStep, SignalsGrow, ExitsGrow, UnbrokenStep DEF Undisturbed, Known
<1>3. BusInv /\ Inv => DaemonKnowsCameras
  <2> SUFFICES ASSUME BusInv, Inv, signals = 0, exits = 0, ~ready, pc[Client] = "idle"
               PROVE  workers = {dev[ctxDev[c]].src : c \in {c \in Cams : ctxDev[c] # NoDev}}
    BY DEF DaemonKnowsCameras
  <2>1. workers = Announced
    BY DEF Unbroken, WorkersTold
  <2>2. Announced = Streaming
    BY Sizes DEF Announced, Streaming, Ending
  <2>3. \A c \in Streaming : dev[ctxDev[c]].src = c
    BY DEF Unbroken, ContextsKnown, Streaming
  <2>4. {dev[ctxDev[c]].src : c \in Streaming} = Streaming
    BY <2>3
  <2> QED BY <2>1, <2>2, <2>4 DEF Streaming
<1> HIDE DEF Inv
<1> QED BY <1>1, <1>2, <1>3, BusInvAlways, PTL DEF Spec
=============================================================================
