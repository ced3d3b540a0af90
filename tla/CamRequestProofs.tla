-------------------------- MODULE CamRequestProofs --------------------------
(***************************************************************************)
(* What TLAPS proves of CamRequest for any number of requests and pipes and *)
(* any limits: every buffer set is given back to vb2 exactly once.          *)
(*                                                                         *)
(* The argument never looks into the lists: the requests a thread meets in  *)
(* its snapshot may be any, stale ones included. What protects a buffer is  *)
(* the cmpxchg of buf_state alone.                                          *)
(***************************************************************************)
EXTENDS CamRequest, TLAPS

\* The part of the types the argument needs.
TypeInv ==
  /\ req \in [Reqs -> ReqType]
  /\ streaming \subseteq Pipes
  /\ enqSeq \in [Pipes -> Nat]
  /\ pc \in [Threads -> PcType]
  /\ hand = [t \in Threads |-> hand[t]]
  /\ target \in Pipes

\* Thread t has won the cmpxchg for its pipe of r and owes vb2 the buffers.
Owes(t, r) == pc[t] = "return" /\ Current(t) = r

\* What is owed is held and no longer armed, and is owed by one thread.
OnceInv ==
  /\ \A r \in Reqs : req[r].armed \subseteq req[r].held
  /\ \A t \in Threads, r \in Reqs :
       Owes(t, r) => PipeOf(t) \in req[r].held \ req[r].armed
  /\ \A t, u \in Threads, r \in Reqs :
       Owes(t, r) /\ Owes(u, r) /\ PipeOf(t) = PipeOf(u) => t = u

-----------------------------------------------------------------------------

\* The initial state satisfies the types.
LEMMA TypeInvInit == ASSUME Init PROVE TypeInv
<1>1. req \in [Reqs -> ReqType]
  BY DEF Init, ReqType
<1>2. streaming \subseteq Pipes /\ enqSeq \in [Pipes -> Nat] /\ target \in Pipes
  BY DEF Init
<1>3. pc \in [Threads -> PcType] /\ hand = [t \in Threads |-> hand[t]]
  BY DEF Init, PcType
<1> QED BY <1>1, <1>2, <1>3 DEF TypeInv

\* The end of a snapshot entry keeps program counters and snapshots well formed
\* and never leads straight to the return of another buffer.
LEMMA NextInHandMoves ==
  ASSUME TypeInv, NEW t \in Threads, NextInHand(t)
  PROVE  /\ pc' \in [Threads -> PcType]
         /\ hand' = [u \in Threads |-> hand'[u]]
         /\ pc'[t] # "return"
         /\ \A u \in Threads \ {t} : pc'[u] = pc[u] /\ hand'[u] = hand[u]
<1>1. PICK to \in PcType \ {"return"} : pc' = [pc EXCEPT ![t] = to]
  BY DEF NextInHand, Goto, Finish, PcType
<1>2. hand' = [hand EXCEPT ![t] = Tail(@)]
  BY DEF NextInHand
<1> QED BY <1>1, <1>2 DEF TypeInv

-----------------------------------------------------------------------------

\* A request's record stays in the type when one of its fields is replaced.
LEMMA ReqUpdate ==
  ASSUME NEW q \in ReqType, NEW S \in SUBSET Pipes,
         NEW st \in {"pending", "running", "deleting", "complete", "cleanup"}
  PROVE  /\ [q EXCEPT !.armed = S] \in ReqType
         /\ [q EXCEPT !.held = S] \in ReqType
         /\ [q EXCEPT !.isQueued = S] \in ReqType
         /\ [q EXCEPT !.done = S] \in ReqType
         /\ [q EXCEPT !.state = st] \in ReqType
         /\ [q EXCEPT !.done = S, !.state = st] \in ReqType
  BY DEF ReqType

\* So does the function when one request's record is replaced.
LEMMA ReqPoint ==
  ASSUME req \in [Reqs -> ReqType], NEW r, NEW new,
         r \in Reqs => new \in ReqType, req' = [req EXCEPT ![r] = new]
  PROVE  req' \in [Reqs -> ReqType]
  OBVIOUS

\* The cmpxchg of buf_state keeps the requests well formed.
LEMMA ClaimReq ==
  ASSUME TypeInv, NEW t \in Threads, Claim(t) PROVE req' \in [Reqs -> ReqType]
<1> DEFINE r == Current(t)
           new == [req[r] EXCEPT !.armed = @ \ {PipeOf(t)}]
<1>1. req' = [req EXCEPT ![r] = new]
  BY DEF Claim
<1>2. ASSUME r \in Reqs PROVE new \in ReqType
  <2>1. req[r] \in ReqType /\ req[r].armed \ {PipeOf(t)} \in SUBSET Pipes
    BY <1>2 DEF TypeInv, ReqType
  <2> QED BY <2>1, ReqUpdate
<1> HIDE DEF new, r
<1> QED BY <1>1, <1>2, ReqPoint DEF TypeInv

\* So does the return of a buffer set.
LEMMA ReturnReq ==
  ASSUME TypeInv, NEW t \in Threads, Return(t) PROVE req' \in [Reqs -> ReqType]
<1> DEFINE r == Current(t)
           new == [req[r] EXCEPT !.held = @ \ {PipeOf(t)}]
<1>1. req' = [req EXCEPT ![r] = new]
  BY DEF Return
<1>2. ASSUME r \in Reqs PROVE new \in ReqType
  <2>1. req[r] \in ReqType /\ req[r].held \ {PipeOf(t)} \in SUBSET Pipes
    BY <1>2 DEF TypeInv, ReqType
  <2> QED BY <2>1, ReqUpdate
<1> HIDE DEF new, r
<1> QED BY <1>1, <1>2, ReqPoint DEF TypeInv

\* So does handing a request to the composer.
LEMMA EnqueueReq ==
  ASSUME TypeInv, NEW t \in Threads, Enqueue(t)
  PROVE  req' \in [Reqs -> ReqType] /\ enqSeq' \in [Pipes -> Nat]
<1> DEFINE r == Head(batch)
           q == req[r]
           next == [p \in Pipes |-> IF p \in q.pipeUsed THEN enqSeq[p] + 1 ELSE enqSeq[p]]
           seq == [p \in Pipes |-> IF p \in q.pipeUsed THEN next[p] ELSE q.seq[p]]
           new == [q EXCEPT !.state = "running", !.isQueued = {},
                            !.handed = q.pipeUsed \cap streaming, !.seq = seq]
<1>1. req' = [req EXCEPT ![r] = new] /\ enqSeq' = next
  BY DEF Enqueue, NumbersWith, Composed
<1>2. next \in [Pipes -> Nat]
  BY DEF TypeInv
<1>3. ASSUME r \in Reqs PROVE new \in ReqType
  <2>1. q \in ReqType /\ q.seq \in [Pipes -> Nat]
    BY <1>3 DEF TypeInv, ReqType
  <2>2. seq \in [Pipes -> Nat]
    <3> HIDE DEF next
    <3> QED BY <1>2, <2>1
  <2>3. q.pipeUsed \cap streaming \in SUBSET Pipes
    BY DEF TypeInv
  <2> HIDE DEF seq, q
  <2> QED BY <2>1, <2>2, <2>3 DEF ReqType
<1> HIDE DEF new, r, next
<1> QED BY <1>1, <1>2, <1>3, ReqPoint DEF TypeInv

\* So does queueing a request.
LEMMA QueueReq ==
  ASSUME TypeInv, NEW r \in Reqs, NEW used \in PipeSets, Queue(r, used)
  PROVE  req' \in [Reqs -> ReqType]
<1> DEFINE new == [req[r] EXCEPT !.state = "pending", !.done = {}, !.pipeUsed = used,
                                 !.armed = used, !.held = used]
<1>1. req' = [req EXCEPT ![r] = new]
  BY DEF Queue
<1>2. new \in ReqType
  <2>1. used \in SUBSET Pipes
    BY ConstantsAssumption
  <2> QED BY <2>1 DEF TypeInv, ReqType
<1> HIDE DEF new
<1> QED BY <1>1, <1>2, ReqPoint DEF TypeInv

\* So does the arrival of a frame.
LEMMA FrameDoneReq ==
  ASSUME TypeInv, NEW p \in Pipes, FrameDone(p) PROVE req' \in [Reqs -> ReqType]
<1>1. PICK r : req' = [req EXCEPT ![r].isQueued = @ \cup {p}]
  BY DEF FrameDone
<1> DEFINE new == [req[r] EXCEPT !.isQueued = @ \cup {p}]
<1>2. req' = [req EXCEPT ![r] = new]
  BY <1>1
<1>3. ASSUME r \in Reqs PROVE new \in ReqType
  <2>1. req[r] \in ReqType /\ req[r].isQueued \cup {p} \in SUBSET Pipes
    BY <1>3 DEF TypeInv, ReqType
  <2> QED BY <2>1, ReqUpdate
<1> HIDE DEF new
<1> QED BY <1>2, <1>3, ReqPoint DEF TypeInv

\* A request that leaves the running list.
LEMMA RemoveReq ==
  ASSUME TypeInv, NEW t \in Threads, NEW state \in {"complete", "cleanup"},
         RemoveFromRunning(t, state)
  PROVE  req' \in [Reqs -> ReqType]
<1> DEFINE r == Current(t)
           new == [req[r] EXCEPT !.state = state]
<1>1. req' = [req EXCEPT ![r] = new]
  BY DEF RemoveFromRunning
<1>2. ASSUME r \in Reqs PROVE new \in ReqType
  <2>1. req[r] \in ReqType
    BY <1>2 DEF TypeInv
  <2> QED BY <2>1, ReqUpdate
<1> HIDE DEF new, r
<1> QED BY <1>1, <1>2, ReqPoint DEF TypeInv

\* Marking a pipe done, whether the worker or the cleanup does it: the
\* replaced fields are done and possibly state.
LEMMA MarkReq ==
  ASSUME TypeInv, NEW r, NEW done,
         r \in Reqs => done \in SUBSET Pipes,
         \/ req' = [req EXCEPT ![r] = [@ EXCEPT !.done = done]]
         \/ req' = [req EXCEPT ![r] = [@ EXCEPT !.done = done, !.state = "deleting"]]
  PROVE  req' \in [Reqs -> ReqType]
<1> DEFINE new1 == [req[r] EXCEPT !.done = done]
           new2 == [req[r] EXCEPT !.done = done, !.state = "deleting"]
<1>1. req' = [req EXCEPT ![r] = new1] \/ req' = [req EXCEPT ![r] = new2]
  OBVIOUS
<1>2. ASSUME r \in Reqs PROVE new1 \in ReqType /\ new2 \in ReqType
  <2>1. req[r] \in ReqType /\ done \in SUBSET Pipes
    BY <1>2 DEF TypeInv
  <2> QED BY <2>1, ReqUpdate
<1> HIDE DEF new1, new2
<1> QED BY <1>1, <1>2, ReqPoint DEF TypeInv

\* The worker's mark.
LEMMA WorkMarkReq ==
  ASSUME TypeInv, NEW p \in Pipes, WorkMark(p) PROVE req' \in [Reqs -> ReqType]
<1> DEFINE r == Current(p)
           done == req[r].done \cup {p}
<1>1. \/ req' = req
      \/ req' = [req EXCEPT ![r] = [@ EXCEPT !.done = done]]
      \/ req' = [req EXCEPT ![r] = [@ EXCEPT !.done = done, !.state = "deleting"]]
  BY DEF WorkMark
<1>2. r \in Reqs => done \in SUBSET Pipes
  BY DEF TypeInv, ReqType
<1> HIDE DEF r, done
<1> QED BY <1>1, <1>2, MarkReq DEF TypeInv

\* The cleanup's mark.
LEMMA StopMarkReq ==
  ASSUME TypeInv, StopMark PROVE req' \in [Reqs -> ReqType]
<1> DEFINE r == Current(User)
           done == req[r].done \cup (req[r].pipeUsed \cap {target})
<1>1. \/ req' = req
      \/ req' = [req EXCEPT ![r] = [@ EXCEPT !.done = done]]
      \/ req' = [req EXCEPT ![r] = [@ EXCEPT !.done = done, !.state = "deleting"]]
  BY DEF StopMark
<1>2. r \in Reqs => done \in SUBSET Pipes
  BY DEF TypeInv, ReqType
<1> HIDE DEF r, done
<1> QED BY <1>1, <1>2, MarkReq DEF TypeInv

\* Cancelling the done work of a pipe.
LEMMA StopCancelReq ==
  ASSUME TypeInv, StopCancel PROVE req' \in [Reqs -> ReqType]
<1> DEFINE r == Current(User)
           new == [req[r] EXCEPT !.isQueued = @ \cup {target}]
<1>1. req' = [req EXCEPT ![r] = new]
  BY DEF StopCancel
<1>2. ASSUME r \in Reqs PROVE new \in ReqType
  <2>1. req[r] \in ReqType /\ req[r].isQueued \cup {target} \in SUBSET Pipes
    BY <1>2 DEF TypeInv, ReqType
  <2> QED BY <2>1, ReqUpdate
<1> HIDE DEF new, r
<1> QED BY <1>1, <1>2, ReqPoint DEF TypeInv

\* Sweeping the pending list.
LEMMA StopPendingReq ==
  ASSUME TypeInv, StopPending PROVE req' \in [Reqs -> ReqType]
<1> DEFINE new(r) == [req[r] EXCEPT !.pipeUsed = @ \ {target}, !.armed = @ \ {target},
                        !.held = IF target \in req[r].armed THEN @ \ {target} ELSE @]
<1>1. req' = [r \in Reqs |-> IF r \in ToSet(pending) THEN new(r) ELSE req[r]]
  BY DEF StopPending
<1>2. ASSUME NEW r \in Reqs PROVE new(r) \in ReqType /\ req[r] \in ReqType
  BY DEF TypeInv, ReqType
<1> HIDE DEF new
<1> QED BY <1>1, <1>2

\* Every step keeps the requests well formed; most do not touch them, or do so
\* through one of the updates above.
LEMMA TypeInvStep == ASSUME TypeInv, [Next]_vars PROVE TypeInv'
<1> DEFINE pcOK == pc' \in [Threads -> PcType]
           handOK == hand' = [t \in Threads |-> hand'[t]]
           streamOK == streaming' \subseteq Pipes /\ enqSeq' \in [Pipes -> Nat] /\ target' \in Pipes
           reqOK == req' \in [Reqs -> ReqType]
           OK == pcOK /\ handOK /\ streamOK /\ reqOK
<1>0. SUFFICES OK
  BY DEF TypeInv
<1>a. User \in Threads /\ Pipes \subseteq Threads
  BY DEF Threads
<1>b. ASSUME NEW t \in Threads, NEW to \in PcType, Goto(t, to) PROVE pcOK
  BY <1>b DEF Goto, TypeInv
<1>c. {"idle", "try", "enqueue", "on", "halt", "pend", "scan", "cancel",
       "mark", "remove", "claim", "return", "drain"} = PcType
  BY DEF PcType
<1>d. req' = req => reqOK
  BY DEF TypeInv
<1>e. UNCHANGED <<streaming, enqSeq, target>> => streamOK
  BY DEF TypeInv
<1>f. UNCHANGED hand => handOK
  BY DEF TypeInv
<1>g. UNCHANGED pc => pcOK
  BY DEF TypeInv
<1> HIDE DEF pcOK
<1>1. ASSUME NEW t \in Threads, TryQueue(t) PROVE OK
  <2>1. CASE TryPick(t)
    <3>1. pcOK
      BY <2>1, <1>b, <1>c DEF TryPick, Finish
    <3> QED BY <2>1, <3>1, <1>d, <1>e, <1>f DEF TryPick, streams
  <2>2. CASE Enqueue(t)
    <3>1. pcOK
      BY <2>2, <1>b, <1>c, <1>g DEF Enqueue, Finish
    <3>2. UNCHANGED <<streaming, target, hand>>
      BY <2>2 DEF Enqueue
    <3> QED BY <2>2, <3>1, <3>2, EnqueueReq DEF TypeInv
  <2>3. CASE EnqueueRejected(t)
    BY <2>3, <1>d, <1>e, <1>f, <1>g DEF EnqueueRejected, threads, streams
  <2> QED BY <1>1, <2>1, <2>2, <2>3 DEF TryQueue
<1>2. ASSUME NEW t \in Threads, NextInHand(t) PROVE pcOK /\ handOK
  BY <1>2, NextInHandMoves DEF pcOK
<1>3. ASSUME NEW t \in Threads, Claim(t) PROVE OK
  <2>1. pcOK /\ handOK
    BY <1>3, <1>2, <1>b, <1>c, <1>f DEF Claim
  <2> QED BY <1>3, <2>1, <1>e, ClaimReq DEF Claim, streams
<1>4. ASSUME NEW t \in Threads, Return(t) PROVE OK
  BY <1>4, <1>2, <1>e, ReturnReq DEF Return, streams
<1>5. ASSUME NEW r \in Reqs, NEW used \in PipeSets, Queue(r, used) PROVE OK
  <2>1. pcOK
    BY <1>5, <1>a, <1>b, <1>c DEF Queue
  <2> QED BY <1>5, <2>1, <1>e, <1>f, QueueReq DEF Queue, streams
<1>6. ASSUME NEW p \in Pipes, StartCtx(p) \/ StopBegin(p) \/ FrameDone(p) PROVE OK
  <2>1. CASE StartCtx(p)
    <3>1. pcOK
      BY <2>1, <1>a, <1>b, <1>c DEF StartCtx
    <3> QED BY <2>1, <3>1, <1>d, <1>f DEF StartCtx, TypeInv
  <2>2. CASE StopBegin(p)
    <3>1. pcOK
      BY <2>2, <1>a, <1>b, <1>c DEF StopBegin
    <3> QED BY <2>2, <3>1, <1>d, <1>f DEF StopBegin, TypeInv
  <2>3. CASE FrameDone(p)
    BY <2>3, <1>e, <1>f, <1>g, FrameDoneReq DEF FrameDone, streams
  <2> QED BY <1>6, <2>1, <2>2, <2>3
<1>7. ASSUME NEW p \in Pipes, Work(p) PROVE OK
  <2>1. CASE WorkStart(p)
    <3>1. pcOK
      BY <2>1, <1>a, <1>b, <1>c DEF WorkStart, Finish
    <3> QED BY <2>1, <3>1, <1>d, <1>e, <1>f DEF WorkStart, streams
  <2>2. CASE WorkScan(p)
    <3>1. pcOK
      BY <2>2, <1>a, <1>b, <1>c DEF WorkScan, Finish
    <3>2. handOK
      BY <2>2, <1>a DEF WorkScan, TypeInv
    <3> QED BY <2>2, <3>1, <3>2, <1>d, <1>e DEF WorkScan, streams
  <2>3. CASE WorkMark(p)
    <3>1. pcOK /\ handOK
      BY <2>3, <1>a, <1>2, <1>b, <1>c, <1>f DEF WorkMark
    <3> QED BY <2>3, <3>1, <1>e, WorkMarkReq DEF WorkMark, streams
  <2>4. CASE WorkRemove(p)
    <3>1. pcOK /\ reqOK
      BY <2>4, <1>a, <1>b, <1>c, RemoveReq DEF WorkRemove, RemoveFromRunning
    <3> QED BY <2>4, <3>1, <1>e, <1>f DEF WorkRemove, streams
  <2> QED BY <1>7, <1>a, <1>1, <1>3, <1>4, <2>1, <2>2, <2>3, <2>4 DEF Work
<1>8. ASSUME StopStep PROVE OK
  <2>1. CASE StopHalt
    <3>1. pcOK
      BY <2>1, <1>a, <1>b, <1>c DEF StopHalt
    <3> QED BY <2>1, <3>1, <1>d, <1>e, <1>f DEF StopHalt
  <2>2. CASE StopPending
    <3>1. pcOK
      BY <2>2, <1>a, <1>b, <1>c DEF StopPending
    <3> QED BY <2>2, <3>1, <1>e, <1>f, StopPendingReq DEF StopPending, streams
  <2>3. CASE StopScan
    <3>1. pcOK
      BY <2>3, <1>a, <1>b, <1>c DEF StopScan
    <3>2. handOK
      BY <2>3, <1>a DEF StopScan, TypeInv
    <3> QED BY <2>3, <3>1, <3>2, <1>d, <1>e DEF StopScan, streams
  <2>4. CASE StopCancel
    <3>1. pcOK
      BY <2>4, <1>a, <1>b, <1>c DEF StopCancel
    <3> QED BY <2>4, <3>1, <1>e, <1>f, StopCancelReq DEF StopCancel, streams
  <2>5. CASE StopMark
    <3>1. pcOK
      BY <2>5, <1>a, <1>b, <1>c DEF StopMark
    <3> QED BY <2>5, <3>1, <1>e, <1>f, StopMarkReq DEF StopMark, streams
  <2>6. CASE StopRemove
    <3>1. pcOK /\ reqOK
      BY <2>6, <1>a, <1>b, <1>c, RemoveReq DEF StopRemove, RemoveFromRunning
    <3> QED BY <2>6, <3>1, <1>e, <1>f DEF StopRemove, streams
  <2>7. CASE StopDrain
    <3>1. pcOK
      BY <2>7, <1>a, <1>b, <1>c DEF StopDrain
    <3> QED BY <2>7, <3>1, <1>d, <1>f DEF StopDrain, TypeInv
  <2> QED BY <1>8, <1>a, <1>3, <1>4, <2>1, <2>2, <2>3, <2>4, <2>5, <2>6, <2>7 DEF StopStep
<1>9. CASE StreamOn
  <2>1. pcOK
    BY <1>9, <1>a, <1>b, <1>c DEF StreamOn
  <2> QED BY <1>9, <2>1, <1>d, <1>f DEF StreamOn, TypeInv
<1>10. CASE UNCHANGED vars
  BY <1>10, <1>d, <1>e, <1>f, <1>g DEF vars, streams, threads
<1> QED BY <1>a, <1>1, <1>5, <1>6, <1>7, <1>8, <1>9, <1>10 DEF Next, UserStep

-----------------------------------------------------------------------------

\* Nobody owes anything to begin with.
LEMMA OnceInvInit == ASSUME Init PROVE OnceInv
  BY DEF Init, OnceInv, Owes, Threads

\* No buffer set changes hands in this step.
SameBuffers == \A r \in Reqs : req'[r].armed = req[r].armed /\ req'[r].held = req[r].held

\* Only thread t moves, and not to the return of a buffer set.
Moves(t) ==
  /\ pc'[t] # "return"
  /\ \A u \in Threads \ {t} : pc'[u] = pc[u] /\ hand'[u] = hand[u]
  /\ t = User \/ target' = target

\* A moving thread creates no debt: what is owed after the step was owed before,
\* for the same pipe, by another thread.
LEMMA NoNewDebt ==
  ASSUME NEW t \in Threads, Moves(t)
  PROVE  \A u \in Threads, r \in Reqs :
           Owes(u, r)' => u # t /\ Owes(u, r) /\ PipeOf(u)' = PipeOf(u)
  BY DEF Moves, Owes, Current, PipeOf

\* A step in which one thread moves and no buffer set changes hands keeps the
\* invariant.
LEMMA Quiet == ASSUME OnceInv, SameBuffers, NEW t \in Threads, Moves(t) PROVE OnceInv'
<1>1. \A u \in Threads, r \in Reqs :
        Owes(u, r)' => Owes(u, r) /\ PipeOf(u)' = PipeOf(u)
  BY NoNewDebt
<1> QED BY <1>1 DEF OnceInv, SameBuffers

\* Replacing fields other than armed and held is no exchange.
LEMMA OtherFields ==
  ASSUME TypeInv, NEW r, NEW S, NEW st,
         \/ req' = req
         \/ req' = [req EXCEPT ![r] = [@ EXCEPT !.done = S]]
         \/ req' = [req EXCEPT ![r] = [@ EXCEPT !.done = S, !.state = st]]
         \/ req' = [req EXCEPT ![r] = [@ EXCEPT !.state = st]]
         \/ req' = [req EXCEPT ![r] = [@ EXCEPT !.isQueued = S]]
  PROVE  SameBuffers
<1> SUFFICES ASSUME NEW x \in Reqs
             PROVE  req'[x].armed = req[x].armed /\ req'[x].held = req[x].held
  BY DEF SameBuffers
<1>1. req[x] \in ReqType
  BY DEF TypeInv
<1>2. \/ req'[x] = req[x]
      \/ req'[x] = [req[x] EXCEPT !.done = S]
      \/ req'[x] = [req[x] EXCEPT !.done = S, !.state = st]
      \/ req'[x] = [req[x] EXCEPT !.state = st]
      \/ req'[x] = [req[x] EXCEPT !.isQueued = S]
  BY DEF TypeInv
<1> QED BY <1>1, <1>2 DEF ReqType

\* Handing a request to the composer exchanges no buffers.
LEMMA EnqueueBuffers ==
  ASSUME TypeInv, NEW t \in Threads, Enqueue(t) PROVE SameBuffers
<1> SUFFICES ASSUME NEW x \in Reqs
             PROVE  req'[x].armed = req[x].armed /\ req'[x].held = req[x].held
  BY DEF SameBuffers
<1>1. PICK h, s : req' = [req EXCEPT ![Head(batch)] =
        [@ EXCEPT !.state = "running", !.isQueued = {}, !.handed = h, !.seq = s]]
  BY DEF Enqueue
<1>2. \/ req'[x] = req[x]
      \/ req'[x] = [req[x] EXCEPT !.state = "running", !.isQueued = {}, !.handed = h, !.seq = s]
  BY <1>1 DEF TypeInv
<1> QED BY <1>2 DEF TypeInv, ReqType

\* Nor does taking one off the running list.
LEMMA RemoveBuffers ==
  ASSUME TypeInv, NEW t \in Threads, NEW state, RemoveFromRunning(t, state)
  PROVE  SameBuffers
<1>1. req' = [req EXCEPT ![Current(t)] = [@ EXCEPT !.state = state]]
  BY DEF RemoveFromRunning
<1> QED BY <1>1, OtherFields

\* A thread that goes elsewhere than to "return", its snapshot unchanged or not,
\* moves.
LEMMA GotoMoves ==
  ASSUME TypeInv, NEW t \in Threads, NEW to, to # "return", Goto(t, to),
         t = User \/ target' = target,
         \/ UNCHANGED hand
         \/ \E new : hand' = [hand EXCEPT ![t] = new]
  PROVE  Moves(t)
  BY DEF Goto, Moves, TypeInv

\* So does one that goes on to the next entry of its snapshot.
LEMMA NextMoves ==
  ASSUME TypeInv, NEW t \in Threads, NextInHand(t), target' = target
  PROVE  Moves(t)
  BY NextInHandMoves DEF Moves

\* So does one that stays where it is, as long as it is not at "return".
LEMMA StayMoves ==
  ASSUME UNCHANGED <<pc, hand, target>>, NEW t \in Threads, pc[t] # "return"
  PROVE  Moves(t)
  BY DEF Moves

\* A step in which no thread moves and no buffer set changes hands.
LEMMA Still ==
  ASSUME OnceInv, SameBuffers, UNCHANGED <<pc, hand, target>> PROVE OnceInv'
  BY DEF OnceInv, SameBuffers, Owes, Current, PipeOf

\* Queueing a request arms what was not held, so nobody owed it.
LEMMA OnceQueue ==
  ASSUME TypeInv, OnceInv, NEW r \in Reqs, NEW used \in PipeSets, Queue(r, used)
  PROVE  OnceInv'
<1>1. Moves(User)
  BY GotoMoves DEF Queue, Threads
<1>2. req[r].held = {} /\ req' = [req EXCEPT ![r] = [@ EXCEPT
        !.state = "pending", !.done = {}, !.pipeUsed = used, !.armed = used, !.held = used]]
  BY DEF Queue
<1>3. req'[r].armed = used /\ req'[r].held = used
  BY <1>2 DEF TypeInv, ReqType
<1>4. \A x \in Reqs \ {r} : req'[x] = req[x]
  BY <1>2 DEF TypeInv
<1>5. \A u \in Threads : ~Owes(u, r)
  BY <1>2 DEF OnceInv
<1>6. \A u \in Threads, x \in Reqs :
        Owes(u, x)' => x # r /\ Owes(u, x) /\ PipeOf(u)' = PipeOf(u)
  BY <1>1, <1>5, NoNewDebt DEF Threads
<1> QED BY <1>3, <1>4, <1>6 DEF OnceInv

\* The thread that wins the cmpxchg is the only one to owe the buffers: before,
\* they were armed, and what is owed is not.
LEMMA OnceClaim ==
  ASSUME TypeInv, OnceInv, NEW t \in Threads, Claim(t) PROVE OnceInv'
<1> DEFINE r == Current(t)
           p == PipeOf(t)
<1>1. /\ req' = [req EXCEPT ![r].armed = @ \ {p}]
      /\ target' = target
  BY DEF Claim
<1>2. \A x \in Reqs : /\ req'[x].held = req[x].held
                      /\ req'[x].armed = IF x = r THEN req[x].armed \ {p} ELSE req[x].armed
  <2> HIDE DEF r, p
  <2> QED BY <1>1 DEF TypeInv, ReqType
<1>3. CASE ~Wins(t)
  <2>1. SameBuffers
    BY <1>2, <1>3 DEF SameBuffers, Wins
  <2>2. Moves(t)
    BY <1>1, <1>3, NextMoves DEF Claim
  <2> QED BY <2>1, <2>2, Quiet
<1>4. CASE Wins(t)
  <2>1. /\ pc' = [pc EXCEPT ![t] = "return"] /\ hand' = hand /\ pc[t] = "claim"
        /\ p \in req[r].armed
    BY <1>4 DEF Claim, Goto, Wins
  <2>2. \A u \in Threads : Current(u)' = Current(u) /\ PipeOf(u)' = PipeOf(u)
    BY <1>1, <2>1 DEF Current, PipeOf
  <2>3. \A u \in Threads, x \in Reqs : Owes(u, x)' <=> Owes(u, x) \/ (u = t /\ x = r)
    BY <2>1, <2>2 DEF Owes, TypeInv
  <2>4. \A u \in Threads : ~Owes(t, r) /\ (r \in Reqs /\ Owes(u, r) => PipeOf(u) # p)
    BY <2>1 DEF OnceInv, Owes
  <2> HIDE DEF r, p
  <2>5. \A x \in Reqs : (req[x].armed \subseteq req[x].held)'
    BY <1>2 DEF OnceInv
  <2>6. \A u \in Threads, x \in Reqs :
          Owes(u, x)' => PipeOf(u)' \in req'[x].held \ req'[x].armed
    <3> SUFFICES ASSUME NEW u \in Threads, NEW x \in Reqs, Owes(u, x)'
                 PROVE  PipeOf(u) \in req'[x].held \ req'[x].armed
      BY <2>2
    <3>1. CASE u = t /\ x = r
      BY <1>2, <2>1, <3>1 DEF OnceInv, p
    <3>2. CASE Owes(u, x)
      BY <1>2, <3>2 DEF OnceInv
    <3> QED BY <2>3, <3>1, <3>2
  <2>7. ASSUME NEW u \in Threads, NEW w \in Threads, NEW x \in Reqs,
               Owes(u, x)', Owes(w, x)', (PipeOf(u) = PipeOf(w))'
        PROVE  u = w
    BY <2>2, <2>3, <2>4, <2>7 DEF OnceInv, r, p
  <2> QED BY <2>5, <2>6, <2>7 DEF OnceInv
<1> QED BY <1>3, <1>4

\* What a thread returns was owed by no other.
LEMMA OnceReturn ==
  ASSUME TypeInv, OnceInv, NEW t \in Threads, Return(t) PROVE OnceInv'
<1> DEFINE r == Current(t)
           p == PipeOf(t)
<1>1. /\ req' = [req EXCEPT ![r].held = @ \ {p}]
      /\ target' = target
  BY DEF Return
<1>2. \A x \in Reqs : /\ req'[x].armed = req[x].armed
                      /\ req'[x].held = IF x = r THEN req[x].held \ {p} ELSE req[x].held
  <2> HIDE DEF r, p
  <2> QED BY <1>1 DEF TypeInv, ReqType
<1>3. Moves(t)
  BY <1>1, NextMoves DEF Return
<1>4. Owes(t, r)
  BY DEF Return, Owes
<1>5. \A u \in Threads, x \in Reqs :
        Owes(u, x)' => u # t /\ Owes(u, x) /\ PipeOf(u)' = PipeOf(u)
  BY <1>3, NoNewDebt
<1>6. r \in Reqs => p \notin req[r].armed
  BY <1>4 DEF OnceInv
<1>7. \A u \in Threads \ {t} : r \in Reqs /\ Owes(u, r) => PipeOf(u) # p
  BY <1>4 DEF OnceInv
<1> HIDE DEF r, p
<1>8. \A x \in Reqs : req'[x].armed \subseteq req'[x].held
  BY <1>2, <1>6 DEF OnceInv
<1>9. \A u \in Threads, x \in Reqs :
        Owes(u, x)' => PipeOf(u)' \in req'[x].held \ req'[x].armed
  <2> SUFFICES ASSUME NEW u \in Threads, NEW x \in Reqs, Owes(u, x)'
               PROVE  PipeOf(u) \in req'[x].held \ req'[x].armed
    BY <1>5
  <2>1. u # t /\ Owes(u, x) /\ PipeOf(u) \in req[x].held \ req[x].armed
    BY <1>5 DEF OnceInv
  <2> QED BY <1>2, <1>7, <2>1
<1> QED BY <1>5, <1>8, <1>9 DEF OnceInv

\* Sweeping the pending list returns armed buffers only.
LEMMA OnceStopPending ==
  ASSUME TypeInv, OnceInv, StopPending PROVE OnceInv'
<1>1. req' = [r \in Reqs |->
        IF r \in ToSet(pending)
        THEN [req[r] EXCEPT !.pipeUsed = @ \ {target}, !.armed = @ \ {target},
                !.held = IF target \in req[r].armed THEN @ \ {target} ELSE @]
        ELSE req[r]]
  BY DEF StopPending
<1>2. ASSUME NEW r \in Reqs
      PROVE  \/ req'[r].armed = req[r].armed /\ req'[r].held = req[r].held
             \/ /\ req'[r].armed = req[r].armed \ {target}
                /\ req'[r].held = IF target \in req[r].armed THEN req[r].held \ {target}
                                  ELSE req[r].held
  BY <1>1 DEF TypeInv, ReqType
<1>3. Moves(User)
  BY GotoMoves DEF StopPending, Threads
<1>4. \A u \in Threads, r \in Reqs :
        Owes(u, r)' => Owes(u, r) /\ PipeOf(u)' = PipeOf(u)
  BY <1>3, NoNewDebt DEF Threads
<1>5. \A r \in Reqs : (req[r].armed \subseteq req[r].held)'
  BY <1>2 DEF OnceInv
<1>6. \A u \in Threads, r \in Reqs :
        Owes(u, r)' => PipeOf(u)' \in req'[r].held \ req'[r].armed
  <2> SUFFICES ASSUME NEW u \in Threads, NEW r \in Reqs, Owes(u, r)'
               PROVE  PipeOf(u) \in req'[r].held \ req'[r].armed
    BY <1>4
  <2>1. PipeOf(u) \in req[r].held \ req[r].armed
    BY <1>4 DEF OnceInv
  <2> QED BY <1>2, <2>1
<1> QED BY <1>4, <1>5, <1>6 DEF OnceInv

\* Every step keeps the invariant.
LEMMA OnceInvStep == ASSUME TypeInv, OnceInv, [Next]_vars PROVE OnceInv'
<1>a. User \in Threads /\ Pipes \subseteq Threads
  BY DEF Threads
<1>b. UNCHANGED req => SameBuffers
  BY DEF SameBuffers
<1>1. ASSUME NEW t \in Threads, TryQueue(t) PROVE OnceInv'
  <2>1. CASE TryPick(t)
    <3>1. Moves(t)
      BY <2>1, GotoMoves DEF TryPick, Finish
    <3> QED BY <2>1, <3>1, <1>b, Quiet DEF TryPick
  <2>2. CASE Enqueue(t)
    <3>1. Moves(t)
      BY <2>2, GotoMoves, StayMoves DEF Enqueue, Finish
    <3>2. SameBuffers
      BY <2>2, EnqueueBuffers
    <3> QED BY <3>1, <3>2, Quiet
  <2>3. CASE EnqueueRejected(t)
    BY <2>3, <1>b, Still DEF EnqueueRejected, threads
  <2> QED BY <1>1, <2>1, <2>2, <2>3 DEF TryQueue
<1>2. ASSUME NEW p \in Pipes, StartCtx(p) \/ StopBegin(p) PROVE OnceInv'
  <2>1. Moves(User)
    BY <1>2, <1>a, GotoMoves DEF StartCtx, StopBegin
  <2> QED BY <1>2, <2>1, <1>a, <1>b, Quiet DEF StartCtx, StopBegin
<1>3. ASSUME NEW p \in Pipes, FrameDone(p) PROVE OnceInv'
  <2>1. PICK r : req' = [req EXCEPT ![r].isQueued = @ \cup {p}]
    BY <1>3 DEF FrameDone
  <2>2. req' = [req EXCEPT ![r] = [@ EXCEPT !.isQueued = req[r].isQueued \cup {p}]]
    BY <2>1
  <2>3. SameBuffers
    BY <2>2, OtherFields
  <2> QED BY <1>3, <2>3, Still DEF FrameDone
<1>4. ASSUME NEW p \in Pipes, Work(p) PROVE OnceInv'
  <2>1. CASE WorkStart(p)
    <3>1. Moves(p)
      BY <2>1, <1>a, GotoMoves DEF WorkStart, Finish
    <3> QED BY <2>1, <3>1, <1>a, <1>b, Quiet DEF WorkStart
  <2>2. CASE WorkScan(p)
    <3>1. Moves(p)
      BY <2>2, <1>a, GotoMoves DEF WorkScan, Finish
    <3> QED BY <2>2, <3>1, <1>a, <1>b, Quiet DEF WorkScan
  <2>3. CASE WorkMark(p)
    <3>1. Moves(p)
      BY <2>3, <1>a, GotoMoves, NextMoves DEF WorkMark
    <3>2. SameBuffers
      <4> DEFINE r == Current(p)
                 done == req[r].done \cup {p}
      <4>1. \/ req' = req
            \/ req' = [req EXCEPT ![r] = [@ EXCEPT !.done = done]]
            \/ req' = [req EXCEPT ![r] = [@ EXCEPT !.done = done, !.state = "deleting"]]
        BY <2>3 DEF WorkMark
      <4> HIDE DEF r, done
      <4>2. CASE req' = req
        BY <4>2, <1>b
      <4>3. CASE req' = [req EXCEPT ![r] = [@ EXCEPT !.done = done]]
        BY <4>3, OtherFields
      <4>4. CASE req' = [req EXCEPT ![r] = [@ EXCEPT !.done = done, !.state = "deleting"]]
        BY <4>4, OtherFields
      <4> QED BY <4>1, <4>2, <4>3, <4>4
    <3> QED BY <3>1, <3>2, <1>a, Quiet
  <2>4. CASE WorkRemove(p)
    <3>1. Moves(p)
      BY <2>4, <1>a, GotoMoves DEF WorkRemove, RemoveFromRunning
    <3>2. SameBuffers
      BY <2>4, RemoveBuffers, <1>a DEF WorkRemove
    <3> QED BY <3>1, <3>2, <1>a, Quiet
  <2> QED BY <1>4, <1>a, <1>1, <2>1, <2>2, <2>3, <2>4, OnceClaim, OnceReturn DEF Work
<1>5. ASSUME StopStep PROVE OnceInv'
  <2>1. CASE StopHalt \/ StopScan \/ StopDrain
    <3>1. Moves(User)
      BY <2>1, <1>a, GotoMoves DEF StopHalt, StopScan, StopDrain
    <3> QED BY <2>1, <3>1, <1>a, <1>b, Quiet DEF StopHalt, StopScan, StopDrain
  <2>2. CASE StopCancel
    <3>1. Moves(User)
      BY <2>2, <1>a, GotoMoves DEF StopCancel
    <3>2. PICK r : req' = [req EXCEPT ![r].isQueued = @ \cup {target}]
      BY <2>2 DEF StopCancel
    <3>3. req' = [req EXCEPT ![r] = [@ EXCEPT !.isQueued = req[r].isQueued \cup {target}]]
      BY <3>2
    <3>4. SameBuffers
      BY <3>3, OtherFields
    <3> QED BY <3>1, <3>4, <1>a, Quiet
  <2>3. CASE StopMark
    <3>1. Moves(User)
      BY <2>3, <1>a, GotoMoves DEF StopMark
    <3>2. SameBuffers
      <4> DEFINE r == Current(User)
                 done == req[r].done \cup (req[r].pipeUsed \cap {target})
      <4>1. \/ req' = req
            \/ req' = [req EXCEPT ![r] = [@ EXCEPT !.done = done]]
            \/ req' = [req EXCEPT ![r] = [@ EXCEPT !.done = done, !.state = "deleting"]]
        BY <2>3 DEF StopMark
      <4> HIDE DEF r, done
      <4>2. CASE req' = req
        BY <4>2, <1>b
      <4>3. CASE req' = [req EXCEPT ![r] = [@ EXCEPT !.done = done]]
        BY <4>3, OtherFields
      <4>4. CASE req' = [req EXCEPT ![r] = [@ EXCEPT !.done = done, !.state = "deleting"]]
        BY <4>4, OtherFields
      <4> QED BY <4>1, <4>2, <4>3, <4>4
    <3> QED BY <3>1, <3>2, <1>a, Quiet
  <2>4. CASE StopRemove
    <3>1. Moves(User)
      BY <2>4, <1>a, GotoMoves DEF StopRemove, RemoveFromRunning
    <3>2. SameBuffers
      BY <2>4, RemoveBuffers, <1>a DEF StopRemove
    <3> QED BY <3>1, <3>2, <1>a, Quiet
  <2> QED BY <1>5, <1>a, <2>1, <2>2, <2>3, <2>4, OnceClaim, OnceReturn, OnceStopPending
      DEF StopStep
<1>6. CASE StreamOn
  <2>1. Moves(User)
    BY <1>6, <1>a, GotoMoves DEF StreamOn
  <2> QED BY <1>6, <2>1, <1>a, <1>b, Quiet DEF StreamOn
<1>7. CASE UNCHANGED vars
  BY <1>7, <1>b, Still DEF vars, threads
<1> QED BY <1>a, <1>1, <1>2, <1>3, <1>4, <1>5, <1>6, <1>7, OnceQueue DEF Next, UserStep

-----------------------------------------------------------------------------

\* The two invariants hold throughout.
THEOREM Invariant == Spec => [](TypeInv /\ OnceInv)
<1>1. Init => TypeInv /\ OnceInv
  BY TypeInvInit, OnceInvInit
<1>2. TypeInv /\ OnceInv /\ [Next]_vars => (TypeInv /\ OnceInv)'
  BY TypeInvStep, OnceInvStep
<1> QED BY <1>1, <1>2, PTL DEF Spec

\* However frame-done works, cleanup and requeueing race, mtk_cam_req_put is
\* called for a pipe of a request by one thread, for buffers vb2 still waits for.
THEOREM ReturnedOnce == Spec => []BufferReturnedOnce
<1>1. OnceInv => BufferReturnedOnce
  BY DEF OnceInv, BufferReturnedOnce, Owes
<1> QED BY <1>1, Invariant, PTL

=============================================================================
