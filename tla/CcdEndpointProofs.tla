------------------------- MODULE CcdEndpointProofs -------------------------
(***************************************************************************)
(* Theorems about CcdEndpoint, for any sets of readers, writers and        *)
(* senders and any number of messages.                                     *)
(***************************************************************************)
EXTENDS CcdEndpoint, FiniteSetTheorems, TLAPS

-----------------------------------------------------------------------------
(* Type correctness.                                                       *)

\* TypeOK without the reference count, whose lower bound needs RefsInv.
TypeInv ==
  /\ quiesced \in BOOLEAN
  /\ listed \in BOOLEAN /\ ept \in BOOLEAN /\ refs \in Int
  /\ mepState \in {"CREATED", "DESTROY"}
  /\ queue \in Seq(Nat) /\ cmdSent \in Int
  /\ readRdy \in {0, 1} /\ asleep \in SUBSET Readers
  /\ rpc \in [Readers -> ReadPc] /\ wpc \in [Writers -> WritePc]
  /\ spc \in [Senders -> SendPc] /\ dpc \in DestroyPc
  /\ oops \in BOOLEAN /\ nSent \in Nat /\ left \in Seq(Nat)

\* Taking the first message keeps the types, on an empty queue too.
LEMMA TakeFirstType ==
  ASSUME queue \in Seq(Nat), cmdSent \in Int, left \in Seq(Nat),
         oops \in BOOLEAN, nSent \in Nat, TakeFirst
  PROVE  /\ queue' \in Seq(Nat) /\ cmdSent' \in Int /\ left' \in Seq(Nat)
         /\ oops' \in BOOLEAN /\ nSent' \in Nat
<1>1. CASE queue = <<>>
  BY <1>1 DEF TakeFirst
<1>2. CASE queue # <<>>
  <2>1. queue' = Tail(queue) /\ left' = Append(left, Head(queue))
        /\ oops' = oops /\ cmdSent' = cmdSent - 1 /\ nSent' = nSent
    BY <1>2 DEF TakeFirst
  <2>2. Tail(queue) \in Seq(Nat) /\ Append(left, Head(queue)) \in Seq(Nat)
    BY <1>2
  <2> QED BY <2>1, <2>2
<1> QED BY <1>1, <1>2

\* The initial state satisfies the types.
LEMMA TypeInvInit == Init => TypeInv
<1> SUFFICES ASSUME Init PROVE TypeInv
  OBVIOUS
<1>1. listed \in BOOLEAN /\ ept \in BOOLEAN /\ oops \in BOOLEAN
  BY Zenon DEF Init
<1>2. queue \in Seq(Nat) /\ left \in Seq(Nat)
  BY DEF Init
<1> QED
  BY <1>1, <1>2 DEF Init, TypeInv, ReadPc, WritePc, SendPc, DestroyPc

\* Every step keeps the types.
LEMMA TypeInvStep == TypeInv /\ [Next]_vars => TypeInv'
<1> SUFFICES ASSUME TypeInv, [Next]_vars PROVE TypeInv'
  OBVIOUS
<1> USE DEF TypeInv
<1>1. CASE CreateEpt
  <2>1. ept' \in BOOLEAN BY <1>1, Zenon DEF CreateEpt
  <2> QED BY <1>1, <2>1 DEF CreateEpt, threads, mailbox, history
<1>2. ASSUME NEW s \in Senders, Send(s) PROVE TypeInv'
  BY <1>2 DEF Send, Queued, life, SendPc
<1>3. ASSUME NEW s \in Senders, SendWake(s) PROVE TypeInv'
  BY <1>3 DEF SendWake, WakeReaders, life, history, SendPc
<1>4. ASSUME NEW s \in Senders, SendFreed(s) PROVE TypeInv'
  <2>1. oops' \in BOOLEAN BY <1>4, Zenon DEF SendFreed
  <2> QED BY <1>4, <2>1 DEF SendFreed, threads, mailbox, life, history
<1>5. ASSUME NEW r \in Readers, Read(r) PROVE TypeInv'
  <2> USE DEF ReadGoto, ReadPc, mailbox, life, history
  <2>1. CASE ReadLookup(r) BY <2>1 DEF ReadLookup, RefTaken
  <2>2. CASE ReadCheck(r) BY <2>2 DEF ReadCheck
  <2>3. CASE ReadCount(r) BY <2>3 DEF ReadCount
  <2>4. CASE ReadArm(r) BY <2>4 DEF ReadArm
  <2>5. CASE ReadWait(r) BY <2>5 DEF ReadWait
  <2>6. CASE ReadInterrupted(r) BY <2>6 DEF ReadInterrupted
  <2>7. CASE ReadDisarm(r) BY <2>7 DEF ReadDisarm
  <2>8. CASE ReadRecheck(r) BY <2>8 DEF ReadRecheck
  <2>9. CASE ReadPop(r) BY <2>9, TakeFirstType DEF ReadPop
  <2>10. CASE ReadPut(r) BY <2>10 DEF ReadPut, RefDropped
  <2> QED
    BY <1>5, <2>1, <2>2, <2>3, <2>4, <2>5, <2>6, <2>7, <2>8, <2>9, <2>10 DEF Read
<1>6. ASSUME NEW w \in Writers, WriteLookup(w) \/ WriteStep(w) PROVE TypeInv'
  <2> USE DEF WriteGoto, WritePc, mailbox, life, history
  <2>1. CASE WriteLookup(w) BY <2>1 DEF WriteLookup, RefTaken
  <2>2. CASE WriteCheck(w) BY <2>2 DEF WriteCheck
  <2>3. CASE WriteCall(w) BY <2>3 DEF WriteCall
  <2>4. CASE WritePut(w) BY <2>4 DEF WritePut, RefDropped
  <2> QED BY <1>6, <2>1, <2>2, <2>3, <2>4 DEF WriteStep
<1>7. CASE DestroyBegin
  BY <1>7 DEF DestroyBegin, DestroyPc, life, history
<1>8. CASE DestroyStep
  <2> USE DEF DestroyPc, mailbox, life, history
  <2>1. CASE DestroyPop BY <2>1, TakeFirstType DEF DestroyPop
  <2>2. CASE DestroyWake \/ DestroyLoop
    BY <2>2 DEF DestroyWake, WakeReaders, DestroyLoop, MoreToDrain
  <2>3. CASE DestroyCall \/ DestroyPut
    BY <2>3 DEF DestroyCall, DestroyPut, RefDropped
  <2>4. CASE DestroyUnlist
    <3>1. listed' \in BOOLEAN BY <2>4, Zenon DEF DestroyUnlist
    <3> QED BY <2>4, <3>1 DEF DestroyUnlist
  <2> QED BY <1>8, <2>1, <2>2, <2>3, <2>4 DEF DestroyStep
<1>9. CASE UNCHANGED vars
  BY <1>9 DEF vars, threads, mailbox, life, history
<1> QED
  BY <1>1, <1>2, <1>3, <1>4, <1>5, <1>6, <1>7, <1>8, <1>9 DEF Next

\* So the types hold throughout.
LEMMA TypeInvHolds == Spec => []TypeInv
BY TypeInvInit, TypeInvStep, PTL DEF Spec

-----------------------------------------------------------------------------
(* References: nobody uses the endpoint after its release.                 *)

\* The initial reference is there from the creation to the destroyer's put.
OwnRef == IF ept /\ dpc # "done" THEN 1 ELSE 0

RefsInv ==
  /\ refs = OwnRef + Cardinality(Holders)
  /\ ~ept => dpc = "idle" /\ Holders = {}

\* Finitely many threads, so the references can be counted.
LEMMA HoldersFinite == IsFiniteSet(Holders)
<1>1. Holders \subseteq Readers \cup Writers
  BY DEF Holders
<1> QED BY <1>1, ConstantsAssumption, FS_Subset

\* A reader holds a reference exactly while it is inside ccd_worker_read.
LEMMA ReaderMoves ==
  ASSUME TypeInv, NEW r \in Readers, NEW v, rpc' = [rpc EXCEPT ![r] = v], wpc' = wpc
  PROVE  /\ v = "idle" => Holders' = Holders \ {r}
         /\ v # "idle" => Holders' = Holders \cup {r}
         /\ r \in Holders <=> rpc[r] # "idle"
BY ConstantsAssumption DEF Holders, TypeInv

\* A writer holds a reference exactly while it is inside ccd_worker_write.
LEMMA WriterMoves ==
  ASSUME TypeInv, NEW w \in Writers, NEW v, wpc' = [wpc EXCEPT ![w] = v], rpc' = rpc
  PROVE  /\ v = "idle" => Holders' = Holders \ {w}
         /\ v # "idle" => Holders' = Holders \cup {w}
         /\ w \in Holders <=> wpc[w] # "idle"
BY ConstantsAssumption DEF Holders, TypeInv

\* One thread more or less counts one reference more or less.
LEMMA HoldersCount ==
  ASSUME NEW t
  PROVE  /\ Cardinality(Holders) \in Nat
         /\ t \notin Holders =>
              Cardinality(Holders \cup {t}) = Cardinality(Holders) + 1
         /\ t \in Holders =>
              /\ Cardinality(Holders \ {t}) = Cardinality(Holders) - 1
              /\ Holders \cup {t} = Holders
              /\ Cardinality(Holders) > 0
         /\ t \notin Holders => Holders \ {t} = Holders
<1> USE HoldersFinite
<1>1. Cardinality(Holders) \in Nat
  BY FS_CardinalityType
<1>2. t \notin Holders => Cardinality(Holders \cup {t}) = Cardinality(Holders) + 1
  BY FS_AddElement
<1>3. t \in Holders => Cardinality(Holders \ {t}) = Cardinality(Holders) - 1
  BY FS_RemoveElement
<1>4. t \in Holders => Cardinality(Holders) # 0
  BY FS_EmptySet
<1> QED
  BY <1>1, <1>2, <1>3, <1>4

\* Before the endpoint exists nobody refers to it.
LEMMA RefsInvInit == Init => RefsInv
<1> SUFFICES ASSUME Init PROVE RefsInv
  OBVIOUS
<1>1. Holders = {}
  BY DEF Init, Holders
<1>2. Cardinality({}) = 0
  BY FS_EmptySet
<1> QED
  BY <1>1, <1>2 DEF Init, RefsInv, OwnRef

\* Every step keeps the references counted.
LEMMA RefsInvStep == TypeInv /\ RefsInv /\ [Next]_vars => RefsInv'
<1> SUFFICES ASSUME TypeInv, RefsInv, [Next]_vars PROVE RefsInv'
  OBVIOUS
<1>a. Cardinality(Holders) \in Nat
  BY HoldersCount
<1>b. Cardinality({}) = 0
  BY FS_EmptySet
<1>1. ASSUME rpc' = rpc, wpc' = wpc PROVE Holders' = Holders
  BY <1>1 DEF Holders
<1>2. CASE CreateEpt
  BY <1>2, <1>1, <1>a, <1>b DEF CreateEpt, threads, RefsInv, OwnRef
<1>3. ASSUME NEW s \in Senders, Send(s) \/ SendWake(s) \/ SendFreed(s)
      PROVE  RefsInv'
  <2>1. UNCHANGED <<rpc, wpc, dpc, ept, refs>>
    BY <1>3 DEF Send, Queued, SendWake, SendFreed, life, threads
  <2> QED BY <2>1, <1>1 DEF RefsInv, OwnRef
<1>4. ASSUME NEW r \in Readers, Read(r) PROVE RefsInv'
  <2> USE DEF RefsInv, OwnRef, ReadGoto, life, mailbox
  <2>1. CASE ReadLookup(r)
    <3>0. rpc[r] = "idle" /\ rpc' = [rpc EXCEPT ![r] = "entry"] /\ wpc' = wpc
      BY <2>1 DEF ReadLookup, RefTaken
    <3>1. Holders' = Holders \cup {r} /\ r \notin Holders
      <4>1. "entry" # "idle"
        OBVIOUS
      <4> HIDE DEF ReadGoto, WriteGoto, RefsInv, TypeInv
      <4> QED BY <3>0, <4>1, ReaderMoves, Zenon
    <3>2. Cardinality(Holders') = Cardinality(Holders) + 1
      BY <3>1, HoldersCount
    <3>3. ept /\ ept' /\ dpc' = dpc /\ refs' = refs + 1
      BY <2>1 DEF ReadLookup, RefTaken
    <3> QED BY <3>2, <3>3, <1>a
  <2>2. CASE ReadPut(r)
    <3>1. Holders' = Holders \ {r} /\ r \in Holders
      BY <2>2, ReaderMoves DEF ReadPut, RefDropped
    <3>2. Cardinality(Holders') = Cardinality(Holders) - 1
      BY <3>1, HoldersCount
    <3> QED BY <2>2, <3>1, <3>2, <1>a DEF ReadPut, RefDropped
  <2>3. ASSUME UNCHANGED <<wpc, dpc, ept, refs>>, rpc[r] # "idle",
               \E v \in ReadPc \ {"idle"} : rpc' = [rpc EXCEPT ![r] = v]
        PROVE  RefsInv'
    BY <2>3, ReaderMoves, HoldersCount
  <2>4. CASE ReadCheck(r) \/ ReadCount(r) \/ ReadArm(r)
    BY <2>4, <2>3 DEF ReadCheck, ReadCount, ReadArm, ReadPc
  <2>5. CASE ReadWait(r)
    <3>1. CASE ReadCondition
      BY <2>5, <3>1, <2>3 DEF ReadWait, ReadPc
    <3>2. CASE ~ReadCondition
      BY <2>5, <3>2, <1>1 DEF ReadWait
    <3> QED BY <3>1, <3>2
  <2>6. CASE ReadInterrupted(r) \/ ReadDisarm(r) \/ ReadRecheck(r)
    BY <2>6, <2>3 DEF ReadInterrupted, ReadDisarm, ReadRecheck, ReadPc
  <2>7. CASE ReadPop(r)
    BY <2>7, <2>3 DEF ReadPop, ReadPc
  <2> QED BY <1>4, <2>1, <2>2, <2>4, <2>5, <2>6, <2>7 DEF Read
<1>5. ASSUME NEW w \in Writers, WriteLookup(w) \/ WriteStep(w) PROVE RefsInv'
  <2> USE DEF RefsInv, OwnRef, WriteGoto, life, mailbox
  <2>1. CASE WriteLookup(w)
    <3>0. wpc[w] = "idle" /\ wpc' = [wpc EXCEPT ![w] = "entry"] /\ rpc' = rpc
      BY <2>1 DEF WriteLookup, RefTaken
    <3>1. Holders' = Holders \cup {w} /\ w \notin Holders
      <4>1. "entry" # "idle"
        OBVIOUS
      <4> HIDE DEF ReadGoto, WriteGoto, RefsInv, TypeInv
      <4> QED BY <3>0, <4>1, WriterMoves, Zenon
    <3>2. Cardinality(Holders') = Cardinality(Holders) + 1
      BY <3>1, HoldersCount
    <3>3. ept /\ ept' /\ dpc' = dpc /\ refs' = refs + 1
      BY <2>1 DEF WriteLookup, RefTaken
    <3> QED BY <3>2, <3>3, <1>a
  <2>2. CASE WritePut(w)
    <3>1. Holders' = Holders \ {w} /\ w \in Holders
      BY <2>2, WriterMoves DEF WritePut, RefDropped
    <3>2. Cardinality(Holders') = Cardinality(Holders) - 1
      BY <3>1, HoldersCount
    <3> QED BY <2>2, <3>1, <3>2, <1>a DEF WritePut, RefDropped
  <2>3. CASE WriteCheck(w) \/ WriteCall(w)
    BY <2>3, WriterMoves, HoldersCount DEF WriteCheck, WriteCall
  <2> QED BY <1>5, <2>1, <2>2, <2>3 DEF WriteStep
<1>6. CASE DestroyBegin
  BY <1>6, <1>1 DEF DestroyBegin, life, RefsInv, OwnRef
<1>7. CASE DestroyStep
  <2>1. UNCHANGED <<rpc, wpc, ept>> /\ dpc # "idle"
    BY <1>7 DEF DestroyStep, DestroyWake, DestroyLoop, MoreToDrain, DestroyPop, DestroyCall,
                DestroyUnlist, DestroyPut, RefDropped, life
  <2>2. CASE DestroyPut
    BY <2>1, <2>2, <1>1, <1>a DEF DestroyPut, RefDropped, RefsInv, OwnRef
  <2>3. CASE ~DestroyPut
    <3>1. refs' = refs /\ dpc' # "done" /\ dpc # "done"
      BY <1>7, <2>3 DEF DestroyStep, DestroyWake, DestroyLoop, MoreToDrain, DestroyPop,
         DestroyCall, DestroyUnlist, life
    <3> QED BY <2>1, <3>1, <1>1, <1>a DEF RefsInv, OwnRef
  <2> QED BY <2>2, <2>3
<1>8. CASE UNCHANGED vars
  BY <1>8, <1>1 DEF vars, threads, life, RefsInv, OwnRef
<1> QED
  BY <1>2, <1>3, <1>4, <1>5, <1>6, <1>7, <1>8 DEF Next

\* However many threads read and write, and wherever each of them is when the
\* endpoint is destroyed, none of them touches it after __ept_release.
THEOREM UseAfterRelease == Spec => []NoUseAfterRelease
<1>1. TypeInv /\ RefsInv => NoUseAfterRelease
  <2> SUFFICES ASSUME TypeInv, RefsInv,
                      Holders # {} \/ dpc \in DestroyPc \ {"idle", "done"}
               PROVE  refs > 0
    BY DEF NoUseAfterRelease
  <2>1. Cardinality(Holders) \in Nat
    BY HoldersCount
  <2>2. CASE Holders # {}
    <3>1. PICK t : t \in Holders
      BY <2>2
    <3>2. Cardinality(Holders) > 0
      BY <3>1, HoldersCount
    <3> QED BY <3>2, <2>1 DEF RefsInv, OwnRef
  <2>3. CASE dpc \in DestroyPc \ {"idle", "done"}
    BY <2>1, <2>3 DEF RefsInv, OwnRef
  <2> QED BY <2>2, <2>3
<1> QED
  BY TypeInvHolds, RefsInvInit, RefsInvStep, TypeInvStep, TypeInvInit, <1>1, PTL DEF Spec

\* The endpoint is released exactly when its destruction is over and the last
\* thread that had looked it up has left it.
THEOREM ReleaseOnce == Spec => []ReleasedExactlyOnce
<1>1. TypeInv /\ RefsInv => ReleasedExactlyOnce
  <2> SUFFICES ASSUME TypeInv, RefsInv, ept
               PROVE  refs = 0 <=> dpc = "done" /\ Holders = {}
    BY DEF ReleasedExactlyOnce
  <2>1. Cardinality(Holders) \in Nat /\ (Cardinality(Holders) = 0 <=> Holders = {})
    BY HoldersCount, HoldersFinite, FS_EmptySet
  <2> QED BY <2>1 DEF RefsInv, OwnRef
<1> QED
  BY TypeInvHolds, RefsInvInit, RefsInvStep, <1>1, PTL DEF Spec

\* Type correctness of the endpoint and of the threads inside it.
THEOREM TypeCorrect == Spec => []TypeOK
<1>1. TypeInv /\ RefsInv => TypeOK
  <2> SUFFICES ASSUME TypeInv, RefsInv PROVE TypeOK
    OBVIOUS
  <2>1. Cardinality(Holders) \in Nat
    BY HoldersCount
  <2>2. refs \in Nat
    BY <2>1 DEF RefsInv, OwnRef
  <2> QED BY <2>2 DEF TypeInv, TypeOK
<1> QED
  BY TypeInvHolds, RefsInvInit, RefsInvStep, <1>1, PTL DEF Spec

-----------------------------------------------------------------------------
(* The endpoint implements the channel.                                    *)

\* What has left and what is queued are the messages sent, in order; and the
\* endpoint is in state DESTROY from the first step of the destruction.
OrderInv ==
  /\ Len(left) + Len(queue) = nSent
  /\ \A i \in 1..Len(queue) : queue[i] = Len(left) + i
  /\ dpc = "idle" <=> mepState = "CREATED"

\* The message taken is the next one in order.
LEMMA TakeFirstOrder ==
  ASSUME TypeInv, OrderInv, TakeFirst, UNCHANGED mepState
  PROVE  /\ Len(left') + Len(queue') = nSent'
         /\ \A i \in 1..Len(queue') : queue'[i] = Len(left') + i
         /\ [Channel!Take]_(Channel!channelVars)
<1> USE DEF TypeInv, OrderInv
<1>1. CASE queue = <<>>
  BY <1>1 DEF TakeFirst, Channel!channelVars
<1>2. CASE queue # <<>>
  <2>1. queue' = Tail(queue) /\ left' = Append(left, Head(queue)) /\ nSent' = nSent
    BY <1>2 DEF TakeFirst
  <2>2. Head(queue) = Len(left) + 1 /\ Len(queue) > 0
    BY <1>2
  <2>3. Len(left') = Len(left) + 1 /\ Len(queue') = Len(queue) - 1
    BY <1>2, <2>1, <2>2
  <2>4. ASSUME NEW i \in 1..Len(queue') PROVE queue'[i] = Len(left') + i
    <3>1. queue'[i] = queue[i + 1] /\ i + 1 \in 1..Len(queue)
      BY <1>2, <2>1, <2>3, <2>4
    <3> QED BY <3>1, <2>3
  <2>5. Channel!Take
    BY <2>1, <2>2 DEF Channel!Take
  <2>6. Len(left') + Len(queue') = nSent'
    <3>1. Len(left) \in Nat /\ Len(queue) \in Nat /\ Len(left) + Len(queue) = nSent
      OBVIOUS
    <3>2. nSent' = nSent
      BY <2>1
    <3> QED BY <2>3, <3>1, <3>2
  <2> QED BY <2>4, <2>5, <2>6
<1> QED BY <1>1, <1>2

\* Every step of the endpoint keeps the order and is a step of the channel.
LEMMA ChannelStep ==
  TypeInv /\ OrderInv /\ [Next]_vars =>
    OrderInv' /\ [Channel!ChannelNext]_(Channel!channelVars)
<1> SUFFICES ASSUME TypeInv, OrderInv, [Next]_vars
             PROVE  OrderInv' /\ [Channel!ChannelNext]_(Channel!channelVars)
  OBVIOUS
<1> USE DEF Channel!ChannelNext, Channel!channelVars
<1>1. ASSUME UNCHANGED <<queue, left, nSent, mepState, dpc>>
      PROVE  OrderInv' /\ UNCHANGED Channel!channelVars
  BY <1>1 DEF OrderInv
<1>2. ASSUME NEW s \in Senders, Send(s)
      PROVE  OrderInv' /\ Channel!Put
  <2> USE DEF TypeInv
  <2>1. /\ queue' = Append(queue, nSent + 1) /\ nSent' = nSent + 1
        /\ UNCHANGED <<left, mepState, dpc>>
    BY <1>2 DEF Send, Queued
  <2>2. Len(queue') = Len(queue) + 1
    BY <2>1
  <2>3. ASSUME NEW i \in 1..Len(queue') PROVE queue'[i] = Len(left') + i
    <3>1. CASE i \in 1..Len(queue)
      BY <2>1, <3>1 DEF OrderInv
    <3>2. CASE i = Len(queue) + 1
      <4>1. queue'[i] = nSent + 1
        BY <2>1, <3>2
      <4>2. nSent = Len(left) + Len(queue) /\ left' = left
        BY <2>1 DEF OrderInv
      <4> QED BY <4>1, <4>2, <3>2
    <3> QED BY <2>2, <3>1, <3>2
  <2> QED BY <2>1, <2>2, <2>3 DEF OrderInv, Channel!Put
<1>3. ASSUME NEW s \in Senders, SendWake(s) \/ SendFreed(s)
      PROVE  UNCHANGED <<queue, left, nSent, mepState, dpc>>
  BY <1>3 DEF SendWake, SendFreed, threads, mailbox, history
<1>4. CASE CreateEpt
  BY <1>4, <1>1 DEF CreateEpt, threads, mailbox, history
<1>5. ASSUME NEW r \in Readers, Read(r)
      PROVE  OrderInv' /\ [Channel!ChannelNext]_(Channel!channelVars)
  <2>1. CASE ReadPop(r)
    BY <2>1, TakeFirstOrder DEF ReadPop, OrderInv
  <2>2. CASE ~ReadPop(r)
    BY <1>5, <2>2, <1>1 DEF Read, ReadLookup, RefTaken, ReadCheck, ReadCount, ReadArm, ReadWait,
       ReadInterrupted, ReadDisarm, ReadRecheck, ReadPut, RefDropped, mailbox, history
  <2> QED BY <2>1, <2>2
<1>6. ASSUME NEW w \in Writers, WriteLookup(w) \/ WriteStep(w)
      PROVE  UNCHANGED <<queue, left, nSent, mepState, dpc>>
  BY <1>6 DEF WriteLookup, RefTaken, WriteStep, WriteCheck, WriteCall, WritePut,
         RefDropped, mailbox, history
<1>7. CASE DestroyBegin
  BY <1>7 DEF DestroyBegin, history, OrderInv, TypeInv, Channel!Close
<1>8. CASE DestroyStep
  <2>1. CASE DestroyPop
    BY <2>1, TakeFirstOrder DEF DestroyPop, OrderInv
  <2>2. CASE ~DestroyPop
    <3>1. UNCHANGED <<queue, left, nSent, mepState>> /\ dpc # "idle" /\ dpc' # "idle"
      BY <1>8, <2>2 DEF DestroyStep, DestroyWake, DestroyLoop, MoreToDrain, DestroyCall,
         DestroyUnlist, DestroyPut, RefDropped, mailbox, history
    <3> QED BY <3>1 DEF OrderInv
  <2> QED BY <2>1, <2>2
<1>9. CASE UNCHANGED vars
  BY <1>9, <1>1 DEF vars, threads, mailbox, history
<1> QED
  BY <1>1, <1>2, <1>3, <1>4, <1>5, <1>6, <1>7, <1>8, <1>9 DEF Next

\* Commands reach the worker, or come back to the client, in the order they
\* were sent and once each, whatever readers, senders and the destruction do.
THEOREM ChannelRefinement == Spec => ImplementsChannel
<1>1. Init => OrderInv /\ Channel!ChannelInit
  BY DEF Init, OrderInv, Channel!ChannelInit
<1> QED
  BY <1>1, ChannelStep, TypeInvHolds, PTL DEF Spec, ImplementsChannel, Channel!ChannelSpec

-----------------------------------------------------------------------------
(* Nothing is left behind.                                                 *)

\* ccd_cmd_sent counts the queue: the two are changed in one critical section.
CountInv ==
  /\ ~oops => cmdSent = Len(queue)
  /\ NothingStranded

\* A message taken keeps the count, and an empty queue stays empty.
LEMMA TakeFirstCount ==
  ASSUME TypeInv, cmdSent = Len(queue), ~oops, TakeFirst
  PROVE  /\ ~oops' => cmdSent' = Len(queue')
         /\ queue = <<>> => queue' = <<>>
<1>1. CASE queue = <<>>
  BY <1>1 DEF TakeFirst
<1>2. CASE queue # <<>>
  <2>1. queue' = Tail(queue) /\ cmdSent' = cmdSent - 1
    BY <1>2 DEF TakeFirst
  <2>2. Len(Tail(queue)) = Len(queue) - 1
    BY <1>2 DEF TypeInv
  <2> QED BY <1>2, <2>1, <2>2
<1> QED BY <1>1, <1>2

\* When the client has stopped sending before it destroys the endpoint, the
\* drain leaves no message behind, although readers take some of them and the
\* drain tests the counter and takes the message in two critical sections.
THEOREM DrainedCompletely == Spec => []NothingStranded
<1> USE DEF CountInv, NothingStranded
<1>1. Init => CountInv
  BY DEF Init
<1>2. TypeInv /\ CountInv /\ [Next]_vars => CountInv'
  <2> SUFFICES ASSUME TypeInv, CountInv, [Next]_vars PROVE CountInv'
    OBVIOUS
  <2>1. ASSUME UNCHANGED <<quiesced, dpc, cmdSent, queue>>, oops => oops'
        PROVE  CountInv'
    BY <2>1
  <2>a. CASE UNCHANGED vars
    BY <2>1, <2>a DEF vars, threads, mailbox, life
  <2>b. CASE Next
    <3>0. ~oops /\ cmdSent = Len(queue)
      BY <2>b DEF Next
    <3>1. CASE CreateEpt
      BY <2>1, <3>1 DEF CreateEpt, threads, mailbox
    <3>2. ASSUME NEW s \in Senders, Send(s) PROVE CountInv'
      <4>1. queue' = Append(queue, nSent + 1) /\ cmdSent' = cmdSent + 1
            /\ UNCHANGED <<quiesced, dpc, oops>> /\ (quiesced => dpc = "idle")
        BY <3>2 DEF Send, Queued, MaySend, life
      <4>2. Len(queue') = Len(queue) + 1
        BY <4>1 DEF TypeInv
      <4> QED BY <3>0, <4>1, <4>2
    <3>3. ASSUME NEW s \in Senders, SendWake(s) \/ SendFreed(s) PROVE CountInv'
      BY <2>1, <3>0, <3>3 DEF SendWake, SendFreed, threads, mailbox, life
    <3>4. ASSUME NEW r \in Readers, Read(r) PROVE CountInv'
      <4>1. CASE ReadPop(r)
        <5>1. TakeFirst /\ UNCHANGED <<quiesced, dpc>>
          BY <4>1 DEF ReadPop, life
        <5> QED BY <3>0, <5>1, TakeFirstCount
      <4>2. CASE ~ReadPop(r)
        <5>1. UNCHANGED <<quiesced, dpc, cmdSent, queue>>
          BY <3>4, <4>2 DEF Read, ReadLookup, RefTaken, ReadCheck, ReadCount, ReadArm,
             ReadWait, ReadInterrupted, ReadDisarm, ReadRecheck, ReadPut, RefDropped,
             mailbox, life
        <5> QED BY <2>1, <3>0, <5>1
      <4> QED BY <4>1, <4>2
    <3>5. ASSUME NEW w \in Writers, WriteLookup(w) \/ WriteStep(w) PROVE CountInv'
      BY <2>1, <3>0, <3>5 DEF WriteLookup, RefTaken, WriteStep, WriteCheck, WriteCall,
         WritePut, RefDropped, mailbox, life
    <3>6. CASE DestroyBegin
      BY <3>0, <3>6 DEF DestroyBegin, life
    <3>7. CASE DestroyPop
      <4>1. TakeFirst /\ dpc' = "call"
        BY <3>7 DEF DestroyPop
      <4> QED BY <3>0, <4>1, TakeFirstCount
    <3>8. CASE DestroyLoop
      <4>1. /\ UNCHANGED <<quiesced, cmdSent, queue, oops>>
            /\ dpc' = IF cmdSent > 0 THEN "pop" ELSE "unlist"
        BY <3>8 DEF DestroyLoop, MoreToDrain, mailbox, life
      <4>2. ~(cmdSent > 0) => queue = <<>>
        BY <3>0 DEF TypeInv
      <4> QED BY <3>0, <4>1, <4>2
    <3>9. CASE DestroyWake \/ DestroyCall \/ DestroyUnlist \/ DestroyPut
      BY <3>0, <3>9 DEF DestroyWake, DestroyCall, DestroyUnlist, DestroyPut, RefDropped,
         mailbox, life
    <3> QED
      BY <2>b, <3>1, <3>2, <3>3, <3>4, <3>5, <3>6, <3>7, <3>8, <3>9 DEF Next, DestroyStep
  <2> QED BY <2>a, <2>b
<1>3. CountInv => NothingStranded
  OBVIOUS
<1> QED
  BY <1>1, <1>2, <1>3, TypeInvHolds, PTL DEF Spec

-----------------------------------------------------------------------------
(* No wake-up is lost, as long as the endpoint has one reader.             *)

\* The announcement of a waiting reader stands until it withdraws it.
WakeInv ==
  /\ \A r \in asleep : rpc[r] = "wait"
  /\ \A r \in Readers : rpc[r] \in {"wait", "disarm", "abort"} => readRdy = 1
  /\ NoLostWakeup

\* A message sent, or a destruction begun, while the reader is on its way to
\* sleep or asleep is noticed: worker_read_rdy is seen by the thread that made
\* the change. With two readers the flag of one is withdrawn by the other.
THEOREM WakeupNotLost ==
  ASSUME \A r, q \in Readers : r = q
  PROVE  Spec => []NoLostWakeup
<1> USE DEF WakeInv, NoLostWakeup, ReadCondition
<1>1. Init => WakeInv
  BY DEF Init
<1>2. TypeInv /\ WakeInv /\ [Next]_vars => WakeInv'
  <2> SUFFICES ASSUME TypeInv, WakeInv, [Next]_vars PROVE WakeInv'
    OBVIOUS
  <2> USE DEF TypeInv
  <2>1. ASSUME UNCHANGED <<rpc, spc, dpc, mepState, cmdSent, readRdy, asleep>>
        PROVE  WakeInv'
    BY <2>1
  <2>2. CASE CreateEpt
    BY <2>1, <2>2 DEF CreateEpt, threads, mailbox
  <2>3. ASSUME NEW s \in Senders, Send(s) PROVE WakeInv'
    BY <2>3 DEF Send, Queued
  <2>4. ASSUME NEW s \in Senders, SendWake(s) PROVE WakeInv'
    BY <2>4 DEF SendWake, WakeReaders
  <2>5. ASSUME NEW s \in Senders, SendFreed(s) PROVE WakeInv'
    BY <2>1, <2>5 DEF SendFreed, threads, mailbox
  <2>6. ASSUME NEW r \in Readers, Read(r) PROVE WakeInv'
    <3> USE DEF ReadGoto, ReadPc, mailbox
    <3>1. CASE ReadLookup(r) \/ ReadCheck(r) \/ ReadCount(r) \/ ReadRecheck(r)
      BY <3>1 DEF ReadLookup, RefTaken, ReadCheck, ReadCount, ReadRecheck
    <3>2. CASE ReadPut(r)
      BY <3>2 DEF ReadPut, RefDropped
    <3>3. CASE ReadArm(r)
      BY <3>3 DEF ReadArm
    <3>4. CASE ReadWait(r)
      BY <3>4 DEF ReadWait
    <3>5. CASE ReadInterrupted(r)
      BY <3>5 DEF ReadInterrupted
    <3>6. CASE ReadDisarm(r)
      BY <3>6 DEF ReadDisarm
    <3>7. CASE ReadPop(r)
      BY <3>7 DEF ReadPop, TakeFirst
    <3> QED BY <2>6, <3>1, <3>2, <3>3, <3>4, <3>5, <3>6, <3>7 DEF Read
  <2>7. ASSUME NEW w \in Writers, WriteLookup(w) \/ WriteStep(w) PROVE WakeInv'
    BY <2>1, <2>7 DEF WriteLookup, RefTaken, WriteStep, WriteCheck, WriteCall, WritePut,
         RefDropped, mailbox
  <2>8. CASE DestroyBegin
    BY <2>8 DEF DestroyBegin
  <2>9. CASE DestroyStep
    <3>1. CASE DestroyWake
      BY <3>1 DEF DestroyWake, WakeReaders
    <3>2. CASE DestroyPop
      BY <3>2 DEF DestroyPop, TakeFirst
    <3>3. CASE DestroyLoop \/ DestroyCall \/ DestroyUnlist \/ DestroyPut
      BY <3>3 DEF DestroyLoop, MoreToDrain, DestroyCall, DestroyUnlist, DestroyPut, RefDropped, mailbox
    <3> QED BY <2>9, <3>1, <3>2, <3>3 DEF DestroyStep
  <2>10. CASE UNCHANGED vars
    BY <2>1, <2>10 DEF vars, threads, mailbox
  <2> QED
    BY <2>2, <2>3, <2>4, <2>5, <2>6, <2>7, <2>8, <2>9, <2>10 DEF Next
<1>3. WakeInv => NoLostWakeup
  OBVIOUS
<1> QED
  BY <1>1, <1>2, <1>3, TypeInvHolds, PTL DEF Spec
=============================================================================
