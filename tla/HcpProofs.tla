----------------------------- MODULE HcpProofs -----------------------------
(***************************************************************************)
(* Theorems about Hcp, for any number of senders, readers and message      *)
(* objects, any batch and any number of sends, purges and exits.           *)
(***************************************************************************)
EXTENDS Hcp, TLAPS

-----------------------------------------------------------------------------
(* The inductive invariant.                                                *)

Threads == Senders \cup Readers

\* A thread has a message object in its hands between two of its lists; a
\* sender has a number from the start of its call on; nobody reads a closed
\* device.
Hands ==
  /\ \A t \in Threads : held[t] # NoSlot <=> pc[t] \in {"reset", "append", "copy"}
  /\ \A s \in Senders : pc[s] # "idle" => cur[s] \in Numbers
  /\ ~isOpen => \A r \in Readers : pc[r] = "closed"
  /\ \A r \in Readers : pc[r] = "copy" => copied[r] < Batch

\* An object in the channel or in a reader's hands holds a message.
Filled ==
  /\ \A m \in InChan : body[m] \in Msg
  /\ \A r \in Readers : held[r] # NoSlot => body[held[r]] \in Msg

\* From the moment a sender clears its acknowledgement, all that can still be
\* answered is its message and what it found outstanding.
Answerable ==
  \A s \in Senders : pc[s] \in {"append", "waitAck"} =>
    /\ Outstanding(s) \subseteq {cur[s]} \cup stale[s]
    /\ ack[s] \in {0, cur[s]} \cup stale[s]

HcpInv ==
  /\ TypeOK /\ Hands /\ SlotsConserved /\ Filled /\ Answerable
  /\ NobodySleepsOnFullPool

-----------------------------------------------------------------------------
(* Lists and hands.                                                        *)

Elems(q) == {q[i] : i \in DOMAIN q}
Once(q) == \A i, j \in DOMAIN q : q[i] = q[j] => i = j

\* What an entry added at the tail of a list of distinct objects does.
LEMMA AppendElems ==
  ASSUME NEW S, NEW q \in Seq(S), NEW m \in S, Once(q), m \notin Elems(q)
  PROVE  /\ Append(q, m) \in Seq(S)
         /\ Elems(Append(q, m)) = Elems(q) \cup {m}
         /\ Once(Append(q, m))
<1> DEFINE r == Append(q, m)
<1>1. /\ r \in Seq(S) /\ DOMAIN r = 1 .. Len(q) + 1 /\ DOMAIN q = 1 .. Len(q)
      /\ Len(q) \in Nat
  OBVIOUS
<1>2. r[Len(q) + 1] = m /\ \A i \in 1 .. Len(q) : r[i] = q[i]
  OBVIOUS
<1>3. \A i \in DOMAIN r : i = Len(q) + 1 \/ i \in DOMAIN q
  BY <1>1
<1> HIDE DEF r
<1>4. Elems(r) = Elems(q) \cup {m}
  BY <1>1, <1>2, <1>3 DEF Elems
<1>5. Once(r)
  BY <1>1, <1>2, <1>3 DEF Elems, Once
<1> QED BY <1>1, <1>4, <1>5 DEF r

\* What taking the head of a list of distinct objects does.
LEMMA TailElems ==
  ASSUME NEW S, NEW q \in Seq(S), q # <<>>, Once(q)
  PROVE  /\ Head(q) \in S /\ Tail(q) \in Seq(S)
         /\ Elems(q) = Elems(Tail(q)) \cup {Head(q)} /\ Head(q) \notin Elems(Tail(q))
         /\ Once(Tail(q))
<1> DEFINE r == Tail(q)
<1>1. /\ r \in Seq(S) /\ DOMAIN r = 1 .. Len(q) - 1 /\ DOMAIN q = 1 .. Len(q)
      /\ Len(q) \in Nat \ {0} /\ Head(q) = q[1] /\ Head(q) \in S
  OBVIOUS
<1>2. \A i \in DOMAIN r : r[i] = q[i + 1] /\ i + 1 \in DOMAIN q /\ i + 1 # 1
  BY <1>1
<1>3. \A i \in DOMAIN q : i = 1 \/ (i - 1 \in DOMAIN r /\ q[i] = r[i - 1])
  BY <1>1, <1>2
<1>4. 1 \in DOMAIN q
  BY <1>1
<1> HIDE DEF r
<1>5. Elems(q) = Elems(r) \cup {q[1]}
  BY <1>2, <1>3, <1>4 DEF Elems
<1>6. q[1] \notin Elems(r)
  BY <1>2, <1>4 DEF Elems, Once
<1>7. Once(r)
  <2> SUFFICES ASSUME NEW i \in DOMAIN r, NEW j \in DOMAIN r, r[i] = r[j] PROVE i = j
    BY DEF Once
  <2>1. i + 1 = j + 1
    BY <1>2 DEF Once
  <2> QED BY <2>1, <1>1
<1> QED BY <1>1, <1>5, <1>6, <1>7 DEF r

HeldBy(h) == {h[t] : t \in {t \in DOMAIN h : h[t] # NoSlot}}
Apart(h) == \A t, u \in DOMAIN h : h[t] = h[u] /\ h[t] # NoSlot => t = u

\* A thread with empty hands takes an object nobody holds.
LEMMA TakenInHand ==
  ASSUME NEW T, NEW h \in [T -> Slots \cup {NoSlot}], Apart(h),
         NEW t \in T, h[t] = NoSlot, NEW m \in Slots, m \notin HeldBy(h)
  PROVE  /\ HeldBy([h EXCEPT ![t] = m]) = HeldBy(h) \cup {m}
         /\ Apart([h EXCEPT ![t] = m])
<1>1. m # NoSlot
  BY HcpAssumption
<1> QED BY <1>1 DEF HeldBy, Apart

\* A thread lets go of the object it holds.
LEMMA GivenAway ==
  ASSUME NEW T, NEW h \in [T -> Slots \cup {NoSlot}], Apart(h),
         NEW t \in T, h[t] # NoSlot
  PROVE  /\ HeldBy([h EXCEPT ![t] = NoSlot]) = HeldBy(h) \ {h[t]}
         /\ Apart([h EXCEPT ![t] = NoSlot])
         /\ h[t] \in HeldBy(h)
BY DEF HeldBy, Apart

-----------------------------------------------------------------------------
\* The initial state satisfies the invariant.
LEMMA InvInit == Init => HcpInv
<1> SUFFICES ASSUME Init PROVE HcpInv
  OBVIOUS
<1>1. Senders \cap Readers = {} /\ MaxSend \in Nat /\ Batch \in Nat
  BY HcpAssumption DEF Senders
<1>2. TypeOK
  <2>1. isOpen \in BOOLEAN
    BY Zenon DEF Init
  <2>2. body \in [Slots -> Msg \cup {[no |-> 0]}]
    BY DEF Init
  <2>3. pc \in [Senders \cup Readers -> SenderPcs \cup ReaderPcs]
        /\ (\A s \in Senders : pc[s] \in SenderPcs) /\ \A r \in Readers : pc[r] \in ReaderPcs
    BY <1>1 DEF Init, SenderPcs, ReaderPcs
  <2> QED BY <1>1, <2>1, <2>2, <2>3, HcpAssumption DEF Init, TypeOK
<1>3. Hands
  BY <1>1 DEF Init, Hands, Threads
<1>4. SlotsConserved
  BY DEF Init, SlotsConserved, InChan, InHand
<1>7. Filled
  BY <1>1 DEF Init, Filled, InChan, Senders
<1>5. Answerable
  BY <1>1 DEF Init, Answerable
<1>6. NobodySleepsOnFullPool
  BY <1>1 DEF Init, NobodySleepsOnFullPool
<1> QED BY <1>2, <1>3, <1>4, <1>5, <1>6, <1>7 DEF HcpInv

-----------------------------------------------------------------------------
(* Types and hands.                                                        *)

\* A thread woken up is at a place of its own kind, with its hands as they were.
LEMMA Woken ==
  ASSUME TypeOK, NEW t \in Threads, NEW where, NEW places \in SUBSET {"waitSlot", "asleep"},
         t \in Senders => where \in SenderPcs, t \in Readers => where \in ReaderPcs
  PROVE  LET p == Wake(t, where, places) IN
         /\ p \in [Senders \cup Readers -> SenderPcs \cup ReaderPcs]
         /\ \A s \in Senders : p[s] \in SenderPcs
         /\ \A r \in Readers : p[r] \in ReaderPcs
         /\ p[t] = where
         /\ \A x \in Threads \ {t} :
              \/ p[x] = pc[x]
              \/ pc[x] = "waitSlot" /\ p[x] = "take" /\ "waitSlot" \in places
              \/ pc[x] = "asleep" /\ p[x] = "poll" /\ "asleep" \in places
         /\ "waitSlot" \in places => \A x \in Threads \ {t} : p[x] # "waitSlot"
<1> DEFINE p == Wake(t, where, places)
<1>1. DOMAIN pc = Threads /\ Senders \cap Readers = {}
  BY HcpAssumption DEF TypeOK, Threads, Senders
<1>2. AfterWake["waitSlot"] = "take" /\ AfterWake["asleep"] = "poll"
  BY DEF AfterWake
<1>3. DOMAIN p = Threads /\ p[t] = where
  BY <1>1 DEF Wake
<1>4. \A x \in Threads \ {t} : p[x] = IF pc[x] \in places THEN AfterWake[pc[x]] ELSE pc[x]
  BY <1>1 DEF Wake
<1>5. \A x \in Threads \ {t} :
         \/ p[x] = pc[x] /\ pc[x] \notin places
         \/ pc[x] = "waitSlot" /\ p[x] = "take" /\ "waitSlot" \in places
         \/ pc[x] = "asleep" /\ p[x] = "poll" /\ "asleep" \in places
  BY <1>2, <1>4
<1>6. \A s \in Senders : pc[s] \in SenderPcs
  BY DEF TypeOK
<1>7. \A r \in Readers : pc[r] \in ReaderPcs
  BY DEF TypeOK
<1>8. \A s \in Senders : p[s] \in SenderPcs
  BY <1>1, <1>3, <1>5, <1>6 DEF SenderPcs, Threads
<1>9. \A r \in Readers : p[r] \in ReaderPcs
  BY <1>1, <1>3, <1>5, <1>7, Zenon DEF ReaderPcs, Threads
<1>10. p \in [Threads -> SenderPcs \cup ReaderPcs]
  <2>1. \A x \in Threads : p[x] \in SenderPcs \cup ReaderPcs
    BY <1>8, <1>9 DEF Threads
  <2>2. p = [x \in Threads |-> p[x]]
    BY <1>1 DEF Wake
  <2> HIDE DEF p
  <2> QED BY <2>1, <2>2
<1>11. "waitSlot" \in places => \A x \in Threads \ {t} : p[x] # "waitSlot"
  BY <1>5
<1> QED BY <1>3, <1>5, <1>8, <1>9, <1>10, <1>11 DEF Threads

\* Every step keeps the types and the hands.
LEMMA TypeStep == HcpInv /\ [Next]_vars => TypeOK' /\ Hands'
<1> SUFFICES ASSUME HcpInv, [Next]_vars PROVE TypeOK' /\ Hands'
  OBVIOUS
<1>a. TypeOK /\ Hands
  BY DEF HcpInv
<1>b. /\ Senders \subseteq Threads /\ Readers \subseteq Threads /\ Senders \cap Readers = {}
      /\ NoSlot \notin Slots /\ MaxSend \in Nat /\ MaxPurge \in Nat /\ MaxExit \in Nat
      /\ Batch \in Nat \ {0}
  BY HcpAssumption DEF Threads, Senders
<1>c. chan # <<>> => Head(chan) \in Slots /\ Tail(chan) \in Seq(Slots)
  BY <1>a DEF TypeOK
<1>d. Filled
  BY DEF HcpInv
<1> USE <1>a, <1>b
<1> USE DEF TypeOK, Hands, Threads, Goto, SenderPcs, ReaderPcs, lists, daemon, ghosts, bounds
<1>1. ASSUME NEW s \in Senders, Send(s) PROVE TypeOK' /\ Hands'
  <2>1. sent + 1 \in Numbers /\ sent + 1 \in 0 .. MaxSend
    BY <1>1 DEF Send, Numbers
  <2>2. cur' \in [Senders -> 0 .. MaxSend] /\ pc' \in [Threads -> SenderPcs \cup ReaderPcs]
    BY <1>1, <2>1 DEF Send
  <2> QED BY <1>1, <2>1, <2>2 DEF Send
<1>2. ASSUME NEW s \in Senders, pc[s] \in {"take", "waitSlot"}, GetSlot(s) PROVE TypeOK' /\ Hands'
  BY <1>2 DEF GetSlot
<1>3. ASSUME NEW s \in Senders, SleepForSlot(s) PROVE TypeOK' /\ Hands'
  BY <1>3 DEF SleepForSlot
<1>4. ASSUME NEW s \in Senders, SlotTimeout(s) PROVE TypeOK' /\ Hands'
  BY <1>2, <1>4 DEF SlotTimeout
<1>5. ASSUME NEW s \in Senders, ResetAck(s) PROVE TypeOK' /\ Hands'
  <2>1. Outstanding(s) \subseteq Numbers
    BY DEF Outstanding, Msg
  <2> QED BY <1>5, <2>1 DEF ResetAck, NoAck
<1>6. ASSUME NEW s \in Senders, AppendMsg(s) PROVE TypeOK' /\ Hands'
  <2>1. pc[s] = "append" /\ held[s] \in Slots /\ cur[s] \in Numbers
    BY <1>6 DEF AppendMsg
  <2>2. [no |-> cur[s], id |-> s, seq |-> seq + 1] \in Msg
    BY <2>1 DEF Msg
  <2>3. seq' \in Nat /\ chan' \in Seq(Slots) /\ body' \in [Slots -> Msg \cup {[no |-> 0]}]
    BY <1>6, <2>1, <2>2 DEF AppendMsg, AtTail
  <2>4. held' = [held EXCEPT ![s] = NoSlot] /\ UNCHANGED <<msgList, ack, daemon, ghosts, bounds>>
    BY <1>6 DEF AppendMsg
  <2> DEFINE where == IF s \in SyncSenders THEN "waitAck" ELSE "idle"
  <2>5. where \in SenderPcs /\ where \notin {"reset", "append", "copy"}
        /\ pc' = Wake(s, where, {"asleep"})
    BY <1>6 DEF AppendMsg
  <2> HIDE DEF where
  <2>6. /\ pc' \in [Threads -> SenderPcs \cup ReaderPcs]
        /\ \A x \in Senders : pc'[x] \in SenderPcs
        /\ \A r \in Readers : pc'[r] \in ReaderPcs
        /\ pc'[s] = where
        /\ \A x \in Threads \ {s} : pc'[x] = pc[x] \/ (pc[x] = "asleep" /\ pc'[x] = "poll")
    <3> HIDE DEF TypeOK, Hands
    <3>1. s \in Threads /\ s \notin Readers /\ {"asleep"} \in SUBSET {"waitSlot", "asleep"}
          /\ "waitSlot" \notin {"asleep"}
      OBVIOUS
    <3> HIDE DEF SenderPcs, ReaderPcs, Threads
    <3> QED BY <2>5, <3>1, Woken DEF Threads
  <2>7. TypeOK'
    BY <2>3, <2>4, <2>6
  <2>8. Hands'
    BY <2>1, <2>4, <2>5, <2>6
  <2> QED BY <2>7, <2>8
<1>7. ASSUME NEW s \in Senders, Acked(s) \/ AckTimeout(s) PROVE TypeOK' /\ Hands'
  <2>1. pc[s] = "waitAck" /\ pc' = [pc EXCEPT ![s] = "idle"]
        /\ ack' \in [Senders -> 0 .. MaxSend] /\ UNCHANGED <<lists, daemon, held, ghosts, bounds>>
    <3>1. CASE Acked(s)
      BY <3>1 DEF Acked
    <3>2. CASE AckTimeout(s)
      BY <3>2 DEF AckTimeout
    <3> QED BY <1>7, <3>1, <3>2
  <2> QED BY <2>1
<1>8. ASSUME NEW r \in Readers, PollFirst(r) \/ PollAgain(r) PROVE TypeOK' /\ Hands'
  BY <1>8 DEF PollFirst, PollAgain
<1>9. ASSUME NEW r \in Readers, Fetch(r) PROVE TypeOK' /\ Hands'
  BY <1>c, <1>9 DEF Fetch, RoomInPacket
<1>10. ASSUME NEW r \in Readers, Copy(r) PROVE TypeOK' /\ Hands'
  <2>1. pc[r] = "copy" /\ held[r] \in Slots /\ isOpen /\ body[held[r]] \in Msg
    BY <1>10, <1>d DEF Copy, Filled
  <2>2. user' \subseteq Msg /\ msgList' \subseteq Slots
        /\ body' \in [Slots -> Msg \cup {[no |-> 0]}]
    BY <1>10, <2>1 DEF Copy, SlotReturned
  <2>3. /\ copied' \in [Readers -> 0 .. Batch]
        /\ \A x \in Readers \ {r} : copied'[x] = copied[x]
    BY <1>10, <2>1 DEF Copy
  <2>4. held' = [held EXCEPT ![r] = NoSlot] /\ UNCHANGED <<chan, seq, ack, isOpen, ghosts, bounds>>
    BY <1>10 DEF Copy
  <2>5. /\ pc' \in [Threads -> SenderPcs \cup ReaderPcs]
        /\ \A x \in Senders : pc'[x] \in SenderPcs
        /\ \A x \in Readers : pc'[x] \in ReaderPcs
        /\ pc'[r] = "fetch"
        /\ \A x \in Threads \ {r} : pc'[x] = pc[x] \/ (pc[x] = "waitSlot" /\ pc'[x] = "take")
    <3>1. r \in Threads /\ r \notin Senders /\ {"waitSlot"} \in SUBSET {"waitSlot", "asleep"}
          /\ "asleep" \notin {"waitSlot"} /\ "fetch" \in ReaderPcs
          /\ pc' = Wake(r, "fetch", {"waitSlot"})
      BY <1>10 DEF Copy
    <3> DEFINE p == Wake(r, "fetch", {"waitSlot"})
    <3> HIDE DEF TypeOK, Hands, SenderPcs, ReaderPcs, Threads
    <3>2. /\ p \in [Senders \cup Readers -> SenderPcs \cup ReaderPcs]
          /\ \A x \in Senders : p[x] \in SenderPcs
          /\ \A x \in Readers : p[x] \in ReaderPcs
          /\ p[r] = "fetch"
          /\ \A x \in Threads \ {r} :
               \/ p[x] = pc[x]
               \/ pc[x] = "waitSlot" /\ p[x] = "take" /\ "waitSlot" \in {"waitSlot"}
               \/ pc[x] = "asleep" /\ p[x] = "poll" /\ "asleep" \in {"waitSlot"}
      BY <3>1, Woken
    <3> HIDE DEF p
    <3> QED BY <3>1, <3>2 DEF Threads, p
  <2>6. TypeOK'
    BY <2>2, <2>3, <2>4, <2>5
  <2>7. Hands'
    <3>1. \A x \in Threads \ {r} : (pc'[x] \in {"reset", "append", "copy"}
                                     <=> pc[x] \in {"reset", "append", "copy"})
      BY <2>5
    <3>2. \A t \in Threads : held'[t] # NoSlot <=> pc'[t] \in {"reset", "append", "copy"}
      BY <2>4, <2>5, <3>1
    <3>3. \A s \in Senders : pc'[s] # "idle" => cur'[s] \in Numbers
      BY <2>4, <2>5
    <3>4. \A x \in Readers : pc'[x] = "copy" => copied'[x] < Batch
      BY <2>3, <2>5
    <3> QED BY <2>1, <2>4, <3>2, <3>3, <3>4
  <2> QED BY <2>6, <2>7
<1>11. ASSUME NEW r \in Readers, GetObjectEnd(r) PROVE TypeOK' /\ Hands'
  <2>1. /\ pc[r] = "fetch" /\ pc' = [pc EXCEPT ![r] = "poll"]
        /\ copied' = [copied EXCEPT ![r] = 0]
        /\ UNCHANGED <<lists, ack, isOpen, user, held, ghosts, bounds>>
    BY <1>11 DEF GetObjectEnd
  <2>2. TypeOK'
    BY <2>1
  <2>3. Hands'
    BY <2>1
  <2> QED BY <2>2, <2>3
<1>12. ASSUME Purge PROVE TypeOK' /\ Hands'
  <2>1. InChan \subseteq Slots
    BY DEF InChan
  <2>2. msgList' \subseteq Slots /\ body' \in [Slots -> Msg \cup {[no |-> 0]}]
        /\ chan' \in Seq(Slots)
    BY <1>12, <2>1 DEF Purge, Purged, InChan
  <2>3. seq' = 0 /\ purges' \in 0 .. MaxPurge
        /\ UNCHANGED <<ack, daemon, pc, held, ghosts, sent, exits>>
    BY <1>12 DEF Purge
  <2> QED BY <2>2, <2>3
<1>13. ASSUME Open PROVE TypeOK' /\ Hands'
  BY <1>13 DEF Open
<1>14. ASSUME Exit PROVE TypeOK' /\ Hands'
  <2>1. /\ pc' \in [Threads -> SenderPcs \cup ReaderPcs]
        /\ \A s \in Senders : pc'[s] = pc[s]
        /\ \A r \in Readers : pc'[r] = "closed" /\ held[r] = NoSlot
    <3>1. pc' = [t \in Threads |-> IF t \in Readers THEN "closed" ELSE pc[t]]
      <4>1. DOMAIN pc = Threads
        OBVIOUS
      <4> QED BY <1>14, <4>1 DEF Exit
    <3>2. \A r \in Readers : held[r] = NoSlot
      BY <1>14 DEF Exit
    <3> QED BY <3>1, <3>2
  <2>2. exits' \in 0 .. MaxExit /\ isOpen' \in BOOLEAN /\ user' \subseteq Msg
        /\ copied' \in [Readers -> 0 .. Batch]
    <3>1. exits < MaxExit /\ exits' = exits + 1 /\ isOpen' = FALSE /\ user' = {}
          /\ copied' = [r \in Readers |-> 0]
      BY <1>14, Zenon DEF Exit
    <3>2. isOpen' \in BOOLEAN
      BY <3>1, Zenon
    <3> QED BY <3>1, <3>2
  <2>3. UNCHANGED <<lists, ack, held, ghosts, sent, purges>>
    BY <1>14 DEF Exit
  <2> QED BY <2>1, <2>2, <2>3
<1>15. ASSUME Complete PROVE TypeOK' /\ Hands'
  BY <1>15 DEF Complete, Msg, Numbers
<1>16. ASSUME UNCHANGED vars PROVE TypeOK' /\ Hands'
  BY <1>16 DEF vars
<1> HIDE DEF TypeOK, Hands
<1>17. ASSUME NEW s \in Senders, Send(s) \/ Sender(s) PROVE TypeOK' /\ Hands'
  BY <1>1, <1>2, <1>3, <1>4, <1>5, <1>6, <1>7, <1>17 DEF Sender, TakeSlot
<1>18. ASSUME NEW r \in Readers, Reader(r) PROVE TypeOK' /\ Hands'
  BY <1>8, <1>9, <1>10, <1>11, <1>18 DEF Reader
<1> QED
  BY <1>12, <1>13, <1>14, <1>15, <1>16, <1>17, <1>18 DEF Next

-----------------------------------------------------------------------------
(* The lists of message objects.                                           *)

\* The steps that move an object.
LEMMA ListSteps ==
  [Next]_vars =>
    \/ \E s \in Senders : pc[s] \in {"take", "waitSlot"} /\ GetSlot(s)
    \/ \E s \in Senders : AppendMsg(s)
    \/ \E r \in Readers : Fetch(r) \/ Copy(r)
    \/ Purge
    \/ UNCHANGED <<msgList, chan, held, body>>
<1> USE DEF lists, daemon, ghosts, bounds
<1>1. ASSUME NEW s \in Senders, Send(s) \/ Sender(s)
      PROVE  \/ pc[s] \in {"take", "waitSlot"} /\ GetSlot(s)
             \/ AppendMsg(s)
             \/ UNCHANGED <<msgList, chan, held, body>>
  <2>1. CASE Send(s)
    BY <2>1 DEF Send
  <2>2. CASE TakeSlot(s)
    BY <2>2 DEF TakeSlot
  <2>3. CASE SleepForSlot(s)
    BY <2>3 DEF SleepForSlot
  <2>4. CASE SlotTimeout(s)
    BY <2>4 DEF SlotTimeout
  <2>5. CASE ResetAck(s)
    BY <2>5 DEF ResetAck
  <2>6. CASE Acked(s)
    BY <2>6 DEF Acked
  <2>7. CASE AckTimeout(s)
    BY <2>7 DEF AckTimeout
  <2> QED BY <1>1, <2>1, <2>2, <2>3, <2>4, <2>5, <2>6, <2>7 DEF Sender
<1>2. ASSUME NEW r \in Readers, Reader(r)
      PROVE  Fetch(r) \/ Copy(r) \/ UNCHANGED <<msgList, chan, held, body>>
  <2>1. CASE PollFirst(r)
    BY <2>1 DEF PollFirst
  <2>2. CASE PollAgain(r)
    BY <2>2 DEF PollAgain
  <2>3. CASE GetObjectEnd(r)
    BY <2>3 DEF GetObjectEnd
  <2> QED BY <1>2, <2>1, <2>2, <2>3 DEF Reader
<1>3. ASSUME Open PROVE UNCHANGED <<msgList, chan, held, body>>
  BY <1>3 DEF Open
<1>4. ASSUME Exit PROVE UNCHANGED <<msgList, chan, held, body>>
  BY <1>4 DEF Exit
<1>5. ASSUME Complete PROVE UNCHANGED <<msgList, chan, held, body>>
  BY <1>5 DEF Complete
<1>6. ASSUME UNCHANGED vars PROVE UNCHANGED <<msgList, chan, held, body>>
  BY <1>6 DEF vars
<1> QED BY <1>1, <1>2, <1>3, <1>4, <1>5, <1>6 DEF Next

\* The objects are partitioned, in the words of the two lemmas above.
LEMMA Partition ==
  TypeOK => (SlotsConserved <=>
    /\ msgList \cup Elems(chan) \cup HeldBy(held) = Slots
    /\ msgList \cap Elems(chan) = {} /\ msgList \cap HeldBy(held) = {}
    /\ Elems(chan) \cap HeldBy(held) = {}
    /\ Once(chan) /\ Apart(held))
BY DEF SlotsConserved, InChan, InHand, Elems, HeldBy, Once, Apart

\* An object in somebody's hands.
LEMMA InHands ==
  ASSUME TypeOK, NEW t \in Threads, held[t] # NoSlot
  PROVE  held[t] \in HeldBy(held) /\ held[t] \in Slots
BY DEF TypeOK, Threads, HeldBy

\* Every step conserves the objects and fills those it hands on.
LEMMA ListsStep == HcpInv /\ [Next]_vars => SlotsConserved' /\ Filled'
<1> SUFFICES ASSUME HcpInv, [Next]_vars PROVE SlotsConserved' /\ Filled'
  OBVIOUS
<1>a. TypeOK /\ Hands /\ Filled /\ TypeOK'
  BY TypeStep DEF HcpInv
<1>b. /\ msgList \cup Elems(chan) \cup HeldBy(held) = Slots
      /\ msgList \cap Elems(chan) = {} /\ msgList \cap HeldBy(held) = {}
      /\ Elems(chan) \cap HeldBy(held) = {}
      /\ Once(chan) /\ Apart(held)
  BY Partition DEF HcpInv
<1>c. InChan = Elems(chan) /\ InChan' = Elems(chan')
  BY DEF InChan, Elems
<1>d. /\ chan \in Seq(Slots) /\ held \in [Threads -> Slots \cup {NoSlot}]
      /\ body \in [Slots -> Msg \cup {[no |-> 0]}] /\ NoSlot \notin Slots
      /\ Senders \cap Readers = {} /\ Senders \subseteq Threads /\ Readers \subseteq Threads
  BY <1>a, HcpAssumption DEF TypeOK, Threads, Senders
<1>e. SlotsConserved' <=>
        /\ msgList' \cup Elems(chan') \cup HeldBy(held') = Slots
        /\ msgList' \cap Elems(chan') = {} /\ msgList' \cap HeldBy(held') = {}
        /\ Elems(chan') \cap HeldBy(held') = {}
        /\ Once(chan') /\ Apart(held')
  BY <1>a DEF SlotsConserved, InChan, InHand, Elems, HeldBy, Once, Apart
<1>1. ASSUME NEW s \in Senders, pc[s] \in {"take", "waitSlot"}, GetSlot(s)
      PROVE  SlotsConserved' /\ Filled'
  <2>1. PICK m \in msgList : msgList' = msgList \ {m} /\ held' = [held EXCEPT ![s] = m]
                             /\ UNCHANGED <<chan, body>>
    BY <1>1 DEF GetSlot
  <2>2. s \in Threads /\ held[s] = NoSlot
    BY <1>1, <1>a, <1>d DEF Hands
  <2>3. m \in Slots /\ m \notin HeldBy(held) /\ m \notin Elems(chan)
    BY <1>b
  <2>4. HeldBy(held') = HeldBy(held) \cup {m} /\ Apart(held')
    <3>1. /\ HeldBy([held EXCEPT ![s] = m]) = HeldBy(held) \cup {m}
          /\ Apart([held EXCEPT ![s] = m])
      BY <2>2, <2>3, <1>b, <1>d, TakenInHand, Zenon
    <3> QED BY <2>1, <3>1
  <2>5. SlotsConserved'
    BY <2>1, <2>3, <2>4, <1>b, <1>e
  <2>6. Filled'
    BY <2>1, <1>a, <1>d DEF Filled, InChan
  <2> QED BY <2>5, <2>6
<1>2. ASSUME NEW s \in Senders, AppendMsg(s) PROVE SlotsConserved' /\ Filled'
  <2> DEFINE m == held[s]
  <2>1. /\ chan' = Append(chan, m) /\ held' = [held EXCEPT ![s] = NoSlot]
        /\ msgList' = msgList
        /\ body' = [body EXCEPT ![m] = [no |-> cur[s], id |-> s, seq |-> seq + 1]]
    BY <1>2 DEF AppendMsg, AtTail
  <2>2. s \in Threads /\ pc[s] = "append" /\ m # NoSlot /\ cur[s] \in Numbers
    BY <1>2, <1>a, <1>d DEF Hands, AppendMsg
  <2>3. m \in HeldBy(held) /\ m \in Slots
    BY <2>2, <1>a, InHands
  <2>4. HeldBy(held') = HeldBy(held) \ {m} /\ Apart(held')
    BY <2>1, <2>2, <1>b, <1>d, GivenAway
  <2>5. m \notin Elems(chan)
    BY <2>3, <1>b
  <2>6. Elems(chan') = Elems(chan) \cup {m} /\ Once(chan')
    BY <2>1, <2>3, <2>5, <1>b, <1>d, AppendElems
  <2>7. SlotsConserved'
    BY <2>1, <2>3, <2>4, <2>6, <1>b, <1>e
  <2>8. [no |-> cur[s], id |-> s, seq |-> seq + 1] \in Msg
    BY <2>2, <1>a DEF TypeOK, Msg
  <2>9. \A x \in Slots \ {m} : body'[x] = body[x]
    BY <2>1, <1>d
  <2>10. body'[m] \in Msg
    BY <2>1, <2>3, <2>8, <1>d
  <2>11. \A r \in Readers : held'[r] = held[r] /\ held[r] # m
    BY <2>1, <2>2, <1>b, <1>d DEF Apart
  <2>12. Filled'
    <3>1. \A x \in Elems(chan') : body'[x] \in Msg
      BY <2>6, <2>9, <2>10, <1>a, <1>b, <1>c DEF Filled
    <3>2. \A r \in Readers : held'[r] # NoSlot => body'[held'[r]] \in Msg
      BY <2>9, <2>11, <1>a, <1>d DEF Filled
    <3> QED BY <3>1, <3>2, <1>c DEF Filled
  <2> QED BY <2>7, <2>12
<1>3. ASSUME NEW r \in Readers, Fetch(r) PROVE SlotsConserved' /\ Filled'
  <2> DEFINE m == Head(chan)
  <2>1. /\ chan # <<>> /\ chan' = Tail(chan) /\ held' = [held EXCEPT ![r] = m]
        /\ msgList' = msgList /\ body' = body
    BY <1>3 DEF Fetch
  <2>2. r \in Threads /\ held[r] = NoSlot
    BY <1>3, <1>a, <1>d DEF Hands, Fetch
  <2>3. /\ m \in Slots /\ Elems(chan) = Elems(chan') \cup {m} /\ m \notin Elems(chan')
        /\ Once(chan')
    BY <2>1, <1>b, <1>d, TailElems
  <2>4. m \notin HeldBy(held)
    BY <2>3, <1>b
  <2>5. HeldBy(held') = HeldBy(held) \cup {m} /\ Apart(held')
    <3>1. /\ HeldBy([held EXCEPT ![r] = m]) = HeldBy(held) \cup {m}
          /\ Apart([held EXCEPT ![r] = m])
      BY <2>2, <2>3, <2>4, <1>b, <1>d, TakenInHand, Zenon
    <3> QED BY <2>1, <3>1
  <2>6. SlotsConserved'
    BY <2>1, <2>3, <2>5, <1>b, <1>e
  <2>7. body[m] \in Msg
    BY <2>3, <1>a, <1>c DEF Filled
  <2>8. \A x \in Readers : held'[x] = IF x = r THEN m ELSE held[x]
    BY <2>1, <1>d
  <2>9. Filled'
    <3>1. \A x \in Elems(chan') : body'[x] \in Msg
      BY <2>1, <2>3, <1>a, <1>c DEF Filled
    <3>2. \A x \in Readers : held'[x] # NoSlot => body'[held'[x]] \in Msg
      BY <2>1, <2>7, <2>8, <1>a DEF Filled
    <3> QED BY <3>1, <3>2, <1>c DEF Filled
  <2> QED BY <2>6, <2>9
<1>4. ASSUME NEW r \in Readers, Copy(r) PROVE SlotsConserved' /\ Filled'
  <2> DEFINE m == held[r]
  <2>1. /\ chan' = chan /\ held' = [held EXCEPT ![r] = NoSlot]
        /\ msgList' = msgList \cup {m} /\ body' = [body EXCEPT ![m] = [no |-> 0]]
    BY <1>4 DEF Copy, SlotReturned
  <2>2. r \in Threads /\ m # NoSlot
    BY <1>4, <1>a, <1>d DEF Hands, Copy
  <2>3. m \in HeldBy(held) /\ m \in Slots
    BY <2>2, <1>a, InHands
  <2>4. HeldBy(held') = HeldBy(held) \ {m} /\ Apart(held')
    BY <2>1, <2>2, <1>b, <1>d, GivenAway
  <2>5. SlotsConserved'
    BY <2>1, <2>3, <2>4, <1>b, <1>e
  <2>6. \A x \in Slots \ {m} : body'[x] = body[x]
    BY <2>1, <1>d
  <2>7. \A x \in Readers : held'[x] # NoSlot => held'[x] = held[x] /\ held[x] \in Slots \ {m}
    BY <2>1, <2>2, <1>b, <1>d DEF Apart
  <2>8. Filled'
    <3>1. \A x \in Elems(chan') : body'[x] \in Msg
      BY <2>1, <2>3, <2>6, <1>a, <1>b, <1>c DEF Filled
    <3>2. \A x \in Readers : held'[x] # NoSlot => body'[held'[x]] \in Msg
      BY <2>6, <2>7, <1>a DEF Filled
    <3> QED BY <3>1, <3>2, <1>c DEF Filled
  <2> QED BY <2>5, <2>8
<1>5. ASSUME Purge PROVE SlotsConserved' /\ Filled'
  <2>1. /\ chan' = <<>> /\ held' = held /\ msgList' = msgList \cup Elems(chan)
        /\ body' = [x \in Slots |-> IF x \in Elems(chan) THEN [no |-> 0] ELSE body[x]]
    BY <1>5 DEF Purge, Purged, Elems
  <2>2. Elems(chan') = {} /\ Once(chan')
    BY <2>1 DEF Elems, Once
  <2>3. SlotsConserved'
    BY <2>1, <2>2, <1>b, <1>e
  <2>4. \A x \in Readers : held[x] # NoSlot => held[x] \in Slots \ Elems(chan)
    BY <1>a, <1>b, <1>d, InHands
  <2>5. Filled'
    BY <2>1, <2>2, <2>4, <1>a, <1>c DEF Filled
  <2> QED BY <2>3, <2>5
<1>6. ASSUME UNCHANGED <<msgList, chan, held, body>> PROVE SlotsConserved' /\ Filled'
  BY <1>6, <1>a, <1>b, <1>c, <1>e DEF Filled
<1> QED BY <1>1, <1>2, <1>3, <1>4, <1>5, <1>6, ListSteps

-----------------------------------------------------------------------------
(* Sleepers and acknowledgements.                                          *)

\* An object returned to the pool wakes all that sleep for one.
LEMMA SleepStep == HcpInv /\ [Next]_vars => NobodySleepsOnFullPool'
<1> SUFFICES ASSUME HcpInv, [Next]_vars PROVE NobodySleepsOnFullPool'
  OBVIOUS
<1>a. TypeOK /\ NobodySleepsOnFullPool /\ Senders \cap Readers = {}
      /\ Senders \subseteq Threads /\ Readers \subseteq Threads
  BY HcpAssumption DEF HcpInv, Threads, Senders
<1>b. pc \in [Threads -> SenderPcs \cup ReaderPcs] /\ purges \in Nat
  BY <1>a, HcpAssumption DEF TypeOK, Threads
<1>c. ASSUME msgList' \subseteq msgList, purges' = purges,
             \A s \in Senders : pc'[s] = "waitSlot" => pc[s] = "waitSlot" \/ msgList = {}
      PROVE  NobodySleepsOnFullPool'
  BY <1>a, <1>c DEF NobodySleepsOnFullPool
<1>d. ASSUME NEW t \in Threads, NEW where, pc' = [pc EXCEPT ![t] = where], where # "waitSlot",
             msgList' \subseteq msgList, purges' = purges
      PROVE  NobodySleepsOnFullPool'
  BY <1>a, <1>b, <1>c, <1>d
<1> USE DEF Goto, lists, daemon, ghosts, bounds
<1>1. ASSUME NEW s \in Senders, Send(s) \/ Sender(s) PROVE NobodySleepsOnFullPool'
  <2> s \in Threads /\ s \notin Readers
    BY <1>a
  <2>1. ASSUME GetSlot(s) PROVE NobodySleepsOnFullPool'
    BY <1>d, <2>1 DEF GetSlot
  <2>2. CASE Send(s)
    BY <1>d, <2>2 DEF Send
  <2>3. CASE TakeSlot(s)
    BY <2>1, <2>3 DEF TakeSlot
  <2>4. CASE SleepForSlot(s)
    BY <1>a, <1>c, <2>4 DEF SleepForSlot
  <2>5. CASE SlotTimeout(s)
    BY <1>d, <2>1, <2>5 DEF SlotTimeout
  <2>6. CASE ResetAck(s)
    BY <1>d, <2>6 DEF ResetAck
  <2>7. CASE Acked(s)
    BY <1>d, <2>7 DEF Acked
  <2>8. CASE AckTimeout(s)
    BY <1>d, <2>8 DEF AckTimeout
  <2>9. CASE AppendMsg(s)
    <3> DEFINE where == IF s \in SyncSenders THEN "waitAck" ELSE "idle"
    <3>1. /\ pc' = Wake(s, where, {"asleep"}) /\ msgList' = msgList /\ purges' = purges
          /\ where \in SenderPcs /\ where # "waitSlot"
      BY <2>9 DEF AppendMsg, SenderPcs
    <3> HIDE DEF where
    <3>2. pc'[s] = where /\ \A x \in Threads \ {s} : pc'[x] = pc[x] \/ pc'[x] \in {"take", "poll"}
      BY <1>a, <3>1, Woken
    <3>3. \A x \in Senders : pc'[x] = "waitSlot" => pc[x] = "waitSlot"
      BY <1>a, <3>1, <3>2
    <3> QED BY <1>c, <3>1, <3>3
  <2> QED BY <1>1, <2>2, <2>3, <2>4, <2>5, <2>6, <2>7, <2>8, <2>9 DEF Sender
<1>2. ASSUME NEW r \in Readers, Reader(r) PROVE NobodySleepsOnFullPool'
  <2> r \in Threads /\ r \notin Senders
    BY <1>a
  <2>1. CASE PollFirst(r)
    BY <1>d, <2>1 DEF PollFirst
  <2>2. CASE PollAgain(r)
    BY <1>d, <2>2 DEF PollAgain
  <2>3. CASE Fetch(r)
    BY <1>d, <2>3 DEF Fetch
  <2>4. CASE GetObjectEnd(r)
    BY <1>d, <2>4 DEF GetObjectEnd
  <2>5. CASE Copy(r)
    <3>1. pc' = Wake(r, "fetch", {"waitSlot"}) /\ "fetch" \in ReaderPcs
          /\ "waitSlot" \in {"waitSlot"} /\ {"waitSlot"} \in SUBSET {"waitSlot", "asleep"}
      BY <2>5 DEF Copy, ReaderPcs
    <3>2. \A x \in Threads \ {r} : pc'[x] # "waitSlot"
      <4> HIDE DEF Goto, lists, daemon, ghosts, bounds
      <4> QED BY <1>a, <3>1, Woken
    <3> QED BY <1>a, <3>2 DEF NobodySleepsOnFullPool
  <2> QED BY <1>2, <2>1, <2>2, <2>3, <2>4, <2>5 DEF Reader
<1>3. ASSUME Purge PROVE NobodySleepsOnFullPool'
  <2>1. purges' # 0
    BY <1>b, <1>3 DEF Purge
  <2> QED BY <2>1 DEF NobodySleepsOnFullPool
<1>4. ASSUME Open \/ Exit PROVE NobodySleepsOnFullPool'
  <2>1. \A s \in Senders : pc'[s] = pc[s]
    <3>1. DOMAIN pc = Threads
      BY <1>b
    <3>2. CASE Open
      BY <1>a, <3>1, <3>2 DEF Open
    <3>3. CASE Exit
      BY <1>a, <3>1, <3>3 DEF Exit
    <3> QED BY <1>4, <3>2, <3>3
  <2>2. msgList' = msgList /\ purges' = purges
    BY <1>4 DEF Open, Exit
  <2> QED BY <1>c, <2>1, <2>2
<1>5. ASSUME Complete PROVE NobodySleepsOnFullPool'
  BY <1>c, <1>5 DEF Complete
<1>6. ASSUME UNCHANGED vars PROVE NobodySleepsOnFullPool'
  BY <1>c, <1>6 DEF vars
<1> QED BY <1>1, <1>2, <1>3, <1>4, <1>5, <1>6 DEF Next

\* The messages of s that can still be answered, element by element.
LEMMA OutstandingElements ==
  ASSUME NEW s, NEW n
  PROVE  n \in Outstanding(s) <=>
           \/ \E m \in Slots : body[m].no # 0 /\ body[m].id = s /\ n = body[m].no
           \/ \E m \in user : m.id = s /\ n = m.no
BY DEF Outstanding

\* The same in the next state.
LEMMA OutstandingElementsNext ==
  ASSUME NEW s, NEW n
  PROVE  n \in Outstanding(s)' <=>
           \/ \E m \in Slots : body'[m].no # 0 /\ body'[m].id = s /\ n = body'[m].no
           \/ \E m \in user' : m.id = s /\ n = m.no
BY DEF Outstanding

\* Nothing becomes outstanding but the message a sender has just numbered, and
\* no answer is taken for a message it does not belong to.
LEMMA AckStep == HcpInv /\ [Next]_vars => Answerable'
<1> SUFFICES ASSUME HcpInv, [Next]_vars PROVE Answerable'
  OBVIOUS
<1>a. /\ TypeOK /\ Hands /\ Filled /\ Answerable /\ Senders \cap Readers = {}
      /\ Senders \subseteq Threads /\ Readers \subseteq Threads
  BY HcpAssumption DEF HcpInv, Threads, Senders
<1>b. /\ pc \in [Threads -> SenderPcs \cup ReaderPcs] /\ ack \in [Senders -> 0 .. MaxSend]
      /\ cur \in [Senders -> 0 .. MaxSend] /\ stale \in [Senders -> SUBSET Numbers]
      /\ body \in [Slots -> Msg \cup {[no |-> 0]}] /\ user \subseteq Msg
      /\ held \in [Threads -> Slots \cup {NoSlot}] /\ NoSlot \notin Slots
  BY <1>a, HcpAssumption DEF TypeOK, Threads
<1> DEFINE Late == {"append", "waitAck"}
<1>c. ASSUME \A x \in Senders : pc'[x] \in Late =>
               /\ pc[x] \in Late /\ cur'[x] = cur[x] /\ stale'[x] = stale[x]
               /\ ack'[x] \in {0, cur[x]} \cup stale[x]
               /\ Outstanding(x)' \subseteq Outstanding(x) \cup {cur[x]}
      PROVE  Answerable'
  BY <1>a, <1>c DEF Answerable
<1>d. ASSUME NEW t \in Threads, NEW where, pc' = [pc EXCEPT ![t] = where],
             where \in Late => pc[t] \in Late,
             UNCHANGED <<body, user, ack, ghosts>>
      PROVE  Answerable'
  <2>1. \A x \in Senders : Outstanding(x)' = Outstanding(x)
    BY <1>d DEF Outstanding
  <2>2. \A x \in Senders : pc'[x] \in Late => pc[x] \in Late
    BY <1>a, <1>b, <1>d
  <2> QED BY <1>a, <1>c, <1>d, <2>1, <2>2 DEF Answerable, ghosts
<1> USE DEF Goto, lists, daemon, ghosts, bounds
<1>1. ASSUME NEW s \in Senders, Send(s) PROVE Answerable'
  <2>1. /\ pc' = [pc EXCEPT ![s] = "take"] /\ cur' = [cur EXCEPT ![s] = sent + 1]
        /\ UNCHANGED <<body, user, ack, stale>>
    BY <1>1 DEF Send
  <2>2. \A x \in Senders : Outstanding(x)' = Outstanding(x)
    BY <2>1 DEF Outstanding
  <2>3. \A x \in Senders : pc'[x] \in Late => pc[x] \in Late /\ cur'[x] = cur[x]
    BY <1>a, <1>b, <2>1
  <2> QED BY <1>a, <1>c, <2>1, <2>2, <2>3 DEF Answerable
<1>2. ASSUME NEW s \in Senders, GetSlot(s) PROVE Answerable'
  BY <1>a, <1>d, <1>2 DEF GetSlot
<1>3. ASSUME NEW s \in Senders, SleepForSlot(s) PROVE Answerable'
  BY <1>a, <1>d, <1>3 DEF SleepForSlot
<1>4. ASSUME NEW s \in Senders, SlotTimeout(s) PROVE Answerable'
  BY <1>a, <1>d, <1>2, <1>4 DEF SlotTimeout
<1>5. ASSUME NEW s \in Senders, ResetAck(s) PROVE Answerable'
  <2>1. /\ pc' = [pc EXCEPT ![s] = "append"] /\ ack' = [ack EXCEPT ![s] = 0]
        /\ stale' = [stale EXCEPT ![s] = Outstanding(s)] /\ UNCHANGED <<body, user, cur>>
    BY <1>5 DEF ResetAck, NoAck
  <2>2. \A x \in Senders : Outstanding(x)' = Outstanding(x)
    BY <2>1 DEF Outstanding
  <2>3. stale'[s] = Outstanding(s) /\ ack'[s] = 0
    BY <1>b, <2>1
  <2>4. \A x \in Senders \ {s} : pc'[x] = pc[x] /\ ack'[x] = ack[x] /\ stale'[x] = stale[x]
    BY <1>a, <1>b, <2>1
  <2> QED BY <1>a, <2>1, <2>2, <2>3, <2>4 DEF Answerable
<1>6. ASSUME NEW s \in Senders, AppendMsg(s) PROVE Answerable'
  <2> DEFINE where == IF s \in SyncSenders THEN "waitAck" ELSE "idle"
             new == [no |-> cur[s], id |-> s, seq |-> seq + 1]
  <2>1. /\ pc' = Wake(s, where, {"asleep"}) /\ body' = [body EXCEPT ![held[s]] = new]
        /\ UNCHANGED <<user, ack, cur, stale>> /\ where \in SenderPcs /\ pc[s] = "append"
    BY <1>6 DEF AppendMsg, SenderPcs
  <2>2. new.no = cur[s] /\ new.id = s
    OBVIOUS
  <2> HIDE DEF where, new
  <2>3. \A x \in Senders : pc'[x] \in Late => pc[x] \in Late
    <3>1. \A x \in Threads \ {s} : pc'[x] = pc[x] \/ pc'[x] \in {"take", "poll"}
      <4> HIDE DEF Goto, lists, daemon, ghosts, bounds
      <4> QED BY <1>a, <2>1, Woken
    <3> QED BY <1>a, <2>1, <3>1
  <2>4. \A x \in Senders : Outstanding(x)' \subseteq Outstanding(x) \cup {cur[x]}
    <3> SUFFICES ASSUME NEW x \in Senders, NEW n \in Outstanding(x)', n \notin Outstanding(x)
                 PROVE  n = cur[x]
      OBVIOUS
    <3>1. ~(\E m \in user' : m.id = x /\ n = m.no)
      BY <2>1, OutstandingElements
    <3>2. PICK m \in Slots : body'[m].no # 0 /\ body'[m].id = x /\ n = body'[m].no
      BY <3>1, OutstandingElementsNext
    <3>3. body'[m] # body[m]
      BY <3>2, OutstandingElements
    <3>4. body'[m] = new
      BY <1>b, <2>1, <3>3
    <3> QED BY <2>2, <3>2, <3>4
  <2> QED BY <1>a, <1>c, <2>1, <2>3, <2>4 DEF Answerable
<1>7. ASSUME NEW s \in Senders, Acked(s) PROVE Answerable'
  <2>1. /\ pc' = [pc EXCEPT ![s] = "idle"] /\ ack' = [ack EXCEPT ![s] = 0]
        /\ UNCHANGED <<body, user, cur, stale>>
    BY <1>7 DEF Acked
  <2>2. \A x \in Senders : Outstanding(x)' = Outstanding(x)
    BY <2>1 DEF Outstanding
  <2>3. \A x \in Senders : pc'[x] \in Late => pc[x] \in Late /\ ack'[x] = ack[x]
    BY <1>a, <1>b, <2>1
  <2> QED BY <1>a, <1>c, <2>1, <2>2, <2>3 DEF Answerable
<1>8. ASSUME NEW s \in Senders, AckTimeout(s) PROVE Answerable'
  BY <1>a, <1>d, <1>8 DEF AckTimeout
<1>9. ASSUME NEW r \in Readers, PollFirst(r) \/ PollAgain(r) \/ Fetch(r) \/ GetObjectEnd(r)
      PROVE  Answerable'
  <2>1. CASE PollFirst(r)
    BY <1>a, <1>d, <2>1 DEF PollFirst
  <2>2. CASE PollAgain(r)
    BY <1>a, <1>d, <2>2 DEF PollAgain
  <2>3. CASE Fetch(r)
    BY <1>a, <1>d, <2>3 DEF Fetch
  <2>4. CASE GetObjectEnd(r)
    BY <1>a, <1>d, <2>4 DEF GetObjectEnd
  <2> QED BY <1>9, <2>1, <2>2, <2>3, <2>4
<1>10. ASSUME NEW r \in Readers, Copy(r) PROVE Answerable'
  <2> DEFINE h == held[r]
  <2>1. /\ pc' = Wake(r, "fetch", {"waitSlot"}) /\ "fetch" \in ReaderPcs /\ pc[r] = "copy"
        /\ user' = user \cup {body[h]} /\ body' = [body EXCEPT ![h] = [no |-> 0]]
        /\ UNCHANGED <<ack, cur, stale>>
    BY <1>10 DEF Copy, ReaderPcs
  <2>2. h \in Slots /\ body[h] \in Msg
    BY <1>a, <1>b, <2>1 DEF Hands, Filled
  <2>3. body[h].no # 0
    BY <2>2 DEF Msg, Numbers
  <2> HIDE DEF h
  <2>4. \A x \in Senders : pc'[x] \in Late => pc[x] \in Late
    <3>1. \A x \in Threads \ {r} : pc'[x] = pc[x] \/ pc'[x] \in {"take", "poll"}
      <4> HIDE DEF Goto, lists, daemon, ghosts, bounds
      <4> QED BY <1>a, <2>1, Woken
    <3> QED BY <1>a, <3>1
  <2>5. \A x \in Senders : Outstanding(x)' \subseteq Outstanding(x)
    <3> SUFFICES ASSUME NEW x \in Senders, NEW n \in Outstanding(x)' PROVE n \in Outstanding(x)
      OBVIOUS
    <3>1. ASSUME NEW m \in Slots, body'[m].no # 0, body'[m].id = x, n = body'[m].no
          PROVE  n \in Outstanding(x)
      <4>1. m # h
        BY <1>b, <2>1, <2>2, <3>1
      <4>2. body'[m] = body[m]
        BY <1>b, <2>1, <4>1
      <4> QED BY <3>1, <4>2, OutstandingElements
    <3>2. ASSUME NEW m \in user', m.id = x, n = m.no PROVE n \in Outstanding(x)
      BY <2>1, <2>2, <2>3, <3>2, OutstandingElements
    <3> QED BY <3>1, <3>2, OutstandingElementsNext
  <2> QED BY <1>a, <1>c, <2>1, <2>4, <2>5 DEF Answerable
<1>11. ASSUME Purge PROVE Answerable'
  <2>1. /\ \A m \in Slots : body'[m] = [no |-> 0] \/ body'[m] = body[m]
        /\ UNCHANGED <<user, ack, cur, stale, pc>>
    BY <1>11 DEF Purge
  <2>2. \A x \in Senders : Outstanding(x)' \subseteq Outstanding(x)
    <3> SUFFICES ASSUME NEW x \in Senders, NEW n \in Outstanding(x)' PROVE n \in Outstanding(x)
      OBVIOUS
    <3> QED BY <2>1, OutstandingElements, OutstandingElementsNext
  <2> QED BY <1>a, <1>c, <2>1, <2>2 DEF Answerable
<1>12. ASSUME Open PROVE Answerable'
  <2>1. \A x \in Senders : pc'[x] = pc[x]
    BY <1>a, <1>b, <1>12 DEF Open
  <2>2. UNCHANGED <<body, user, ack, cur, stale>>
    BY <1>12 DEF Open
  <2>3. \A x \in Senders : Outstanding(x)' = Outstanding(x)
    BY <2>2 DEF Outstanding
  <2> QED BY <1>a, <1>c, <2>1, <2>2, <2>3 DEF Answerable
<1>13. ASSUME Exit PROVE Answerable'
  <2>1. \A x \in Senders : pc'[x] = pc[x]
    BY <1>a, <1>b, <1>13 DEF Exit
  <2>2. UNCHANGED <<body, ack, cur, stale>> /\ user' = {}
    BY <1>13 DEF Exit
  <2>3. \A x \in Senders : Outstanding(x)' \subseteq Outstanding(x)
    BY <2>2 DEF Outstanding
  <2> QED BY <1>a, <1>c, <2>1, <2>2, <2>3 DEF Answerable
<1>14. ASSUME Complete PROVE Answerable'
  <2>1. PICK m \in user : user' = user \ {m} /\ ack' = [ack EXCEPT ![m.id] = m.no]
                          /\ UNCHANGED <<body, cur, stale, pc>>
    BY <1>14 DEF Complete
  <2>2. \A x \in Senders : Outstanding(x)' \subseteq Outstanding(x)
    BY <2>1 DEF Outstanding
  <2>3. m.no \in Outstanding(m.id)
    BY OutstandingElements
  <2>4. \A x \in Senders : ack'[x] = ack[x] \/ ack'[x] \in Outstanding(x)
    BY <1>b, <2>1, <2>3
  <2> QED BY <1>a, <1>c, <2>1, <2>2, <2>4 DEF Answerable
<1>15. ASSUME UNCHANGED vars PROVE Answerable'
  <2>1. UNCHANGED <<body, user, ack, cur, stale, pc>>
    BY <1>15 DEF vars
  <2> QED BY <1>a, <2>1 DEF Answerable, Outstanding
<1>16. ASSUME NEW s \in Senders, Send(s) \/ Sender(s) PROVE Answerable'
  BY <1>1, <1>2, <1>3, <1>4, <1>5, <1>6, <1>7, <1>8, <1>16 DEF Sender, TakeSlot
<1>17. ASSUME NEW r \in Readers, Reader(r) PROVE Answerable'
  BY <1>9, <1>10, <1>17 DEF Reader
<1> HIDE DEF Goto, lists, daemon, ghosts, bounds
<1> QED
  BY <1>11, <1>12, <1>13, <1>14, <1>15, <1>16, <1>17 DEF Next

-----------------------------------------------------------------------------
(* Theorems.                                                               *)

\* The invariant of the messages.
THEOREM Invariant == Spec => []HcpInv
<1>1. HcpInv /\ [Next]_vars => HcpInv'
  BY TypeStep, ListsStep, AckStep, SleepStep DEF HcpInv
<1> QED BY InvInit, <1>1, PTL DEF Spec

\* Type correctness (struct message and the lists of mtk_hcp).
THEOREM TypeCorrect == Spec => []TypeOK
<1>1. HcpInv => TypeOK
  BY DEF HcpInv
<1> QED BY Invariant, <1>1, PTL

\* No message object of the pool is lost or on two lists (msg_pool_get,
\* chan_pool_get, mtk_hcp_purge_msg).
THEOREM ObjectsConserved == Spec => []SlotsConserved
<1>1. HcpInv => SlotsConserved
  BY DEF HcpInv
<1> QED BY Invariant, <1>1, PTL

\* Until a purge, which wakes nobody, no sender sleeps in msg_wq while an
\* object is free.
THEOREM PoolWakes == Spec => []NobodySleepsOnFullPool
<1>1. HcpInv => NobodySleepsOnFullPool
  BY DEF HcpInv
<1> QED BY Invariant, <1>1, PTL

\* The answer a synchronous sender takes is that of its own message or of one
\* of its id that was still to be answered when it cleared hcp_id_ack.
THEOREM AnswerIsOwn == Spec => []AckIsOwn
<1>1. HcpInv => AckIsOwn
  BY DEF HcpInv, Answerable, AckIsOwn, Senders
<1> QED BY Invariant, <1>1, PTL
=============================================================================
