--------------------------- MODULE CamListProofs ---------------------------
(***************************************************************************)
(* What TLAPS proves of the job lists of CamRequest, for any number of      *)
(* requests and pipes. Each section states one part of the inductive        *)
(* invariant, says what the steps do to it, and ends in its Init and step   *)
(* lemmas; the last section puts the parts together.                        *)
(*                                                                          *)
(*   ListInv    a request is on one list, and one thread takes it off       *)
(*   LifeInv    its state agrees with the list it is on and with its buffers*)
(*   StreamInv  a frame-done work belongs to a pipe that streams            *)
(*   JobInv     running_job_count is the length of the running list         *)
(*   HandInv    what a worker has in hand still has its buffers             *)
(*   WorkHands  what a worker has in hand is not newer than what it dequeues*)
(*   Books      somebody is going to return the buffers that are held       *)
(*                                                                          *)
(* What Keep returns is an induction over its recursion; it is done with    *)
(* least counterexamples.                                                   *)
(***************************************************************************)
EXTENDS CamRequestProofs, Integers, FiniteSetTheorems, WellFoundedInduction

-----------------------------------------------------------------------------
(* Sequences without duplicates.                                           *)

In(x, q) == \E i \in 1 .. Len(q) : q[i] = x
Single(q) == \A i, j \in 1 .. Len(q) : q[i] = q[j] => i = j

\* What Append adds to a list.
LEMMA AppendFacts ==
  ASSUME NEW R, NEW q \in Seq(R), NEW x \in R
  PROVE  /\ Append(q, x) \in Seq(R) /\ Len(Append(q, x)) = Len(q) + 1
         /\ \A y : In(y, Append(q, x)) <=> In(y, q) \/ y = x
         /\ Single(q) /\ ~In(x, q) => Single(Append(q, x))
<1>1. /\ Append(q, x) \in Seq(R) /\ Len(Append(q, x)) = Len(q) + 1 /\ Len(q) \in Nat
      /\ \A i \in 1 .. Len(q) : Append(q, x)[i] = q[i]
      /\ Append(q, x)[Len(q) + 1] = x
  OBVIOUS
<1>2. 1 .. Len(q) + 1 = 1 .. Len(q) \cup {Len(q) + 1}
  BY <1>1
<1>3. ASSUME NEW y PROVE In(y, Append(q, x)) <=> In(y, q) \/ y = x
  BY <1>1, <1>2 DEF In
<1>4. ASSUME Single(q), ~In(x, q),
             NEW i \in 1 .. Len(q) + 1, NEW j \in 1 .. Len(q) + 1,
             Append(q, x)[i] = Append(q, x)[j]
      PROVE  i = j
  BY <1>1, <1>2, <1>4 DEF In, Single
<1> QED BY <1>1, <1>3, <1>4 DEF Single

\* What Tail leaves of a list.
LEMMA TailFacts ==
  ASSUME NEW R, NEW q \in Seq(R), q # <<>>
  PROVE  /\ Tail(q) \in Seq(R) /\ Head(q) \in R /\ In(Head(q), q)
         /\ \A y : In(y, Tail(q)) => In(y, q)
         /\ \A y : In(y, q) => y = Head(q) \/ In(y, Tail(q))
         /\ Single(q) => Single(Tail(q)) /\ ~In(Head(q), Tail(q))
         /\ Len(Tail(q)) = Len(q) - 1 /\ Len(q) \in Nat \ {0}
<1>1. /\ Tail(q) \in Seq(R) /\ Head(q) = q[1] /\ q[1] \in R
      /\ Len(q) \in Nat \ {0} /\ Len(Tail(q)) = Len(q) - 1
      /\ \A i \in 1 .. Len(q) - 1 : Tail(q)[i] = q[i + 1]
  OBVIOUS
<1>2. \A i \in 1 .. Len(q) - 1 : i + 1 \in 1 .. Len(q) /\ i + 1 # 1
  BY <1>1
<1>3. \A i \in 1 .. Len(q) : i = 1 \/ (i - 1 \in 1 .. Len(q) - 1 /\ (i - 1) + 1 = i)
  BY <1>1
<1>4. 1 \in 1 .. Len(q)
  BY <1>1
<1>5. \A y : In(y, Tail(q)) => In(y, q)
  BY <1>1, <1>2 DEF In
<1>6. ASSUME NEW y, In(y, q) PROVE y = Head(q) \/ In(y, Tail(q))
  <2>1. PICK i \in 1 .. Len(q) : q[i] = y
    BY <1>6 DEF In
  <2>2. CASE i = 1
    BY <1>1, <2>1, <2>2
  <2>3. CASE i - 1 \in 1 .. Len(q) - 1 /\ (i - 1) + 1 = i
    BY <1>1, <2>1, <2>3 DEF In
  <2> QED BY <1>3, <2>2, <2>3
<1>7. ASSUME Single(q) PROVE Single(Tail(q))
  <2> SUFFICES ASSUME NEW i \in 1 .. Len(q) - 1, NEW j \in 1 .. Len(q) - 1,
                      Tail(q)[i] = Tail(q)[j]
               PROVE  i = j
    BY <1>1 DEF Single
  <2>1. i + 1 = j + 1
    BY <1>1, <1>2, <1>7 DEF Single
  <2> QED BY <2>1
<1>8. ASSUME Single(q) PROVE ~In(Head(q), Tail(q))
  BY <1>1, <1>2, <1>4, <1>8 DEF Single, In
<1> QED BY <1>1, <1>4, <1>5, <1>6, <1>7, <1>8 DEF In

\* A beginning of a list.
LEMMA SubSeqFacts ==
  ASSUME NEW R, NEW q \in Seq(R), NEW n \in Nat, n <= Len(q)
  PROVE  /\ SubSeq(q, 1, n) \in Seq(R)
         /\ \A y : In(y, SubSeq(q, 1, n)) => In(y, q)
         /\ Single(q) => Single(SubSeq(q, 1, n))
         /\ Len(SubSeq(q, 1, n)) = n
<1>1. /\ SubSeq(q, 1, n) \in Seq(R) /\ Len(SubSeq(q, 1, n)) = n
      /\ \A i \in 1 .. n : SubSeq(q, 1, n)[i] = q[i] /\ i \in 1 .. Len(q)
  OBVIOUS
<1> QED BY <1>1 DEF In, Single

-----------------------------------------------------------------------------
(* Keep.                                                                   *)

\* A set of natural numbers that is not empty has a least element.
LEMMA LeastElement ==
  ASSUME NEW S \in SUBSET Nat, S # {}
  PROVE  \E n \in S : \A m \in S : n <= m
<1> DEFINE R == OpToRel(<, Nat)
<1>1. IsWellFoundedOn(R, Nat)
  BY NatLessThanWellFounded
<1>2. \A x, y \in Nat : <<y, x>> \in R <=> y < x
  BY DEF OpToRel
<1> HIDE DEF R
<1>3. PICK x \in S : \A y \in S : ~(<<y, x>> \in R)
  BY <1>1, WFMin
<1>4. \A y \in S : ~(y < x)
  BY <1>2, <1>3
<1>5. \A y \in S : x <= y
  BY <1>4
<1> QED BY <1>3, <1>5

\* The function that Keep defines, for the first n entries.
KeptAfter(h, s, S, i) ==
  IF i = 0 THEN <<>> ELSE IF s[i] \in S THEN Append(h[i - 1], s[i]) ELSE h[i - 1]
IsKept(h, s, S, n) == h = [i \in 0 .. n |-> KeptAfter(h, s, S, i)]

\* There is one for every n.
LEMMA KeptExists ==
  ASSUME NEW s, NEW S, NEW n \in Nat
  PROVE  \E h : IsKept(h, s, S, n)
<1> DEFINE Bad == {k \in Nat : ~\E h : IsKept(h, s, S, k)}
<1>1. SUFFICES ASSUME Bad # {} PROVE FALSE
  OBVIOUS
<1>2. PICK k \in Bad : \A m \in Bad : k <= m
  <2>1. Bad \in SUBSET Nat
    OBVIOUS
  <2> HIDE DEF Bad
  <2> QED BY <1>1, <2>1, LeastElement
<1>3. CASE k = 0
  <2>1. IsKept([i \in 0 .. 0 |-> <<>>], s, S, 0)
    BY DEF IsKept, KeptAfter
  <2> QED BY <1>2, <1>3, <2>1
<1>4. CASE k # 0
  <2>1. k - 1 \in Nat /\ k \in Nat
    BY <1>2, <1>4
  <2>2. k - 1 \notin Bad
    BY <1>2, <2>1
  <2>3. PICK h : IsKept(h, s, S, k - 1)
    BY <2>1, <2>2
  <2> DEFINE g == [i \in 0 .. k |-> IF i = k THEN KeptAfter(h, s, S, k) ELSE h[i]]
  <2>4. \A i \in 0 .. k - 1 : g[i] = h[i]
    BY <2>1
  <2>5. \A i \in 0 .. k - 1 : h[i] = KeptAfter(h, s, S, i)
    BY <2>3 DEF IsKept
  <2>6. g[k] = KeptAfter(h, s, S, k) /\ g = [i \in 0 .. k |-> g[i]]
    BY <2>1
  <2> HIDE DEF g
  <2>7. ASSUME NEW i \in 0 .. k PROVE g[i] = KeptAfter(g, s, S, i)
    <3>1. i # 0 => g[i - 1] = h[i - 1]
      BY <2>1, <2>4
    <3>2. KeptAfter(g, s, S, i) = KeptAfter(h, s, S, i)
      BY <3>1 DEF KeptAfter
    <3>3. CASE i = k
      BY <2>6, <3>2, <3>3
    <3>4. CASE i # k
      <4>1. i \in 0 .. k - 1
        BY <2>1, <3>4
      <4> QED BY <2>4, <2>5, <3>2, <4>1
    <3> QED BY <3>3, <3>4
  <2>8. IsKept(g, s, S, k)
    BY <2>6, <2>7 DEF IsKept
  <2> QED BY <1>2, <2>8
<1> QED BY <1>3, <1>4

\* Keep(s, S) holds the entries of s that are in S, and none of them twice
\* if s holds none twice.
LEMMA KeepFacts ==
  ASSUME NEW R, NEW s \in Seq(R), NEW S
  PROVE  /\ Keep(s, S) \in Seq(R)
         /\ \A x : In(x, Keep(s, S)) <=> In(x, s) /\ x \in S
         /\ Single(s) => Single(Keep(s, S))
<1> DEFINE h == CHOOSE h : IsKept(h, s, S, Len(s))
<1>a. Len(s) \in Nat /\ \A i \in 1 .. Len(s) : s[i] \in R
  OBVIOUS
<1>1. IsKept(h, s, S, Len(s))
  BY <1>a, KeptExists
<1>2. Keep(s, S) = h[Len(s)]
  BY DEF Keep, IsKept, KeptAfter
<1>3. \A i \in 0 .. Len(s) : h[i] = KeptAfter(h, s, S, i)
  BY <1>1 DEF IsKept
<1> HIDE DEF h
<1> DEFINE Upto(i, x) == \E j \in 1 .. i : s[j] = x
           Good(i) == /\ h[i] \in Seq(R)
                      /\ \A x : In(x, h[i]) <=> Upto(i, x) /\ x \in S
                      /\ Single(s) => Single(h[i])
           Bad == {i \in 0 .. Len(s) : ~Good(i)}
<1>4. Bad = {}
  <2>1. SUFFICES ASSUME Bad # {} PROVE FALSE
    OBVIOUS
  <2>2. PICK k \in Bad : \A m \in Bad : k <= m
    <3>1. Bad \in SUBSET Nat
      BY <1>a
    <3> HIDE DEF Bad
    <3> QED BY <2>1, <3>1, LeastElement
  <2>3. k \in Nat /\ k \in 0 .. Len(s) /\ ~Good(k)
    BY <1>a, <2>2
  <2>4. CASE k = 0
    <3>1. h[0] = <<>>
      BY <1>a, <1>3 DEF KeptAfter
    <3>2. <<>> \in Seq(R) /\ Single(<<>>) /\ \A x : ~In(x, <<>>)
      BY DEF Single, In
    <3>3. \A x : ~Upto(0, x)
      OBVIOUS
    <3> HIDE DEF Upto
    <3> QED BY <2>3, <2>4, <3>1, <3>2, <3>3
  <2>5. CASE k # 0
    <3>1. k - 1 \in 0 .. Len(s) /\ k - 1 \in Nat /\ k \in 1 .. Len(s) /\ ~(k <= k - 1)
      BY <1>a, <2>3, <2>5
    <3>2. Good(k - 1)
      BY <2>2, <3>1
    <3>3. s[k] \in R /\ 1 .. k = 1 .. k - 1 \cup {k}
      BY <1>a, <3>1
    <3>4. \A x : Upto(k, x) <=> Upto(k - 1, x) \/ s[k] = x
      BY <3>3
    <3>5. h[k] = IF s[k] \in S THEN Append(h[k - 1], s[k]) ELSE h[k - 1]
      BY <1>3, <2>3, <2>5 DEF KeptAfter
    <3>6. Single(s) => ~Upto(k - 1, s[k])
      BY <1>a, <3>1 DEF Single
    <3> HIDE DEF Upto
    <3>7. CASE s[k] \in S
      <4>1. /\ Append(h[k - 1], s[k]) \in Seq(R)
            /\ \A y : In(y, Append(h[k - 1], s[k])) <=> In(y, h[k - 1]) \/ y = s[k]
            /\ Single(h[k - 1]) /\ ~In(s[k], h[k - 1]) => Single(Append(h[k - 1], s[k]))
        BY <3>2, <3>3, AppendFacts
      <4> QED BY <2>3, <3>2, <3>4, <3>5, <3>6, <3>7, <4>1
    <3>8. CASE s[k] \notin S
      BY <2>3, <3>2, <3>4, <3>5, <3>8
    <3> QED BY <3>7, <3>8
  <2> QED BY <2>4, <2>5
<1>5. Good(Len(s))
  <2>1. Len(s) \in 0 .. Len(s)
    BY <1>a
  <2> HIDE DEF Good
  <2> QED BY <1>4, <2>1
<1>6. \A x : Upto(Len(s), x) <=> In(x, s)
  BY DEF In
<1> HIDE DEF Upto
<1> QED BY <1>2, <1>5, <1>6

-----------------------------------------------------------------------------
(* The inductive invariant.                                                *)

HandPcs == {"cancel", "mark", "remove", "claim", "return"}

Seqs ==
  /\ pending \in Seq(Reqs) /\ batch \in Seq(Reqs) /\ running \in Seq(Reqs)
  /\ hand \in [Threads -> Seq(Reqs)] /\ jobCount \in Int

\* The three lists have no request in common.
OneList ==
  /\ Single(pending) /\ Single(batch) /\ Single(running)
  /\ \A r : /\ ~(In(r, pending) /\ In(r, batch)) /\ ~(In(r, pending) /\ In(r, running))
            /\ ~(In(r, batch) /\ In(r, running))

\* A request on a list has a pipe, so user space will not queue it again.
Users ==
  \A r \in Reqs : In(r, pending) \/ In(r, batch) \/ In(r, running) => req[r].pipeUsed # {}

States == \A r \in Reqs : req[r].state = "running" => In(r, running)

Removers ==
  \A t \in Threads : pc[t] = "remove" =>
    /\ In(Current(t), running) /\ req[Current(t)].state = "deleting"
    /\ \A u \in Threads \ {t} : pc[u] = "remove" => Current(u) # Current(t)

\* A thread works on the first request of its snapshot; one thread holds
\* queue_lock with a batch.
Hands == \A t \in Threads : pc[t] \in HandPcs => hand[t] # <<>>
Batch ==
  \A t \in Threads : pc[t] = "enqueue" =>
    batch # <<>> /\ \A u \in Threads \ {t} : pc[u] # "enqueue"

ListInv == Seqs /\ OneList /\ Users /\ States /\ Removers /\ Hands /\ Batch

\* No list and no snapshot at work has r: what user space queues must be so.
Free(r) ==
  /\ ~In(r, pending) /\ ~In(r, batch) /\ ~In(r, running)
  /\ \A t \in Threads : pc[t] \in HandPcs => ~In(r, hand[t])
QueuesFree ==
  \A r \in Reqs :
    pc[User] = "idle" /\ req[r].held = {} /\ (Reuse \/ req[r].pipeUsed = {}) => Free(r)

-----------------------------------------------------------------------------
(* Steps that leave the lists alone.                                       *)

\* At most thread t moves; when it works through a snapshot there is one.
OneMoves(t) ==
  /\ hand' \in [Threads -> Seq(Reqs)]
  /\ \A u \in Threads \ {t} : pc'[u] = pc[u] /\ hand'[u] = hand[u]
  /\ pc'[t] \in HandPcs => hand'[t] # <<>>

\* No request changes its pipes.
SamePipes == \A r \in Reqs : req'[r].pipeUsed = req[r].pipeUsed
SameStates == \A r \in Reqs : req'[r].state = req[r].state

\* Snapshots stay as they should be.
LEMMA HandsStep ==
  ASSUME Hands, NEW t \in Threads, OneMoves(t) PROVE Hands'
  BY DEF Hands, OneMoves

\* Lists that do not change keep their requests apart.
LEMMA ListsStay ==
  ASSUME OneList, Users, SamePipes, UNCHANGED <<pending, batch, running>>
  PROVE  OneList' /\ Users'
<1>1. OneList'
  BY DEF OneList, Single, In
<1>2. Users'
  BY DEF Users, In, SamePipes
<1> QED BY <1>1, <1>2

\* When one thread moves elsewhere than to the unlinking, the others find what
\* they are about to unlink as long as the step leaves it alone.
LEMMA RemoversStay ==
  ASSUME ListInv, NEW t \in Threads, OneMoves(t), pc'[t] # "remove",
         \A u \in Threads \ {t} : pc[u] = "remove" =>
           In(Current(u), running') /\ req'[Current(u)].state = "deleting"
  PROVE  Removers'
<1> SUFFICES ASSUME NEW u \in Threads, pc'[u] = "remove"
             PROVE  /\ In(Current(u)', running') /\ req'[Current(u)'].state = "deleting"
                    /\ \A v \in Threads \ {u} : pc'[v] = "remove" => Current(v)' # Current(u)'
  BY DEF Removers
<1>1. u # t /\ pc[u] = "remove" /\ hand'[u] = hand[u]
  BY DEF OneMoves
<1>2. \A v \in Threads : pc'[v] = "remove" => pc[v] = "remove" /\ hand'[v] = hand[v]
  BY DEF OneMoves
<1>3. Current(u)' = Current(u)
  BY <1>1 DEF Current
<1>4. \A v \in Threads \ {u} : pc'[v] = "remove" => Current(v)' # Current(u)'
  BY <1>1, <1>2 DEF ListInv, Removers, Current
<1> QED BY <1>1, <1>3, <1>4

\* The request a thread is about to unlink.
LEMMA Unlinking ==
  ASSUME ListInv, NEW u \in Threads, pc[u] = "remove"
  PROVE  /\ Current(u) \in Reqs /\ In(Current(u), running)
         /\ req[Current(u)].state = "deleting"
<1>1. hand[u] \in Seq(Reqs) /\ hand[u] # <<>>
  BY DEF ListInv, Seqs, Hands, HandPcs
<1>2. Current(u) \in Reqs
  BY <1>1, TailFacts DEF Current
<1> QED BY <1>2 DEF ListInv, Removers

\* A thread that goes where nothing is unlinked and no batch is enqueued keeps
\* the invariant.
LEMMA Elsewhere ==
  ASSUME ListInv, NEW t \in Threads, OneMoves(t), SamePipes, SameStates, jobCount' \in Int,
         UNCHANGED <<pending, batch, running>>, pc'[t] \notin {"remove", "enqueue"}
  PROVE  ListInv'
<1>1. Seqs'
  BY DEF ListInv, Seqs, OneMoves
<1>2. OneList' /\ Users'
  BY ListsStay DEF ListInv
<1>3. States'
  BY DEF ListInv, States, SameStates, In
<1>4. Removers'
  BY RemoversStay, Unlinking DEF SameStates, In
<1>5. Hands'
  BY HandsStep DEF ListInv
<1>6. Batch'
  BY DEF ListInv, Batch, OneMoves
<1> QED BY <1>1, <1>2, <1>3, <1>4, <1>5, <1>6 DEF ListInv

\* So does a step in which no thread moves.
LEMMA NobodyMoves ==
  ASSUME ListInv, SamePipes, SameStates, UNCHANGED <<pending, batch, running, jobCount, pc, hand>>
  PROVE  ListInv'
<1>1. Seqs' /\ Hands' /\ Batch'
  BY DEF ListInv, Seqs, Hands, Batch
<1>2. OneList' /\ Users'
  BY ListsStay DEF ListInv
<1>3. States'
  BY DEF ListInv, States, SameStates, In
<1>4. \A u \in Threads : Current(u)' = Current(u)
  BY DEF Current
<1>5. Removers'
  BY <1>4, Unlinking DEF ListInv, Removers, SameStates, In
<1> QED BY <1>1, <1>2, <1>3, <1>5 DEF ListInv

\* Replacing fields other than state and pipeUsed leaves a request where it is.
LEMMA OtherFieldsStay ==
  ASSUME TypeInv, NEW r, NEW S,
         \/ req' = req
         \/ req' = [req EXCEPT ![r] = [@ EXCEPT !.done = S]]
         \/ req' = [req EXCEPT ![r] = [@ EXCEPT !.armed = S]]
         \/ req' = [req EXCEPT ![r] = [@ EXCEPT !.held = S]]
         \/ req' = [req EXCEPT ![r] = [@ EXCEPT !.isQueued = S]]
  PROVE  SamePipes /\ SameStates
<1> SUFFICES ASSUME NEW x \in Reqs
             PROVE  req'[x].pipeUsed = req[x].pipeUsed /\ req'[x].state = req[x].state
  BY DEF SamePipes, SameStates
<1>1. req[x] \in ReqType
  BY DEF TypeInv
<1>2. \/ req'[x] = req[x]
      \/ req'[x] = [req[x] EXCEPT !.done = S]
      \/ req'[x] = [req[x] EXCEPT !.armed = S]
      \/ req'[x] = [req[x] EXCEPT !.held = S]
      \/ req'[x] = [req[x] EXCEPT !.isQueued = S]
  BY DEF TypeInv
<1> QED BY <1>1, <1>2 DEF ReqType

\* A thread that keeps its snapshot, or has none to work through, moves alone.
LEMMA GotoAlone ==
  ASSUME TypeInv, ListInv, NEW t \in Threads, NEW to, Goto(t, to), UNCHANGED hand,
         to \in HandPcs => pc[t] \in HandPcs
  PROVE  OneMoves(t) /\ pc'[t] = to
  BY DEF Goto, OneMoves, TypeInv, ListInv, Seqs, Hands

\* So does a thread that stays or finishes with a new snapshot.
LEMMA SnapshotAlone ==
  ASSUME TypeInv, ListInv, NEW t \in Threads, NEW to, Goto(t, to), NEW new \in Seq(Reqs),
         hand' = [hand EXCEPT ![t] = new], to \in HandPcs => new # <<>>
  PROVE  OneMoves(t) /\ pc'[t] = to
  BY DEF Goto, OneMoves, TypeInv, ListInv, Seqs

\* So does one that goes on to the next entry of its snapshot, and it goes
\* where nothing is unlinked.
LEMMA NextAlone ==
  ASSUME TypeInv, ListInv, NEW t \in Threads, pc[t] \in HandPcs, NextInHand(t)
  PROVE  OneMoves(t) /\ pc'[t] \notin {"remove", "enqueue"}
<1>1. hand[t] \in Seq(Reqs) /\ hand[t] # <<>>
  BY DEF ListInv, Seqs, Hands
<1>2. Tail(hand[t]) \in Seq(Reqs) /\ Len(Tail(hand[t])) = Len(hand[t]) - 1 /\ Len(hand[t]) \in Nat
  BY <1>1, TailFacts
<1>3. hand' = [hand EXCEPT ![t] = Tail(hand[t])]
  BY DEF NextInHand
<1>4. PICK to \in {"cancel", "mark", "drain", "try", "idle"} :
        Goto(t, to) /\ (to \in {"cancel", "mark"} => Len(hand[t]) > 1)
  BY DEF NextInHand, Finish
<1>5. to \in HandPcs => Tail(hand[t]) # <<>>
  <2>1. to \in HandPcs => Len(Tail(hand[t])) > 0
    BY <1>2, <1>4 DEF HandPcs
  <2> QED BY <2>1
<1> HIDE DEF NextInHand
<1> QED BY <1>2, <1>3, <1>4, <1>5, SnapshotAlone

-----------------------------------------------------------------------------
(* Steps that change the lists.                                            *)

\* The entries of a list as a set.
LEMMA ToSetIn == ASSUME NEW q \in Seq(Reqs), NEW x PROVE x \in ToSet(q) <=> In(x, q)
  BY DEF ToSet, In

\* The batch is a beginning of the pending requests whose pipes stream.
LEMMA RunnableFacts ==
  ASSUME ListInv
  PROVE  /\ Runnable \in Seq(Reqs) /\ Single(Runnable)
         /\ \A x : In(x, Runnable) => In(x, pending) /\ x \in StreamOnReqs
         /\ Len(Runnable) <= Room
<1> DEFINE on == Keep(pending, StreamOnReqs)
           n == IF Len(on) < Room THEN Len(on) ELSE Room
<1>1. /\ on \in Seq(Reqs) /\ Single(on)
      /\ \A x : In(x, on) => In(x, pending) /\ x \in StreamOnReqs
  BY KeepFacts DEF ListInv, Seqs, OneList
<1>2. Room \in Nat
  BY ConstantsAssumption DEF Room, ListInv, Seqs
<1>3. Runnable = SubSeq(on, 1, n)
  BY DEF Runnable
<1> HIDE DEF on
<1>4. n \in Nat /\ n <= Len(on) /\ n <= Room
  BY <1>1, <1>2
<1> HIDE DEF n
<1> QED BY <1>1, <1>3, <1>4, SubSeqFacts

\* Picking a batch moves requests from the pending list to it.
LEMMA PickList ==
  ASSUME TypeInv, ListInv, NEW t \in Threads, TryPick(t) PROVE ListInv'
<1>0. pc[t] = "try" /\ batch = <<>> /\ UNCHANGED <<req, running, jobCount, hand>>
  BY DEF TryPick, QueueLockFree
<1>a. SamePipes /\ SameStates /\ jobCount' \in Int
  BY <1>0 DEF SamePipes, SameStates, ListInv, Seqs
<1>1. CASE Finish(t) /\ UNCHANGED <<pending, batch>>
  <2>1. OneMoves(t) /\ pc'[t] = "idle"
    BY <1>0, <1>1, GotoAlone DEF Finish, HandPcs
  <2> QED BY <1>0, <1>a, <1>1, <2>1, Elsewhere
<1>2. CASE /\ Runnable # <<>> /\ batch' = Runnable /\ pending' = StillPending
           /\ Goto(t, "enqueue")
  <2>1. /\ Runnable \in Seq(Reqs) /\ Single(Runnable)
        /\ \A x : In(x, Runnable) => In(x, pending)
    BY RunnableFacts
  <2>2. /\ pending' \in Seq(Reqs) /\ Single(pending')
        /\ \A x : In(x, pending') <=> In(x, pending) /\ x \in Reqs \ ToSet(Runnable)
    <3>1. pending \in Seq(Reqs) /\ Single(pending)
      BY DEF ListInv, Seqs, OneList
    <3> HIDE DEF Runnable
    <3> QED BY <1>2, <3>1, KeepFacts DEF StillPending
  <2>3. \A x : In(x, pending') => ~In(x, Runnable)
    BY <2>1, <2>2, ToSetIn
  <2> HIDE DEF Runnable
  <2>4. OneMoves(t) /\ pc'[t] = "enqueue"
    BY <1>0, <1>2, GotoAlone DEF HandPcs
  <2>5. Seqs'
    BY <1>0, <1>2, <2>1, <2>2, <2>4 DEF ListInv, Seqs, OneMoves
  <2>6. OneList'
    <3>1. Single(pending') /\ Single(batch') /\ Single(running')
      BY <1>0, <1>2, <2>1, <2>2 DEF ListInv, OneList
    <3>2. running' = running
      BY <1>0
    <3> QED BY <1>2, <2>1, <2>2, <2>3, <3>1, <3>2 DEF ListInv, OneList
  <2>7. Users'
    <3>1. \A r : In(r, pending') \/ In(r, batch') => In(r, pending)
      BY <1>2, <2>1, <2>2
    <3>2. running' = running /\ req' = req
      BY <1>0
    <3> QED BY <3>1, <3>2 DEF ListInv, Users
  <2>8. States'
    BY <1>0 DEF ListInv, States, In
  <2>9. Removers'
    BY <1>0, <2>4, RemoversStay, Unlinking
  <2>10. Hands'
    BY <2>4, HandsStep DEF ListInv
  <2>11. Batch'
    BY <1>0, <1>2, <2>4 DEF ListInv, Batch, OneMoves
  <2> QED BY <2>5, <2>6, <2>7, <2>8, <2>9, <2>10, <2>11 DEF ListInv
<1> QED BY <1>1, <1>2 DEF TryPick

\* The first request of the batch goes to the end of the running list.
LEMMA EnqueueList ==
  ASSUME TypeInv, ListInv, NEW t \in Threads, Enqueue(t) PROVE ListInv'
<1> DEFINE r == Head(batch)
<1>1. /\ pc[t] = "enqueue" /\ UNCHANGED <<pending, hand>>
      /\ running' = Append(running, r) /\ batch' = Tail(batch) /\ jobCount' = jobCount + 1
  BY DEF Enqueue, Linked
<1>2. /\ batch \in Seq(Reqs) /\ batch # <<>> /\ running \in Seq(Reqs)
      /\ Single(batch) /\ Single(running)
  BY <1>1 DEF ListInv, Seqs, Batch, OneList
<1>3. /\ r \in Reqs /\ In(r, batch) /\ batch' \in Seq(Reqs) /\ Single(batch')
      /\ ~In(r, batch') /\ Len(batch') = Len(batch) - 1 /\ Len(batch) \in Nat \ {0}
      /\ \A y : In(y, batch') => In(y, batch)
  BY <1>1, <1>2, TailFacts
<1>4. ~In(r, pending) /\ ~In(r, running) /\ req[r].pipeUsed # {}
  BY <1>3 DEF ListInv, OneList, Users
<1> HIDE DEF r
<1>5. /\ running' \in Seq(Reqs) /\ Single(running')
      /\ \A y : In(y, running') <=> In(y, running) \/ y = r
  BY <1>1, <1>2, <1>3, <1>4, AppendFacts
<1>6. /\ SamePipes
      /\ \A x \in Reqs \ {r} : req'[x].state = req[x].state
  <2>1. PICK h, q : req' = [req EXCEPT ![r] =
          [@ EXCEPT !.state = "running", !.isQueued = {}, !.handed = h, !.seq = q]]
    BY DEF Enqueue, r
  <2>2. ASSUME NEW x \in Reqs
        PROVE  \/ req'[x] = req[x]
               \/ x = r /\ req'[x] = [req[x] EXCEPT !.state = "running", !.isQueued = {},
                                             !.handed = h, !.seq = q]
    BY <2>1 DEF TypeInv
  <2>3. ASSUME NEW x \in Reqs
        PROVE  req'[x].pipeUsed = req[x].pipeUsed /\ (x # r => req'[x].state = req[x].state)
    <3>1. req[x] \in ReqType
      BY DEF TypeInv
    <3> QED BY <2>2, <3>1 DEF ReqType
  <2> QED BY <2>3 DEF SamePipes
<1>7. OneMoves(t) /\ (pc' = [pc EXCEPT ![t] = "idle"] \/ (pc' = pc /\ Len(batch) # 1))
  <2>1. Finish(t) \/ (pc' = pc /\ Len(batch) # 1)
    BY DEF Enqueue
  <2> HIDE DEF Finish
  <2>2. CASE Finish(t)
    <3>1. Goto(t, "idle")
      BY <2>2 DEF Finish
    <3> QED BY <1>1, <3>1, GotoAlone DEF HandPcs, Goto
  <2>3. CASE pc' = pc /\ Len(batch) # 1
    BY <1>1, <2>3 DEF OneMoves, HandPcs, ListInv, Seqs
  <2> QED BY <2>1, <2>2, <2>3
<1>8. Seqs'
  BY <1>1, <1>3, <1>5, <1>7 DEF ListInv, Seqs, OneMoves
<1>9. OneList'
  <2>1. Single(pending')
    BY <1>1 DEF ListInv, OneList
  <2>2. pending' = pending
    BY <1>1
  <2> QED BY <2>1, <2>2, <1>3, <1>4, <1>5 DEF ListInv, OneList
<1>10. Users'
  <2>1. ASSUME NEW x \in Reqs, In(x, pending') \/ In(x, batch') \/ In(x, running')
        PROVE  req'[x].pipeUsed # {}
    <3>1. In(x, pending) \/ In(x, batch) \/ In(x, running)
      BY <1>1, <1>3, <1>5, <2>1
    <3> QED BY <1>6, <3>1 DEF ListInv, Users, SamePipes
  <2> QED BY <2>1 DEF Users
<1>11. States'
  BY <1>5, <1>6 DEF ListInv, States
<1>12. Removers'
  <2>1. pc'[t] # "remove"
    BY <1>1, <1>7 DEF TypeInv
  <2>2. ASSUME NEW u \in Threads, pc[u] = "remove"
        PROVE  In(Current(u), running') /\ req'[Current(u)].state = "deleting"
    BY <1>4, <1>5, <1>6, <2>2, Unlinking
  <2> QED BY <1>7, <2>1, <2>2, RemoversStay
<1>13. Hands'
  BY <1>7, HandsStep DEF ListInv
<1>14. Batch'
  <2> SUFFICES ASSUME NEW u \in Threads, pc'[u] = "enqueue"
               PROVE  batch' # <<>> /\ \A v \in Threads \ {u} : pc'[v] # "enqueue"
    BY DEF Batch
  <2>1. \A v \in Threads \ {t} : pc[v] # "enqueue"
    BY <1>1 DEF ListInv, Batch
  <2>2. u = t /\ pc' = pc
    BY <1>7, <2>1 DEF OneMoves, TypeInv
  <2>3. Len(batch') # 0
    BY <1>3, <1>7, <2>2 DEF TypeInv
  <2>4. batch' # <<>>
    BY <2>3
  <2> QED BY <2>1, <2>2, <2>4
<1> QED BY <1>8, <1>9, <1>10, <1>11, <1>12, <1>13, <1>14 DEF ListInv

\* A request that is queued has no pipes yet, so it is on no list.
LEMMA QueueList ==
  ASSUME TypeInv, ListInv, QueuesFree, NEW r \in Reqs, NEW used \in PipeSets, Queue(r, used)
  PROVE  ListInv'
<1>0. User \in Threads
  BY DEF Threads
<1>1. /\ UNCHANGED <<batch, running, jobCount, hand>>
      /\ pending' = Append(pending, r) /\ Goto(User, "try")
  BY DEF Queue
<1>2. ~In(r, pending) /\ ~In(r, batch) /\ ~In(r, running)
  BY DEF Queue, QueuesFree, Free
<1>3. /\ pending' \in Seq(Reqs) /\ Single(pending')
      /\ \A y : In(y, pending') <=> In(y, pending) \/ y = r
  <2>1. pending \in Seq(Reqs) /\ Single(pending)
    BY DEF ListInv, Seqs, OneList
  <2> QED BY <1>1, <1>2, <2>1, AppendFacts
<1>4. /\ req'[r].state = "pending" /\ req'[r].pipeUsed = used /\ used # {}
      /\ \A x \in Reqs \ {r} : req'[x] = req[x]
  BY ConstantsAssumption DEF Queue, TypeInv, ReqType
<1>5. OneMoves(User) /\ pc'[User] = "try"
  BY <1>0, <1>1, GotoAlone DEF HandPcs
<1>6. Seqs'
  BY <1>1, <1>3 DEF ListInv, Seqs
<1>7. OneList'
  <2>1. batch' = batch /\ running' = running
    BY <1>1
  <2>2. Single(batch') /\ Single(running')
    BY <2>1 DEF ListInv, OneList
  <2> QED BY <1>2, <1>3, <2>1, <2>2 DEF ListInv, OneList
<1>8. Users'
  <2>1. ASSUME NEW x \in Reqs, In(x, pending') \/ In(x, batch') \/ In(x, running')
        PROVE  req'[x].pipeUsed # {}
    <3>1. x = r \/ In(x, pending) \/ In(x, batch) \/ In(x, running)
      BY <1>1, <1>3, <2>1
    <3> QED BY <1>4, <3>1 DEF ListInv, Users
  <2> QED BY <2>1 DEF Users
<1>9. States'
  <2>1. running' = running
    BY <1>1
  <2> QED BY <1>4, <2>1 DEF ListInv, States
<1>10. Removers'
  <2>1. ASSUME NEW u \in Threads, pc[u] = "remove"
        PROVE  In(Current(u), running') /\ req'[Current(u)].state = "deleting"
    <3>1. In(Current(u), running) /\ Current(u) # r /\ Current(u) \in Reqs
      BY <1>2, <2>1, Unlinking
    <3>2. running' = running
      BY <1>1
    <3> QED BY <1>4, <2>1, <3>1, <3>2, Unlinking
  <2> QED BY <1>0, <1>5, <2>1, RemoversStay
<1>11. Hands'
  BY <1>0, <1>5, HandsStep DEF ListInv
<1>12. Batch'
  BY <1>1, <1>5 DEF ListInv, Batch, OneMoves
<1> QED BY <1>6, <1>7, <1>8, <1>9, <1>10, <1>11, <1>12 DEF ListInv

\* The thread whose cmpxchg takes a running request to DELETING finds it on the
\* running list, and nobody else is about to unlink it.
LEMMA MarkList ==
  ASSUME TypeInv, ListInv, NEW t \in Threads, pc[t] = "mark", MayDelete(Current(t)),
         NEW done,
         req' = [req EXCEPT ![Current(t)] = [@ EXCEPT !.done = done, !.state = "deleting"]],
         Goto(t, "remove"), UNCHANGED <<pending, batch, running, jobCount, hand>>
  PROVE  ListInv'
<1> DEFINE r == Current(t)
<1>1. r \in Reqs /\ In(r, running)
  <2>1. hand[t] \in Seq(Reqs) /\ hand[t] # <<>>
    BY DEF ListInv, Seqs, Hands, HandPcs
  <2>2. r \in Reqs
    BY <2>1, TailFacts DEF Current
  <2> QED BY <2>2 DEF ListInv, States, MayDelete
<1>2. \A u \in Threads : pc[u] = "remove" => Current(u) # r
  BY Unlinking DEF MayDelete
<1>3. /\ SamePipes /\ req'[r].state = "deleting"
      /\ \A x \in Reqs \ {r} : req'[x] = req[x]
  <2> HIDE DEF r
  <2>1. req' = [req EXCEPT ![r] = [@ EXCEPT !.done = done, !.state = "deleting"]]
    BY DEF r
  <2>2. req'[r] = [req[r] EXCEPT !.done = done, !.state = "deleting"] /\ req[r] \in ReqType
    BY <1>1, <2>1 DEF TypeInv
  <2>3. \A x \in Reqs \ {r} : req'[x] = req[x]
    BY <2>1 DEF TypeInv
  <2>4. req'[r].state = "deleting" /\ req'[r].pipeUsed = req[r].pipeUsed
    BY <2>2 DEF ReqType
  <2> QED BY <2>3, <2>4 DEF SamePipes
<1>4. OneMoves(t) /\ pc' = [pc EXCEPT ![t] = "remove"]
  BY GotoAlone DEF HandPcs, Goto
<1>5. \A u \in Threads : Current(u)' = Current(u)
  BY DEF Current
<1> HIDE DEF r
<1>6. Seqs'
  BY DEF ListInv, Seqs
<1>7. OneList' /\ Users'
  BY <1>3, ListsStay DEF ListInv
<1>8. States'
  <2>1. running' = running
    OBVIOUS
  <2> QED BY <1>3, <2>1 DEF ListInv, States
<1>9. Removers'
  <2> SUFFICES ASSUME NEW u \in Threads, pc'[u] = "remove"
               PROVE  /\ In(Current(u), running) /\ req'[Current(u)].state = "deleting"
                      /\ \A v \in Threads \ {u} : pc'[v] = "remove" => Current(v) # Current(u)
    BY <1>5 DEF Removers
  <2>1. \A v \in Threads \ {t} : pc'[v] = pc[v]
    BY <1>4 DEF TypeInv
  <2>2. CASE u = t
    BY <1>1, <1>2, <1>3, <2>1, <2>2 DEF r
  <2>3. CASE u # t
    <3>1. pc[u] = "remove" /\ Current(u) # r
      BY <1>2, <2>1, <2>3
    <3>2. \A v \in Threads \ {u} : pc'[v] = "remove" => Current(v) # Current(u)
      BY <2>1, <3>1 DEF ListInv, Removers, r
    <3> QED BY <1>3, <3>1, <3>2, Unlinking
  <2> QED BY <2>2, <2>3
<1>10. Hands'
  BY <1>4, HandsStep DEF ListInv
<1>11. Batch'
  BY <1>4 DEF ListInv, Batch, OneMoves, TypeInv
<1> QED BY <1>6, <1>7, <1>8, <1>9, <1>10, <1>11 DEF ListInv

\* Unlinking leaves the requests that other threads are about to unlink.
LEMMA RemoveList ==
  ASSUME TypeInv, ListInv, NEW t \in Threads, NEW state \in {"complete", "cleanup"},
         RemoveFromRunning(t, state), UNCHANGED <<pending, batch, hand>>
  PROVE  ListInv'
<1> DEFINE r == Current(t)
<1>1. /\ pc[t] = "remove" /\ Goto(t, "claim") /\ jobCount' = jobCount - 1
      /\ running' = Keep(running, Reqs \ {r})
      /\ req' = [req EXCEPT ![r].state = state]
  BY DEF RemoveFromRunning, Unlinked
<1>2. r \in Reqs
  BY <1>1, Unlinking
<1>3. \A u \in Threads \ {t} : pc[u] = "remove" => Current(u) # r
  BY <1>1 DEF ListInv, Removers
<1> HIDE DEF r
<1>4. /\ running' \in Seq(Reqs) /\ Single(running')
      /\ \A x : In(x, running') <=> In(x, running) /\ x \in Reqs \ {r}
  <2>1. running \in Seq(Reqs) /\ Single(running)
    BY DEF ListInv, Seqs, OneList
  <2> QED BY <1>1, <2>1, KeepFacts
<1>5. /\ SamePipes /\ req'[r].state = state
      /\ \A x \in Reqs \ {r} : req'[x] = req[x]
  BY <1>1, <1>2 DEF TypeInv, ReqType, SamePipes
<1>6. OneMoves(t) /\ pc'[t] = "claim"
  BY <1>1, GotoAlone DEF HandPcs
<1>7. Seqs'
  BY <1>1, <1>4 DEF ListInv, Seqs
<1>8. OneList'
  <2>1. pending' = pending /\ batch' = batch
    OBVIOUS
  <2>2. Single(pending') /\ Single(batch')
    BY <2>1 DEF ListInv, OneList
  <2> QED BY <1>4, <2>1, <2>2 DEF ListInv, OneList
<1>9. Users'
  <2>1. ASSUME NEW x \in Reqs, In(x, pending') \/ In(x, batch') \/ In(x, running')
        PROVE  req'[x].pipeUsed # {}
    <3>1. In(x, pending) \/ In(x, batch) \/ In(x, running)
      BY <1>4, <2>1
    <3> QED BY <1>5, <3>1 DEF ListInv, Users, SamePipes
  <2> QED BY <2>1 DEF Users
<1>10. States'
  BY <1>4, <1>5 DEF ListInv, States
<1>11. Removers'
  BY <1>3, <1>4, <1>5, <1>6, Unlinking, RemoversStay
<1>12. Hands'
  BY <1>6, HandsStep DEF ListInv
<1>13. Batch'
  BY <1>6 DEF ListInv, Batch, OneMoves
<1> QED BY <1>7, <1>8, <1>9, <1>10, <1>11, <1>12, <1>13 DEF ListInv

\* A pending request that loses its last streaming pipe leaves the list.
LEMMA StopPendingList ==
  ASSUME TypeInv, ListInv, StopPending PROVE ListInv'
<1>0. User \in Threads
  BY DEF Threads
<1> DEFINE left == {r \in Reqs : (req[r].pipeUsed \ {target}) \cap streamingPipe # {}}
<1>1. /\ UNCHANGED <<batch, running, jobCount, hand>> /\ Goto(User, "scan")
      /\ pending' = Keep(pending, left)
  BY DEF StopPending
<1>2. pending \in Seq(Reqs) /\ Single(pending)
  BY DEF ListInv, Seqs, OneList
<1>3. \A x \in left : req[x].pipeUsed \ {target} # {}
  OBVIOUS
<1> HIDE DEF left
<1>4. /\ pending' \in Seq(Reqs) /\ Single(pending')
      /\ \A x : In(x, pending') <=> In(x, pending) /\ x \in left
  BY <1>1, <1>2, KeepFacts
<1>5. ASSUME NEW x \in Reqs
      PROVE  /\ req'[x].state = req[x].state
             /\ req'[x].pipeUsed = IF In(x, pending) THEN req[x].pipeUsed \ {target}
                                                     ELSE req[x].pipeUsed
  <2>1. x \in ToSet(pending) <=> In(x, pending)
    BY <1>2, ToSetIn
  <2>2. req'[x] = IF In(x, pending)
                  THEN [req[x] EXCEPT !.pipeUsed = @ \ {target}, !.armed = @ \ {target},
                          !.held = IF target \in req[x].armed THEN @ \ {target} ELSE @]
                  ELSE req[x]
    BY <2>1 DEF StopPending
  <2> QED BY <2>2 DEF TypeInv, ReqType
<1>6. OneMoves(User) /\ pc'[User] = "scan"
  BY <1>0, <1>1, GotoAlone DEF HandPcs
<1>7. Seqs'
  BY <1>1, <1>4 DEF ListInv, Seqs
<1>8. batch' = batch /\ running' = running
  BY <1>1
<1>9. OneList'
  <2>1. Single(batch') /\ Single(running')
    BY <1>8 DEF ListInv, OneList
  <2> QED BY <1>4, <1>8, <2>1 DEF ListInv, OneList
<1>10. Users'
  <2>1. ASSUME NEW x \in Reqs, In(x, pending') \/ In(x, batch') \/ In(x, running')
        PROVE  req'[x].pipeUsed # {}
    <3>1. CASE In(x, pending')
      BY <1>3, <1>4, <1>5, <3>1
    <3>2. CASE In(x, batch) \/ In(x, running)
      BY <1>5, <3>2 DEF ListInv, OneList, Users
    <3> QED BY <1>8, <2>1, <3>1, <3>2
  <2> QED BY <2>1 DEF Users
<1>11. States'
  BY <1>5, <1>8 DEF ListInv, States
<1>12. Removers'
  BY <1>0, <1>5, <1>6, <1>8, Unlinking, RemoversStay
<1>13. Hands'
  BY <1>0, <1>6, HandsStep DEF ListInv
<1>14. Batch'
  BY <1>6, <1>8 DEF ListInv, Batch, OneMoves
<1> QED BY <1>7, <1>9, <1>10, <1>11, <1>12, <1>13, <1>14 DEF ListInv

\* What the scan of a worker puts into its snapshot.
LEMMA DoneRequestsFacts ==
  ASSUME ListInv, NEW p \in Pipes
  PROVE  /\ DoneRequests(p) \in Seq(Reqs) /\ Single(DoneRequests(p))
         /\ \A x : In(x, DoneRequests(p)) =>
              In(x, running) /\ p \in req[x].pipeUsed /\ ~Later(x, p)
<1> DEFINE users == Keep(running, UsersOf(p))
           I == {i \in 1 .. Len(users) : Later(users[i], p)}
           later == IF I # {} THEN Min(I) ELSE 0
<1>1. /\ users \in Seq(Reqs) /\ Single(users)
      /\ \A x : In(x, users) => In(x, running) /\ p \in req[x].pipeUsed
  BY KeepFacts DEF ListInv, Seqs, OneList, UsersOf
<1>2. DoneRequests(p) = IF later = 0 THEN users ELSE SubSeq(users, 1, later - 1)
  BY DEF DoneRequests, SelectInSeq
<1> HIDE DEF users
<1>3. CASE I = {}
  <2>1. \A x : In(x, users) => ~Later(x, p)
    BY <1>3 DEF In
  <2> QED BY <1>1, <1>2, <1>3, <2>1
<1>4. CASE I # {}
  <2>1. I \in SUBSET Nat /\ I \subseteq 1 .. Len(users)
    BY <1>1
  <2>0. \A i \in 1 .. Len(users) : i \notin I => ~Later(users[i], p)
    OBVIOUS
  <2> HIDE DEF I
  <2>2. \E n \in I : \A m \in I : n <= m
    BY <1>4, <2>1, LeastElement
  <2>3. Min(I) \in I /\ \A m \in I : Min(I) <= m
    BY <2>2 DEF Min
  <2>4. later \in 1 .. Len(users) /\ \A m \in I : later <= m
    BY <1>4, <2>1, <2>3
  <2> HIDE DEF later
  <2>5. later - 1 \in Nat /\ later - 1 <= Len(users)
    BY <1>1, <2>4
  <2>6. /\ SubSeq(users, 1, later - 1) \in Seq(Reqs) /\ Single(SubSeq(users, 1, later - 1))
        /\ \A x : In(x, SubSeq(users, 1, later - 1)) => In(x, users)
    BY <1>1, <2>5, SubSeqFacts
  <2>7. ASSUME NEW x, In(x, SubSeq(users, 1, later - 1)) PROVE ~Later(x, p)
    <3>1. /\ Len(SubSeq(users, 1, later - 1)) = later - 1
          /\ \A i \in 1 .. later - 1 : SubSeq(users, 1, later - 1)[i] = users[i]
      BY <1>1, <2>5
    <3>2. PICK i \in 1 .. later - 1 : users[i] = x
      BY <2>7, <3>1 DEF In
    <3>3. i \in 1 .. Len(users) /\ i \notin I
      BY <2>1, <2>4, <1>1
    <3> QED BY <2>0, <3>2, <3>3
  <2> QED BY <1>1, <1>2, <2>4, <2>6, <2>7
<1> QED BY <1>3, <1>4

\* The remaining steps of a thread that works through its snapshot.
LEMMA WalkList ==
  ASSUME TypeInv, ListInv, NEW t \in Threads, Claim(t) \/ Return(t) PROVE ListInv'
<1>1. CASE Claim(t)
  <2>1. pc[t] \in HandPcs /\ UNCHANGED <<pending, batch, running, jobCount>>
    BY <1>1 DEF Claim, lists, HandPcs
  <2>2. req' = [req EXCEPT ![Current(t)] = [@ EXCEPT !.armed = req[Current(t)].armed \ {PipeOf(t)}]]
    BY <1>1 DEF Claim
  <2>3. SamePipes /\ SameStates
    BY <2>2, OtherFieldsStay
  <2>4. OneMoves(t) /\ pc'[t] \notin {"remove", "enqueue"}
    <3>1. CASE Goto(t, "return") /\ UNCHANGED hand
      BY <2>1, <3>1, GotoAlone
    <3>2. CASE NextInHand(t)
      BY <2>1, <3>2, NextAlone
    <3> QED BY <1>1, <3>1, <3>2 DEF Claim
  <2> QED BY <2>1, <2>3, <2>4, Elsewhere DEF ListInv, Seqs
<1>2. CASE Return(t)
  <2>1. pc[t] \in HandPcs /\ UNCHANGED <<pending, batch, running, jobCount>>
    BY <1>2 DEF Return, lists, HandPcs
  <2>2. req' = [req EXCEPT ![Current(t)] = [@ EXCEPT !.held = req[Current(t)].held \ {PipeOf(t)}]]
    BY <1>2 DEF Return
  <2>3. SamePipes /\ SameStates
    BY <2>2, OtherFieldsStay
  <2>4. OneMoves(t) /\ pc'[t] \notin {"remove", "enqueue"}
    BY <1>2, <2>1, NextAlone DEF Return
  <2> QED BY <2>1, <2>3, <2>4, Elsewhere DEF ListInv, Seqs
<1> QED BY <1>1, <1>2

\* The worker's and the cleanup's marks.
LEMMA MarksList ==
  ASSUME TypeInv, ListInv,
         NEW t \in Threads, WorkMark(t) \/ (t = User /\ StopMark)
  PROVE  ListInv'
<1> DEFINE r == Current(t)
<1>1. pc[t] = "mark" /\ UNCHANGED <<pending, batch, running, jobCount>>
  BY DEF WorkMark, StopMark, lists
<1>2. \/ req' = req /\ NextInHand(t)
      \/ req' = req /\ Goto(t, "claim") /\ UNCHANGED hand
      \/ \E done : /\ req' = [req EXCEPT ![r] = [@ EXCEPT !.done = done]]
                   /\ Goto(t, "claim") /\ UNCHANGED hand
      \/ \E done : /\ req' = [req EXCEPT ![r] = [@ EXCEPT !.done = done, !.state = "deleting"]]
                   /\ MayDelete(r) /\ Goto(t, "remove") /\ UNCHANGED hand
  <2>1. CASE WorkMark(t)
    <3> DEFINE done == req[r].done \cup {t}
    <3>1. \/ req' = req /\ NextInHand(t)
          \/ /\ req' = [req EXCEPT ![r].done = done, ![r].state = "deleting"]
             /\ MayDelete(r) /\ Goto(t, "remove") /\ UNCHANGED hand
          \/ req' = [req EXCEPT ![r].done = done] /\ Goto(t, "claim") /\ UNCHANGED hand
      BY <2>1 DEF WorkMark
    <3> HIDE DEF r, done
    <3>2. /\ [req EXCEPT ![r].done = done] = [req EXCEPT ![r] = [@ EXCEPT !.done = done]]
          /\ [req EXCEPT ![r].done = done, ![r].state = "deleting"]
               = [req EXCEPT ![r] = [@ EXCEPT !.done = done, !.state = "deleting"]]
      OBVIOUS
    <3> QED BY <3>1, <3>2
  <2>2. CASE t = User /\ StopMark
    <3> DEFINE done == req[r].done \cup (req[r].pipeUsed \cap {target})
    <3>1. \/ req' = req /\ Goto(t, "claim") /\ UNCHANGED hand
          \/ /\ req' = [req EXCEPT ![r].done = done, ![r].state = "deleting"]
             /\ MayDelete(r) /\ Goto(t, "remove") /\ UNCHANGED hand
          \/ req' = [req EXCEPT ![r].done = done] /\ Goto(t, "claim") /\ UNCHANGED hand
      BY <2>2 DEF StopMark
    <3> HIDE DEF r, done
    <3>2. /\ [req EXCEPT ![r].done = done] = [req EXCEPT ![r] = [@ EXCEPT !.done = done]]
          /\ [req EXCEPT ![r].done = done, ![r].state = "deleting"]
               = [req EXCEPT ![r] = [@ EXCEPT !.done = done, !.state = "deleting"]]
      OBVIOUS
    <3> QED BY <3>1, <3>2
  <2> QED BY <2>1, <2>2
<1> HIDE DEF r
<1>3. CASE req' = req /\ NextInHand(t)
  <2>1. SamePipes /\ SameStates
    BY <1>3 DEF SamePipes, SameStates
  <2>2. OneMoves(t) /\ pc'[t] \notin {"remove", "enqueue"}
    BY <1>1, <1>3, NextAlone DEF HandPcs
  <2> QED BY <1>1, <2>1, <2>2, Elsewhere DEF ListInv, Seqs
<1>4. CASE req' = req /\ Goto(t, "claim") /\ UNCHANGED hand
  <2>1. SamePipes /\ SameStates
    BY <1>4 DEF SamePipes, SameStates
  <2>2. OneMoves(t) /\ pc'[t] = "claim"
    BY <1>1, <1>4, GotoAlone DEF HandPcs
  <2> QED BY <1>1, <2>1, <2>2, Elsewhere DEF ListInv, Seqs
<1>5. ASSUME NEW done, req' = [req EXCEPT ![r] = [@ EXCEPT !.done = done]],
             Goto(t, "claim"), UNCHANGED hand
      PROVE  ListInv'
  <2>1. SamePipes /\ SameStates
    BY <1>5, OtherFieldsStay
  <2>2. OneMoves(t) /\ pc'[t] = "claim"
    BY <1>1, <1>5, GotoAlone DEF HandPcs
  <2> QED BY <1>1, <2>1, <2>2, Elsewhere DEF ListInv, Seqs
<1>6. ASSUME NEW done,
             req' = [req EXCEPT ![r] = [@ EXCEPT !.done = done, !.state = "deleting"]],
             MayDelete(r), Goto(t, "remove"), UNCHANGED hand
      PROVE  ListInv'
  BY <1>1, <1>6, MarkList DEF r
<1> QED BY <1>2, <1>3, <1>4, <1>5, <1>6

-----------------------------------------------------------------------------

\* No list has an entry to begin with, and no thread works.
LEMMA ListInvInit == ASSUME Init PROVE ListInv
<1>1. Seqs
  BY DEF Init, Seqs
<1>2. OneList
  BY DEF Init, OneList, Single, In
<1>3. Users
  BY DEF Init, Users, In
<1>4. States
  BY DEF Init, States
<1>5. Removers /\ Hands /\ Batch
  BY DEF Init, Removers, Hands, HandPcs, Batch
<1> QED BY <1>1, <1>2, <1>3, <1>4, <1>5 DEF ListInv

\* Every step keeps the lists apart.
LEMMA ListInvStep ==
  ASSUME QueuesFree, TypeInv, ListInv, [Next]_vars PROVE ListInv'
<1>a. User \in Threads /\ Pipes \subseteq Threads
  BY DEF Threads
<1>b. req' = req => SamePipes /\ SameStates
  BY DEF SamePipes, SameStates
<1>c. jobCount' = jobCount => jobCount' \in Int
  BY DEF ListInv, Seqs
<1>d. ASSUME NEW t \in Threads, NEW to \in {"idle", "try", "on", "halt", "pend", "scan", "drain"},
             Goto(t, to), UNCHANGED <<req, pending, batch, running, hand>>, jobCount' \in Int
      PROVE  ListInv'
  <2>1. OneMoves(t) /\ pc'[t] = to
    BY <1>d, GotoAlone DEF HandPcs
  <2> QED BY <1>b, <1>d, <2>1, Elsewhere
<1>1. ASSUME NEW t \in Threads, TryQueue(t) PROVE ListInv'
  <2>1. CASE EnqueueRejected(t)
    BY <2>1, <1>b, NobodyMoves DEF EnqueueRejected, lists, threads
  <2> QED BY <1>1, <2>1, PickList, EnqueueList DEF TryQueue
<1>2. ASSUME NEW p \in Pipes, StartCtx(p) \/ StopBegin(p) \/ FrameDone(p) PROVE ListInv'
  <2>1. CASE StartCtx(p)
    <3>1. jobCount' \in Int
      BY <2>1 DEF StartCtx, ListInv, Seqs
    <3> QED BY <2>1, <3>1, <1>a, <1>d DEF StartCtx
  <2>2. CASE StopBegin(p)
    BY <2>2, <1>a, <1>c, <1>d DEF StopBegin, lists
  <2>3. CASE FrameDone(p)
    <3>1. PICK r : req' = [req EXCEPT ![r].isQueued = @ \cup {p}]
      BY <2>3 DEF FrameDone
    <3>2. req' = [req EXCEPT ![r] = [@ EXCEPT !.isQueued = req[r].isQueued \cup {p}]]
      BY <3>1
    <3>3. SamePipes /\ SameStates
      BY <3>2, OtherFieldsStay
    <3> QED BY <2>3, <3>3, NobodyMoves DEF FrameDone, lists
  <2> QED BY <1>2, <2>1, <2>2, <2>3
<1>3. ASSUME NEW p \in Pipes, Work(p) PROVE ListInv'
  <2>1. CASE WorkStart(p)
    <3>1. /\ Goto(p, "idle") \/ Goto(p, "scan")
          /\ UNCHANGED <<req, pending, batch, running, jobCount, hand>>
      BY <2>1 DEF WorkStart, Finish, lists
    <3> QED BY <3>1, <1>a, <1>c, <1>d
  <2>2. CASE WorkScan(p)
    <3>1. DoneRequests(p) \in Seq(Reqs)
      BY DoneRequestsFacts
    <3>2. /\ \/ DoneRequests(p) = <<>> /\ Goto(p, "idle")
             \/ DoneRequests(p) # <<>> /\ Goto(p, "mark")
          /\ hand' = [hand EXCEPT ![p] = DoneRequests(p)]
          /\ UNCHANGED <<req, pending, batch, running, jobCount>>
      BY <2>2 DEF WorkScan, Finish, lists
    <3>3. PICK to \in {"idle", "mark"} : Goto(p, to) /\ (to = "mark" => DoneRequests(p) # <<>>)
      BY <3>2
    <3>4. OneMoves(p) /\ pc'[p] = to
      BY <3>1, <3>2, <3>3, <1>a, SnapshotAlone DEF HandPcs
    <3> QED BY <3>2, <3>3, <3>4, <1>a, <1>b, <1>c, Elsewhere
  <2>3. CASE WorkRemove(p)
    BY <2>3, <1>a, RemoveList DEF WorkRemove
  <2> QED BY <1>3, <1>a, <1>1, <2>1, <2>2, <2>3, WalkList, MarksList DEF Work
<1>4. ASSUME StopStep PROVE ListInv'
  <2>1. CASE StopHalt
    BY <2>1, <1>a, <1>c, <1>d DEF StopHalt, lists
  <2>2. CASE StopScan
    <3> DEFINE users == Keep(running, UsersOf(target))
    <3>1. users \in Seq(Reqs)
      BY KeepFacts DEF ListInv, Seqs
    <3>2. /\ hand' = [hand EXCEPT ![User] = users]
          /\ Goto(User, IF users = <<>> THEN "drain" ELSE "cancel")
          /\ UNCHANGED <<req, pending, batch, running, jobCount>>
      BY <2>2 DEF StopScan, lists
    <3> HIDE DEF users
    <3>3. PICK to \in {"drain", "cancel"} : Goto(User, to) /\ (to = "cancel" => users # <<>>)
      BY <3>2
    <3>4. OneMoves(User) /\ pc'[User] = to
      BY <3>1, <3>2, <3>3, <1>a, SnapshotAlone DEF HandPcs
    <3> QED BY <3>2, <3>3, <3>4, <1>a, <1>b, <1>c, Elsewhere
  <2>3. CASE StopCancel
    <3>1. PICK r : req' = [req EXCEPT ![r].isQueued = @ \cup {target}]
      BY <2>3 DEF StopCancel
    <3>2. req' = [req EXCEPT ![r] = [@ EXCEPT !.isQueued = req[r].isQueued \cup {target}]]
      BY <3>1
    <3>3. SamePipes /\ SameStates
      BY <3>2, OtherFieldsStay
    <3>4. /\ pc[User] = "cancel" /\ Goto(User, "mark")
          /\ UNCHANGED <<pending, batch, running, jobCount, hand>>
      BY <2>3 DEF StopCancel, lists
    <3>5. OneMoves(User) /\ pc'[User] = "mark"
      BY <3>4, <1>a, GotoAlone DEF HandPcs
    <3> QED BY <3>3, <3>4, <3>5, <1>a, <1>c, Elsewhere
  <2>4. CASE StopRemove
    BY <2>4, <1>a, RemoveList DEF StopRemove
  <2>5. CASE StopDrain
    BY <2>5, <1>a, <1>c, <1>d DEF StopDrain, lists
  <2> QED BY <1>4, <1>a, <2>1, <2>2, <2>3, <2>4, <2>5, WalkList, MarksList, StopPendingList
      DEF StopStep
<1>5. CASE StreamOn
  BY <1>5, <1>a, <1>c, <1>d DEF StreamOn, lists
<1>6. CASE UNCHANGED vars
  BY <1>6, <1>b, NobodyMoves DEF vars, lists, threads
<1> QED BY <1>a, <1>1, <1>2, <1>3, <1>4, <1>5, <1>6, QueueList DEF Next, UserStep


-----------------------------------------------------------------------------
(* The life of a request.                                                  *)

\* What holds of a request: it waits with all its buffers, and one that runs has
\* a pipe that is not done and still has its buffers.
Alive(q) ==
  /\ q.done \subseteq q.pipeUsed
  /\ q.state = "pending" => q.armed = q.pipeUsed /\ q.held = q.pipeUsed /\ q.done = {}
  /\ q.state # "pending" => q.pipeUsed # {} /\ q.handed \subseteq q.pipeUsed
  /\ q.state = "running" => q.done # q.pipeUsed /\ q.pipeUsed \ q.done \subseteq q.held
Lives == \A r \in Reqs : Alive(req[r])

ListStates ==
  \A r \in Reqs :
    /\ In(r, pending) \/ In(r, batch) => req[r].state = "pending"
    /\ In(r, running) => req[r].state \in {"running", "deleting"}

\* A snapshot holds requests that ran on the pipe, and a thread returns buffers
\* only of a pipe that is marked.
Taken(t, r) == PipeOf(t) \in req[r].pipeUsed /\ req[r].state # "pending"
Snapshots ==
  \A t \in Threads : pc[t] \in HandPcs => \A r \in Reqs : In(r, hand[t]) => Taken(t, r)
IsMarked(t, r) == PipeOf(t) \in req[r].done \/ req[r].state # "running"
WillBeMarked(t, r) == PipeOf(t)' \in req'[r].done \/ req'[r].state # "running"
Marked == \A t \in Threads : pc[t] \in {"claim", "return"} => IsMarked(t, Current(t))

LifeInv == ListStates /\ Lives /\ Snapshots /\ Marked

\* A request that left the pending list keeps its pipes and never comes back.
Settled ==
  \A r \in Reqs : req[r].state # "pending" =>
    /\ req'[r].pipeUsed = req[r].pipeUsed /\ req'[r].state # "pending"
    /\ req[r].done \subseteq req'[r].done
    /\ req'[r].state = "running" => req[r].state = "running"

\* The request a thread works on.
LEMMA AtHand ==
  ASSUME ListInv, NEW t \in Threads, pc[t] \in HandPcs
  PROVE  /\ Current(t) \in Reqs /\ In(Current(t), hand[t]) /\ hand[t] \in Seq(Reqs)
         /\ Tail(hand[t]) \in Seq(Reqs) /\ hand[t] # <<>>
         /\ \A x : In(x, Tail(hand[t])) => In(x, hand[t])
  BY TailFacts DEF ListInv, Seqs, Hands, Current

\* Only thread t moves, and only the user thread changes its pipe.
MovesAlone(t) == OneMoves(t) /\ (t = User \/ target' = target)

\* A step of one thread, which leaves it with a snapshot as it should be.
LEMMA LifeStep ==
  ASSUME LifeInv, ListInv, NEW t \in Threads, MovesAlone(t), Settled, ListStates', Lives',
         pc'[t] \in HandPcs => \A r \in Reqs : In(r, hand'[t]) => Taken(t, r)',
         pc'[t] \in {"claim", "return"} => IsMarked(t, Current(t))'
  PROVE  LifeInv'
<1>1. \A u \in Threads \ {t} : /\ pc'[u] = pc[u] /\ hand'[u] = hand[u]
                               /\ PipeOf(u)' = PipeOf(u) /\ Current(u)' = Current(u)
  BY DEF MovesAlone, OneMoves, PipeOf, Current
<1>2. Snapshots'
  BY <1>1 DEF LifeInv, Snapshots, Taken, Settled
<1>3. ASSUME NEW u \in Threads \ {t}, pc[u] \in {"claim", "return"} PROVE IsMarked(u, Current(u))'
  <2>1. Current(u) \in Reqs /\ Taken(u, Current(u)) /\ IsMarked(u, Current(u))
    BY <1>3, AtHand DEF HandPcs, LifeInv, Snapshots, Marked
  <2>2. req[Current(u)].state # "pending"
    BY <2>1 DEF Taken
  <2> QED BY <1>1, <2>1, <2>2 DEF IsMarked, Settled
<1>4. Marked'
  BY <1>1, <1>3 DEF Marked
<1> QED BY <1>2, <1>4 DEF LifeInv

\* The fields the life of a request is about.
SameLife(x) ==
  /\ req'[x].state = req[x].state /\ req'[x].pipeUsed = req[x].pipeUsed
  /\ req'[x].done = req[x].done /\ req'[x].handed = req[x].handed
  /\ req'[x].armed = req[x].armed /\ req'[x].held = req[x].held
SameLives == \A x \in Reqs : SameLife(x)

LEMMA SettledStays == ASSUME SameLives PROVE Settled
  BY DEF SameLives, SameLife, Settled

LEMMA LivesStay == ASSUME Lives, SameLives PROVE Lives'
  BY DEF SameLives, SameLife, Lives, Alive

LEMMA StatesStay ==
  ASSUME ListStates, SameStates, UNCHANGED <<pending, batch, running>> PROVE ListStates'
  BY DEF ListStates, SameStates, In

\* A thread that goes where it needs no snapshot, or keeps the one it has.
LEMMA LifeQuiet ==
  ASSUME LifeInv, ListInv, SameLives, UNCHANGED <<pending, batch, running>>,
         NEW t \in Threads, MovesAlone(t),
         \/ pc'[t] \notin HandPcs
         \/ /\ pc[t] \in HandPcs /\ pc'[t] \notin {"claim", "return"} /\ target' = target
            /\ \A x : In(x, hand'[t]) => In(x, hand[t])
  PROVE  LifeInv'
<1>1. Settled /\ Lives' /\ ListStates'
  BY SettledStays, LivesStay, StatesStay DEF LifeInv, SameLives, SameLife, SameStates
<1>2. pc'[t] \in HandPcs => \A r \in Reqs : In(r, hand'[t]) => Taken(t, r)'
  BY DEF LifeInv, Snapshots, Taken, PipeOf, SameLives, SameLife
<1>3. pc'[t] \notin {"claim", "return"}
  BY DEF HandPcs
<1> QED BY <1>1, <1>2, <1>3, LifeStep

\* No thread moves.
LEMMA LifeStill ==
  ASSUME LifeInv, ListInv, SameLives, UNCHANGED <<pending, batch, running, pc, hand, target>>
  PROVE  LifeInv'
<1>1. Lives' /\ ListStates'
  BY LivesStay, StatesStay DEF LifeInv, SameLives, SameLife, SameStates
<1>2. \A u \in Threads : PipeOf(u)' = PipeOf(u) /\ Current(u)' = Current(u)
  BY DEF PipeOf, Current
<1>3. Snapshots'
  BY <1>2 DEF LifeInv, Snapshots, Taken, SameLives, SameLife
<1>4. Marked'
  <2> SUFFICES ASSUME NEW u \in Threads, pc[u] \in {"claim", "return"}
               PROVE  IsMarked(u, Current(u))'
    BY DEF Marked
  <2>1. Current(u) \in Reqs /\ IsMarked(u, Current(u))
    BY AtHand DEF HandPcs, LifeInv, Marked
  <2> QED BY <1>2, <2>1 DEF IsMarked, SameLives, SameLife
<1> QED BY <1>1, <1>3, <1>4 DEF LifeInv

\* One request is changed.
LEMMA OneChanged ==
  ASSUME TypeInv, NEW r \in Reqs, NEW new, req' = [req EXCEPT ![r] = new]
  PROVE  req'[r] = new /\ \A x \in Reqs \ {r} : req'[x] = req[x]
  BY DEF TypeInv

\* Replacing the fields that are not about its life.
LEMMA QueuedBitLife ==
  ASSUME TypeInv, NEW r, NEW S, \/ req' = req
                                \/ req' = [req EXCEPT ![r] = [@ EXCEPT !.isQueued = S]]
  PROVE  SameLives
<1> SUFFICES ASSUME NEW x \in Reqs PROVE SameLife(x)
  BY DEF SameLives
<1>1. req[x] \in ReqType
  BY DEF TypeInv
<1>2. req'[x] = req[x] \/ req'[x] = [req[x] EXCEPT !.isQueued = S]
  BY DEF TypeInv
<1> QED BY <1>1, <1>2 DEF ReqType, SameLife

\* A step that changes one request r, which is no longer pending, and what the
\* life of r requires of it.
LEMMA LivesOne ==
  ASSUME LifeInv, NEW r \in Reqs, req[r].state # "pending",
         \A x \in Reqs \ {r} : req'[x] = req[x],
         req'[r].pipeUsed = req[r].pipeUsed, req'[r].handed = req[r].handed,
         req'[r].state # "pending", req[r].done \subseteq req'[r].done,
         req'[r].done \subseteq req[r].pipeUsed,
         req'[r].state = "running" =>
           /\ req[r].state = "running" /\ req'[r].done # req[r].pipeUsed
           /\ req'[r].held = req[r].held \/ req[r].held \ req'[r].held \subseteq req'[r].done
  PROVE  Settled /\ Lives'
<1>1. Settled
  BY DEF Settled
<1>2. Alive(req[r])
  BY DEF LifeInv, Lives
<1>3. Alive(req'[r])
  BY <1>2 DEF Alive
<1>4. Lives'
  BY <1>3 DEF LifeInv, Lives
<1> QED BY <1>1, <1>4

\* Where a thread goes after an entry, and what is then left in its hands.
LEMMA NextPc ==
  ASSUME TypeInv, NEW t \in Threads, NextInHand(t)
  PROVE  /\ pc'[t] \in {"cancel", "mark", "drain", "try", "idle"}
         /\ t = User => pc'[t] \in {"cancel", "drain"}
         /\ pc'[t] = "idle" => t # User /\ Finish(t)
         /\ pc'[t] # "idle" => UNCHANGED <<doneWq, deq, dequeued>>
<1>1. t = User => pc'[t] \in {"cancel", "drain"} /\ UNCHANGED <<doneWq, deq, dequeued>>
  BY DEF NextInHand, Goto, TypeInv
<1>2. t # User => \/ pc'[t] \in {"mark", "try"} /\ UNCHANGED <<doneWq, deq, dequeued>>
                  \/ pc'[t] = "idle" /\ Finish(t)
  BY DEF NextInHand, Goto, TypeInv, Finish
<1> QED BY <1>1, <1>2

LEMMA NextHand ==
  ASSUME ListInv, NEW t \in Threads, pc[t] \in HandPcs, NextInHand(t)
  PROVE  /\ hand'[t] = Tail(hand[t])
         /\ \A x : In(x, hand'[t]) => In(x, hand[t])
<1>1. hand'[t] = Tail(hand[t])
  BY DEF NextInHand, ListInv, Seqs
<1> QED BY <1>1, AtHand

\* A thread goes on to the next entry, or to the next step for the same one.
LEMMA NextEntry ==
  ASSUME TypeInv, ListInv, LifeInv, NEW t \in Threads, pc[t] \in HandPcs, NextInHand(t),
         Settled, Lives', ListStates', target' = target
  PROVE  LifeInv'
<1>1. OneMoves(t) /\ pc'[t] \in {"cancel", "mark", "drain", "try", "idle"}
  BY NextAlone, NextPc
<1>2. \A x : In(x, hand'[t]) => In(x, hand[t])
  BY NextHand
<1>3. \A x \in Reqs : In(x, hand'[t]) => Taken(t, x)'
  BY <1>2 DEF LifeInv, Snapshots, Taken, Settled, PipeOf
<1> QED BY <1>1, <1>3, LifeStep DEF MovesAlone

LEMMA SameEntry ==
  ASSUME TypeInv, ListInv, LifeInv, NEW t \in Threads, pc[t] \in HandPcs,
         NEW to \in HandPcs, Goto(t, to), UNCHANGED <<hand, target>>,
         Settled, Lives', ListStates',
         to \in {"claim", "return"} => WillBeMarked(t, Current(t))
  PROVE  LifeInv'
<1>1. OneMoves(t) /\ pc'[t] = to
  BY GotoAlone
<1>3. Current(t)' = Current(t)
  BY DEF Current
<1>2. \A x \in Reqs : In(x, hand'[t]) => Taken(t, x)'
  BY DEF LifeInv, Snapshots, Taken, Settled, PipeOf
<1>4. to \in {"claim", "return"} => IsMarked(t, Current(t))'
  BY <1>3 DEF WillBeMarked, IsMarked
<1> QED BY <1>1, <1>2, <1>4, LifeStep DEF MovesAlone

\* Winning the cmpxchg of buf_state, or finding it lost.
LEMMA ClaimLife ==
  ASSUME TypeInv, ListInv, LifeInv, NEW t \in Threads, Claim(t) PROVE LifeInv'
<1> DEFINE r == Current(t)
           S == req[r].armed \ {PipeOf(t)}
<1>1. pc[t] \in HandPcs /\ pc[t] = "claim" /\ UNCHANGED <<pending, batch, running, target>>
  BY DEF Claim, lists, HandPcs
<1>2. r \in Reqs /\ Taken(t, r) /\ IsMarked(t, r)
  BY <1>1, AtHand DEF LifeInv, Snapshots, Marked
<1>3. req' = [req EXCEPT ![r] = [@ EXCEPT !.armed = S]]
  BY DEF Claim
<1>4. req'[r] = [req[r] EXCEPT !.armed = S] /\ \A x \in Reqs \ {r} : req'[x] = req[x]
  <2> HIDE DEF r, S
  <2> QED BY <1>2, <1>3, OneChanged
<1>5. req[r] \in ReqType
  BY <1>2 DEF TypeInv
<1>6. /\ req'[r].pipeUsed = req[r].pipeUsed /\ req'[r].handed = req[r].handed
      /\ req'[r].state = req[r].state /\ req'[r].done = req[r].done
      /\ req'[r].held = req[r].held
  BY <1>4, <1>5 DEF ReqType
<1>7. Settled /\ Lives'
  <2>1. Alive(req[r]) /\ req[r].state # "pending"
    BY <1>2 DEF LifeInv, Lives, Taken
  <2> HIDE DEF r
  <2> QED BY <1>2, <1>4, <1>6, <2>1, LivesOne DEF Alive
<1>8. ListStates'
  BY <1>1, <1>4, <1>6, StatesStay DEF LifeInv, SameStates
<1>9. CASE NextInHand(t)
  BY <1>1, <1>7, <1>8, <1>9, NextEntry
<1>10. CASE Goto(t, "return") /\ UNCHANGED hand
  <2>1. WillBeMarked(t, r)
    BY <1>1, <1>2, <1>6 DEF IsMarked, WillBeMarked, PipeOf
  <2> HIDE DEF r
  <2> QED BY <1>1, <1>7, <1>8, <1>10, <2>1, SameEntry DEF r, HandPcs
<1> QED BY <1>9, <1>10 DEF Claim

\* Giving buffers back to vb2.
LEMMA ReturnLife ==
  ASSUME TypeInv, ListInv, LifeInv, NEW t \in Threads, Return(t) PROVE LifeInv'
<1> DEFINE r == Current(t)
           S == req[r].held \ {PipeOf(t)}
<1>1. pc[t] \in HandPcs /\ pc[t] = "return" /\ UNCHANGED <<pending, batch, running, target>>
  BY DEF Return, lists, HandPcs
<1>2. r \in Reqs /\ Taken(t, r) /\ IsMarked(t, r)
  BY <1>1, AtHand DEF LifeInv, Snapshots, Marked
<1>3. req' = [req EXCEPT ![r] = [@ EXCEPT !.held = S]]
  BY DEF Return
<1>4. req'[r] = [req[r] EXCEPT !.held = S] /\ \A x \in Reqs \ {r} : req'[x] = req[x]
  <2> HIDE DEF r, S
  <2> QED BY <1>2, <1>3, OneChanged
<1>5. req[r] \in ReqType
  BY <1>2 DEF TypeInv
<1>6. /\ req'[r].pipeUsed = req[r].pipeUsed /\ req'[r].handed = req[r].handed
      /\ req'[r].state = req[r].state /\ req'[r].done = req[r].done
      /\ req'[r].held = S
  BY <1>4, <1>5 DEF ReqType
<1>7. Settled /\ Lives'
  <2>1. Alive(req[r]) /\ req[r].state # "pending"
    BY <1>2 DEF LifeInv, Lives, Taken
  <2>2. req[r].state = "running" => req[r].held \ req'[r].held \subseteq req'[r].done
    BY <1>2, <1>6 DEF IsMarked
  <2> HIDE DEF r
  <2> QED BY <1>2, <1>4, <1>6, <2>1, <2>2, LivesOne DEF Alive
<1>8. ListStates'
  BY <1>1, <1>4, <1>6, StatesStay DEF LifeInv, SameStates
<1> QED BY <1>1, <1>7, <1>8, NextEntry DEF Return

\* The marks of the worker and of the cleanup: who finds the last pipe of a
\* running request takes it to DELETING, and otherwise a pipe is left.
Marks(t, r, done) ==
  /\ req[r].done \subseteq done /\ done \subseteq req[r].pipeUsed /\ PipeOf(t) \in done
  /\ \/ /\ req' = [req EXCEPT ![r] = [@ EXCEPT !.done = done, !.state = "deleting"]]
        /\ req[r].state = "running" /\ Goto(t, "remove")
     \/ /\ req' = [req EXCEPT ![r] = [@ EXCEPT !.done = done]]
        /\ req[r].state = "running" => done # req[r].pipeUsed
        /\ Goto(t, "claim")

\* Either mark keeps requests as they should be.
LEMMA MarkLife ==
  ASSUME TypeInv, ListInv, LifeInv, NEW t \in Threads, pc[t] = "mark",
         UNCHANGED <<pending, batch, running, hand, target>>,
         NEW done, Marks(t, Current(t), done)
  PROVE  LifeInv'
<1> DEFINE r == Current(t)
<1>1. pc[t] \in HandPcs
  BY DEF HandPcs
<1>2. r \in Reqs /\ Taken(t, r)
  BY <1>1, AtHand DEF LifeInv, Snapshots
<1>3. req[r] \in ReqType /\ Alive(req[r]) /\ req[r].state # "pending"
  BY <1>2 DEF TypeInv, LifeInv, Lives, Taken
<1>4. \A x \in Reqs \ {r} : req'[x] = req[x]
  <2> HIDE DEF r
  <2> QED BY <1>2, OneChanged DEF r, Marks
<1>5. /\ req'[r].pipeUsed = req[r].pipeUsed /\ req'[r].handed = req[r].handed
      /\ req'[r].held = req[r].held /\ req'[r].done = done
      /\ \/ /\ req[r].state = "running" /\ req'[r].state = "deleting" /\ Goto(t, "remove")
         \/ /\ req'[r].state = req[r].state /\ Goto(t, "claim")
            /\ req[r].state = "running" => done # req[r].pipeUsed
  <2>1. \/ /\ req'[r] = [req[r] EXCEPT !.done = done, !.state = "deleting"]
           /\ req[r].state = "running" /\ Goto(t, "remove")
        \/ /\ req'[r] = [req[r] EXCEPT !.done = done] /\ Goto(t, "claim")
           /\ req[r].state = "running" => done # req[r].pipeUsed
    <3> HIDE DEF r
    <3> QED BY <1>2, OneChanged DEF r, Marks
  <2> HIDE DEF r
  <2> QED BY <1>3, <2>1 DEF ReqType
<1>6. Settled /\ Lives'
  <2> HIDE DEF r
  <2> QED BY <1>2, <1>3, <1>4, <1>5, LivesOne DEF r, Marks
<1>7. ListStates'
  BY <1>2, <1>4, <1>5 DEF LifeInv, ListStates
<1>8. WillBeMarked(t, r)
  BY <1>5 DEF WillBeMarked, PipeOf, Marks
<1>9. PICK to \in {"remove", "claim"} : Goto(t, to)
  BY <1>5
<1> HIDE DEF r
<1> QED BY <1>1, <1>6, <1>7, <1>8, <1>9, SameEntry DEF r, HandPcs

\* The worker's mark.
LEMMA WorkMarks ==
  ASSUME TypeInv, ListInv, LifeInv, NEW p \in Pipes, WorkMark(p), p \notin req[Current(p)].done
  PROVE  UNCHANGED hand /\ \E done : Marks(p, Current(p), done)
<1> DEFINE r == Current(p)
           done == req[r].done \cup {p}
           complete == done \cap streamingPipe = req[r].pipeUsed \cap streamingPipe
<1>1. PipeOf(p) = p /\ p \in Threads /\ pc[p] \in HandPcs
  BY ConstantsAssumption DEF Threads, PipeOf, WorkMark, HandPcs
<1>2. r \in Reqs /\ Taken(p, r) /\ Alive(req[r])
  BY <1>1, AtHand DEF LifeInv, Snapshots, Lives
<1>3. /\ UNCHANGED hand
      /\ \/ /\ req' = [req EXCEPT ![r].done = done, ![r].state = "deleting"]
            /\ MayDelete(r) /\ Goto(p, "remove")
         \/ /\ ~(complete /\ MayDelete(r))
            /\ req' = [req EXCEPT ![r].done = done] /\ Goto(p, "claim")
  BY DEF WorkMark
<1>4. /\ [req EXCEPT ![r].done = done] = [req EXCEPT ![r] = [@ EXCEPT !.done = done]]
      /\ [req EXCEPT ![r].done = done, ![r].state = "deleting"]
           = [req EXCEPT ![r] = [@ EXCEPT !.done = done, !.state = "deleting"]]
  OBVIOUS
<1>5. /\ req[r].done \subseteq done /\ done \subseteq req[r].pipeUsed /\ p \in done
      /\ ~complete => done # req[r].pipeUsed
  BY <1>1, <1>2 DEF Alive, Taken
<1> HIDE DEF r, done, complete
<1>6. Marks(p, r, done)
  BY <1>1, <1>3, <1>4, <1>5 DEF MayDelete, Marks
<1> QED BY <1>3, <1>6 DEF r

LEMMA WorkMarkLife ==
  ASSUME TypeInv, ListInv, LifeInv, NEW p \in Pipes, WorkMark(p) PROVE LifeInv'
<1>1. /\ p \in Threads /\ pc[p] = "mark" /\ pc[p] \in HandPcs
      /\ UNCHANGED <<pending, batch, running, target>>
  BY DEF Threads, WorkMark, lists, HandPcs
<1>2. CASE p \in req[Current(p)].done
  <2>1. NextInHand(p) /\ req' = req
    BY <1>2 DEF WorkMark
  <2>2. SameLives
    BY <2>1 DEF SameLives, SameLife
  <2> QED BY <1>1, <2>1, <2>2, NextEntry, SettledStays, LivesStay, StatesStay
          DEF LifeInv, SameLives, SameLife, SameStates
<1>3. CASE p \notin req[Current(p)].done
  BY <1>1, <1>3, WorkMarks, MarkLife
<1> QED BY <1>2, <1>3

\* The mark of the cleanup.
LEMMA StopMarks ==
  ASSUME TypeInv, ListInv, LifeInv, StopMark, MayDelete(Current(User))
  PROVE  \E done : Marks(User, Current(User), done)
<1> DEFINE r == Current(User)
           done == req[r].done \cup (req[r].pipeUsed \cap {target})
<1>1. User \in Threads /\ PipeOf(User) = target /\ pc[User] \in HandPcs
  BY DEF Threads, PipeOf, StopMark, HandPcs
<1>2. r \in Reqs /\ Taken(User, r) /\ Alive(req[r])
  BY <1>1, AtHand DEF LifeInv, Snapshots, Lives
<1>3. \/ /\ req' = [req EXCEPT ![r].done = done, ![r].state = "deleting"]
         /\ Goto(User, "remove")
      \/ /\ done # req[r].pipeUsed
         /\ req' = [req EXCEPT ![r].done = done] /\ Goto(User, "claim")
  BY DEF StopMark
<1>4. /\ [req EXCEPT ![r].done = done] = [req EXCEPT ![r] = [@ EXCEPT !.done = done]]
      /\ [req EXCEPT ![r].done = done, ![r].state = "deleting"]
           = [req EXCEPT ![r] = [@ EXCEPT !.done = done, !.state = "deleting"]]
  OBVIOUS
<1>5. req[r].done \subseteq done /\ done \subseteq req[r].pipeUsed /\ target \in done
  BY <1>1, <1>2 DEF Alive, Taken
<1>7. req[r].state = "running"
  BY DEF MayDelete
<1> HIDE DEF r, done
<1>6. Marks(User, r, done)
  BY <1>1, <1>3, <1>4, <1>5, <1>7 DEF Marks
<1> QED BY <1>6 DEF r

LEMMA StopMarkLife ==
  ASSUME TypeInv, ListInv, LifeInv, StopMark PROVE LifeInv'
<1> DEFINE r == Current(User)
<1>1. /\ User \in Threads /\ pc[User] = "mark" /\ pc[User] \in HandPcs
      /\ UNCHANGED <<pending, batch, running, target, hand>>
  BY DEF Threads, StopMark, lists, HandPcs
<1>3. CASE ~MayDelete(r)
  <2>1. Goto(User, "claim") /\ req' = req
    BY <1>3 DEF StopMark
  <2>2. SameLives
    BY <2>1 DEF SameLives, SameLife
  <2>3. WillBeMarked(User, r)
    BY <1>3, <2>1 DEF MayDelete, WillBeMarked
  <2>4. Settled /\ Lives' /\ ListStates'
    BY <1>1, <2>2, SettledStays, LivesStay, StatesStay
       DEF LifeInv, SameLives, SameLife, SameStates
  <2> HIDE DEF r
  <2> QED BY <1>1, <2>1, <2>3, <2>4, SameEntry DEF r, HandPcs
<1>4. CASE MayDelete(r)
  BY <1>1, <1>4, StopMarks, MarkLife
<1> QED BY <1>3, <1>4

\* Unlinking a finished request.
LEMMA RemoveLife ==
  ASSUME TypeInv, ListInv, LifeInv, NEW t \in Threads, NEW state \in {"complete", "cleanup"},
         RemoveFromRunning(t, state), UNCHANGED <<pending, batch, hand, target>>
  PROVE  LifeInv'
<1> DEFINE r == Current(t)
<1>1. /\ pc[t] = "remove" /\ pc[t] \in HandPcs /\ Goto(t, "claim")
      /\ running' = Keep(running, Reqs \ {r})
      /\ req' = [req EXCEPT ![r] = [@ EXCEPT !.state = state]]
  BY DEF RemoveFromRunning, Unlinked, HandPcs
<1>2. r \in Reqs /\ Taken(t, r)
  BY <1>1, AtHand DEF LifeInv, Snapshots
<1>3. req[r] \in ReqType /\ Alive(req[r]) /\ req[r].state # "pending"
  BY <1>2 DEF TypeInv, LifeInv, Lives, Taken
<1>4. req'[r] = [req[r] EXCEPT !.state = state] /\ \A x \in Reqs \ {r} : req'[x] = req[x]
  <2> HIDE DEF r
  <2> QED BY <1>1, <1>2, OneChanged
<1>5. /\ req'[r].pipeUsed = req[r].pipeUsed /\ req'[r].handed = req[r].handed
      /\ req'[r].done = req[r].done /\ req'[r].state = state
  BY <1>3, <1>4 DEF ReqType
<1>6. Settled /\ Lives'
  <2> HIDE DEF r
  <2> QED BY <1>2, <1>3, <1>4, <1>5, LivesOne DEF Alive
<1>7. ListStates'
  <2>1. \A x : In(x, running') <=> In(x, running) /\ x \in Reqs \ {r}
    BY <1>1, KeepFacts DEF ListInv, Seqs
  <2>2. ~In(r, pending) /\ ~In(r, batch)
    BY <1>2, <1>3 DEF LifeInv, ListStates
  <2> QED BY <1>4, <2>1, <2>2 DEF LifeInv, ListStates
<1>8. WillBeMarked(t, r)
  BY <1>5 DEF WillBeMarked
<1> HIDE DEF r
<1> QED BY <1>1, <1>6, <1>7, <1>8, SameEntry DEF r, HandPcs

\* The batch that is picked waits.
LEMMA PickLife ==
  ASSUME TypeInv, ListInv, LifeInv, NEW t \in Threads, TryPick(t) PROVE LifeInv'
<1>1. UNCHANGED <<req, running, hand, target>>
  BY DEF TryPick
<1>2. \A x : In(x, pending') \/ In(x, batch') => In(x, pending) \/ In(x, batch)
  <2>1. CASE UNCHANGED <<pending, batch>>
    BY <2>1
  <2>2. CASE batch' = Runnable /\ pending' = StillPending
    <3>1. \A x : In(x, Runnable) => In(x, pending)
      BY RunnableFacts
    <3>2. pending \in Seq(Reqs)
      BY DEF ListInv, Seqs
    <3> HIDE DEF Runnable
    <3>3. \A x : In(x, pending') => In(x, pending)
      BY <2>2, <3>2, KeepFacts DEF StillPending
    <3> QED BY <2>2, <3>1, <3>3
  <2> QED BY <2>1, <2>2 DEF TryPick
<1>3. SameLives
  BY <1>1 DEF SameLives, SameLife
<1>4. Settled /\ Lives' /\ ListStates'
  <2>1. ListStates'
    BY <1>1, <1>2 DEF LifeInv, ListStates
  <2> QED BY <1>3, <2>1, SettledStays, LivesStay DEF LifeInv
<1>5. PICK to \in {"idle", "enqueue"} : Goto(t, to)
  BY DEF TryPick, Finish
<1>6. OneMoves(t) /\ pc'[t] = to
  BY <1>1, <1>5, GotoAlone DEF HandPcs
<1> QED BY <1>1, <1>4, <1>6, LifeStep DEF MovesAlone, HandPcs

\* A request starts to run with all its buffers.
LEMMA EnqueueLife ==
  ASSUME TypeInv, ListInv, LifeInv, NEW t \in Threads, Enqueue(t) PROVE LifeInv'
<1> DEFINE r == Head(batch)
<1>1. /\ pc[t] = "enqueue" /\ UNCHANGED <<pending, hand, target, streaming>>
      /\ running' = Append(running, r) /\ batch' = Tail(batch)
  BY DEF Enqueue, Linked
<1>2. /\ batch \in Seq(Reqs) /\ batch # <<>> /\ running \in Seq(Reqs)
      /\ Single(batch) /\ Single(running)
  BY <1>1 DEF ListInv, Seqs, Batch, OneList
<1>3. /\ r \in Reqs /\ In(r, batch) /\ ~In(r, Tail(batch))
      /\ \A y : In(y, Tail(batch)) => In(y, batch)
  BY <1>2, TailFacts
<1>4. \A y : In(y, Append(running, r)) <=> In(y, running) \/ y = r
  BY <1>2, <1>3, AppendFacts
<1>5. req[r].state = "pending" /\ req[r] \in ReqType /\ Alive(req[r]) /\ ~In(r, pending)
      /\ req[r].pipeUsed # {}
  BY <1>3 DEF LifeInv, ListStates, Lives, TypeInv, ListInv, OneList, Users
<1> DEFINE s == [p \in Pipes |-> IF p \in req[r].pipeUsed THEN NumbersWith(r)[p]
                                                        ELSE req[r].seq[p]]
<1>6. req' = [req EXCEPT ![r] = [@ EXCEPT !.state = "running", !.isQueued = {},
                                          !.handed = Composed(r), !.seq = s]]
  BY DEF Enqueue
<1> HIDE DEF r, s
<1>7. /\ req'[r] = [req[r] EXCEPT !.state = "running", !.isQueued = {},
                                  !.handed = Composed(r), !.seq = s]
      /\ \A x \in Reqs \ {r} : req'[x] = req[x]
  BY <1>3, <1>6, OneChanged
<1>8. /\ req'[r].state = "running" /\ req'[r].handed = Composed(r)
      /\ req'[r].pipeUsed = req[r].pipeUsed /\ req'[r].done = req[r].done
      /\ req'[r].held = req[r].held
  BY <1>5, <1>7 DEF ReqType
<1>9. Alive(req'[r])
  BY <1>5, <1>8 DEF Alive, Composed
<1>10. Settled /\ Lives'
  BY <1>5, <1>7, <1>9 DEF Settled, LifeInv, Lives
<1>11. ListStates'
  <2>1. /\ \A x : In(x, batch') => In(x, batch) /\ x # r
        /\ \A x : In(x, running') => In(x, running) \/ x = r
        /\ pending' = pending
    BY <1>1, <1>3, <1>4
  <2>2. \A x \in Reqs \ {r} : req'[x].state = req[x].state
    BY <1>7
  <2>3. ListStates /\ ~In(r, pending) /\ req'[r].state = "running"
    BY <1>5, <1>8 DEF LifeInv
  <2> SUFFICES ASSUME NEW x \in Reqs
               PROVE  /\ In(x, pending') \/ In(x, batch') => req'[x].state = "pending"
                      /\ In(x, running') => req'[x].state \in {"running", "deleting"}
    BY DEF ListStates
  <2>4. CASE x = r
    BY <2>1, <2>3, <2>4
  <2>5. CASE x # r
    BY <2>1, <2>2, <2>3, <2>5 DEF ListStates
  <2> QED BY <2>4, <2>5
<1>12. PICK to \in {"idle", "enqueue"} : Goto(t, to)
  <2>1. Goto(t, "idle") \/ pc' = pc
    BY DEF Enqueue, Finish
  <2>2. pc' = pc => Goto(t, "enqueue")
    BY <1>1 DEF Goto, TypeInv
  <2> QED BY <2>1, <2>2
<1>13. OneMoves(t) /\ pc'[t] = to
  BY <1>1, <1>12, GotoAlone DEF HandPcs
<1> QED BY <1>1, <1>10, <1>11, <1>13, LifeStep DEF MovesAlone, HandPcs

\* A request is queued with buffers for all its pipes; it never ran.
LEMMA QueueLife ==
  ASSUME TypeInv, ListInv, LifeInv, QueuesFree, NEW r \in Reqs, NEW used \in PipeSets,
         Queue(r, used)
  PROVE  LifeInv'
<1>1. /\ UNCHANGED <<batch, running, hand, target>> /\ Free(r)
      /\ pending' = Append(pending, r) /\ Goto(User, "try") /\ User \in Threads
  BY DEF Queue, Threads, QueuesFree
<1>2. \A y : In(y, pending') <=> In(y, pending) \/ y = r
  BY <1>1, AppendFacts DEF ListInv, Seqs
<1>3. req[r] \in ReqType
  BY DEF TypeInv
<1>4. /\ req'[r] = [req[r] EXCEPT !.state = "pending", !.done = {}, !.pipeUsed = used,
                                  !.armed = used, !.held = used]
      /\ \A x \in Reqs \ {r} : req'[x] = req[x]
  BY OneChanged DEF Queue
<1>5. Alive(req'[r]) /\ req'[r].state = "pending"
  BY <1>3, <1>4 DEF Alive, ReqType
<1>6. Lives'
  BY <1>4, <1>5 DEF LifeInv, Lives
<1>7. ListStates'
  BY <1>1, <1>2, <1>4, <1>5 DEF LifeInv, ListStates, Free
<1>8. /\ pc'[User] = "try" /\ \A u \in Threads : PipeOf(u)' = PipeOf(u) /\ Current(u)' = Current(u)
      /\ \A u \in Threads : pc'[u] \in HandPcs => pc[u] = pc'[u] /\ ~In(r, hand[u])
  BY <1>1 DEF Goto, TypeInv, PipeOf, Current, Free, HandPcs
<1>9. Snapshots'
  BY <1>1, <1>4, <1>8 DEF LifeInv, Snapshots, Taken
<1>10. Marked'
  <2> SUFFICES ASSUME NEW u \in Threads, pc'[u] \in {"claim", "return"}
               PROVE  IsMarked(u, Current(u))'
    BY DEF Marked
  <2>1. pc[u] = pc'[u] /\ pc[u] \in HandPcs /\ ~In(r, hand[u])
    BY <1>8 DEF HandPcs
  <2>2. Current(u) \in Reqs \ {r} /\ IsMarked(u, Current(u))
    BY <2>1, AtHand DEF LifeInv, Marked
  <2> QED BY <1>4, <1>8, <2>2 DEF IsMarked
<1> QED BY <1>6, <1>7, <1>9, <1>10 DEF LifeInv

\* The pending requests lose a pipe and its buffers.
LEMMA StopPendingLife ==
  ASSUME TypeInv, ListInv, LifeInv, StopPending PROVE LifeInv'
<1> DEFINE left == {r \in Reqs : (req[r].pipeUsed \ {target}) \cap streamingPipe # {}}
<1>0. User \in Threads /\ pending \in Seq(Reqs)
  BY DEF Threads, ListInv, Seqs
<1>1. /\ UNCHANGED <<batch, running, jobCount, hand>> /\ Goto(User, "scan")
      /\ pending' = Keep(pending, left)
  BY DEF StopPending
<1> HIDE DEF left
<1>2. \A x : In(x, pending') => In(x, pending)
  BY <1>0, <1>1, KeepFacts
<1>3. ASSUME NEW x \in Reqs
      PROVE  /\ Alive(req'[x]) /\ req'[x].state = req[x].state
             /\ req[x].state # "pending" => req'[x] = req[x]
  <2>1. x \in ToSet(pending) <=> In(x, pending)
    BY <1>0, ToSetIn
  <2>2. req[x] \in ReqType /\ Alive(req[x])
    BY DEF TypeInv, LifeInv, Lives
  <2>5. req'[x] = IF In(x, pending)
                  THEN [req[x] EXCEPT !.pipeUsed = @ \ {target}, !.armed = @ \ {target},
                          !.held = IF target \in req[x].armed THEN @ \ {target} ELSE @]
                  ELSE req[x]
    BY <2>1 DEF StopPending
  <2>3. CASE In(x, pending)
    <3>1. req[x].state = "pending"
      BY <2>3 DEF LifeInv, ListStates
    <3>3. /\ req'[x].state = "pending" /\ req'[x].pipeUsed = req[x].pipeUsed \ {target}
          /\ req'[x].armed = req[x].armed \ {target} /\ req'[x].done = req[x].done
          /\ req'[x].handed = req[x].handed
          /\ req'[x].held = IF target \in req[x].armed THEN req[x].held \ {target} ELSE req[x].held
      BY <2>2, <2>3, <2>5, <3>1 DEF ReqType
    <3> QED BY <2>2, <3>1, <3>3 DEF Alive
  <2>4. CASE ~In(x, pending)
    <3>1. req'[x] = req[x]
      BY <2>4, <2>5
    <3> QED BY <2>2, <3>1
  <2> QED BY <2>3, <2>4
<1>4. Settled /\ Lives'
  BY <1>3 DEF Settled, Lives
<1>5. ListStates'
  BY <1>1, <1>2, <1>3 DEF LifeInv, ListStates
<1>6. OneMoves(User) /\ pc'[User] = "scan"
  BY <1>0, <1>1, GotoAlone DEF HandPcs
<1> QED BY <1>0, <1>4, <1>5, <1>6, LifeStep DEF MovesAlone, HandPcs

\* What is on the running list is no longer pending.
LEMMA RunningRan ==
  ASSUME LifeInv, NEW r \in Reqs, In(r, running) PROVE req[r].state # "pending"
  BY DEF LifeInv, ListStates

\* A thread takes a snapshot of requests of its pipe that run.
LEMMA ScanLife ==
  ASSUME TypeInv, ListInv, LifeInv, NEW t \in Threads, NEW new \in Seq(Reqs),
         hand' = [hand EXCEPT ![t] = new],
         \A x \in Reqs : In(x, new) => In(x, running) /\ PipeOf(t) \in req[x].pipeUsed,
         NEW to \in {"idle", "drain", "mark", "cancel"}, Goto(t, to),
         to \in HandPcs => new # <<>>,
         UNCHANGED <<req, pending, batch, running, target>>
  PROVE  LifeInv'
<1>1. SameLives
  BY DEF SameLives, SameLife
<1>2. Settled /\ Lives' /\ ListStates'
  BY <1>1, SettledStays, LivesStay, StatesStay DEF LifeInv, SameStates
<1>3. OneMoves(t) /\ pc'[t] = to
  BY SnapshotAlone
<1>4. hand'[t] = new
  BY DEF ListInv, Seqs
<1>5. \A r \in Reqs : In(r, hand'[t]) => Taken(t, r)'
  BY <1>4, RunningRan DEF Taken, PipeOf
<1> QED BY <1>2, <1>3, <1>5, LifeStep DEF MovesAlone

\* No request has run to begin with.
LEMMA LifeInvInit == ASSUME Init PROVE LifeInv
<1>1. ListStates
  BY DEF Init, ListStates, In
<1>2. Lives
  BY DEF Init, Lives, Alive
<1>3. Snapshots /\ Marked
  BY DEF Init, Snapshots, Marked, HandPcs
<1> QED BY <1>1, <1>2, <1>3 DEF LifeInv

\* Every step keeps requests as they should be.
LEMMA LifeInvStep ==
  ASSUME QueuesFree, TypeInv, ListInv, LifeInv, [Next]_vars PROVE LifeInv'
<1>a. User \in Threads /\ Pipes \subseteq Threads /\ User \notin Pipes
  BY ConstantsAssumption DEF Threads
<1>b. req' = req => SameLives
  BY DEF SameLives, SameLife
<1>c. ASSUME NEW t \in Threads, NEW to \in {"idle", "try", "on", "halt", "pend", "drain", "scan"},
             Goto(t, to), UNCHANGED <<req, pending, batch, running, hand>>,
             t = User \/ target' = target
      PROVE  LifeInv'
  <2>1. OneMoves(t) /\ pc'[t] = to
    BY <1>c, GotoAlone DEF HandPcs
  <2> QED BY <1>b, <1>c, <2>1, LifeQuiet DEF MovesAlone, HandPcs
<1>1. ASSUME NEW t \in Threads, TryQueue(t) PROVE LifeInv'
  <2>1. CASE EnqueueRejected(t)
    BY <2>1, <1>b, LifeStill DEF EnqueueRejected, lists, threads
  <2> QED BY <1>1, <2>1, PickLife, EnqueueLife DEF TryQueue
<1>2. ASSUME NEW p \in Pipes, StartCtx(p) \/ StopBegin(p) \/ FrameDone(p) PROVE LifeInv'
  <2>1. CASE StartCtx(p)
    BY <2>1, <1>a, <1>c DEF StartCtx
  <2>2. CASE StopBegin(p)
    BY <2>2, <1>a, <1>c DEF StopBegin, lists
  <2>3. CASE FrameDone(p)
    <3>1. PICK r : req' = [req EXCEPT ![r].isQueued = @ \cup {p}]
      BY <2>3 DEF FrameDone
    <3>2. req' = [req EXCEPT ![r] = [@ EXCEPT !.isQueued = req[r].isQueued \cup {p}]]
      BY <3>1
    <3>3. SameLives
      BY <3>2, QueuedBitLife
    <3> QED BY <2>3, <3>3, LifeStill DEF FrameDone, lists
  <2> QED BY <1>2, <2>1, <2>2, <2>3
<1>3. ASSUME NEW p \in Pipes, Work(p) PROVE LifeInv'
  <2>1. CASE WorkStart(p)
    <3>1. /\ Goto(p, "idle") \/ Goto(p, "scan")
          /\ UNCHANGED <<req, pending, batch, running, hand, target>>
      BY <2>1 DEF WorkStart, Finish, lists
    <3> QED BY <3>1, <1>a, <1>c
  <2>2. CASE WorkScan(p)
    <3>1. /\ DoneRequests(p) \in Seq(Reqs) /\ PipeOf(p) = p
          /\ \A x : In(x, DoneRequests(p)) => In(x, running) /\ p \in req[x].pipeUsed
      BY <1>a, DoneRequestsFacts DEF PipeOf
    <3>2. /\ \/ DoneRequests(p) = <<>> /\ Goto(p, "idle")
             \/ DoneRequests(p) # <<>> /\ Goto(p, "mark")
          /\ hand' = [hand EXCEPT ![p] = DoneRequests(p)]
          /\ UNCHANGED <<req, pending, batch, running, target>>
      BY <2>2 DEF WorkScan, Finish, lists
    <3>3. PICK to \in {"idle", "mark"} : Goto(p, to) /\ (to = "mark" => DoneRequests(p) # <<>>)
      BY <3>2
    <3> QED BY <3>1, <3>2, <3>3, <1>a, ScanLife DEF HandPcs
  <2>3. CASE WorkRemove(p)
    BY <2>3, <1>a, RemoveLife DEF WorkRemove
  <2> QED BY <1>3, <1>a, <1>1, <2>1, <2>2, <2>3, ClaimLife, ReturnLife, WorkMarkLife DEF Work
<1>4. ASSUME StopStep PROVE LifeInv'
  <2>1. CASE StopHalt
    BY <2>1, <1>a, <1>c DEF StopHalt, lists
  <2>2. CASE StopScan
    <3> DEFINE users == Keep(running, UsersOf(target))
    <3>1. users \in Seq(Reqs) /\ \A x : In(x, users) => In(x, running) /\ target \in req[x].pipeUsed
      BY KeepFacts DEF ListInv, Seqs, UsersOf
    <3>2. /\ hand' = [hand EXCEPT ![User] = users]
          /\ Goto(User, IF users = <<>> THEN "drain" ELSE "cancel")
          /\ UNCHANGED <<req, pending, batch, running, target>>
      BY <2>2 DEF StopScan, lists
    <3> HIDE DEF users
    <3>3. PICK to \in {"drain", "cancel"} : Goto(User, to) /\ (to = "cancel" => users # <<>>)
      BY <3>2
    <3>4. PipeOf(User) = target
      BY DEF PipeOf
    <3> QED BY <3>1, <3>2, <3>3, <3>4, <1>a, ScanLife DEF HandPcs
  <2>3. CASE StopCancel
    <3>1. PICK r : req' = [req EXCEPT ![r].isQueued = @ \cup {target}]
      BY <2>3 DEF StopCancel
    <3>2. req' = [req EXCEPT ![r] = [@ EXCEPT !.isQueued = req[r].isQueued \cup {target}]]
      BY <3>1
    <3>3. SameLives
      BY <3>2, QueuedBitLife
    <3>4. /\ pc[User] = "cancel" /\ Goto(User, "mark")
          /\ UNCHANGED <<pending, batch, running, hand, target>>
      BY <2>3 DEF StopCancel, lists
    <3>5. OneMoves(User) /\ pc'[User] = "mark"
      BY <3>4, <1>a, GotoAlone DEF HandPcs
    <3> QED BY <3>3, <3>4, <3>5, <1>a, LifeQuiet DEF MovesAlone, HandPcs
  <2>4. CASE StopRemove
    BY <2>4, <1>a, RemoveLife DEF StopRemove
  <2>5. CASE StopDrain
    BY <2>5, <1>a, <1>c DEF StopDrain, lists
  <2> QED BY <1>4, <1>a, <2>1, <2>2, <2>3, <2>4, <2>5, ClaimLife, ReturnLife, StopMarkLife,
             StopPendingLife DEF StopStep
<1>5. CASE StreamOn
  BY <1>5, <1>a, <1>c DEF StreamOn, lists
<1>6. CASE UNCHANGED vars
  BY <1>6, <1>b, LifeStill DEF vars, lists, threads
<1> QED BY <1>a, <1>1, <1>2, <1>3, <1>4, <1>5, <1>6, QueueLife DEF Next, UserStep


-----------------------------------------------------------------------------
(* Streams and their done works.                                           *)

QueueTypes ==
  /\ doneWq \in [Pipes -> Seq(Reqs)]
  /\ deq \in [Pipes -> Nat] /\ dequeued \in [Pipes -> BOOLEAN]
CallTypes ==
  /\ streamingPipe \subseteq Pipes /\ started \subseteq Pipes /\ warned \in BOOLEAN
  /\ nQueue \in Nat /\ nStart \in [Pipes -> Nat]

\* Only a started context has works, and a worker that is not idle has the one
\* it executes.
Works ==
  \A p \in Pipes : /\ doneWq[p] # <<>> => p \in started
                   /\ pc[p] # "idle" => doneWq[p] # <<>>

\* What streams is started, and what is being stopped does not stream.
StopPcs == HandPcs \cup {"halt", "pend", "scan", "drain"}
Streams ==
  /\ streaming \subseteq started /\ streamingPipe \subseteq started
  /\ pc[User] \in StopPcs \cup {"on"} => target \in started
  /\ pc[User] \in StopPcs \ {"halt"} => target \notin streamingPipe
  /\ pc[User] \in StopPcs => target \notin streaming

StreamInv == QueueTypes /\ CallTypes /\ Works /\ Streams

\* A thread that is inside a call or a work goes on with it or ends it.
Acts(t) ==
  /\ t = User \/ (pc[t] # "idle" \/ doneWq[t] # <<>>)
  /\ \/ Finish(t)
     \/ /\ (\E to : Goto(t, to)) \/ pc' = pc
        /\ doneWq' = doneWq /\ deq' \in [Pipes -> Nat] /\ dequeued' \in [Pipes -> BOOLEAN]

\* It drops at most the work it executes.
LEMMA ActsWorks ==
  ASSUME TypeInv, StreamInv, NEW t \in Threads, Acts(t), started' = started
  PROVE  QueueTypes' /\ Works'
<1>1. t = User \/ (t \in Pipes /\ t # User /\ doneWq[t] # <<>>)
  BY ConstantsAssumption DEF Acts, Threads, StreamInv, Works
<1>2. User \notin Pipes /\ \A p \in Pipes : p \in Threads
  BY ConstantsAssumption DEF Threads
<1>3. CASE Finish(t) /\ t = User
  <2>1. doneWq' = doneWq /\ deq' = deq /\ dequeued' = dequeued
    BY <1>3 DEF Finish, FinishedWq, FinishedDeq, FinishedCnt
  <2>2. \A p \in Pipes : pc'[p] = pc[p]
    BY <1>2, <1>3 DEF Finish, Goto, TypeInv
  <2> QED BY <2>1, <2>2 DEF StreamInv, QueueTypes, Works
<1>4. CASE Finish(t) /\ t \in Pipes /\ t # User /\ doneWq[t] # <<>>
  <2>1. /\ doneWq' = [doneWq EXCEPT ![t] = Tail(doneWq[t])]
        /\ deq' = [deq EXCEPT ![t] = 0] /\ dequeued' = [dequeued EXCEPT ![t] = FALSE]
        /\ pc' = [pc EXCEPT ![t] = "idle"]
    BY <1>4 DEF Finish, FinishedWq, FinishedDeq, FinishedCnt, Goto
  <2>2. doneWq[t] \in Seq(Reqs)
    BY <1>4 DEF StreamInv, QueueTypes
  <2>3. Tail(doneWq[t]) \in Seq(Reqs)
    BY <1>4, <2>2
  <2>4. QueueTypes'
    BY <1>4, <2>1, <2>3 DEF StreamInv, QueueTypes
  <2>5. pc'[t] = "idle" /\ t \in started
    BY <1>2, <1>4, <2>1 DEF TypeInv, StreamInv, Works
  <2>6. \A p \in Pipes \ {t} : pc'[p] = pc[p] /\ doneWq'[p] = doneWq[p]
    BY <1>2, <2>1 DEF TypeInv, StreamInv, QueueTypes
  <2> QED BY <2>4, <2>5, <2>6 DEF StreamInv, Works
<1>5. CASE ~Finish(t)
  <2>1. doneWq' = doneWq /\ deq' \in [Pipes -> Nat] /\ dequeued' \in [Pipes -> BOOLEAN]
    BY <1>5 DEF Acts
  <2>2. \A p \in Pipes \ {t} : pc'[p] = pc[p]
    BY <1>2, <1>5 DEF Acts, Goto, TypeInv
  <2>3. t \in Pipes => doneWq[t] # <<>>
    BY <1>1, <1>2
  <2> QED BY <2>1, <2>2, <2>3 DEF StreamInv, QueueTypes, Works
<1> QED BY <1>1, <1>3, <1>4, <1>5

\* A worker leaves the calls of user space where they are.
LEMMA StreamsStay ==
  ASSUME Streams, UNCHANGED <<streaming, streamingPipe, started, target>>,
         \/ pc'[User] = pc[User]
         \/ pc'[User] \notin StopPcs \cup {"on"}
         \/ pc[User] \in StopPcs \ {"halt"} /\ pc'[User] \in StopPcs \ {"halt"}
  PROVE  Streams'
  BY DEF Streams, StopPcs, HandPcs

LEMMA ActsStream ==
  ASSUME TypeInv, StreamInv, NEW t \in Threads, Acts(t), warned' \in BOOLEAN,
         UNCHANGED <<streamingPipe, streaming, started, target, bounds>>,
         \/ t # User
         \/ pc'[t] \notin StopPcs \cup {"on"}
         \/ pc[t] \in StopPcs \ {"halt"} /\ pc'[t] \in StopPcs \ {"halt"}
         \/ pc' = pc
  PROVE  StreamInv'
<1>1. QueueTypes' /\ Works'
  BY ActsWorks
<1>2. CallTypes'
  BY DEF StreamInv, CallTypes, bounds
<1>3. t # User => pc'[User] = pc[User]
  BY DEF Acts, Finish, Goto, TypeInv, Threads
<1>4. Streams'
  BY <1>3, StreamsStay DEF StreamInv
<1> QED BY <1>1, <1>2, <1>4 DEF StreamInv

\* A thread that goes on to the next entry of its snapshot.
LEMMA NextActs ==
  ASSUME TypeInv, StreamInv, NEW t \in Threads, pc[t] \in HandPcs, NextInHand(t)
  PROVE  Acts(t) /\ (t = User => pc'[t] \in {"cancel", "drain"})
<1>1. pc[t] # "idle"
  BY DEF HandPcs
<1>2. t = User => pc'[t] \in {"cancel", "drain"}
  BY NextPc
<1>3. Finish(t) \/ ((\E to : Goto(t, to)) /\ UNCHANGED <<doneWq, deq, dequeued>>)
  BY DEF NextInHand
<1> QED BY <1>1, <1>2, <1>3 DEF Acts, StreamInv, QueueTypes

\* Works are queued for running requests of the pipe.
LEMMA FrameOwnerRuns ==
  ASSUME ListInv, LifeInv, TypeInv, NEW p \in Pipes, NEW d \in ToSet(running), p \in req[d].handed
  PROVE  FrameOwner(p, req[d].seq[p]) \in Reqs
<1> DEFINE mine == Keep(running, {r \in Reqs : p \in req[r].pipeUsed /\ req[r].seq[p] = req[d].seq[p]})
<1>1. running \in Seq(Reqs)
  BY DEF ListInv, Seqs
<1>2. In(d, running) /\ d \in Reqs
  <2>1. In(d, running)
    BY <1>1, ToSetIn
  <2> QED BY <1>1, <2>1 DEF In
<1>3. p \in req[d].pipeUsed
  BY <1>2 DEF LifeInv, Lives, Alive, ListStates
<1>4. mine \in Seq(Reqs) /\ In(d, mine)
  BY <1>1, <1>2, <1>3, KeepFacts
<1>5. FrameOwner(p, req[d].seq[p]) = mine[1]
  BY DEF FrameOwner
<1> HIDE DEF mine
<1>6. Len(mine) \in Nat /\ 1 \in 1 .. Len(mine)
  BY <1>4 DEF In
<1> QED BY <1>4, <1>5, <1>6

\* Picking a batch and enqueueing its requests.
LEMMA TryStream ==
  ASSUME TypeInv, StreamInv, NEW t \in Threads, TryQueue(t) PROVE StreamInv'
<1>1. pc[t] \in {"try", "enqueue"}
  BY DEF TryQueue, TryPick, Enqueue, EnqueueRejected
<1>2. \/ Finish(t)
      \/ (Goto(t, "enqueue") \/ pc' = pc) /\ UNCHANGED <<doneWq, deq, dequeued>>
  BY DEF TryQueue, TryPick, Enqueue, EnqueueRejected, threads
<1>3. UNCHANGED <<streamingPipe, streaming, started, target, bounds>>
  BY DEF TryQueue, TryPick, Enqueue, EnqueueRejected, streams, threads
<1>4. warned' \in BOOLEAN
  BY DEF TryQueue, TryPick, Enqueue, EnqueueRejected, StreamInv, CallTypes
<1>5. Acts(t)
  BY <1>1, <1>2 DEF Acts, StreamInv, QueueTypes
<1>6. pc'[t] \in {"idle", "enqueue"} \/ pc' = pc
  BY <1>2 DEF Finish, Goto, TypeInv
<1> QED BY <1>3, <1>4, <1>5, <1>6, ActsStream DEF StopPcs, HandPcs

\* Taking one's hands off a request and going on to the next.
LEMMA WalkStream ==
  ASSUME TypeInv, StreamInv, NEW t \in Threads, Claim(t) \/ Return(t) PROVE StreamInv'
<1>1. pc[t] \in {"claim", "return"} /\ UNCHANGED <<streams, target, warned, bounds>>
  BY DEF Claim, Return
<1>2. NextInHand(t) \/ (Goto(t, "return") /\ UNCHANGED <<doneWq, deq, dequeued>>)
  BY DEF Claim, Return
<1>3. CASE NextInHand(t)
  BY <1>1, <1>3, NextActs, ActsStream DEF StopPcs, HandPcs, streams, StreamInv, CallTypes
<1>4. CASE Goto(t, "return") /\ UNCHANGED <<doneWq, deq, dequeued>>
  <2>1. Acts(t) /\ pc'[t] = "return"
    BY <1>1, <1>4 DEF Acts, StreamInv, QueueTypes, Goto, TypeInv
  <2> QED BY <1>1, <2>1, ActsStream DEF StopPcs, HandPcs, streams, StreamInv, CallTypes
<1> QED BY <1>2, <1>3, <1>4

\* The steps of a frame-done work.
LEMMA WorkStream ==
  ASSUME TypeInv, StreamInv, NEW p \in Pipes, Work(p) PROVE StreamInv'
<1>a. p \in Threads /\ p # User
  BY ConstantsAssumption DEF Threads
<1>b. ASSUME pc[p] # "idle" \/ doneWq[p] # <<>>, UNCHANGED <<streams, target, warned, bounds>>,
             \/ Finish(p)
             \/ /\ \E to : Goto(p, to)
                /\ doneWq' = doneWq /\ deq' \in [Pipes -> Nat] /\ dequeued' \in [Pipes -> BOOLEAN]
      PROVE  StreamInv'
  <2>1. Acts(p)
    BY <1>b DEF Acts
  <2> QED BY <1>a, <1>b, <2>1, ActsStream DEF streams, StreamInv, CallTypes
<1>c. deq \in [Pipes -> Nat] /\ dequeued \in [Pipes -> BOOLEAN]
  BY DEF StreamInv, QueueTypes
<1>1. CASE WorkStart(p)
  <2>1. CASE Finish(p)
    BY <1>1, <2>1, <1>b DEF WorkStart
  <2>2. CASE ~Finish(p)
    <3>1. /\ Goto(p, "scan") /\ UNCHANGED <<doneWq, dequeued, streams, target, warned, bounds>>
          /\ deq' = [deq EXCEPT ![p] = req[Head(doneWq[p])].seq[p]] /\ doneWq[p] # <<>>
      BY <1>1, <2>2 DEF WorkStart
    <3>2. Head(doneWq[p]) \in Reqs
      BY <3>1, TailFacts DEF StreamInv, QueueTypes
    <3>3. req[Head(doneWq[p])].seq[p] \in Nat
      BY <3>2 DEF TypeInv, ReqType
    <3>4. deq' \in [Pipes -> Nat]
      BY <3>1, <3>3, <1>c
    <3> QED BY <3>1, <3>4, <1>b, <1>c
  <2> QED BY <2>1, <2>2
<1>2. CASE WorkScan(p)
  BY <1>2, <1>b, <1>c DEF WorkScan
<1>3. CASE WorkMark(p)
  <2>1. pc[p] = "mark" /\ UNCHANGED <<streams, target, warned, bounds>>
    BY <1>3 DEF WorkMark
  <2>2. CASE NextInHand(p)
    BY <2>1, <2>2, <1>a, NextActs, ActsStream DEF HandPcs, streams, StreamInv, CallTypes
  <2>3. CASE (\E to : Goto(p, to)) /\ UNCHANGED <<doneWq, deq, dequeued>>
    BY <2>1, <2>3, <1>b, <1>c
  <2> QED BY <1>3, <2>2, <2>3 DEF WorkMark
<1>4. CASE WorkRemove(p)
  <2>1. dequeued' \in [Pipes -> BOOLEAN]
    BY <1>4, <1>c DEF WorkRemove
  <2> QED BY <1>4, <2>1, <1>b, <1>c DEF WorkRemove, RemoveFromRunning
<1> QED BY <1>1, <1>2, <1>3, <1>4, <1>a, TryStream, WalkStream DEF Work

\* The interrupt queues the work of a frame on a stream that is started.
LEMMA FrameDoneStream ==
  ASSUME TypeInv, ListInv, LifeInv, StreamInv, NEW p \in Pipes, FrameDone(p) PROVE StreamInv'
<1>1. p \in started
  BY DEF FrameDone, StreamInv, Streams, StopPcs
<1>2. PICK r \in Reqs : doneWq' = [doneWq EXCEPT ![p] = Append(@, r)]
  <2>1. PICK d \in ToSet(running) :
          /\ p \in req[d].handed
          /\ doneWq' = [doneWq EXCEPT ![p] = Append(@, FrameOwner(p, req[d].seq[p]))]
    BY DEF FrameDone
  <2> QED BY <2>1, FrameOwnerRuns
<1>3. UNCHANGED <<streams, pc, deq, dequeued, target, warned, bounds>>
  BY DEF FrameDone
<1>4. doneWq[p] \in Seq(Reqs)
  BY DEF StreamInv, QueueTypes
<1>5. Append(doneWq[p], r) \in Seq(Reqs) /\ Append(doneWq[p], r) # <<>>
  BY <1>4
<1>6. QueueTypes'
  BY <1>2, <1>3, <1>5 DEF StreamInv, QueueTypes
<1>7. Works'
  <2>1. \A x \in Pipes \ {p} : doneWq'[x] = doneWq[x]
    BY <1>2 DEF StreamInv, QueueTypes
  <2>2. doneWq'[p] # <<>>
    BY <1>2, <1>5 DEF StreamInv, QueueTypes
  <2> QED BY <1>1, <1>3, <2>1, <2>2 DEF StreamInv, Works, streams
<1>8. CallTypes' /\ Streams'
  BY <1>3 DEF StreamInv, CallTypes, Streams, streams, bounds
<1> QED BY <1>6, <1>7, <1>8 DEF StreamInv

\* Starting and stopping a stream.
LEMMA StartStream ==
  ASSUME TypeInv, StreamInv, NEW p \in Pipes, StartCtx(p) \/ StopBegin(p) PROVE StreamInv'
<1>a. \A x \in Pipes : x # User /\ x \in Threads
  BY ConstantsAssumption DEF Threads
<1>1. CASE StartCtx(p)
  <2>1. QueueTypes'
    BY <1>1 DEF StartCtx, StreamInv, QueueTypes
  <2>2. CallTypes'
    BY <1>1 DEF StartCtx, StreamInv, CallTypes
  <2>3. Works'
    BY <1>1, <1>a DEF StartCtx, StreamInv, Works, Goto, TypeInv
  <2>4. Streams'
    <3>1. pc'[User] = "on"
      BY <1>1 DEF StartCtx, Goto, TypeInv, Threads
    <3> QED BY <1>1, <3>1 DEF StartCtx, StreamInv, Streams, StopPcs, HandPcs
  <2> QED BY <2>1, <2>2, <2>3, <2>4 DEF StreamInv
<1>2. CASE StopBegin(p)
  <2>1. QueueTypes' /\ CallTypes'
    BY <1>2 DEF StopBegin, StreamInv, QueueTypes, CallTypes, bounds
  <2>3. Works'
    BY <1>2, <1>a DEF StopBegin, StreamInv, Works, Goto, TypeInv
  <2>4. Streams'
    <3>1. pc'[User] = "halt"
      BY <1>2 DEF StopBegin, Goto, TypeInv, Threads
    <3> QED BY <1>2, <3>1 DEF StopBegin, StreamInv, Streams, StopPcs, HandPcs
  <2> QED BY <2>1, <2>3, <2>4 DEF StreamInv
<1> QED BY <1>1, <1>2

\* The cleanup cancels the work of a request, never the one that executes.
LEMMA StopCancelStream ==
  ASSUME TypeInv, ListInv, StreamInv, StopCancel PROVE StreamInv'
<1> DEFINE r == Current(User)
           left == Keep(doneWq[target], Reqs \ {r})
<1>a. \A x \in Pipes : x # User /\ x \in Threads
  BY ConstantsAssumption DEF Threads
<1>1. /\ pc[User] = "cancel" /\ Goto(User, "mark") /\ target \in Pipes
      /\ UNCHANGED <<streams, deq, dequeued, target, warned, bounds>>
  BY DEF StopCancel, TypeInv
<1>2. doneWq[target] \in Seq(Reqs)
  BY <1>1 DEF StreamInv, QueueTypes
<1>3. /\ left \in Seq(Reqs)
      /\ \A x : In(x, left) <=> In(x, doneWq[target]) /\ x \in Reqs \ {r}
  BY <1>2, KeepFacts
<1>4. \/ doneWq' = doneWq
      \/ /\ doneWq' = [doneWq EXCEPT ![target] = left]
         /\ pc[target] # "idle" => Head(doneWq[target]) # r
  BY DEF StopCancel, Executing, StreamInv, QueueTypes
<1>5. doneWq[target] # <<>> /\ Head(doneWq[target]) # r => left # <<>>
  <2> SUFFICES ASSUME doneWq[target] # <<>>, Head(doneWq[target]) # r PROVE left # <<>>
    OBVIOUS
  <2>1. In(Head(doneWq[target]), doneWq[target]) /\ Head(doneWq[target]) \in Reqs
    BY <1>2, TailFacts
  <2>2. In(Head(doneWq[target]), left)
    BY <1>3, <2>1
  <2> HIDE DEF left
  <2> QED BY <2>2 DEF In
<1>6. left # <<>> => doneWq[target] # <<>>
  <2> SUFFICES ASSUME left # <<>> PROVE doneWq[target] # <<>>
    OBVIOUS
  <2> HIDE DEF left
  <2>1. In(Head(left), left)
    BY <1>3, TailFacts
  <2>2. In(Head(left), doneWq[target])
    BY <1>3, <2>1
  <2> QED BY <1>2, <2>2 DEF In
<1> HIDE DEF left, r
<1>7. QueueTypes'
  BY <1>1, <1>3, <1>4 DEF StreamInv, QueueTypes
<1>8. Works'
  <2>1. \A x \in Pipes : pc'[x] = pc[x]
    BY <1>1, <1>a DEF Goto, TypeInv
  <2>2. \A x \in Pipes \ {target} : doneWq'[x] = doneWq[x]
    BY <1>4 DEF StreamInv, QueueTypes
  <2>3. doneWq'[target] = doneWq[target] \/
          (doneWq'[target] = left /\ (pc[target] # "idle" => Head(doneWq[target]) # r))
    BY <1>1, <1>4 DEF StreamInv, QueueTypes
  <2>4. /\ doneWq'[target] # <<>> => target \in started
        /\ pc[target] # "idle" => doneWq'[target] # <<>>
    BY <1>1, <1>5, <1>6, <2>3 DEF StreamInv, Works
  <2> QED BY <1>1, <2>1, <2>2, <2>4 DEF StreamInv, Works, streams
<1>9. pc'[User] = "mark"
  BY <1>1 DEF Goto, TypeInv, Threads
<1>10. CallTypes' /\ Streams'
  BY <1>1, <1>9 DEF StreamInv, CallTypes, Streams, streams, bounds, StopPcs, HandPcs
<1> QED BY <1>7, <1>8, <1>10 DEF StreamInv

\* The stop ends when the workqueue of the stream is empty.
LEMMA StopDrainStream ==
  ASSUME TypeInv, StreamInv, StopDrain PROVE StreamInv'
<1>a. \A x \in Pipes : x # User /\ x \in Threads
  BY ConstantsAssumption DEF Threads
<1>1. /\ pc[User] = "drain" /\ doneWq[target] = <<>> /\ started' = started \ {target}
      /\ Goto(User, "idle") /\ warned' \in BOOLEAN
      /\ UNCHANGED <<streamingPipe, streaming, doneWq, deq, dequeued, target, bounds>>
  BY DEF StopDrain
<1>2. QueueTypes' /\ CallTypes'
  BY <1>1 DEF StreamInv, QueueTypes, CallTypes, bounds
<1>3. \A x \in Pipes : pc'[x] = pc[x]
  BY <1>1, <1>a DEF Goto, TypeInv
<1>4. Works'
  BY <1>1, <1>3 DEF StreamInv, Works
<1>5. Streams'
  <2>1. pc'[User] = "idle"
    BY <1>1 DEF Goto, TypeInv, Threads
  <2> QED BY <1>1, <2>1 DEF StreamInv, Streams, StopPcs, HandPcs
<1> QED BY <1>2, <1>4, <1>5 DEF StreamInv

\* Nothing is started to begin with.
LEMMA StreamInvInit == ASSUME Init PROVE StreamInv
<1>1. QueueTypes
  BY DEF Init, QueueTypes
<1>4. CallTypes
  BY DEF Init, CallTypes
<1>2. Works
  BY DEF Init, Works, Threads
<1>3. Streams
  BY DEF Init, Streams, StopPcs, HandPcs, Threads
<1> QED BY <1>1, <1>2, <1>3, <1>4 DEF StreamInv

\* The steps of the user thread that concern no work and no context.
LEMMA UserStream ==
  ASSUME TypeInv, StreamInv,
         \/ StreamOn \/ StopHalt \/ StopPending \/ StopScan \/ StopMark \/ StopRemove
         \/ \E r \in Reqs, used \in PipeSets : Queue(r, used)
  PROVE  StreamInv'
<1>a. User \in Threads
  BY DEF Threads
<1>b. ASSUME NEW to, Goto(User, to), UNCHANGED <<doneWq, deq, dequeued, started>>
      PROVE  pc'[User] = to /\ QueueTypes' /\ Works'
  <2>1. Acts(User)
    BY <1>b DEF Acts, StreamInv, QueueTypes
  <2> QED BY <1>a, <1>b, <2>1, ActsWorks DEF Goto, TypeInv
<1>1. CASE StreamOn
  <2>1. /\ pc[User] = "on" /\ Goto(User, "try") /\ streaming' = streaming \cup {target}
        /\ UNCHANGED <<streamingPipe, started, doneWq, deq, dequeued, target, warned, bounds>>
    BY <1>1 DEF StreamOn
  <2>2. pc'[User] = "try" /\ QueueTypes' /\ Works'
    BY <2>1, <1>b
  <2>3. Streams' /\ CallTypes'
    BY <2>1, <2>2 DEF StreamInv, Streams, CallTypes, StopPcs, HandPcs, bounds
  <2> QED BY <2>2, <2>3 DEF StreamInv
<1>2. CASE StopHalt
  <2>1. /\ pc[User] = "halt" /\ Goto(User, "pend") /\ streamingPipe' = streamingPipe \ {target}
        /\ UNCHANGED <<streaming, started, doneWq, deq, dequeued, target, warned, bounds>>
    BY <1>2 DEF StopHalt
  <2>2. pc'[User] = "pend" /\ QueueTypes' /\ Works'
    BY <2>1, <1>b
  <2>3. Streams' /\ CallTypes'
    BY <2>1, <2>2 DEF StreamInv, Streams, CallTypes, StopPcs, HandPcs, bounds
  <2> QED BY <2>2, <2>3 DEF StreamInv
<1>3. CASE StopPending \/ StopScan \/ StopMark \/ StopRemove
  <2>1. /\ pc[User] \in StopPcs \ {"halt"}
        /\ \E to \in StopPcs \ {"halt"} : Goto(User, to)
    BY <1>3 DEF StopPending, StopScan, StopMark, StopRemove, RemoveFromRunning, StopPcs, HandPcs
  <2>2. UNCHANGED <<streams, doneWq, deq, dequeued, target, warned, bounds>>
    BY <1>3 DEF StopPending, StopScan, StopMark, StopRemove, RemoveFromRunning
  <2>3. Acts(User) /\ pc'[User] \in StopPcs \ {"halt"}
    BY <1>a, <2>1, <2>2 DEF Acts, StreamInv, QueueTypes, Goto, TypeInv
  <2> QED BY <1>a, <2>1, <2>2, <2>3, ActsStream DEF streams, StreamInv, CallTypes
<1>4. CASE \E r \in Reqs, used \in PipeSets : Queue(r, used)
  <2>1. /\ Goto(User, "try") /\ nQueue' = nQueue + 1
        /\ UNCHANGED <<streams, doneWq, deq, dequeued, target, warned, nStart>>
    BY <1>4 DEF Queue
  <2>2. pc'[User] = "try" /\ QueueTypes' /\ Works'
    BY <2>1, <1>b DEF streams
  <2>3. Streams' /\ CallTypes'
    BY <2>1, <2>2 DEF StreamInv, Streams, CallTypes, StopPcs, HandPcs, streams
  <2> QED BY <2>2, <2>3 DEF StreamInv
<1> QED BY <1>1, <1>2, <1>3, <1>4

\* Every step keeps streams and works together.
LEMMA StreamInvStep ==
  ASSUME TypeInv, ListInv, LifeInv, StreamInv, [Next]_vars PROVE StreamInv'
<1>a. User \in Threads
  BY DEF Threads
<1>1. CASE UNCHANGED vars
  <2>1. UNCHANGED <<doneWq, deq, dequeued, streamingPipe, streaming, started, pc, target, warned,
                    nQueue, nStart>>
    BY <1>1 DEF vars, streams, threads, bounds
  <2> QED BY <2>1 DEF StreamInv, QueueTypes, CallTypes, Works, Streams
<1>2. CASE Next
  <2>1. ASSUME NEW p \in Pipes, StartCtx(p) \/ StopBegin(p) \/ FrameDone(p) \/ Work(p)
        PROVE  StreamInv'
    BY <2>1, StartStream, FrameDoneStream, WorkStream
  <2>2. ASSUME UserStep PROVE StreamInv'
    BY <2>2, <1>a, UserStream, TryStream, WalkStream, StopCancelStream, StopDrainStream
       DEF UserStep, StopStep
  <2> QED BY <1>2, <2>1, <2>2, UserStream DEF Next
<1> QED BY <1>1, <1>2


-----------------------------------------------------------------------------
(* How many requests run.                                                  *)

Entries(q) == {q[i] : i \in 1 .. Len(q)}

\* A list without duplicates is as long as it has entries.
LEMMA EntriesCount ==
  ASSUME NEW R, NEW q \in Seq(R), Single(q)
  PROVE  IsFiniteSet(Entries(q)) /\ Cardinality(Entries(q)) = Len(q)
<1>1. Len(q) \in Nat /\ q \in [1 .. Len(q) -> Entries(q)]
  BY DEF Entries
<1>2. q \in Injection(1 .. Len(q), Entries(q))
  BY <1>1 DEF Single, Injection, IsInjective
<1>3. q \in Surjection(1 .. Len(q), Entries(q))
  BY <1>1 DEF Surjection, Entries
<1>4. ExistsBijection(1 .. Len(q), Entries(q))
  BY <1>2, <1>3 DEF ExistsBijection, Bijection
<1>5. IsFiniteSet(Entries(q))
  BY <1>1, <1>4, FS_NatBijection
<1> QED BY <1>1, <1>4, <1>5, FS_CountingElements

\* Unlinking an entry makes the list one shorter.
LEMMA UnlinkedLength ==
  ASSUME NEW q \in Seq(Reqs), Single(q), NEW r \in Reqs, In(r, q)
  PROVE  Len(Keep(q, Reqs \ {r})) = Len(q) - 1
<1> DEFINE left == Keep(q, Reqs \ {r})
<1>1. /\ left \in Seq(Reqs) /\ Single(left)
      /\ \A x : In(x, left) <=> In(x, q) /\ x \in Reqs \ {r}
  BY KeepFacts
<1> HIDE DEF left
<1>2. \A x : In(x, q) => x \in Reqs
  BY DEF In
<1>3. /\ \A x : x \in Entries(q) <=> In(x, q)
      /\ \A x : x \in Entries(left) <=> In(x, left)
  BY DEF Entries, In
<1>4. Entries(left) = Entries(q) \ {r} /\ r \in Entries(q)
  BY <1>1, <1>2, <1>3
<1>5. IsFiniteSet(Entries(q)) /\ Cardinality(Entries(q)) = Len(q)
  BY EntriesCount
<1>6. Cardinality(Entries(left)) = Len(left)
  BY <1>1, EntriesCount
<1>7. Cardinality(Entries(left)) = Cardinality(Entries(q)) - 1
  BY <1>4, <1>5, FS_RemoveElement
<1> QED BY <1>5, <1>6, <1>7 DEF left

\* A request that is on its way off the list is unlinked by some thread.
Deleters ==
  \A r \in Reqs : In(r, running) /\ req[r].state = "deleting" =>
    \E t \in Threads : pc[t] = "remove" /\ Current(t) = r

\* Its worker still owes vb2 the buffers, or the cleanup that stops the worker's
\* pipe took them over.
Covered(p) ==
  p \in req[Current(p)].held \/ (target = p /\ pc[User] \in HandPcs \cup {"drain"})
WillBeCovered(p) ==
  p \in req'[Current(p)].held \/ (target' = p /\ pc'[User] \in HandPcs \cup {"drain"})
Owed == \A p \in Pipes : pc[p] = "remove" => Covered(p)

\* Whose buffers are held by a request that runs is started, unless a stream
\* was stopped with buffers left behind.
HeldStarted ==
  warned \/ \A r \in Reqs : In(r, batch) \/ In(r, running) => req[r].held \subseteq started

JobInv == JobsWithinLimit /\ Deleters /\ Owed /\ HeldStarted

\* Requests on their way stay so when no thread gives up an unlinking.
LEMMA DeletersStay ==
  ASSUME Deleters, NEW t \in Threads, OneMoves(t), pc[t] # "remove",
         \A r \in Reqs : In(r, running') /\ req'[r].state = "deleting" =>
           \/ In(r, running) /\ req[r].state = "deleting"
           \/ pc'[t] = "remove" /\ hand'[t] = hand[t] /\ Current(t) = r
  PROVE  Deleters'
<1>1. ASSUME NEW u \in Threads, hand'[u] = hand[u] PROVE Current(u)' = Current(u)
  BY <1>1 DEF Current
<1>2. \A u \in Threads : pc[u] = "remove" => pc'[u] = "remove" /\ Current(u)' = Current(u)
  BY <1>1 DEF OneMoves
<1> QED BY <1>1, <1>2 DEF Deleters

\* What a worker owes is still covered after the step of another thread.
LEMMA OwedStay ==
  ASSUME Owed, NEW t \in Threads, OneMoves(t),
         \A p \in Pipes \ {t} : pc[p] = "remove" /\ Covered(p) => WillBeCovered(p),
         t \in Pipes /\ pc'[t] = "remove" => hand'[t] = hand[t] /\ WillBeCovered(t)
  PROVE  Owed'
<1>1. \A p \in Pipes : p \in Threads
  BY DEF Threads
<1>2. \A p \in Pipes : pc'[p] = "remove" => hand'[p] = hand[p] /\ WillBeCovered(p)
  BY <1>1 DEF Owed, OneMoves
<1>3. ASSUME NEW p \in Pipes, hand'[p] = hand[p], WillBeCovered(p) PROVE Covered(p)'
  <2>1. Current(p)' = Current(p)
    BY <1>3 DEF Current
  <2> QED BY <1>3, <2>1 DEF Covered, WillBeCovered
<1> QED BY <1>2, <1>3 DEF Owed

\* Buffers do not come back to a request that runs.
LEMMA HeldStay ==
  ASSUME HeldStarted, warned => warned', started \subseteq started',
         \A r \in Reqs : In(r, batch') \/ In(r, running') =>
           (In(r, batch) \/ In(r, running)) /\ req'[r].held \subseteq req[r].held
  PROVE  HeldStarted'
  BY DEF HeldStarted

SameJobs == \A r \in Reqs : req'[r].state = req[r].state /\ req'[r].held = req[r].held

\* A step of thread t that leaves the lists and the buffers alone.
LEMMA JobQuiet ==
  ASSUME ListInv, JobInv, SameJobs, UNCHANGED <<batch, running, jobCount>>,
         warned => warned', started \subseteq started',
         NEW t \in Threads, OneMoves(t), pc[t] # "remove", pc'[t] # "remove",
         pc[User] \in HandPcs \cup {"drain"} =>
           target' = target /\ pc'[User] \in HandPcs \cup {"drain"}
  PROVE  JobInv'
<1>1. JobsWithinLimit'
  BY DEF JobInv, JobsWithinLimit
<1>2. Deleters'
  BY DeletersStay DEF JobInv, SameJobs
<1>3. Owed'
  <2>1. ASSUME NEW p \in Pipes \ {t}, pc[p] = "remove", Covered(p) PROVE WillBeCovered(p)
    <3>1. Current(p) \in Reqs
      BY <2>1, AtHand DEF HandPcs, Threads
    <3> QED BY <2>1, <3>1 DEF Covered, WillBeCovered, SameJobs
  <2> QED BY <2>1, OwedStay DEF JobInv
<1>4. HeldStarted'
  BY HeldStay DEF JobInv, SameJobs
<1> QED BY <1>1, <1>2, <1>3, <1>4 DEF JobInv

\* So is one in which no thread moves.
LEMMA JobStill ==
  ASSUME ListInv, JobInv, SameJobs, UNCHANGED <<batch, running, jobCount, started, pc, hand, target>>,
         warned => warned'
  PROVE  JobInv'
<1>1. JobsWithinLimit'
  BY DEF JobInv, JobsWithinLimit
<1>2. \A u \in Threads : Current(u)' = Current(u)
  BY DEF Current
<1>3. Deleters'
  BY <1>2 DEF JobInv, Deleters, SameJobs
<1>4. Owed'
  <2> SUFFICES ASSUME NEW p \in Pipes, pc[p] = "remove" PROVE Covered(p)'
    BY DEF Owed
  <2>1. Current(p) \in Reqs /\ p \in Threads /\ Covered(p)
    BY AtHand DEF HandPcs, Threads, JobInv, Owed
  <2> QED BY <1>2, <2>1 DEF Covered, SameJobs
<1>5. HeldStarted'
  BY HeldStay DEF JobInv, SameJobs
<1> QED BY <1>1, <1>3, <1>4, <1>5 DEF JobInv

\* A batch fits into the room that the running requests leave.
LEMMA PickJobs ==
  ASSUME TypeInv, ListInv, LifeInv, StreamInv, JobInv, NEW t \in Threads, TryPick(t) PROVE JobInv'
<1>1. /\ pc[t] = "try" /\ batch = <<>>
      /\ UNCHANGED <<req, running, jobCount, streams, hand, target, warned>>
  BY DEF TryPick, QueueLockFree
<1>2. PICK to \in {"idle", "enqueue"} : Goto(t, to)
  BY DEF TryPick, Finish
<1>3. OneMoves(t) /\ pc'[t] = to
  BY <1>1, <1>2, GotoAlone DEF HandPcs
<1>4. pc[User] \in HandPcs \cup {"drain"} => pc'[User] \in HandPcs \cup {"drain"}
  BY <1>1, <1>3 DEF OneMoves, HandPcs, Threads
<1>5. SameJobs
  BY <1>1 DEF SameJobs
<1>6. CASE batch' = batch
  BY <1>1, <1>3, <1>4, <1>5, <1>6, JobQuiet DEF streams
<1>7. CASE batch' = Runnable
  <2>1. /\ Runnable \in Seq(Reqs) /\ Len(Runnable) <= Room
        /\ \A x : In(x, Runnable) => In(x, pending) /\ x \in StreamOnReqs
    BY RunnableFacts
  <2>2. JobsWithinLimit'
    <3>1. jobCount = Len(running) /\ Len(running) <= MaxJobs /\ Len(running) \in Nat
      <4>1. Len(running) \in Nat /\ Len(batch) \in Nat /\ MaxJobs \in Nat
        BY ConstantsAssumption DEF ListInv, Seqs
      <4> QED BY <4>1 DEF JobInv, JobsWithinLimit
    <3>2. Room <= MaxJobs - Len(running) /\ Room \in Nat /\ MaxJobs \in Nat
      BY <3>1, ConstantsAssumption DEF Room
    <3>3. Len(Runnable) \in Nat
      BY <2>1
    <3> HIDE DEF Room, Runnable
    <3>4. Len(running) + Len(Runnable) <= MaxJobs
      BY <2>1, <3>1, <3>2, <3>3
    <3> QED BY <1>1, <1>7, <3>1, <3>4 DEF JobsWithinLimit
  <2> HIDE DEF Runnable
  <2>3. Deleters'
    BY <1>1, <1>3, DeletersStay DEF JobInv
  <2>4. Owed'
    <3>1. ASSUME NEW p \in Pipes \ {t}, Covered(p) PROVE WillBeCovered(p)
      BY <1>1, <1>4, <3>1 DEF Covered, WillBeCovered
    <3> QED BY <1>3, <3>1, OwedStay DEF JobInv
  <2>5. HeldStarted'
    <3>1. ASSUME NEW r \in Reqs, In(r, batch') PROVE req[r].held \subseteq started
      <4>1. In(r, pending) /\ req[r].pipeUsed \subseteq streamingPipe
        BY <1>7, <2>1, <3>1 DEF StreamOnReqs
      <4>2. req[r].held = req[r].pipeUsed
        BY <4>1 DEF LifeInv, ListStates, Lives, Alive
      <4> QED BY <4>1, <4>2 DEF StreamInv, Streams
    <3> QED BY <1>1, <3>1 DEF JobInv, HeldStarted, streams
  <2> QED BY <2>2, <2>3, <2>4, <2>5 DEF JobInv
<1> QED BY <1>6, <1>7 DEF TryPick

\* A request of the batch becomes a running one.
LEMMA EnqueueJobs ==
  ASSUME TypeInv, ListInv, JobInv, NEW t \in Threads, Enqueue(t) PROVE JobInv'
<1> DEFINE r == Head(batch)
<1>1. /\ pc[t] = "enqueue" /\ UNCHANGED <<hand, target, started, warned>>
      /\ running' = Append(running, r) /\ batch' = Tail(batch) /\ jobCount' = jobCount + 1
  BY DEF Enqueue, Linked
<1>2. batch \in Seq(Reqs) /\ batch # <<>> /\ running \in Seq(Reqs)
  BY <1>1 DEF ListInv, Seqs, Batch
<1>3. /\ r \in Reqs /\ In(r, batch) /\ Len(Tail(batch)) = Len(batch) - 1 /\ Len(batch) \in Nat \ {0}
      /\ \A y : In(y, Tail(batch)) => In(y, batch)
  BY <1>2, TailFacts
<1>4. /\ \A y : In(y, Append(running, r)) <=> In(y, running) \/ y = r
      /\ Len(Append(running, r)) = Len(running) + 1 /\ Len(running) \in Nat
  BY <1>2, <1>3, AppendFacts
<1>5. \A x \in Reqs : req'[x].held = req[x].held /\ (x # r => req'[x].state = req[x].state)
  BY <1>3 DEF Enqueue, TypeInv, ReqType
<1>6. req'[r].state = "running"
  BY <1>3 DEF Enqueue, TypeInv, ReqType
<1> HIDE DEF r
<1>7. PICK to \in {"idle", "enqueue"} : Goto(t, to)
  <2>1. Goto(t, "idle") \/ pc' = pc
    BY DEF Enqueue, Finish
  <2>2. pc' = pc => Goto(t, "enqueue")
    BY <1>1 DEF Goto, TypeInv
  <2> QED BY <2>1, <2>2
<1>8. OneMoves(t) /\ pc'[t] = to
  BY <1>1, <1>7, GotoAlone DEF HandPcs
<1>9. JobsWithinLimit'
  <2>1. jobCount = Len(running) /\ Len(running) + Len(batch) <= MaxJobs /\ MaxJobs \in Nat
    BY ConstantsAssumption DEF JobInv, JobsWithinLimit
  <2> QED BY <1>1, <1>3, <1>4, <2>1 DEF JobsWithinLimit
<1>10. Deleters'
  <2>1. ASSUME NEW x \in Reqs, In(x, running'), req'[x].state = "deleting"
        PROVE  In(x, running) /\ req[x].state = "deleting"
    BY <1>1, <1>4, <1>5, <1>6, <2>1
  <2> QED BY <1>1, <1>8, <2>1, DeletersStay DEF JobInv
<1>11. Owed'
  <2>1. ASSUME NEW p \in Pipes \ {t}, pc[p] = "remove", Covered(p) PROVE WillBeCovered(p)
    <3>1. Current(p) \in Reqs
      BY <2>1, AtHand DEF HandPcs, Threads
    <3>2. pc[User] \in HandPcs \cup {"drain"} => pc'[User] \in HandPcs \cup {"drain"}
      BY <1>1, <1>8 DEF OneMoves, HandPcs, Threads
    <3> QED BY <1>1, <1>5, <2>1, <3>1, <3>2 DEF Covered, WillBeCovered
  <2> QED BY <1>8, <2>1, OwedStay DEF JobInv
<1>12. HeldStarted'
  <2>1. ASSUME NEW x \in Reqs, In(x, batch') \/ In(x, running')
        PROVE  (In(x, batch) \/ In(x, running)) /\ req'[x].held \subseteq req[x].held
    BY <1>1, <1>3, <1>4, <1>5, <2>1
  <2> QED BY <1>1, <2>1, HeldStay DEF JobInv
<1> QED BY <1>9, <1>10, <1>11, <1>12 DEF JobInv

\* Unlinking a request and taking it off the count go together.
LEMMA RemoveJobs ==
  ASSUME TypeInv, ListInv, JobInv, NEW t \in Threads, NEW state \in {"complete", "cleanup"},
         RemoveFromRunning(t, state), UNCHANGED <<batch, hand, target, started, warned>>
  PROVE  JobInv'
<1> DEFINE r == Current(t)
<1>1. /\ pc[t] = "remove" /\ Goto(t, "claim") /\ jobCount' = jobCount - 1
      /\ running' = Keep(running, Reqs \ {r})
  BY DEF RemoveFromRunning, Unlinked
<1>2. r \in Reqs /\ In(r, running)
  BY <1>1, Unlinking
<1>3. running \in Seq(Reqs) /\ Single(running)
  BY DEF ListInv, Seqs, OneList
<1>4. \A x \in Reqs : req'[x].held = req[x].held /\ (x # r => req'[x].state = req[x].state)
  BY <1>2 DEF RemoveFromRunning, TypeInv, ReqType
<1> HIDE DEF r
<1>5. /\ \A x : In(x, running') <=> In(x, running) /\ x \in Reqs \ {r}
      /\ Len(running') = Len(running) - 1 /\ Len(running) \in Nat
  BY <1>1, <1>2, <1>3, KeepFacts, UnlinkedLength
<1>6. OneMoves(t) /\ pc'[t] = "claim"
  BY <1>1, GotoAlone DEF HandPcs
<1>7. JobsWithinLimit'
  <2>1. /\ jobCount = Len(running) /\ Len(running) + Len(batch) <= MaxJobs /\ MaxJobs \in Nat
        /\ Len(batch) \in Nat
    BY ConstantsAssumption DEF JobInv, JobsWithinLimit, ListInv, Seqs
  <2> QED BY <1>1, <1>5, <2>1 DEF JobsWithinLimit
<1>8. Deleters'
  <2> SUFFICES ASSUME NEW x \in Reqs, In(x, running'), req'[x].state = "deleting"
               PROVE  \E u \in Threads : pc'[u] = "remove" /\ Current(u)' = x
    BY DEF Deleters
  <2>1. x # r /\ In(x, running) /\ req[x].state = "deleting"
    BY <1>4, <1>5
  <2>2. PICK u \in Threads : pc[u] = "remove" /\ Current(u) = x
    BY <2>1 DEF JobInv, Deleters
  <2>3. u # t
    BY <2>1, <2>2 DEF r
  <2>4. pc'[u] = "remove" /\ Current(u)' = x
    BY <1>6, <2>2, <2>3 DEF OneMoves, Current
  <2> QED BY <2>4
<1>9. Owed'
  <2>1. ASSUME NEW p \in Pipes \ {t}, pc[p] = "remove", Covered(p) PROVE WillBeCovered(p)
    <3>1. Current(p) \in Reqs
      BY <2>1, AtHand DEF HandPcs, Threads
    <3>2. pc[User] \in HandPcs \cup {"drain"} => pc'[User] \in HandPcs \cup {"drain"}
      BY <1>1, <1>6 DEF OneMoves, HandPcs, Threads
    <3> QED BY <1>4, <2>1, <3>1, <3>2 DEF Covered, WillBeCovered
  <2> QED BY <1>6, <2>1, OwedStay DEF JobInv
<1>10. HeldStarted'
  <2>1. ASSUME NEW x \in Reqs, In(x, batch') \/ In(x, running')
        PROVE  (In(x, batch) \/ In(x, running)) /\ req'[x].held \subseteq req[x].held
    BY <1>4, <1>5, <2>1
  <2> QED BY <2>1, HeldStay DEF JobInv
<1> QED BY <1>7, <1>8, <1>9, <1>10 DEF JobInv

\* Going through a snapshot, the user thread stays in its cleanup.
LEMMA WalkAlone ==
  ASSUME TypeInv, ListInv, NEW t \in Threads, Claim(t) \/ Return(t)
  PROVE  /\ OneMoves(t) /\ pc[t] # "remove" /\ pc'[t] # "remove"
         /\ t = User => pc'[User] \in HandPcs \cup {"drain"}
         /\ pc[User] \in HandPcs \cup {"drain"} => pc'[User] \in HandPcs \cup {"drain"}
<1>1. pc[t] \in HandPcs /\ pc[t] # "remove"
  BY DEF Claim, Return, HandPcs
<1>2. NextInHand(t) \/ (Goto(t, "return") /\ hand' = hand)
  BY DEF Claim, Return
<1>3. OneMoves(t) /\ pc'[t] # "remove" /\ (t = User => pc'[t] \in {"return", "cancel", "drain"})
  <2>1. CASE NextInHand(t)
    BY <1>1, <2>1, NextAlone, NextPc
  <2>2. CASE Goto(t, "return") /\ hand' = hand
    BY <1>1, <2>2, GotoAlone
  <2> QED BY <1>2, <2>1, <2>2
<1> QED BY <1>1, <1>3 DEF OneMoves, HandPcs, Threads

\* The cmpxchg of buf_state moves no request.
LEMMA ClaimJobs ==
  ASSUME TypeInv, ListInv, JobInv, NEW t \in Threads, Claim(t) PROVE JobInv'
<1>1. UNCHANGED <<batch, running, jobCount, started, target, warned>> /\ pc[t] \in HandPcs
  BY DEF Claim, lists, streams, HandPcs
<1>2. Current(t) \in Reqs
  BY <1>1, AtHand
<1>3. SameJobs
  <2> SUFFICES ASSUME NEW x \in Reqs
               PROVE  req'[x].state = req[x].state /\ req'[x].held = req[x].held
    BY DEF SameJobs
  <2> DEFINE S == req[Current(t)].armed \ {PipeOf(t)}
  <2>1. req[x] \in ReqType
    BY DEF TypeInv
  <2>2. req' = [req EXCEPT ![Current(t)] = [@ EXCEPT !.armed = S]]
    BY DEF Claim
  <2> HIDE DEF S
  <2>3. req'[x] = req[x] \/ req'[x] = [req[x] EXCEPT !.armed = S]
    BY <2>2 DEF TypeInv
  <2> QED BY <2>1, <2>3 DEF ReqType
<1> QED BY <1>1, <1>3, WalkAlone, JobQuiet

\* A worker whose buffers the cleanup returns is covered by the cleanup.
LEMMA ReturnJobs ==
  ASSUME TypeInv, ListInv, JobInv, NEW t \in Threads, Return(t) PROVE JobInv'
<1> DEFINE r == Current(t)
           S == req[r].held \ {PipeOf(t)}
<1>1. UNCHANGED <<batch, running, jobCount, started, target, warned>> /\ pc[t] \in HandPcs
  BY DEF Return, lists, streams, HandPcs
<1>2. r \in Reqs
  BY <1>1, AtHand
<1>3. req' = [req EXCEPT ![r] = [@ EXCEPT !.held = S]]
  BY DEF Return
<1>4. req'[r] = [req[r] EXCEPT !.held = S] /\ \A x \in Reqs \ {r} : req'[x] = req[x]
  <2> HIDE DEF r, S
  <2> QED BY <1>2, <1>3, OneChanged
<1>5. req[r] \in ReqType
  BY <1>2 DEF TypeInv
<1>6. /\ \A x \in Reqs : req'[x].state = req[x].state /\ req'[x].held \subseteq req[x].held
      /\ \A x \in Reqs \ {r} : req'[x].held = req[x].held
      /\ req'[r].held = req[r].held \ {PipeOf(t)}
  <2>1. req'[r].state = req[r].state /\ req'[r].held = S
    BY <1>4, <1>5 DEF ReqType
  <2> HIDE DEF r
  <2> QED BY <1>4, <2>1
<1>7. /\ OneMoves(t) /\ pc[t] # "remove" /\ pc'[t] # "remove"
      /\ t = User => pc'[User] \in HandPcs \cup {"drain"}
      /\ pc[User] \in HandPcs \cup {"drain"} => pc'[User] \in HandPcs \cup {"drain"}
  BY WalkAlone
<1>8. JobsWithinLimit'
  BY <1>1 DEF JobInv, JobsWithinLimit
<1>9. Deleters'
  BY <1>1, <1>6, <1>7, DeletersStay DEF JobInv
<1>10. Owed'
  <2>1. ASSUME NEW p \in Pipes \ {t}, pc[p] = "remove", Covered(p) PROVE WillBeCovered(p)
    <3>1. Current(p) \in Reqs
      BY <2>1, AtHand DEF HandPcs, Threads
    <3>2. p \in req[Current(p)].held => p \in req'[Current(p)].held \/ p = PipeOf(t)
      <4> HIDE DEF r
      <4> QED BY <1>6, <3>1
    <3>3. p = PipeOf(t) => t = User /\ target = p
      BY <2>1 DEF PipeOf
    <3> QED BY <1>1, <1>7, <2>1, <3>2, <3>3 DEF Covered, WillBeCovered
  <2> QED BY <1>7, <2>1, OwedStay DEF JobInv
<1>11. HeldStarted'
  BY <1>1, <1>6, HeldStay DEF JobInv
<1> QED BY <1>8, <1>9, <1>10, <1>11 DEF JobInv

\* Who takes a request to DELETING is about to unlink it; the worker of a pipe
\* that was not done still has its buffers.
LEMMA MarkJobs ==
  ASSUME TypeInv, ListInv, JobInv, NEW t \in Threads, pc[t] = "mark",
         NEW done, Marks(t, Current(t), done),
         t \in Pipes /\ req[Current(t)].state = "running" => t \in req[Current(t)].held,
         UNCHANGED <<batch, running, jobCount, hand, started, target, warned>>
  PROVE  JobInv'
<1> DEFINE r == Current(t)
<1>1. r \in Reqs
  BY AtHand DEF HandPcs
<1>2. req[r] \in ReqType
  BY <1>1 DEF TypeInv
<1>3. PICK to \in {"remove", "claim"} :
        /\ Goto(t, to)
        /\ \A x \in Reqs : req'[x].held = req[x].held
        /\ \A x \in Reqs \ {r} : req'[x].state = req[x].state
        /\ to = "claim" => req'[r].state = req[r].state
        /\ to = "remove" => req[r].state = "running"
  <2>1. CASE /\ req' = [req EXCEPT ![r] = [@ EXCEPT !.done = done, !.state = "deleting"]]
             /\ req[r].state = "running" /\ Goto(t, "remove")
    <3>1. /\ req'[r] = [req[r] EXCEPT !.done = done, !.state = "deleting"]
          /\ \A x \in Reqs \ {r} : req'[x] = req[x]
      <4> HIDE DEF r
      <4> QED BY <1>1, <2>1, OneChanged
    <3>2. req'[r].held = req[r].held
      BY <1>2, <3>1 DEF ReqType
    <3> HIDE DEF r
    <3> QED BY <2>1, <3>1, <3>2
  <2>2. CASE req' = [req EXCEPT ![r] = [@ EXCEPT !.done = done]] /\ Goto(t, "claim")
    <3>1. req'[r] = [req[r] EXCEPT !.done = done] /\ \A x \in Reqs \ {r} : req'[x] = req[x]
      <4> HIDE DEF r
      <4> QED BY <1>1, <2>2, OneChanged
    <3>2. req'[r].held = req[r].held /\ req'[r].state = req[r].state
      BY <1>2, <3>1 DEF ReqType
    <3> HIDE DEF r
    <3> QED BY <2>2, <3>1, <3>2
  <2> QED BY <2>1, <2>2 DEF Marks
<1>4. OneMoves(t) /\ pc'[t] = to
  BY <1>3, GotoAlone DEF HandPcs
<1>5. JobsWithinLimit'
  BY DEF JobInv, JobsWithinLimit
<1>6. Deleters'
  <2>1. ASSUME NEW x \in Reqs, In(x, running'), req'[x].state = "deleting"
        PROVE  \/ In(x, running) /\ req[x].state = "deleting"
               \/ pc'[t] = "remove" /\ hand'[t] = hand[t] /\ Current(t) = x
    BY <1>3, <1>4, <2>1
  <2> HIDE DEF r
  <2> QED BY <1>4, <2>1, DeletersStay DEF JobInv
<1>7. Owed'
  <2>1. ASSUME NEW p \in Pipes \ {t}, pc[p] = "remove", Covered(p) PROVE WillBeCovered(p)
    <3>1. Current(p) \in Reqs
      BY <2>1, AtHand DEF HandPcs, Threads
    <3>2. pc[User] \in HandPcs \cup {"drain"} => pc'[User] \in HandPcs \cup {"drain"}
      BY <1>4 DEF OneMoves, HandPcs, Threads
    <3> QED BY <1>3, <2>1, <3>1, <3>2 DEF Covered, WillBeCovered
  <2>2. ASSUME t \in Pipes, pc'[t] = "remove" PROVE WillBeCovered(t)
    BY <1>1, <1>3, <1>4, <2>2 DEF WillBeCovered
  <2> QED BY <1>4, <2>1, <2>2, OwedStay DEF JobInv
<1>8. HeldStarted'
  BY <1>3, HeldStay DEF JobInv
<1> QED BY <1>5, <1>6, <1>7, <1>8 DEF JobInv

\* Both marks.
LEMMA MarksJobs ==
  ASSUME TypeInv, ListInv, LifeInv, JobInv,
         StopMark \/ \E p \in Pipes : WorkMark(p)
  PROVE  JobInv'
<1>a. User \in Threads /\ User \notin Pipes /\ \A p \in Pipes : p \in Threads
  BY ConstantsAssumption DEF Threads
<1>1. ASSUME NEW p \in Pipes, WorkMark(p) PROVE JobInv'
  <2>1. /\ pc[p] = "mark" /\ pc[p] \in HandPcs /\ PipeOf(p) = p
        /\ UNCHANGED <<batch, running, jobCount, started, target, warned>>
    BY <1>1, <1>a DEF WorkMark, lists, streams, HandPcs, PipeOf
  <2>2. Current(p) \in Reqs /\ Taken(p, Current(p))
    BY <1>a, <2>1, AtHand DEF LifeInv, Snapshots
  <2>3. CASE p \in req[Current(p)].done
    <3>1. NextInHand(p) /\ SameJobs
      BY <1>1, <2>3 DEF WorkMark, SameJobs
    <3>2. OneMoves(p) /\ pc'[p] # "remove" /\ pc'[User] = pc[User]
      BY <1>a, <2>1, <3>1, NextAlone DEF OneMoves
    <3> QED BY <1>a, <2>1, <3>1, <3>2, JobQuiet
  <2>4. CASE p \notin req[Current(p)].done
    <3>1. req[Current(p)].state = "running" => p \in req[Current(p)].held
      BY <2>1, <2>2, <2>4 DEF LifeInv, Lives, Alive, Taken
    <3> QED BY <1>1, <1>a, <2>1, <2>4, <3>1, WorkMarks, MarkJobs
  <2> QED BY <2>3, <2>4
<1>2. CASE StopMark
  <2>1. /\ pc[User] = "mark" /\ pc[User] \in HandPcs
        /\ UNCHANGED <<batch, running, jobCount, hand, started, target, warned>>
    BY <1>2 DEF StopMark, lists, streams, HandPcs
  <2>2. CASE ~MayDelete(Current(User))
    <3>1. Goto(User, "claim") /\ SameJobs
      BY <1>2, <2>2 DEF StopMark, SameJobs
    <3>2. OneMoves(User) /\ pc'[User] = "claim"
      BY <1>a, <2>1, <3>1, GotoAlone
    <3> QED BY <1>a, <2>1, <3>1, <3>2, JobQuiet DEF HandPcs
  <2>3. CASE MayDelete(Current(User))
    BY <1>2, <1>a, <2>1, <2>3, StopMarks, MarkJobs
  <2> QED BY <2>2, <2>3
<1> QED BY <1>1, <1>2

\* The requests that a call queues or cleans wait; those that run stay as they
\* are.
LEMMA PendingJobs ==
  ASSUME TypeInv, ListInv, LifeInv, JobInv,
         pc[User] \in {"idle", "pend"}, NEW to \in {"try", "scan"}, Goto(User, to),
         UNCHANGED <<batch, running, jobCount, hand, started, target, warned>>,
         \A r \in Reqs : In(r, batch) \/ In(r, running) =>
           req'[r].state = req[r].state /\ req'[r].held = req[r].held
  PROVE  JobInv'
<1>1. User \in Threads /\ User \notin Pipes /\ \A p \in Pipes : p \in Threads
  BY ConstantsAssumption DEF Threads
<1>2. OneMoves(User) /\ pc'[User] = to
  BY <1>1, GotoAlone DEF HandPcs
<1>3. JobsWithinLimit'
  BY DEF JobInv, JobsWithinLimit
<1>4. Deleters'
  BY <1>1, <1>2, DeletersStay DEF JobInv
<1>5. Owed'
  <2>1. ASSUME NEW p \in Pipes \ {User}, pc[p] = "remove", Covered(p) PROVE WillBeCovered(p)
    <3>1. Current(p) \in Reqs /\ In(Current(p), running)
      BY <1>1, <2>1, Unlinking
    <3> QED BY <2>1, <3>1 DEF Covered, WillBeCovered, HandPcs
  <2> QED BY <1>1, <1>2, <2>1, OwedStay DEF JobInv
<1>6. HeldStarted'
  BY HeldStay DEF JobInv
<1> QED BY <1>3, <1>4, <1>5, <1>6 DEF JobInv

LEMMA QueueJobs ==
  ASSUME TypeInv, ListInv, LifeInv, JobInv, QueuesFree,
         NEW r \in Reqs, NEW used \in PipeSets, Queue(r, used)
  PROVE  JobInv'
<1>1. /\ pc[User] = "idle" /\ Goto(User, "try")
      /\ UNCHANGED <<batch, running, jobCount, hand, started, target, warned>>
  BY DEF Queue, streams
<1>2. ~In(r, batch) /\ ~In(r, running)
  BY DEF Queue, QueuesFree, Free
<1>3. \A x \in Reqs \ {r} : req'[x] = req[x]
  BY OneChanged DEF Queue
<1> QED BY <1>1, <1>2, <1>3, PendingJobs

LEMMA StopPendingJobs ==
  ASSUME TypeInv, ListInv, LifeInv, JobInv, StopPending PROVE JobInv'
<1>1. /\ pc[User] = "pend" /\ Goto(User, "scan")
      /\ UNCHANGED <<batch, running, jobCount, hand, started, target, warned>>
  BY DEF StopPending, streams
<1>2. \A x \in Reqs : ~In(x, pending) => req'[x] = req[x]
  <2>1. pending \in Seq(Reqs)
    BY DEF ListInv, Seqs
  <2>2. \A x : x \in ToSet(pending) <=> In(x, pending)
    BY <2>1, ToSetIn
  <2> QED BY <2>2 DEF StopPending
<1>3. \A x \in Reqs : In(x, batch) \/ In(x, running) => ~In(x, pending)
  BY DEF ListInv, OneList
<1> QED BY <1>1, <1>2, <1>3, PendingJobs

\* While no context is started nothing runs: what runs has buffers of a started
\* context, or is being unlinked by a thread.
LEMMA NothingRuns ==
  ASSUME TypeInv, ListInv, LifeInv, StreamInv, JobInv, ~warned, started = {}, pc[User] = "idle"
  PROVE  running = <<>>
<1> SUFFICES ASSUME running # <<>> PROVE FALSE
  OBVIOUS
<1>1. Head(running) \in Reqs /\ In(Head(running), running)
  BY TailFacts DEF ListInv, Seqs
<1>2. Alive(req[Head(running)]) /\ req[Head(running)].held \subseteq {}
  BY <1>1 DEF LifeInv, Lives, JobInv, HeldStarted
<1>3. req[Head(running)].state = "deleting"
  BY <1>1, <1>2 DEF LifeInv, ListStates, Alive
<1>4. PICK t \in Threads : pc[t] = "remove"
  BY <1>1, <1>3 DEF JobInv, Deleters
<1>5. t \in Pipes /\ doneWq[t] # <<>>
  BY <1>4 DEF Threads, StreamInv, Works
<1> QED BY <1>5 DEF StreamInv, Works

\* The first context to start finds the count at what it is reset to.
LEMMA StartJobs ==
  ASSUME TypeInv, ListInv, LifeInv, StreamInv, JobInv, ~warned, NEW p \in Pipes, StartCtx(p)
  PROVE  JobInv'
<1>1. /\ pc[User] = "idle" /\ Goto(User, "on") /\ started' = started \cup {p}
      /\ UNCHANGED <<req, batch, running, hand, warned>> /\ User \in Threads
  BY DEF StartCtx, Threads
<1>2. jobCount' = jobCount
  <2>1. started = {} => running = <<>>
    BY <1>1, NothingRuns
  <2>2. running = <<>> => jobCount = 0
    BY DEF JobInv, JobsWithinLimit
  <2> QED BY <2>1, <2>2 DEF StartCtx
<1>3. OneMoves(User) /\ pc'[User] = "on"
  BY <1>1, GotoAlone DEF HandPcs
<1> QED BY <1>1, <1>2, <1>3, JobQuiet DEF SameJobs, HandPcs

\* A stop that leaves buffers behind is warned of; its workers are done.
LEMMA StopDrainJobs ==
  ASSUME TypeInv, ListInv, StreamInv, JobInv, ~warned, StopDrain PROVE JobInv'
<1>1. /\ pc[User] = "drain" /\ doneWq[target] = <<>> /\ Goto(User, "idle")
      /\ started' = started \ {target} /\ User \in Threads
      /\ warned' = \E r \in Reqs : target \in req[r].held
      /\ UNCHANGED <<req, batch, running, jobCount, hand, target>>
  BY DEF StopDrain, lists, Threads
<1>2. OneMoves(User) /\ pc'[User] = "idle"
  BY <1>1, GotoAlone DEF HandPcs
<1>3. JobsWithinLimit'
  BY <1>1 DEF JobInv, JobsWithinLimit
<1>4. Deleters'
  BY <1>1, <1>2, DeletersStay DEF JobInv
<1>5. Owed'
  <2>1. ASSUME NEW p \in Pipes \ {User}, pc[p] = "remove", Covered(p) PROVE WillBeCovered(p)
    <3>1. p # target
      BY <1>1, <2>1 DEF StreamInv, Works
    <3> QED BY <1>1, <2>1, <3>1 DEF Covered, WillBeCovered
  <2> QED BY <1>1, <1>2, <2>1, ConstantsAssumption, OwedStay DEF JobInv
<1>6. HeldStarted'
  <2> SUFFICES ASSUME ~warned', NEW r \in Reqs, In(r, batch) \/ In(r, running)
               PROVE  req[r].held \subseteq started'
    BY <1>1 DEF HeldStarted
  <2>1. target \notin req[r].held
    BY <1>1
  <2>2. req[r].held \subseteq started
    BY DEF JobInv, HeldStarted
  <2> QED BY <1>1, <2>1, <2>2
<1> QED BY <1>3, <1>4, <1>5, <1>6 DEF JobInv

\* Nothing runs to begin with.
LEMMA JobInvInit == ASSUME Init PROVE JobInv
<1>1. JobsWithinLimit
  BY ConstantsAssumption DEF Init, JobsWithinLimit
<1>2. Deleters /\ HeldStarted
  BY DEF Init, Deleters, HeldStarted, In
<1>3. Owed
  BY DEF Init, Owed, Threads
<1> QED BY <1>1, <1>2, <1>3 DEF JobInv

\* Every step keeps the count and what it rests on.
LEMMA JobInvStep ==
  ASSUME QueuesFree, TypeInv, ListInv, LifeInv, StreamInv, JobInv, [Next]_vars PROVE JobInv'
<1>a. User \in Threads /\ Pipes \subseteq Threads /\ User \notin Pipes
  BY ConstantsAssumption DEF Threads
<1>b. /\ req' = req => SameJobs
      /\ SameLives => SameJobs
  BY DEF SameJobs, SameLives, SameLife
<1>c. ASSUME UNCHANGED <<batch, running, jobCount, started, warned>>, SameJobs,
             NEW t \in Threads, OneMoves(t), pc[t] # "remove", pc'[t] # "remove",
             \/ /\ target' = target
                /\ t = User /\ pc[t] \in HandPcs \cup {"drain"} => pc'[t] \in HandPcs \cup {"drain"}
             \/ t = User /\ pc[t] \notin HandPcs \cup {"drain"}
      PROVE  JobInv'
  <2>1. pc[User] \in HandPcs \cup {"drain"} =>
          target' = target /\ pc'[User] \in HandPcs \cup {"drain"}
    <3>1. CASE t = User
      BY <1>c, <3>1
    <3>2. CASE t # User
      BY <1>a, <1>c, <3>2 DEF OneMoves
    <3> QED BY <3>1, <3>2
  <2> QED BY <1>c, <2>1, JobQuiet
<1>1. ASSUME NEW t \in Threads, TryQueue(t) PROVE JobInv'
  <2>1. CASE EnqueueRejected(t)
    <3>1. /\ UNCHANGED <<batch, running, jobCount, started, pc, hand, target>>
          /\ SameJobs /\ warned'
      BY <2>1, <1>b DEF EnqueueRejected, lists, streams, threads
    <3> QED BY <3>1, JobStill
  <2> QED BY <1>1, <2>1, PickJobs, EnqueueJobs DEF TryQueue
<1>2. ASSUME NEW p \in Pipes, StopBegin(p) \/ FrameDone(p) PROVE JobInv'
  <2>1. CASE StopBegin(p)
    <3>1. /\ pc[User] = "idle" /\ Goto(User, "halt")
          /\ UNCHANGED <<req, batch, running, jobCount, hand, started, warned>>
      BY <2>1 DEF StopBegin, lists
    <3>2. OneMoves(User) /\ pc'[User] = "halt"
      BY <1>a, <3>1, GotoAlone DEF HandPcs
    <3> QED BY <1>a, <1>b, <1>c, <3>1, <3>2 DEF HandPcs
  <2>2. CASE FrameDone(p)
    <3>1. PICK r : req' = [req EXCEPT ![r].isQueued = @ \cup {p}]
      BY <2>2 DEF FrameDone
    <3>2. req' = [req EXCEPT ![r] = [@ EXCEPT !.isQueued = req[r].isQueued \cup {p}]]
      BY <3>1
    <3>3. SameJobs
      BY <1>b, <3>2, QueuedBitLife
    <3>4. UNCHANGED <<batch, running, jobCount, started, pc, hand, target, warned>>
      BY <2>2 DEF FrameDone, lists, streams
    <3> QED BY <3>3, <3>4, JobStill
  <2> QED BY <1>2, <2>1, <2>2
<1>3. ASSUME NEW p \in Pipes, Work(p) PROVE JobInv'
  <2>1. CASE WorkStart(p)
    <3>1. /\ Goto(p, "idle") \/ Goto(p, "scan")
          /\ UNCHANGED <<req, batch, running, jobCount, hand, started, target, warned>>
      BY <2>1 DEF WorkStart, Finish, lists, streams
    <3>2. OneMoves(p) /\ pc'[p] \in {"idle", "scan"}
      BY <1>a, <3>1, GotoAlone DEF HandPcs
    <3>3. pc[p] = "idle"
      BY <2>1 DEF WorkStart
    <3> QED BY <1>a, <1>b, <1>c, <3>1, <3>2, <3>3 DEF HandPcs
  <2>2. CASE WorkScan(p)
    <3>1. DoneRequests(p) \in Seq(Reqs)
      BY DoneRequestsFacts
    <3>2. /\ pc[p] = "scan" /\ hand' = [hand EXCEPT ![p] = DoneRequests(p)]
          /\ UNCHANGED <<req, batch, running, jobCount, started, target, warned>>
      BY <2>2 DEF WorkScan, lists, streams
    <3>3. PICK to \in {"idle", "mark"} : Goto(p, to) /\ (to = "mark" => DoneRequests(p) # <<>>)
      BY <2>2 DEF WorkScan, Finish
    <3>4. OneMoves(p) /\ pc'[p] = to
      BY <3>1, <3>2, <3>3, <1>a, SnapshotAlone DEF HandPcs
    <3> QED BY <1>a, <1>b, <1>c, <3>2, <3>4
  <2>3. CASE WorkRemove(p)
    BY <2>3, <1>a, RemoveJobs DEF WorkRemove, streams
  <2> QED BY <1>3, <1>a, <1>1, <2>1, <2>2, <2>3, ClaimJobs, ReturnJobs, MarksJobs DEF Work
<1>4. ASSUME ~warned, StopStep PROVE JobInv'
  <2>1. CASE StopHalt
    <3>1. /\ pc[User] = "halt" /\ Goto(User, "pend")
          /\ UNCHANGED <<req, batch, running, jobCount, hand, started, warned>>
      BY <2>1 DEF StopHalt, lists
    <3>2. OneMoves(User) /\ pc'[User] = "pend"
      BY <1>a, <3>1, GotoAlone DEF HandPcs
    <3> QED BY <1>a, <1>b, <1>c, <3>1, <3>2 DEF HandPcs
  <2>2. CASE StopScan
    <3> DEFINE users == Keep(running, UsersOf(target))
    <3>1. users \in Seq(Reqs)
      BY KeepFacts DEF ListInv, Seqs
    <3>2. /\ hand' = [hand EXCEPT ![User] = users] /\ pc[User] = "scan"
          /\ Goto(User, IF users = <<>> THEN "drain" ELSE "cancel")
          /\ UNCHANGED <<req, batch, running, jobCount, started, target, warned>>
      BY <2>2 DEF StopScan, lists, streams
    <3> HIDE DEF users
    <3>3. PICK to \in {"drain", "cancel"} : Goto(User, to) /\ (to = "cancel" => users # <<>>)
      BY <3>2
    <3>4. OneMoves(User) /\ pc'[User] = to
      BY <3>1, <3>2, <3>3, <1>a, SnapshotAlone DEF HandPcs
    <3> QED BY <1>a, <1>b, <1>c, <3>2, <3>4 DEF HandPcs
  <2>3. CASE StopCancel
    <3>1. PICK r : req' = [req EXCEPT ![r].isQueued = @ \cup {target}]
      BY <2>3 DEF StopCancel
    <3>2. req' = [req EXCEPT ![r] = [@ EXCEPT !.isQueued = req[r].isQueued \cup {target}]]
      BY <3>1
    <3>3. SameJobs
      BY <1>b, <3>2, QueuedBitLife
    <3>4. /\ pc[User] = "cancel" /\ Goto(User, "mark")
          /\ UNCHANGED <<batch, running, jobCount, hand, started, target, warned>>
      BY <2>3 DEF StopCancel, lists, streams
    <3>5. OneMoves(User) /\ pc'[User] = "mark"
      BY <3>4, <1>a, GotoAlone DEF HandPcs
    <3> QED BY <1>a, <1>c, <3>3, <3>4, <3>5 DEF HandPcs
  <2>4. CASE StopRemove
    BY <2>4, <1>a, RemoveJobs DEF StopRemove, streams
  <2> QED BY <1>4, <1>a, <2>1, <2>2, <2>3, <2>4, ClaimJobs, ReturnJobs, MarksJobs,
             StopPendingJobs, StopDrainJobs DEF StopStep
<1>5. CASE StreamOn
  <2>1. /\ pc[User] = "on" /\ Goto(User, "try")
        /\ UNCHANGED <<req, batch, running, jobCount, hand, started, warned>>
    BY <1>5 DEF StreamOn, lists
  <2>2. OneMoves(User) /\ pc'[User] = "try"
    BY <1>a, <2>1, GotoAlone DEF HandPcs
  <2> QED BY <1>a, <1>b, <1>c, <2>1, <2>2 DEF HandPcs
<1>6. CASE UNCHANGED vars
  <2>1. UNCHANGED <<req, batch, running, jobCount, started, pc, hand, target, warned>>
    BY <1>6 DEF vars, lists, streams, threads
  <2> QED BY <1>b, <2>1, JobStill
<1>7. CASE Next
  <2>1. ~warned
    BY <1>7 DEF Next
  <2>2. ASSUME NEW p \in Pipes, StartCtx(p) \/ StopBegin(p) \/ FrameDone(p) \/ Work(p)
        PROVE  JobInv'
    BY <1>2, <1>3, <2>1, <2>2, StartJobs
  <2>3. ASSUME UserStep PROVE JobInv'
    BY <1>a, <1>1, <1>4, <1>5, <2>1, <2>3 DEF UserStep
  <2> QED BY <1>7, <2>2, <2>3, QueueJobs DEF Next
<1> QED BY <1>6, <1>7

-----------------------------------------------------------------------------
(* Snapshots, when every request is for one camera.                        *)

SinglePipe == \A used \in PipeSets : \A p, q \in used : p = q
OnePipe == \A r \in Reqs : \A p, q \in req[r].pipeUsed : p = q

SingleHands == \A t \in Threads : pc[t] \in HandPcs => Single(hand[t])

\* The requests a worker has in hand still hold the buffers of its pipe, unless
\* the pipe is being stopped and the cleanup gives them back.
Stopping(p) == target = p /\ pc[User] \in StopPcs
WillStop(p) == target' = p /\ pc'[User] \in StopPcs
HandsHeld ==
  \A p \in Pipes : pc[p] \in HandPcs =>
    Stopping(p) \/ \A r \in Reqs : In(r, hand[p]) => p \in req[r].held

HandInv == OnePipe /\ SingleHands /\ HandsHeld

\* A step of thread t, and what it must leave the others.
LEMMA HandStep ==
  ASSUME HandInv, NEW t \in Threads, OneMoves(t),
         \A p \in Pipes \ {t} : pc[p] \in HandPcs =>
           /\ Stopping(p) => WillStop(p)
           /\ \A r \in Reqs : In(r, hand[p]) /\ p \in req[r].held =>
                p \in req'[r].held \/ WillStop(p),
         pc'[t] \in HandPcs => Single(hand'[t]),
         t \in Pipes /\ pc'[t] \in HandPcs =>
           WillStop(t) \/ \A r \in Reqs : In(r, hand'[t]) => t \in req'[r].held,
         OnePipe'
  PROVE  HandInv'
<1>1. SingleHands'
  BY DEF HandInv, SingleHands, OneMoves
<1>2. \A p \in Pipes : p \in Threads
  BY DEF Threads
<1>3. HandsHeld'
  <2> SUFFICES ASSUME NEW p \in Pipes, pc'[p] \in HandPcs
               PROVE  WillStop(p) \/ \A r \in Reqs : In(r, hand'[p]) => p \in req'[r].held
    BY DEF HandsHeld, Stopping, WillStop
  <2>1. CASE p = t
    BY <2>1
  <2>2. CASE p # t
    <3>1. pc[p] = pc'[p] /\ hand'[p] = hand[p]
      BY <1>2, <2>2 DEF OneMoves
    <3> QED BY <2>2, <3>1 DEF HandInv, HandsHeld
  <2> QED BY <2>1, <2>2
<1> QED BY <1>1, <1>3 DEF HandInv

\* A step that returns no buffer.
SameHeld == \A r \in Reqs : req'[r].held = req[r].held
LEMMA HandQuiet ==
  ASSUME HandInv, NEW t \in Threads, OneMoves(t), SamePipes, SameHeld,
         \/ target' = target
         \/ t = User /\ pc[User] \notin StopPcs,
         t = User => pc[User] \notin StopPcs \/ pc'[User] \in StopPcs \/ pc[target] \notin HandPcs,
         pc'[t] \in HandPcs =>
           /\ Single(hand'[t])
           /\ t = User \/ (pc[t] \in HandPcs /\ \A x : In(x, hand'[t]) => In(x, hand[t]))
  PROVE  HandInv'
<1>a. User \in Threads /\ User \notin Pipes
  BY ConstantsAssumption DEF Threads
<1>1. OnePipe'
  BY DEF HandInv, OnePipe, SamePipes
<1>2. \A p \in Pipes \ {t} : pc[p] \in HandPcs /\ Stopping(p) => WillStop(p)
  <2>1. CASE t = User
    BY <2>1 DEF Stopping, WillStop
  <2>2. CASE t # User
    BY <1>a, <2>2 DEF Stopping, WillStop, OneMoves
  <2> QED BY <2>1, <2>2
<1>3. t \in Pipes /\ pc'[t] \in HandPcs =>
        WillStop(t) \/ \A r \in Reqs : In(r, hand'[t]) => t \in req'[r].held
  <2> SUFFICES ASSUME t \in Pipes, pc'[t] \in HandPcs
               PROVE  WillStop(t) \/ \A r \in Reqs : In(r, hand'[t]) => t \in req'[r].held
    OBVIOUS
  <2>1. t # User /\ pc[t] \in HandPcs /\ target' = target /\ pc'[User] = pc[User]
    BY <1>a DEF OneMoves
  <2> QED BY <2>1 DEF HandInv, HandsHeld, SameHeld, Stopping, WillStop
<1> QED BY <1>1, <1>2, <1>3, HandStep DEF SameHeld

LEMMA HandStill ==
  ASSUME HandInv, SamePipes, SameHeld, UNCHANGED <<pc, hand, target>> PROVE HandInv'
<1>1. OnePipe'
  BY DEF HandInv, OnePipe, SamePipes
<1>2. SingleHands'
  BY DEF HandInv, SingleHands
<1>3. HandsHeld'
  BY DEF HandInv, HandsHeld, Stopping, SameHeld
<1> QED BY <1>1, <1>2, <1>3 DEF HandInv

\* What is left in hand after an entry, and the entry is not in it any more.
LEMMA NextSingle ==
  ASSUME ListInv, HandInv, NEW t \in Threads, pc[t] \in HandPcs, NextInHand(t)
  PROVE  /\ Single(hand'[t]) /\ ~In(Current(t), hand'[t])
         /\ \A x : In(x, hand'[t]) => In(x, hand[t])
<1>1. hand'[t] = Tail(hand[t]) /\ \A x : In(x, hand'[t]) => In(x, hand[t])
  BY NextHand
<1>2. hand[t] \in Seq(Reqs) /\ hand[t] # <<>> /\ Single(hand[t])
  BY AtHand DEF HandInv, SingleHands
<1> QED BY <1>1, <1>2, TailFacts DEF Current

\* A thread that gives its pipe's buffers of a request back has done with it.
LEMMA ReturnHand ==
  ASSUME TypeInv, ListInv, HandInv, NEW t \in Threads, Return(t) PROVE HandInv'
<1> DEFINE r == Current(t)
           S == req[r].held \ {PipeOf(t)}
<1>a. User \in Threads /\ User \notin Pipes
  BY ConstantsAssumption DEF Threads
<1>1. pc[t] = "return" /\ pc[t] \in HandPcs /\ target' = target /\ NextInHand(t)
  BY DEF Return, HandPcs
<1>2. r \in Reqs
  BY <1>1, AtHand
<1>3. req' = [req EXCEPT ![r] = [@ EXCEPT !.held = S]]
  BY DEF Return
<1>4. req'[r] = [req[r] EXCEPT !.held = S] /\ \A x \in Reqs \ {r} : req'[x] = req[x]
  <2> HIDE DEF r, S
  <2> QED BY <1>2, <1>3, OneChanged
<1>5. req[r] \in ReqType
  BY <1>2 DEF TypeInv
<1>6. /\ \A x \in Reqs : req'[x].pipeUsed = req[x].pipeUsed
      /\ \A x \in Reqs \ {r} : req'[x].held = req[x].held
      /\ req'[r].held = req[r].held \ {PipeOf(t)}
  <2>1. req'[r].pipeUsed = req[r].pipeUsed /\ req'[r].held = S
    BY <1>4, <1>5 DEF ReqType
  <2> HIDE DEF r
  <2> QED BY <1>4, <2>1
<1>7. /\ OneMoves(t) /\ Single(hand'[t]) /\ ~In(r, hand'[t])
      /\ \A x : In(x, hand'[t]) => In(x, hand[t])
      /\ t = User => pc'[User] \in StopPcs
  BY <1>1, WalkAlone, NextSingle DEF StopPcs
<1> HIDE DEF r
<1>8. OnePipe'
  BY <1>6 DEF HandInv, OnePipe
<1>9. ASSUME NEW p \in Pipes \ {t}
      PROVE  /\ Stopping(p) => WillStop(p)
             /\ \A x \in Reqs : p \in req[x].held => p \in req'[x].held \/ WillStop(p)
  <2>1. pc[User] \in StopPcs => pc'[User] \in StopPcs
    BY <1>a, <1>7 DEF OneMoves
  <2>2. Stopping(p) => WillStop(p)
    BY <1>1, <2>1 DEF Stopping, WillStop
  <2>3. p = PipeOf(t) => t = User /\ target = p
    BY DEF PipeOf
  <2>4. p = PipeOf(t) => WillStop(p)
    BY <1>1, <1>7, <2>3 DEF WillStop
  <2>5. ASSUME NEW x \in Reqs, p \in req[x].held, p # PipeOf(t) PROVE p \in req'[x].held
    <3>1. CASE x = r
      BY <1>6, <2>5, <3>1
    <3>2. CASE x # r
      BY <1>6, <2>5, <3>2
    <3> QED BY <3>1, <3>2
  <2> QED BY <2>2, <2>4, <2>5
<1>10. t \in Pipes /\ pc'[t] \in HandPcs =>
         WillStop(t) \/ \A x \in Reqs : In(x, hand'[t]) => t \in req'[x].held
  <2> SUFFICES ASSUME t \in Pipes
               PROVE  WillStop(t) \/ \A x \in Reqs : In(x, hand'[t]) => t \in req'[x].held
    OBVIOUS
  <2>1. t # User /\ pc'[User] = pc[User]
    BY <1>a, <1>7 DEF OneMoves
  <2>2. Stopping(t) \/ \A x \in Reqs : In(x, hand[t]) => t \in req[x].held
    BY <1>1 DEF HandInv, HandsHeld
  <2>3. Stopping(t) => WillStop(t)
    BY <1>1, <2>1 DEF Stopping, WillStop
  <2>4. ASSUME NEW x \in Reqs, In(x, hand'[t]), t \in req[x].held PROVE t \in req'[x].held
    <3>1. x # r
      BY <1>7, <2>4
    <3> QED BY <1>6, <2>4, <3>1
  <2> QED BY <1>7, <2>2, <2>3, <2>4
<1> QED BY <1>7, <1>8, <1>9, <1>10, HandStep

\* What the scan of a worker finds still holds the buffers of its pipe: a request
\* on its way off the list would be in the hands of this very worker, or of the
\* cleanup that stops its pipe.
LEMMA ScanHand ==
  ASSUME TypeInv, ListInv, LifeInv, JobInv, HandInv, NEW p \in Pipes, WorkScan(p)
  PROVE  HandInv'
<1>a. User \in Threads /\ User \notin Pipes /\ p \in Threads
  BY ConstantsAssumption DEF Threads
<1>1. /\ DoneRequests(p) \in Seq(Reqs) /\ Single(DoneRequests(p))
      /\ \A x : In(x, DoneRequests(p)) => In(x, running) /\ p \in req[x].pipeUsed
  BY DoneRequestsFacts
<1>2. /\ pc[p] = "scan" /\ hand' = [hand EXCEPT ![p] = DoneRequests(p)]
      /\ UNCHANGED <<req, target>>
  BY DEF WorkScan
<1>3. PICK to \in {"idle", "mark"} : Goto(p, to) /\ (to = "mark" => DoneRequests(p) # <<>>)
  BY DEF WorkScan, Finish
<1>4. OneMoves(p) /\ pc'[p] = to /\ hand'[p] = DoneRequests(p)
  <2>1. OneMoves(p) /\ pc'[p] = to
    BY <1>a, <1>1, <1>2, <1>3, SnapshotAlone DEF HandPcs
  <2> QED BY <1>a, <1>2, <2>1 DEF ListInv, Seqs
<1>5. pc'[User] = pc[User]
  BY <1>a, <1>4 DEF OneMoves
<1>6. ASSUME NEW x \in Reqs, In(x, running), p \in req[x].pipeUsed
      PROVE  WillStop(p) \/ p \in req[x].held
  <2>1. Alive(req[x]) /\ \A q \in req[x].pipeUsed : q = p
    BY <1>6 DEF LifeInv, Lives, HandInv, OnePipe
  <2>2. CASE req[x].state = "running"
    BY <1>6, <2>1, <2>2 DEF Alive
  <2>3. CASE req[x].state = "deleting"
    <3>1. PICK t \in Threads : pc[t] = "remove" /\ Current(t) = x
      BY <1>6, <2>3 DEF JobInv, Deleters
    <3>2. In(Current(t), hand[t])
      BY <3>1, AtHand DEF HandPcs
    <3>3. PipeOf(t) = p
      BY <2>1, <3>1, <3>2 DEF LifeInv, Snapshots, Taken, HandPcs
    <3>4. t = User
      BY <1>2, <3>1, <3>3 DEF PipeOf
    <3> QED BY <1>2, <1>5, <3>1, <3>3, <3>4 DEF WillStop, PipeOf, StopPcs, HandPcs
  <2> QED BY <1>6, <2>2, <2>3 DEF LifeInv, ListStates
<1>7. OnePipe'
  BY <1>2 DEF HandInv, OnePipe
<1>8. \A q \in Pipes : Stopping(q) => WillStop(q)
  BY <1>2, <1>5 DEF Stopping, WillStop
<1>9. WillStop(p) \/ \A x \in Reqs : In(x, hand'[p]) => p \in req'[x].held
  BY <1>1, <1>2, <1>4, <1>6
<1> QED BY <1>a, <1>1, <1>2, <1>4, <1>7, <1>8, <1>9, HandStep

\* A request that is queued is in nobody's hands.
LEMMA QueueHand ==
  ASSUME TypeInv, ListInv, HandInv, QueuesFree, SinglePipe,
         NEW r \in Reqs, NEW used \in PipeSets, Queue(r, used)
  PROVE  HandInv'
<1>1. /\ Free(r) /\ Goto(User, "try") /\ UNCHANGED <<hand, target>> /\ User \in Threads
      /\ pc[User] = "idle"
  BY DEF Queue, QueuesFree, Threads
<1>2. req[r] \in ReqType
  BY DEF TypeInv
<1>3. /\ req'[r] = [req[r] EXCEPT !.state = "pending", !.done = {}, !.pipeUsed = used,
                                  !.armed = used, !.held = used]
      /\ \A x \in Reqs \ {r} : req'[x] = req[x]
  BY OneChanged DEF Queue
<1>4. req'[r].pipeUsed = used
  BY <1>2, <1>3 DEF ReqType
<1>5. OnePipe'
  BY <1>3, <1>4 DEF SinglePipe, HandInv, OnePipe
<1>6. OneMoves(User) /\ pc'[User] = "try"
  BY <1>1, GotoAlone DEF HandPcs
<1>7. ASSUME NEW p \in Pipes \ {User}, pc[p] \in HandPcs
      PROVE  /\ Stopping(p) => WillStop(p)
             /\ \A x \in Reqs : In(x, hand[p]) /\ p \in req[x].held => p \in req'[x].held
  BY <1>1, <1>3, <1>7 DEF Free, Threads, Stopping, StopPcs, HandPcs
<1> QED BY <1>1, <1>5, <1>6, <1>7, ConstantsAssumption, HandStep DEF HandPcs

\* The pending requests that lose a pipe are in nobody's hands.
LEMMA StopPendingHand ==
  ASSUME TypeInv, ListInv, LifeInv, HandInv, StopPending PROVE HandInv'
<1>1. /\ pc[User] = "pend" /\ Goto(User, "scan") /\ UNCHANGED <<hand, target>>
      /\ User \in Threads
  BY DEF StopPending, Threads
<1>2. \A x : x \in ToSet(pending) <=> In(x, pending)
  BY ToSetIn DEF ListInv, Seqs
<1>3. /\ \A x \in Reqs : ~In(x, pending) => req'[x] = req[x]
      /\ \A x \in Reqs : req'[x].pipeUsed \subseteq req[x].pipeUsed
  <2>1. ASSUME NEW x \in Reqs
        PROVE  /\ ~In(x, pending) => req'[x] = req[x]
               /\ req'[x].pipeUsed \subseteq req[x].pipeUsed
    <3>1. req[x] \in ReqType
      BY DEF TypeInv
    <3>2. CASE In(x, pending)
      BY <1>2, <3>1, <3>2 DEF StopPending, ReqType
    <3>3. CASE ~In(x, pending)
      BY <1>2, <3>3 DEF StopPending
    <3> QED BY <3>2, <3>3
  <2> QED BY <2>1
<1>4. OnePipe'
  BY <1>3 DEF HandInv, OnePipe
<1>5. OneMoves(User) /\ pc'[User] = "scan"
  BY <1>1, GotoAlone DEF HandPcs
<1>6. ASSUME NEW p \in Pipes, pc[p] \in HandPcs, NEW x \in Reqs, In(x, hand[p])
      PROVE  req'[x] = req[x]
  <2>1. req[x].state # "pending"
    BY <1>6 DEF LifeInv, Snapshots, Taken, Threads
  <2> QED BY <1>3, <2>1 DEF LifeInv, ListStates
<1>7. \A p \in Pipes : Stopping(p) => WillStop(p)
  BY <1>1, <1>5 DEF Stopping, WillStop, StopPcs
<1> QED BY <1>1, <1>4, <1>5, <1>6, <1>7, ConstantsAssumption, HandStep DEF HandPcs

\* Steps that return no buffer and change no request's pipes.
LEMMA BuffersStay ==
  ASSUME TypeInv, NEW r, NEW S, NEW s,
         \/ req' = req
         \/ req' = [req EXCEPT ![r] = [@ EXCEPT !.done = S]]
         \/ req' = [req EXCEPT ![r] = [@ EXCEPT !.done = S, !.state = s]]
         \/ req' = [req EXCEPT ![r] = [@ EXCEPT !.state = s]]
         \/ req' = [req EXCEPT ![r] = [@ EXCEPT !.armed = S]]
         \/ req' = [req EXCEPT ![r] = [@ EXCEPT !.isQueued = S]]
  PROVE  SamePipes /\ SameHeld
<1> SUFFICES ASSUME NEW x \in Reqs
             PROVE  req'[x].pipeUsed = req[x].pipeUsed /\ req'[x].held = req[x].held
  BY DEF SamePipes, SameHeld
<1>1. req[x] \in ReqType
  BY DEF TypeInv
<1>2. \/ req'[x] = req[x]
      \/ req'[x] = [req[x] EXCEPT !.done = S]
      \/ req'[x] = [req[x] EXCEPT !.done = S, !.state = s]
      \/ req'[x] = [req[x] EXCEPT !.state = s]
      \/ req'[x] = [req[x] EXCEPT !.armed = S]
      \/ req'[x] = [req[x] EXCEPT !.isQueued = S]
  BY DEF TypeInv
<1> QED BY <1>1, <1>2 DEF ReqType

\* A thread that goes where it needs no snapshot.
LEMMA HandsOff ==
  ASSUME TypeInv, ListInv, HandInv, SamePipes, SameHeld, UNCHANGED hand,
         NEW t \in Threads,
         NEW to \in {"idle", "try", "enqueue", "on", "halt", "pend", "scan", "drain"},
         Goto(t, to), t = User \/ target' = target,
         t = User => pc[User] \notin StopPcs \/ (to \in StopPcs /\ target' = target)
                     \/ (pc[target] \notin HandPcs /\ target' = target)
  PROVE  HandInv'
<1>1. OneMoves(t) /\ pc'[t] = to
  BY GotoAlone DEF HandPcs
<1> QED BY <1>1, HandQuiet DEF HandPcs

\* A thread that goes on with its snapshot.
LEMMA HandsOn ==
  ASSUME TypeInv, ListInv, HandInv, SamePipes, SameHeld, NEW t \in Threads,
         pc[t] \in HandPcs, target' = target,
         NextInHand(t) \/ (UNCHANGED hand /\ \E to \in HandPcs : Goto(t, to))
  PROVE  HandInv'
<1>1. CASE NextInHand(t)
  <2>1. OneMoves(t) /\ (t = User => pc'[User] \in StopPcs)
    BY <1>1, NextAlone, NextPc DEF StopPcs, HandPcs
  <2>2. Single(hand'[t]) /\ \A x : In(x, hand'[t]) => In(x, hand[t])
    BY <1>1, NextSingle
  <2> QED BY <2>1, <2>2, HandQuiet
<1>2. CASE UNCHANGED hand /\ \E to \in HandPcs : Goto(t, to)
  <2>1. PICK to \in HandPcs : Goto(t, to)
    BY <1>2
  <2>2. OneMoves(t) /\ pc'[t] = to
    BY <1>2, <2>1, GotoAlone
  <2>3. Single(hand'[t])
    BY <1>2 DEF HandInv, SingleHands
  <2> QED BY <1>2, <2>2, <2>3, HandQuiet DEF StopPcs
<1> QED BY <1>1, <1>2

\* Running and unlinking requests leaves the buffers with those who hold them.
LEMMA TryHand ==
  ASSUME TypeInv, ListInv, StreamInv, HandInv, NEW t \in Threads, TryQueue(t) PROVE HandInv'
<1>1. /\ pc[t] \in {"try", "enqueue"} /\ UNCHANGED <<hand, target>>
      /\ \E to \in {"idle", "enqueue"} : Goto(t, to)
  <2>1. \/ Goto(t, "idle") \/ Goto(t, "enqueue")
        \/ pc' = pc /\ pc[t] = "enqueue"
    BY DEF TryQueue, TryPick, Enqueue, EnqueueRejected, Finish, threads
  <2>2. pc' = pc /\ pc[t] = "enqueue" => Goto(t, "enqueue")
    BY DEF Goto, TypeInv
  <2>3. pc[t] \in {"try", "enqueue"} /\ UNCHANGED <<hand, target>>
    BY DEF TryQueue, TryPick, Enqueue, EnqueueRejected, threads
  <2> QED BY <2>1, <2>2, <2>3
<1>2. SamePipes /\ SameHeld
  <2>1. CASE req' = req
    BY <2>1, BuffersStay
  <2>2. CASE Enqueue(t)
    <3> DEFINE r == Head(batch)
               s == [p \in Pipes |-> IF p \in req[r].pipeUsed THEN NumbersWith(r)[p]
                                                            ELSE req[r].seq[p]]
    <3>1. r \in Reqs /\ req[r] \in ReqType
      BY <2>2, TailFacts DEF Enqueue, ListInv, Seqs, Batch, TypeInv
    <3>2. req' = [req EXCEPT ![r] = [@ EXCEPT !.state = "running", !.isQueued = {},
                                              !.handed = Composed(r), !.seq = s]]
      BY <2>2 DEF Enqueue
    <3> HIDE DEF r, s
    <3>3. /\ req'[r] = [req[r] EXCEPT !.state = "running", !.isQueued = {},
                                      !.handed = Composed(r), !.seq = s]
          /\ \A x \in Reqs \ {r} : req'[x] = req[x]
      BY <3>1, <3>2, OneChanged
    <3>4. req'[r].pipeUsed = req[r].pipeUsed /\ req'[r].held = req[r].held
      BY <3>1, <3>3 DEF ReqType
    <3> QED BY <3>3, <3>4 DEF SamePipes, SameHeld
  <2> QED BY <2>1, <2>2 DEF TryQueue, TryPick, EnqueueRejected
<1> QED BY <1>1, <1>2, HandsOff DEF StopPcs, HandPcs

\* A mark, an unlinking and a claim keep the snapshot or go on with it.
LEMMA WalkHand ==
  ASSUME TypeInv, ListInv, LifeInv, HandInv,
         NEW t \in Threads,
         \/ \E state : RemoveFromRunning(t, state) /\ UNCHANGED <<hand, target>>
         \/ Claim(t)
         \/ t \in Pipes /\ WorkMark(t)
         \/ t = User /\ (StopMark \/ StopCancel)
  PROVE  HandInv'
<1>1. pc[t] \in HandPcs /\ target' = target
  BY DEF RemoveFromRunning, Claim, WorkMark, StopMark, StopCancel, HandPcs
<1>2. NextInHand(t) \/ (UNCHANGED hand /\ \E to \in HandPcs : Goto(t, to))
  BY DEF RemoveFromRunning, Claim, WorkMark, StopMark, StopCancel, HandPcs
<1>3. SamePipes /\ SameHeld
  <2>1. CASE \E state : RemoveFromRunning(t, state)
    <3>1. PICK state : req' = [req EXCEPT ![Current(t)] = [@ EXCEPT !.state = state]]
      BY <2>1 DEF RemoveFromRunning
    <3> QED BY <3>1, BuffersStay
  <2>2. CASE Claim(t)
    <3> DEFINE S == req[Current(t)].armed \ {PipeOf(t)}
    <3>1. req' = [req EXCEPT ![Current(t)] = [@ EXCEPT !.armed = S]]
      BY <2>2 DEF Claim
    <3> HIDE DEF S
    <3> QED BY <3>1, BuffersStay
  <2>3. CASE t = User /\ StopCancel
    <3> DEFINE S == req[Current(User)].isQueued \cup {target}
    <3>1. req' = [req EXCEPT ![Current(User)] = [@ EXCEPT !.isQueued = S]]
      BY <2>3 DEF StopCancel
    <3> HIDE DEF S
    <3> QED BY <3>1, BuffersStay
  <2>4. CASE (t \in Pipes /\ WorkMark(t)) \/ (t = User /\ StopMark)
    <3>1. req' = req \/ \E done : Marks(t, Current(t), done)
      <4>1. req' = req \/ (t \in Pipes /\ WorkMark(t) /\ t \notin req[Current(t)].done)
                       \/ (t = User /\ StopMark /\ MayDelete(Current(User)))
        BY <2>4 DEF WorkMark, StopMark
      <4> QED BY <4>1, WorkMarks, StopMarks
    <3>2. ASSUME NEW done, Marks(t, Current(t), done) PROVE SamePipes /\ SameHeld
      <4>1. CASE req' = [req EXCEPT ![Current(t)] = [@ EXCEPT !.done = done, !.state = "deleting"]]
        BY <4>1, BuffersStay
      <4>2. CASE req' = [req EXCEPT ![Current(t)] = [@ EXCEPT !.done = done]]
        BY <4>2, BuffersStay
      <4> QED BY <3>2, <4>1, <4>2 DEF Marks
    <3>3. CASE req' = req
      BY <3>3 DEF SamePipes, SameHeld
    <3> QED BY <3>1, <3>2, <3>3
  <2> QED BY <2>1, <2>2, <2>3, <2>4
<1> QED BY <1>1, <1>2, <1>3, HandsOn

\* The cleanup takes its snapshot.
LEMMA StopScanHand ==
  ASSUME TypeInv, ListInv, HandInv, StopScan PROVE HandInv'
<1> DEFINE users == Keep(running, UsersOf(target))
<1>1. users \in Seq(Reqs) /\ Single(users)
  BY KeepFacts DEF ListInv, Seqs, OneList
<1>2. /\ hand' = [hand EXCEPT ![User] = users] /\ User \in Threads
      /\ Goto(User, IF users = <<>> THEN "drain" ELSE "cancel")
      /\ UNCHANGED <<req, target>>
  BY DEF StopScan, Threads
<1> HIDE DEF users
<1>3. PICK to \in {"drain", "cancel"} : Goto(User, to) /\ (to = "cancel" => users # <<>>)
  BY <1>2
<1>4. OneMoves(User) /\ pc'[User] = to
  BY <1>1, <1>2, <1>3, SnapshotAlone DEF HandPcs
<1>5. hand'[User] = users
  BY <1>2 DEF ListInv, Seqs
<1>6. SamePipes /\ SameHeld
  BY <1>2 DEF SamePipes, SameHeld
<1> QED BY <1>1, <1>2, <1>4, <1>5, <1>6, HandQuiet DEF StopPcs, HandPcs

LEMMA HandInvInit == ASSUME Init PROVE HandInv
<1>1. OnePipe
  BY DEF Init, OnePipe
<1>2. SingleHands /\ HandsHeld
  BY DEF Init, SingleHands, HandsHeld, HandPcs, Threads
<1> QED BY <1>1, <1>2 DEF HandInv

\* Every step leaves a worker what it has to give back.
LEMMA HandInvStep ==
  ASSUME SinglePipe, QueuesFree, TypeInv, ListInv, LifeInv, StreamInv, JobInv, HandInv,
         [Next]_vars
  PROVE  HandInv'
<1>a. User \in Threads /\ Pipes \subseteq Threads /\ User \notin Pipes
  BY ConstantsAssumption DEF Threads
<1>b. req' = req => SamePipes /\ SameHeld
  BY DEF SamePipes, SameHeld
<1>1. ASSUME NEW p \in Pipes, StartCtx(p) \/ StopBegin(p) PROVE HandInv'
  <2>1. /\ pc[User] = "idle" /\ UNCHANGED <<req, hand>>
        /\ Goto(User, "on") \/ Goto(User, "halt")
    BY <1>1 DEF StartCtx, StopBegin
  <2> QED BY <1>a, <1>b, <2>1, HandsOff DEF StopPcs, HandPcs
<1>2. ASSUME NEW p \in Pipes, FrameDone(p) PROVE HandInv'
  <2>1. PICK r : req' = [req EXCEPT ![r].isQueued = @ \cup {p}]
    BY <1>2 DEF FrameDone
  <2>2. req' = [req EXCEPT ![r] = [@ EXCEPT !.isQueued = req[r].isQueued \cup {p}]]
    BY <2>1
  <2>3. SamePipes /\ SameHeld
    BY <2>2, BuffersStay
  <2> QED BY <1>2, <2>3, HandStill DEF FrameDone
<1>3. ASSUME NEW p \in Pipes, Work(p) PROVE HandInv'
  <2>1. CASE WorkStart(p)
    <3>1. /\ Goto(p, "idle") \/ Goto(p, "scan")
          /\ UNCHANGED <<req, hand, target>>
      BY <2>1 DEF WorkStart, Finish
    <3> QED BY <1>a, <1>b, <3>1, HandsOff
  <2>2. CASE WorkRemove(p)
    BY <1>a, <2>2, WalkHand DEF WorkRemove
  <2> QED BY <1>a, <1>3, <2>1, <2>2, ScanHand, WalkHand, ReturnHand, TryHand DEF Work
<1>4. CASE StopStep
  <2>1. CASE StopHalt
    <3>1. pc[User] = "halt" /\ Goto(User, "pend") /\ UNCHANGED <<req, hand, target>>
      BY <2>1 DEF StopHalt
    <3> QED BY <1>a, <1>b, <3>1, HandsOff DEF StopPcs
  <2>2. CASE StopRemove
    BY <1>a, <2>2, WalkHand DEF StopRemove
  <2>3. CASE StopDrain
    <3>1. /\ pc[User] = "drain" /\ Goto(User, "idle") /\ UNCHANGED <<req, hand, target>>
          /\ doneWq[target] = <<>> /\ target \in Pipes
      BY <2>3 DEF StopDrain, TypeInv
    <3>2. pc[target] \notin HandPcs
      BY <3>1 DEF StreamInv, Works, HandPcs
    <3> QED BY <1>a, <1>b, <3>1, <3>2, HandsOff
  <2> QED BY <1>4, <1>a, <2>1, <2>2, <2>3, StopPendingHand, StopScanHand, WalkHand, ReturnHand
      DEF StopStep
<1>5. CASE StreamOn
  <2>1. pc[User] = "on" /\ Goto(User, "try") /\ UNCHANGED <<req, hand, target>>
    BY <1>5 DEF StreamOn
  <2> QED BY <1>a, <1>b, <2>1, HandsOff DEF StopPcs, HandPcs
<1>6. CASE UNCHANGED vars
  BY <1>6, <1>b, HandStill DEF vars, threads
<1> QED BY <1>a, <1>1, <1>2, <1>3, <1>4, <1>5, <1>6, QueueHand, TryHand DEF Next, UserStep

-----------------------------------------------------------------------------
(* What user space may queue again.                                        *)

\* A request whose buffers are all back is on no list: one that waits or runs
\* holds buffers, and so does one that a worker is about to unlink.
LEMMA BackUnlinked ==
  ASSUME ListInv, LifeInv, JobInv, pc[User] = "idle", NEW r \in Reqs, req[r].held = {}
  PROVE  ~In(r, pending) /\ ~In(r, batch) /\ ~In(r, running)
<1> SUFFICES ASSUME In(r, pending) \/ In(r, batch) \/ In(r, running) PROVE FALSE
  OBVIOUS
<1>1. Alive(req[r]) /\ req[r].pipeUsed # {}
  BY DEF LifeInv, Lives, ListInv, Users
<1>2. In(r, running) /\ req[r].state = "deleting"
  BY <1>1 DEF LifeInv, ListStates, Alive
<1>3. PICK t \in Threads : pc[t] = "remove" /\ Current(t) = r
  BY <1>2 DEF JobInv, Deleters
<1>4. t \in Pipes /\ Covered(t)
  BY <1>3 DEF Threads, JobInv, Owed
<1> QED BY <1>3, <1>4 DEF Covered, HandPcs

\* Nor is it in anybody's hands, when requests are not reused or are for one
\* camera each.
LEMMA QueuedFree ==
  ASSUME ~Reuse \/ SinglePipe, ListInv, LifeInv, JobInv, SinglePipe => HandInv
  PROVE  QueuesFree
<1> SUFFICES ASSUME NEW r \in Reqs, pc[User] = "idle", req[r].held = {},
                    Reuse \/ req[r].pipeUsed = {}
             PROVE  Free(r)
  BY DEF QueuesFree
<1>1. ~In(r, pending) /\ ~In(r, batch) /\ ~In(r, running)
  BY BackUnlinked
<1>2. ASSUME NEW t \in Threads, pc[t] \in HandPcs, In(r, hand[t]) PROVE FALSE
  <2>1. PipeOf(t) \in req[r].pipeUsed
    BY <1>2 DEF LifeInv, Snapshots, Taken
  <2>2. SinglePipe /\ t \in Pipes
    BY <1>2, <2>1 DEF Threads, HandPcs
  <2>3. ~Stopping(t)
    BY DEF Stopping, StopPcs, HandPcs
  <2> QED BY <1>2, <2>2, <2>3 DEF HandInv, HandsHeld
<1> QED BY <1>1, <1>2 DEF Free

-----------------------------------------------------------------------------
(* What a worker still has to mark.                                        *)

\* A worker without a snapshot has nothing in hand, and one with a snapshot works
\* on frames up to the one it dequeues.
UpToDate(p) == \A r \in Reqs : In(r, hand[p]) => req[r].seq[p] <= deq[p]
WorkHands == \A p \in Pipes : UpToDate(p) /\ (pc[p] \notin HandPcs => hand[p] = <<>>)

\* Numbers are given to requests that wait.
SameSeqs == \A x \in Reqs : ~In(x, batch) => req'[x].seq = req[x].seq

LEMMA SeqsStay ==
  ASSUME TypeInv, ListInv, [Next]_vars PROVE SameSeqs
<1> SUFFICES ASSUME NEW x \in Reqs, ~In(x, batch) PROVE req'[x].seq = req[x].seq
  BY DEF SameSeqs
<1>a. req[x] \in ReqType
  BY DEF TypeInv
<1>1. CASE req' = req
  BY <1>1
<1>2. ASSUME NEW r, NEW S, NEW s,
             \/ req' = [req EXCEPT ![r] = [@ EXCEPT !.done = S]]
             \/ req' = [req EXCEPT ![r] = [@ EXCEPT !.done = S, !.state = s]]
             \/ req' = [req EXCEPT ![r] = [@ EXCEPT !.state = s]]
      PROVE  req'[x].seq = req[x].seq
  <2>1. \/ req'[x] = req[x]
        \/ req'[x] = [req[x] EXCEPT !.done = S]
        \/ req'[x] = [req[x] EXCEPT !.done = S, !.state = s]
        \/ req'[x] = [req[x] EXCEPT !.state = s]
    BY <1>2 DEF TypeInv
  <2> QED BY <1>a, <2>1 DEF ReqType
<1>6. ASSUME NEW r, NEW S,
             \/ req' = [req EXCEPT ![r] = [@ EXCEPT !.armed = S]]
             \/ req' = [req EXCEPT ![r] = [@ EXCEPT !.held = S]]
             \/ req' = [req EXCEPT ![r] = [@ EXCEPT !.isQueued = S]]
      PROVE  req'[x].seq = req[x].seq
  <2>1. \/ req'[x] = req[x]
        \/ req'[x] = [req[x] EXCEPT !.armed = S]
        \/ req'[x] = [req[x] EXCEPT !.held = S]
        \/ req'[x] = [req[x] EXCEPT !.isQueued = S]
    BY <1>6 DEF TypeInv
  <2> QED BY <1>a, <2>1 DEF ReqType
<1>3. ASSUME NEW t \in Threads, TryQueue(t) PROVE req'[x].seq = req[x].seq
  <2>1. CASE Enqueue(t)
    <3>1. Head(batch) \in Reqs /\ In(Head(batch), batch)
      BY <2>1, TailFacts DEF Enqueue, ListInv, Seqs, Batch
    <3>2. req'[x] = req[x]
      BY <2>1, <3>1, OneChanged DEF Enqueue
    <3> QED BY <3>2
  <2> QED BY <1>1, <1>3, <2>1 DEF TryQueue, TryPick, EnqueueRejected
<1>4. ASSUME NEW t \in Threads, Claim(t) \/ Return(t) PROVE req'[x].seq = req[x].seq
  <2>1. \/ \E S : req' = [req EXCEPT ![Current(t)] = [@ EXCEPT !.armed = S]]
        \/ \E S : req' = [req EXCEPT ![Current(t)] = [@ EXCEPT !.held = S]]
    BY <1>4 DEF Claim, Return
  <2> QED BY <1>6, <2>1
<1>5. ASSUME NEW t \in Threads, NEW s, RemoveFromRunning(t, s) PROVE req'[x].seq = req[x].seq
  <2>1. req' = [req EXCEPT ![Current(t)] = [@ EXCEPT !.state = s]]
    BY <1>5 DEF RemoveFromRunning
  <2> QED BY <1>2, <2>1
<1>7. ASSUME NEW t, WorkMark(t) \/ (t = User /\ StopMark) PROVE req'[x].seq = req[x].seq
  <2>1. ASSUME NEW S, req' = [req EXCEPT ![Current(t)] = [@ EXCEPT !.done = S]]
        PROVE  req'[x].seq = req[x].seq
    BY <1>2, <2>1
  <2>2. ASSUME NEW S, req' = [req EXCEPT ![Current(t)] = [@ EXCEPT !.done = S, !.state = "deleting"]]
        PROVE  req'[x].seq = req[x].seq
    BY <1>2, <2>2
  <2>3. \/ req' = req
        \/ \E S : req' = [req EXCEPT ![Current(t)] = [@ EXCEPT !.done = S]]
        \/ \E S : req' = [req EXCEPT ![Current(t)] = [@ EXCEPT !.done = S, !.state = "deleting"]]
    <3>1. CASE WorkMark(t)
      BY <3>1 DEF WorkMark
    <3>2. CASE t = User /\ StopMark
      BY <3>2 DEF StopMark
    <3> QED BY <1>7, <3>1, <3>2
  <2> QED BY <1>1, <2>1, <2>2, <2>3
<1>9. CASE StopCancel \/ \E p \in Pipes : FrameDone(p)
  <2>1. \E r, S : req' = [req EXCEPT ![r] = [@ EXCEPT !.isQueued = S]]
    BY <1>9 DEF StopCancel, FrameDone
  <2> QED BY <1>6, <2>1
<1>10. CASE StopPending
  BY <1>a, <1>10 DEF StopPending, ReqType
<1>11. ASSUME NEW r \in Reqs, NEW used \in PipeSets, Queue(r, used)
       PROVE  req'[x].seq = req[x].seq
  <2>1. /\ req'[r] = [req[r] EXCEPT !.state = "pending", !.done = {}, !.pipeUsed = used,
                                    !.armed = used, !.held = used]
        /\ \A y \in Reqs \ {r} : req'[y] = req[y]
    BY <1>11, OneChanged DEF Queue
  <2>2. CASE x = r
    <3>1. req'[x] = [req[x] EXCEPT !.state = "pending", !.done = {}, !.pipeUsed = used,
                                   !.armed = used, !.held = used]
      BY <2>1, <2>2
    <3> QED BY <1>a, <3>1 DEF ReqType
  <2> QED BY <2>1, <2>2
<1>12. ASSUME NEW p \in Pipes, StartCtx(p) \/ StopBegin(p) \/ WorkStart(p) \/ WorkScan(p)
       PROVE  req'[x].seq = req[x].seq
  BY <1>12 DEF StartCtx, StopBegin, WorkStart, WorkScan
<1>13. CASE StreamOn \/ StopHalt \/ StopScan \/ StopDrain
  BY <1>13 DEF StreamOn, StopHalt, StopScan, StopDrain
<1>14. Pipes \subseteq Threads /\ User \in Threads
  BY DEF Threads
<1>15. ASSUME NEW p \in Pipes, Work(p) PROVE req'[x].seq = req[x].seq
  BY <1>3, <1>4, <1>5, <1>7, <1>12, <1>14, <1>15 DEF Work, WorkRemove
<1>16. CASE UserStep
  BY <1>3, <1>4, <1>5, <1>7, <1>9, <1>10, <1>13, <1>14, <1>16 DEF UserStep, StopStep, StopRemove
<1>17. CASE UNCHANGED vars
  BY <1>17 DEF vars
<1> QED BY <1>9, <1>11, <1>12, <1>15, <1>16, <1>17 DEF Next

\* A thread that goes on with its snapshot or has none, on numbers that stay.
LEMMA WorkHandsStay ==
  ASSUME TypeInv, ListInv, LifeInv, WorkHands, SameSeqs, NEW t \in Threads, OneMoves(t),
         \A p \in Pipes \ {t} : deq'[p] = deq[p],
         t \in Pipes =>
           \/ pc'[t] \notin HandPcs /\ hand'[t] = <<>>
           \/ /\ pc'[t] \in HandPcs /\ pc[t] \in HandPcs /\ deq'[t] = deq[t]
              /\ \A x : In(x, hand'[t]) => In(x, hand[t])
  PROVE  WorkHands'
<1>a. \A p \in Pipes : p \in Threads
  BY DEF Threads
<1>1. ASSUME NEW p \in Pipes, deq'[p] = deq[p],
             \A x : In(x, hand'[p]) => In(x, hand[p]),
             pc[p] \notin HandPcs => hand'[p] = <<>>
      PROVE  \A r \in Reqs : In(r, hand'[p]) => req'[r].seq[p] <= deq'[p]
  <2> SUFFICES ASSUME NEW r \in Reqs, In(r, hand'[p]) PROVE req'[r].seq[p] <= deq'[p]
    OBVIOUS
  <2>1. pc[p] \in HandPcs
    BY <1>1 DEF In
  <2>2. req[r].state # "pending"
    BY <1>1, <1>a, <2>1 DEF LifeInv, Snapshots, Taken
  <2>3. ~In(r, batch)
    BY <2>2 DEF LifeInv, ListStates
  <2> QED BY <1>1, <2>3 DEF WorkHands, UpToDate, SameSeqs
<1>2. ASSUME NEW p \in Pipes \ {t} PROVE UpToDate(p)' /\ (pc'[p] \notin HandPcs => hand'[p] = <<>>)
  <2>1. pc'[p] = pc[p] /\ hand'[p] = hand[p] /\ deq'[p] = deq[p]
    BY <1>a DEF OneMoves
  <2>2. pc[p] \notin HandPcs => hand[p] = <<>>
    BY DEF WorkHands
  <2> QED BY <1>1, <2>1, <2>2 DEF UpToDate
<1>3. ASSUME t \in Pipes PROVE UpToDate(t)' /\ (pc'[t] \notin HandPcs => hand'[t] = <<>>)
  <2>1. CASE pc'[t] \notin HandPcs /\ hand'[t] = <<>>
    BY <2>1 DEF UpToDate, In
  <2>2. CASE /\ pc'[t] \in HandPcs /\ pc[t] \in HandPcs /\ deq'[t] = deq[t]
             /\ \A x : In(x, hand'[t]) => In(x, hand[t])
    BY <1>1, <1>3, <2>2 DEF UpToDate
  <2> QED BY <1>3, <2>1, <2>2
<1> QED BY <1>2, <1>3 DEF WorkHands

\* No thread moves.
LEMMA WorkHandsStill ==
  ASSUME ListInv, LifeInv, WorkHands, SameSeqs, UNCHANGED <<pc, hand, deq>>
  PROVE  WorkHands'
<1> SUFFICES ASSUME NEW p \in Pipes, NEW r \in Reqs, In(r, hand[p])
             PROVE  req'[r].seq[p] <= deq[p]
  BY DEF WorkHands, UpToDate
<1>1. pc[p] \in HandPcs /\ p \in Threads
  BY DEF WorkHands, In, Threads
<1>2. ~In(r, batch)
  BY <1>1 DEF LifeInv, Snapshots, Taken, ListStates
<1> QED BY <1>2 DEF WorkHands, UpToDate, SameSeqs

\* The next entry, or none.
LEMMA WorkHandsNext ==
  ASSUME TypeInv, ListInv, LifeInv, StreamInv, WorkHands, SameSeqs, NEW t \in Threads,
         pc[t] \in HandPcs, NextInHand(t)
  PROVE  WorkHands'
<1>1. OneMoves(t) /\ \A x : In(x, hand'[t]) => In(x, hand[t])
  BY NextAlone, NextHand
<1>2. hand'[t] = Tail(hand[t]) /\ hand[t] \in Seq(Reqs) /\ hand[t] # <<>>
  BY NextHand, AtHand
<1>3. \A p \in Pipes \ {t} : deq'[p] = deq[p]
  BY DEF NextInHand, Finish, FinishedDeq, StreamInv, QueueTypes
<1>4. t \in Pipes => \/ pc'[t] \notin HandPcs /\ hand'[t] = <<>>
                     \/ pc'[t] \in HandPcs /\ deq'[t] = deq[t]
  <2> SUFFICES ASSUME t \in Pipes, t # User
               PROVE  \/ pc'[t] \notin HandPcs /\ hand'[t] = <<>>
                      \/ pc'[t] \in HandPcs /\ deq'[t] = deq[t]
    BY ConstantsAssumption
  <2>1. CASE Len(hand[t]) > 1
    BY <2>1 DEF NextInHand, Goto, TypeInv, HandPcs
  <2>2. CASE ~(Len(hand[t]) > 1)
    <3>1. Tail(hand[t]) = <<>>
      BY <1>2, <2>2
    <3>2. pc'[t] \in {"try", "idle"}
      BY <2>2 DEF NextInHand, Goto, Finish, TypeInv
    <3> QED BY <1>2, <3>1, <3>2 DEF HandPcs
  <2> QED BY <2>1, <2>2
<1> QED BY <1>1, <1>3, <1>4, WorkHandsStay

\* The scan of a worker stops before the first later frame.
LEMMA WorkHandsScan ==
  ASSUME TypeInv, ListInv, LifeInv, StreamInv, WorkHands, SameSeqs, NEW p \in Pipes, WorkScan(p)
  PROVE  WorkHands'
<1>a. p \in Threads /\ p # User /\ \A q \in Pipes : q \in Threads
  BY ConstantsAssumption DEF Threads
<1>1. /\ DoneRequests(p) \in Seq(Reqs)
      /\ \A x : In(x, DoneRequests(p)) => In(x, running) /\ ~Later(x, p)
  BY DoneRequestsFacts
<1>2. pc[p] = "scan" /\ hand' = [hand EXCEPT ![p] = DoneRequests(p)] /\ req' = req
  BY DEF WorkScan
<1>3. PICK to \in {"idle", "mark"} :
        /\ Goto(p, to) /\ (to = "mark" <=> DoneRequests(p) # <<>>)
        /\ to = "mark" => deq' = deq
        /\ \A q \in Pipes \ {p} : deq'[q] = deq[q]
  <2>1. CASE DoneRequests(p) = <<>>
    BY <1>a, <2>1 DEF WorkScan, Finish, FinishedDeq, StreamInv, QueueTypes
  <2>2. CASE DoneRequests(p) # <<>>
    BY <2>2 DEF WorkScan
  <2> QED BY <2>1, <2>2
<1>4. OneMoves(p) /\ pc'[p] = to /\ hand'[p] = DoneRequests(p)
  <2>1. OneMoves(p) /\ pc'[p] = to
    BY <1>a, <1>1, <1>2, <1>3, SnapshotAlone DEF HandPcs
  <2> QED BY <1>a, <1>2, <2>1 DEF ListInv, Seqs
<1>5. ASSUME to = "mark" PROVE UpToDate(p)'
  <2> SUFFICES ASSUME NEW r \in Reqs, In(r, DoneRequests(p)) PROVE req'[r].seq[p] <= deq'[p]
    BY <1>4 DEF UpToDate
  <2>1. req[r].seq[p] \in Nat /\ deq[p] \in Nat
    BY DEF TypeInv, ReqType, StreamInv, QueueTypes
  <2>2. ~Later(r, p)
    BY <1>1
  <2> QED BY <1>2, <1>3, <1>5, <2>1, <2>2 DEF Later
<1>6. UpToDate(p)' /\ (pc'[p] \notin HandPcs => hand'[p] = <<>>)
  <2>1. to = "idle" => hand'[p] = <<>> /\ pc'[p] = "idle"
    BY <1>3, <1>4
  <2>2. hand'[p] = <<>> => UpToDate(p)'
    BY DEF UpToDate, In
  <2> QED BY <1>4, <1>5, <2>1, <2>2 DEF HandPcs
<1>7. ASSUME NEW q \in Pipes \ {p} PROVE UpToDate(q)' /\ (pc'[q] \notin HandPcs => hand'[q] = <<>>)
  <2>1. pc'[q] = pc[q] /\ hand'[q] = hand[q] /\ deq'[q] = deq[q]
    BY <1>a, <1>3, <1>4 DEF OneMoves
  <2> QED BY <1>2, <2>1 DEF WorkHands, UpToDate
<1> QED BY <1>6, <1>7 DEF WorkHands

LEMMA WorkHandsInit == ASSUME Init PROVE WorkHands
  BY DEF Init, WorkHands, UpToDate, In, Threads

\* Every step keeps the snapshots of the workers up to date.
LEMMA WorkHandsStep ==
  ASSUME TypeInv, ListInv, LifeInv, StreamInv, WorkHands, [Next]_vars PROVE WorkHands'
<1>a. User \in Threads /\ Pipes \subseteq Threads /\ User \notin Pipes
  BY ConstantsAssumption DEF Threads
<1>b. SameSeqs
  BY SeqsStay
<1>c. OneMoves(User) /\ deq' = deq => WorkHands'
  BY <1>a, <1>b, WorkHandsStay
<1>d. ASSUME NEW t \in Threads, NEW to, Goto(t, to), UNCHANGED hand,
             pc[t] \notin HandPcs, to \notin HandPcs, \A p \in Pipes \ {t} : deq'[p] = deq[p]
      PROVE  WorkHands'
  <2>1. OneMoves(t) /\ pc'[t] = to
    BY <1>d, GotoAlone
  <2>2. t \in Pipes => hand'[t] = <<>>
    BY <1>d DEF WorkHands
  <2> QED BY <1>b, <1>d, <2>1, <2>2, WorkHandsStay
<1>e. ASSUME NEW t \in Threads, NEW to \in HandPcs, Goto(t, to), UNCHANGED <<hand, deq>>,
             pc[t] \in HandPcs
      PROVE  WorkHands'
  <2>1. OneMoves(t) /\ pc'[t] = to
    BY <1>e, GotoAlone
  <2> QED BY <1>b, <1>e, <2>1, WorkHandsStay
<1>f. ASSUME NEW t \in Threads, Finish(t) PROVE \A p \in Pipes \ {t} : deq'[p] = deq[p]
  BY <1>f DEF Finish, FinishedDeq, StreamInv, QueueTypes
<1>1. ASSUME NEW t \in Threads, TryQueue(t) PROVE WorkHands'
  <2>1. CASE pc' = pc
    <3>1. UNCHANGED <<pc, hand, deq>>
      <4>1. CASE Finish(t)
        <5>1. pc[t] \in {"try", "enqueue"} /\ pc[t] = "idle"
          BY <1>1, <2>1, <4>1 DEF TryQueue, TryPick, Enqueue, EnqueueRejected, Finish, Goto, TypeInv
        <5> QED BY <5>1
      <4> QED BY <1>1, <2>1, <4>1 DEF TryQueue, TryPick, Enqueue, EnqueueRejected, threads
    <3> QED BY <1>b, <3>1, WorkHandsStill
  <2>2. CASE pc' # pc
    <3>1. /\ pc[t] \in {"try", "enqueue"} /\ UNCHANGED hand
          /\ Finish(t) \/ (Goto(t, "enqueue") /\ deq' = deq)
      BY <1>1, <2>2 DEF TryQueue, TryPick, Enqueue, EnqueueRejected, threads
    <3>2. \/ Goto(t, "idle") /\ \A p \in Pipes \ {t} : deq'[p] = deq[p]
          \/ Goto(t, "enqueue") /\ deq' = deq
      BY <1>f, <3>1 DEF Finish
    <3> QED BY <3>1, <3>2, <1>d DEF HandPcs
  <2> QED BY <2>1, <2>2
<1>2. ASSUME NEW t \in Threads, Claim(t) \/ Return(t) PROVE WorkHands'
  <2>1. pc[t] \in HandPcs /\ (NextInHand(t) \/ (Goto(t, "return") /\ UNCHANGED <<hand, deq>>))
    BY <1>2 DEF Claim, Return, HandPcs
  <2> QED BY <1>b, <1>e, <2>1, WorkHandsNext DEF HandPcs
<1>3. ASSUME NEW p \in Pipes, StartCtx(p) \/ StopBegin(p) \/ FrameDone(p) PROVE WorkHands'
  <2>1. CASE StartCtx(p) \/ StopBegin(p)
    <3>1. /\ pc[User] = "idle" /\ UNCHANGED <<hand, deq>>
          /\ Goto(User, "on") \/ Goto(User, "halt")
      BY <2>1 DEF StartCtx, StopBegin
    <3> QED BY <1>a, <1>d, <3>1 DEF HandPcs
  <2>2. CASE FrameDone(p)
    BY <1>b, <2>2, WorkHandsStill DEF FrameDone
  <2> QED BY <1>3, <2>1, <2>2
<1>4. ASSUME NEW p \in Pipes, Work(p) PROVE WorkHands'
  <2>1. CASE WorkStart(p)
    <3>1. /\ pc[p] = "idle" /\ UNCHANGED hand
          /\ Finish(p) \/ (Goto(p, "scan") /\ deq' = [deq EXCEPT ![p] = req[Head(doneWq[p])].seq[p]])
      BY <2>1 DEF WorkStart
    <3>2. \A q \in Pipes \ {p} : deq'[q] = deq[q]
      BY <1>a, <1>f, <3>1 DEF StreamInv, QueueTypes
    <3> QED BY <1>a, <1>d, <3>1, <3>2 DEF HandPcs, Finish
  <2>2. CASE WorkMark(p)
    <3>1. /\ pc[p] \in HandPcs
          /\ \/ NextInHand(p)
             \/ \E to \in {"remove", "claim"} : Goto(p, to) /\ UNCHANGED <<hand, deq>>
      BY <2>2 DEF WorkMark, HandPcs
    <3> QED BY <1>a, <1>b, <1>e, <3>1, WorkHandsNext DEF HandPcs
  <2>3. CASE WorkRemove(p)
    BY <1>a, <1>e, <2>3 DEF WorkRemove, RemoveFromRunning, HandPcs
  <2> QED BY <1>a, <1>b, <1>1, <1>2, <1>4, <2>1, <2>2, <2>3, WorkHandsScan DEF Work
<1>5. CASE StopStep
  <2>1. CASE StopScan
    <3> DEFINE users == Keep(running, UsersOf(target))
    <3>1. users \in Seq(Reqs)
      BY KeepFacts DEF ListInv, Seqs
    <3>2. /\ hand' = [hand EXCEPT ![User] = users] /\ deq' = deq
          /\ Goto(User, IF users = <<>> THEN "drain" ELSE "cancel")
      BY <2>1 DEF StopScan
    <3> HIDE DEF users
    <3>3. PICK to \in {"drain", "cancel"} : Goto(User, to) /\ (to = "cancel" => users # <<>>)
      BY <3>2
    <3>4. OneMoves(User)
      BY <1>a, <3>1, <3>2, <3>3, SnapshotAlone DEF HandPcs
    <3> QED BY <1>c, <3>2, <3>4
  <2>2. CASE StopCancel \/ StopMark \/ StopRemove
    <3>1. /\ pc[User] \in HandPcs /\ UNCHANGED <<hand, deq>>
          /\ \E to \in HandPcs : Goto(User, to)
      BY <2>2 DEF StopCancel, StopMark, StopRemove, RemoveFromRunning, HandPcs
    <3> QED BY <1>a, <1>e, <3>1
  <2>3. CASE StopHalt \/ StopPending \/ StopDrain
    <3>1. /\ pc[User] \notin HandPcs /\ UNCHANGED <<hand, deq>>
          /\ \E to \in {"pend", "scan", "idle"} : Goto(User, to)
      BY <2>3 DEF StopHalt, StopPending, StopDrain, HandPcs
    <3> QED BY <1>a, <1>d, <3>1 DEF HandPcs
  <2> QED BY <1>5, <1>a, <1>2, <2>1, <2>2, <2>3 DEF StopStep
<1>6. CASE StreamOn \/ \E r \in Reqs, used \in PipeSets : Queue(r, used)
  <2>1. pc[User] \in {"on", "idle"} /\ Goto(User, "try") /\ UNCHANGED <<hand, deq>>
    BY <1>6 DEF StreamOn, Queue
  <2> QED BY <1>a, <1>d, <2>1 DEF HandPcs
<1>7. CASE UNCHANGED vars
  BY <1>7, <1>b, WorkHandsStill DEF vars, threads
<1> QED BY <1>a, <1>1, <1>3, <1>4, <1>5, <1>6, <1>7 DEF Next, UserStep

-----------------------------------------------------------------------------
(* Where the buffers are, with one camera.                                 *)

OneCamera == \A p, q \in Pipes : p = q

\* Who is going to give the buffers of r back: the list it waits or runs on, or
\* the thread that unlinked it and is about to claim and to return them.
Booked(r) ==
  /\ req[r].state = "pending" /\ req[r].held # {} => In(r, pending) \/ In(r, batch)
  /\ req[r].state = "deleting" => In(r, running)
  /\ req[r].state \in {"complete", "cleanup"} /\ req[r].armed # {} =>
       \E t \in Threads : pc[t] = "claim" /\ Current(t) = r
  /\ ~(req[r].held \subseteq req[r].armed) =>
       \E t \in Threads : pc[t] = "return" /\ Current(t) = r
Books == \A r \in Reqs : Booked(r)

SameBook(r) ==
  /\ req'[r].held = req[r].held /\ req'[r].armed = req[r].armed
  /\ \/ req'[r].state = req[r].state
     \/ req'[r].state = "deleting" /\ In(r, running')
KeptOnList(r) ==
  /\ In(r, pending) \/ In(r, batch) => In(r, pending') \/ In(r, batch')
  /\ In(r, running) => In(r, running')
\* The thread that claims or returns the buffers of r goes on to do so.
KeptInHand(r) ==
  \A u \in Threads : pc[u] \in {"claim", "return"} /\ Current(u) = r =>
    pc'[u] = pc[u] /\ hand'[u] = hand[u]

\* The same of the next state.
WillBook(r) ==
  /\ req'[r].state = "pending" /\ req'[r].held # {} => In(r, pending') \/ In(r, batch')
  /\ req'[r].state = "deleting" => In(r, running')
  /\ req'[r].state \in {"complete", "cleanup"} /\ req'[r].armed # {} =>
       \E t \in Threads : pc'[t] = "claim" /\ Head(hand'[t]) = r
  /\ ~(req'[r].held \subseteq req'[r].armed) =>
       \E t \in Threads : pc'[t] = "return" /\ Head(hand'[t]) = r

LEMMA WillBooks == ASSUME \A r \in Reqs : WillBook(r) PROVE Books'
  BY DEF WillBook, Books, Booked, Current

\* A request that a step does not concern.
LEMMA BookStays ==
  ASSUME NEW r, Booked(r), SameBook(r), KeptOnList(r), KeptInHand(r) PROVE WillBook(r)
<1>1. ASSUME NEW u \in Threads, pc[u] \in {"claim", "return"}, Current(u) = r
      PROVE  pc'[u] = pc[u] /\ Head(hand'[u]) = r
  BY <1>1 DEF KeptInHand, Current
<1> QED BY <1>1 DEF Booked, SameBook, KeptOnList, WillBook

\* A step of a thread that neither claims nor returns, and concerns no request.
LEMMA BooksKeep ==
  ASSUME Books, NEW t \in Threads, OneMoves(t), pc[t] \notin {"claim", "return"},
         \A r \in Reqs : SameBook(r) /\ KeptOnList(r)
  PROVE  Books'
<1>1. ASSUME NEW r \in Reqs PROVE WillBook(r)
  <2>1. KeptInHand(r)
    BY DEF KeptInHand, OneMoves
  <2> QED BY <2>1, BookStays DEF Books
<1> QED BY <1>1, WillBooks

LEMMA BooksQuiet ==
  ASSUME Books, SameLives, UNCHANGED <<pending, batch, running>>,
         NEW t \in Threads, OneMoves(t), pc[t] \notin {"claim", "return"}
  PROVE  Books'
<1>1. \A r \in Reqs : SameBook(r) /\ KeptOnList(r)
  BY DEF SameLives, SameLife, SameBook, KeptOnList
<1> QED BY <1>1, BooksKeep

\* A step of thread t that concerns one request.
LEMMA BooksOne ==
  ASSUME Books, NEW t \in Threads, OneMoves(t), NEW r \in Reqs,
         pc[t] \in {"claim", "return"} => Current(t) = r,
         \A x \in Reqs \ {r} : SameBook(x) /\ KeptOnList(x),
         WillBook(r)
  PROVE  Books'
<1>1. ASSUME NEW x \in Reqs \ {r} PROVE WillBook(x)
  <2>1. KeptInHand(x)
    BY DEF KeptInHand, OneMoves
  <2> QED BY <2>1, BookStays DEF Books
<1> QED BY <1>1, WillBooks

LEMMA BooksStill ==
  ASSUME Books, SameLives, UNCHANGED <<pending, batch, running, pc, hand>> PROVE Books'
<1>1. \A r \in Reqs : SameBook(r) /\ KeptOnList(r) /\ KeptInHand(r)
  BY DEF SameLives, SameLife, SameBook, KeptOnList, KeptInHand
<1> QED BY <1>1, BookStays, WillBooks DEF Books

\* Requests that move to the caller's list and to the running list.
LEMMA TryBooks ==
  ASSUME TypeInv, ListInv, LifeInv, Books, NEW t \in Threads, TryQueue(t) PROVE Books'
<1>1. CASE TryPick(t)
  <2>1. /\ pc[t] = "try" /\ batch = <<>> /\ UNCHANGED <<req, running, hand>>
        /\ \E to \in {"idle", "enqueue"} : Goto(t, to)
    BY <1>1 DEF TryPick, QueueLockFree, Finish
  <2>2. OneMoves(t)
    BY <2>1, GotoAlone DEF HandPcs
  <2>3. \A x : In(x, pending) => In(x, pending') \/ In(x, batch')
    <3>1. CASE pending' = pending
      BY <3>1
    <3>2. CASE batch' = Runnable /\ pending' = StillPending
      <4>1. Runnable \in Seq(Reqs) /\ pending \in Seq(Reqs)
        BY RunnableFacts DEF ListInv, Seqs
      <4>2. \A x : x \in ToSet(Runnable) <=> In(x, Runnable)
        BY <4>1, ToSetIn
      <4>3. \A x : In(x, pending) => x \in Reqs
        BY <4>1 DEF In
      <4> HIDE DEF Runnable
      <4>4. \A x : In(x, StillPending) <=> In(x, pending) /\ x \in Reqs \ ToSet(Runnable)
        BY <4>1, KeepFacts DEF StillPending
      <4> QED BY <3>2, <4>2, <4>3, <4>4
    <3> QED BY <1>1, <3>1, <3>2 DEF TryPick
  <2>5. \A x : ~In(x, batch)
    BY <2>1 DEF In
  <2>4. \A r \in Reqs : SameBook(r) /\ KeptOnList(r)
    BY <2>1, <2>3, <2>5 DEF SameBook, KeptOnList
  <2> QED BY <2>1, <2>2, <2>4, BooksKeep
<1>2. CASE Enqueue(t)
  <2> DEFINE r == Head(batch)
             s == [p \in Pipes |-> IF p \in req[r].pipeUsed THEN NumbersWith(r)[p]
                                                          ELSE req[r].seq[p]]
  <2>1. /\ pc[t] = "enqueue" /\ UNCHANGED <<pending, hand>>
        /\ running' = Append(running, r) /\ batch' = Tail(batch)
        /\ req' = [req EXCEPT ![r] = [@ EXCEPT !.state = "running", !.isQueued = {},
                                              !.handed = Composed(r), !.seq = s]]
    BY <1>2 DEF Enqueue, Linked
  <2>2. batch \in Seq(Reqs) /\ batch # <<>> /\ running \in Seq(Reqs)
    BY <2>1 DEF ListInv, Seqs, Batch
  <2>3. /\ r \in Reqs /\ In(r, batch) /\ \A y : In(y, batch) => y = r \/ In(y, Tail(batch))
        /\ \A y : In(y, Append(running, r)) <=> In(y, running) \/ y = r
    BY <2>2, TailFacts, AppendFacts
  <2>4. req[r] \in ReqType /\ Alive(req[r]) /\ req[r].state = "pending"
    BY <2>3 DEF TypeInv, LifeInv, Lives, ListStates
  <2> HIDE DEF r, s
  <2>5. /\ req'[r] = [req[r] EXCEPT !.state = "running", !.isQueued = {},
                                    !.handed = Composed(r), !.seq = s]
        /\ \A x \in Reqs \ {r} : req'[x] = req[x]
    BY <2>1, <2>3, OneChanged
  <2>6. /\ req'[r].state = "running" /\ req'[r].held = req[r].held
        /\ req'[r].armed = req[r].armed
    BY <2>4, <2>5 DEF ReqType
  <2>7. WillBook(r)
    BY <2>4, <2>6 DEF WillBook, Alive
  <2>8. \A x \in Reqs \ {r} : SameBook(x) /\ KeptOnList(x)
    BY <2>1, <2>3, <2>5 DEF SameBook, KeptOnList
  <2>9. OneMoves(t)
    <3>1. Goto(t, "idle") \/ Goto(t, "enqueue")
      BY <1>2, <2>1 DEF Enqueue, Finish, Goto, TypeInv
    <3> QED BY <2>1, <3>1, GotoAlone DEF HandPcs
  <2> QED BY <2>1, <2>3, <2>7, <2>8, <2>9, BooksOne
<1>3. CASE EnqueueRejected(t)
  BY <1>3, BooksStill DEF EnqueueRejected, lists, threads, SameLives, SameLife
<1> QED BY <1>1, <1>2, <1>3 DEF TryQueue

\* A request that is queued waits with all its buffers.
LEMMA QueueBooks ==
  ASSUME TypeInv, ListInv, Books, NEW r \in Reqs, NEW used \in PipeSets, Queue(r, used)
  PROVE  Books'
<1>1. /\ pc[User] = "idle" /\ UNCHANGED <<batch, running, hand>> /\ User \in Threads
      /\ pending' = Append(pending, r) /\ Goto(User, "try")
  BY DEF Queue, Threads
<1>2. OneMoves(User)
  BY <1>1, GotoAlone DEF HandPcs
<1>3. \A y : In(y, pending') <=> In(y, pending) \/ y = r
  BY <1>1, AppendFacts DEF ListInv, Seqs
<1>4. /\ req'[r].state = "pending" /\ req'[r].held = used /\ req'[r].armed = used
      /\ \A x \in Reqs \ {r} : req'[x] = req[x]
  BY DEF Queue, TypeInv, ReqType
<1>5. WillBook(r)
  BY <1>3, <1>4 DEF WillBook
<1>6. \A x \in Reqs \ {r} : SameBook(x) /\ KeptOnList(x)
  BY <1>1, <1>3, <1>4 DEF SameBook, KeptOnList
<1> QED BY <1>1, <1>2, <1>5, <1>6, BooksOne

\* With one camera a stop gives all the buffers of the waiting requests back.
LEMMA StopPendingBooks ==
  ASSUME OneCamera, TypeInv, ListInv, LifeInv, Books, StopPending PROVE Books'
<1>1. /\ pc[User] = "pend" /\ UNCHANGED <<batch, running, hand>> /\ User \in Threads
      /\ Goto(User, "scan")
  BY DEF StopPending, Threads
<1>2. OneMoves(User)
  BY <1>1, GotoAlone DEF HandPcs
<1>3. \A x : x \in ToSet(pending) <=> In(x, pending)
  BY ToSetIn DEF ListInv, Seqs
<1>4. ASSUME NEW x \in Reqs, In(x, pending) PROVE WillBook(x)
  <2>1. req[x] \in ReqType /\ Alive(req[x]) /\ req[x].state = "pending"
    BY <1>4 DEF TypeInv, LifeInv, Lives, ListStates
  <2>2. req[x].held = {} \/ req[x].held = {target}
    BY <2>1 DEF OneCamera, TypeInv, ReqType
  <2>3. req'[x] = [req[x] EXCEPT !.pipeUsed = @ \ {target}, !.armed = @ \ {target},
                    !.held = IF target \in req[x].armed THEN @ \ {target} ELSE @]
    BY <1>3, <1>4 DEF StopPending
  <2>4. req'[x].state = "pending" /\ req'[x].held = {}
    BY <2>1, <2>2, <2>3 DEF ReqType, Alive
  <2> QED BY <2>4 DEF WillBook
<1>5. ASSUME NEW x \in Reqs, ~In(x, pending) PROVE WillBook(x)
  <2>1. req'[x] = req[x]
    BY <1>3, <1>5 DEF StopPending
  <2>2. SameBook(x) /\ KeptOnList(x)
    BY <1>1, <1>5, <2>1 DEF SameBook, KeptOnList
  <2>3. KeptInHand(x)
    BY <1>1, <1>2 DEF KeptInHand, OneMoves
  <2> QED BY <2>2, <2>3, BookStays DEF Books
<1> QED BY <1>4, <1>5, WillBooks

\* Who takes a request to DELETING has still to unlink it.
LEMMA MarkBooks ==
  ASSUME TypeInv, ListInv, Books, NEW t \in Threads, pc[t] = "mark",
         NEW done, Marks(t, Current(t), done), UNCHANGED <<pending, batch, running, hand>>
  PROVE  Books'
<1> DEFINE r == Current(t)
<1>1. r \in Reqs /\ req[r] \in ReqType
  BY AtHand DEF HandPcs, TypeInv
<1>2. OneMoves(t)
  BY GotoAlone DEF Marks, HandPcs
<1>3. SameBook(r) /\ \A x \in Reqs \ {r} : SameBook(x)
  <2>1. CASE /\ req' = [req EXCEPT ![r] = [@ EXCEPT !.done = done, !.state = "deleting"]]
             /\ req[r].state = "running"
    <3>1. /\ req'[r] = [req[r] EXCEPT !.done = done, !.state = "deleting"]
          /\ \A x \in Reqs \ {r} : req'[x] = req[x]
      <4> HIDE DEF r
      <4> QED BY <1>1, <2>1, OneChanged
    <3>2. /\ req'[r].held = req[r].held /\ req'[r].armed = req[r].armed
          /\ req'[r].state = "deleting"
      BY <1>1, <3>1 DEF ReqType
    <3>3. In(r, running)
      BY <1>1, <2>1 DEF ListInv, States
    <3> HIDE DEF r
    <3> QED BY <3>1, <3>2, <3>3 DEF SameBook
  <2>2. CASE req' = [req EXCEPT ![r] = [@ EXCEPT !.done = done]]
    <3>1. req'[r] = [req[r] EXCEPT !.done = done] /\ \A x \in Reqs \ {r} : req'[x] = req[x]
      <4> HIDE DEF r
      <4> QED BY <1>1, <2>2, OneChanged
    <3>2. /\ req'[r].held = req[r].held /\ req'[r].armed = req[r].armed
          /\ req'[r].state = req[r].state
      BY <1>1, <3>1 DEF ReqType
    <3> HIDE DEF r
    <3> QED BY <3>1, <3>2 DEF SameBook
  <2> QED BY <2>1, <2>2 DEF Marks
<1>4. \A x \in Reqs : KeptOnList(x)
  BY DEF KeptOnList
<1> HIDE DEF r
<1> QED BY <1>2, <1>3, <1>4, BooksKeep

\* Who unlinks a request is about to claim its buffers.
LEMMA RemoveBooks ==
  ASSUME TypeInv, ListInv, Books, NEW t \in Threads, NEW state \in {"complete", "cleanup"},
         RemoveFromRunning(t, state), UNCHANGED <<pending, batch, hand>>
  PROVE  Books'
<1> DEFINE r == Current(t)
<1>1. /\ pc[t] = "remove" /\ Goto(t, "claim")
      /\ running' = Keep(running, Reqs \ {r})
      /\ req' = [req EXCEPT ![r] = [@ EXCEPT !.state = state]]
  BY DEF RemoveFromRunning, Unlinked
<1>2. r \in Reqs /\ req[r] \in ReqType
  BY <1>1, AtHand DEF HandPcs, TypeInv
<1>3. OneMoves(t) /\ pc'[t] = "claim" /\ Head(hand'[t]) = r
  BY <1>1, GotoAlone DEF HandPcs, Current
<1>4. req'[r] = [req[r] EXCEPT !.state = state] /\ \A x \in Reqs \ {r} : req'[x] = req[x]
  <2> HIDE DEF r
  <2> QED BY <1>1, <1>2, OneChanged
<1>5. req'[r].held = req[r].held /\ req'[r].armed = req[r].armed /\ req'[r].state = state
  BY <1>2, <1>4 DEF ReqType
<1>6. \A x : In(x, running') <=> In(x, running) /\ x \in Reqs \ {r}
  BY <1>1, KeepFacts DEF ListInv, Seqs
<1>7. Booked(r)
  BY <1>2 DEF Books
<1> HIDE DEF r
<1>8. KeptInHand(r)
  BY <1>1, <1>3 DEF KeptInHand, OneMoves
<1>9. ASSUME ~(req[r].held \subseteq req[r].armed)
      PROVE  \E u \in Threads : pc'[u] = "return" /\ Head(hand'[u]) = r
  <2>1. PICK u \in Threads : pc[u] = "return" /\ Current(u) = r
    BY <1>7, <1>9 DEF Booked
  <2> QED BY <1>8, <2>1 DEF KeptInHand, Current
<1>10. WillBook(r)
  BY <1>3, <1>5, <1>9 DEF WillBook
<1>11. \A x \in Reqs \ {r} : SameBook(x) /\ KeptOnList(x)
  BY <1>4, <1>6 DEF SameBook, KeptOnList
<1> QED BY <1>1, <1>2, <1>3, <1>10, <1>11, BooksOne

\* The one pipe of the one camera.
LEMMA NothingLeft ==
  ASSUME OneCamera, TypeInv, NEW t \in Threads, NEW S \in SUBSET Pipes PROVE S \ {PipeOf(t)} = {}
<1>1. PipeOf(t) \in Pipes
  BY DEF PipeOf, Threads, TypeInv
<1> QED BY <1>1 DEF OneCamera

\* Who wins the claim is about to return the buffers; another has won before who
\* finds it lost.
LEMMA ClaimBooks ==
  ASSUME OneCamera, TypeInv, ListInv, LifeInv, Books, NEW t \in Threads, Claim(t) PROVE Books'
<1> DEFINE r == Current(t)
           S == req[r].armed \ {PipeOf(t)}
<1>1. pc[t] \in HandPcs /\ pc[t] = "claim" /\ UNCHANGED <<pending, batch, running>>
  BY DEF Claim, lists, HandPcs
<1>2. r \in Reqs /\ req[r] \in ReqType /\ Taken(t, r) /\ Booked(r)
  BY <1>1, AtHand DEF LifeInv, Snapshots, TypeInv, Books
<1>3. req' = [req EXCEPT ![r] = [@ EXCEPT !.armed = S]]
  BY DEF Claim
<1>4. req'[r] = [req[r] EXCEPT !.armed = S] /\ \A x \in Reqs \ {r} : req'[x] = req[x]
  <2> HIDE DEF r, S
  <2> QED BY <1>2, <1>3, OneChanged
<1>5. /\ req'[r].held = req[r].held /\ req'[r].state = req[r].state
      /\ req'[r].armed = {}
  <2>1. req[r].armed \in SUBSET Pipes
    BY <1>2 DEF ReqType
  <2>2. S = {}
    BY <2>1, NothingLeft
  <2> QED BY <1>2, <1>4, <2>2 DEF ReqType
<1>6. OneMoves(t)
  BY WalkAlone
<1>7. ASSUME NEW u \in Threads, pc[u] = "return", Current(u) = r
      PROVE  pc'[u] = "return" /\ Head(hand'[u]) = r
  <2>1. u # t
    BY <1>1, <1>7
  <2>2. pc'[u] = pc[u] /\ hand'[u] = hand[u]
    BY <1>6, <2>1 DEF OneMoves
  <2> QED BY <1>7, <2>2 DEF Current
<1>8. ASSUME ~(req[r].held \subseteq {})
      PROVE  \E u \in Threads : pc'[u] = "return" /\ Head(hand'[u]) = r
  <2>1. CASE Wins(t)
    <3>1. Goto(t, "return") /\ hand' = hand
      BY <2>1 DEF Claim
    <3>2. pc'[t] = "return" /\ Head(hand'[t]) = r
      BY <3>1 DEF Goto, TypeInv, Current
    <3> QED BY <3>2
  <2>2. CASE ~Wins(t)
    <3>1. req[r].armed = {}
      <4>1. req[r].armed \ {PipeOf(t)} = {}
        BY <1>2, NothingLeft DEF ReqType
      <4> QED BY <2>2, <4>1 DEF Wins
    <3>2. PICK u \in Threads : pc[u] = "return" /\ Current(u) = r
      BY <1>2, <1>8, <3>1 DEF Booked
    <3> QED BY <1>7, <3>2
  <2> QED BY <2>1, <2>2
<1> HIDE DEF r, S
<1>9. WillBook(r)
  BY <1>1, <1>2, <1>5, <1>8 DEF WillBook, Taken, Booked
<1>10. \A x \in Reqs \ {r} : SameBook(x) /\ KeptOnList(x)
  BY <1>1, <1>4 DEF SameBook, KeptOnList
<1>11. pc[t] \in {"claim", "return"} => Current(t) = r
  BY DEF r
<1> QED BY <1>2, <1>6, <1>9, <1>10, <1>11, BooksOne

\* Returned buffers are back.
LEMMA ReturnBooks ==
  ASSUME OneCamera, TypeInv, ListInv, LifeInv, Books, NEW t \in Threads, Return(t) PROVE Books'
<1> DEFINE r == Current(t)
           S == req[r].held \ {PipeOf(t)}
<1>1. pc[t] \in HandPcs /\ pc[t] = "return" /\ UNCHANGED <<pending, batch, running>>
  BY DEF Return, lists, HandPcs
<1>2. r \in Reqs /\ req[r] \in ReqType /\ Taken(t, r) /\ Booked(r)
  BY <1>1, AtHand DEF LifeInv, Snapshots, TypeInv, Books
<1>3. req' = [req EXCEPT ![r] = [@ EXCEPT !.held = S]]
  BY DEF Return
<1>4. req'[r] = [req[r] EXCEPT !.held = S] /\ \A x \in Reqs \ {r} : req'[x] = req[x]
  <2> HIDE DEF r, S
  <2> QED BY <1>2, <1>3, OneChanged
<1>5. /\ req'[r].armed = req[r].armed /\ req'[r].state = req[r].state
      /\ req'[r].held = {}
  <2>1. req[r].held \in SUBSET Pipes
    BY <1>2 DEF ReqType
  <2>2. S = {}
    BY <2>1, NothingLeft
  <2> QED BY <1>2, <1>4, <2>2 DEF ReqType
<1>6. OneMoves(t)
  BY WalkAlone
<1>7. ASSUME NEW u \in Threads, pc[u] = "claim", Current(u) = r
      PROVE  pc'[u] = "claim" /\ Head(hand'[u]) = r
  <2>1. u # t
    BY <1>1, <1>7
  <2>2. pc'[u] = pc[u] /\ hand'[u] = hand[u]
    BY <1>6, <2>1 DEF OneMoves
  <2> QED BY <1>7, <2>2 DEF Current
<1> HIDE DEF r, S
<1>9. WillBook(r)
  <2>1. ASSUME req[r].state \in {"complete", "cleanup"}, req[r].armed # {}
        PROVE  \E u \in Threads : pc'[u] = "claim" /\ Head(hand'[u]) = r
    <3>1. PICK u \in Threads : pc[u] = "claim" /\ Current(u) = r
      BY <1>2, <2>1 DEF Booked
    <3> QED BY <1>7, <3>1
  <2> QED BY <1>1, <1>2, <1>5, <2>1 DEF WillBook, Taken, Booked
<1>10. \A x \in Reqs \ {r} : SameBook(x) /\ KeptOnList(x)
  BY <1>1, <1>4 DEF SameBook, KeptOnList
<1>11. pc[t] \in {"claim", "return"} => Current(t) = r
  BY DEF r
<1> QED BY <1>2, <1>6, <1>9, <1>10, <1>11, BooksOne

\* No buffer is with the driver to begin with.
LEMMA BooksInit == ASSUME Init PROVE Books
  BY DEF Init, Books, Booked

\* Every step keeps the books.
LEMMA BooksInvStep ==
  ASSUME OneCamera, TypeInv, ListInv, LifeInv, Books, [Next]_vars PROVE Books'
<1>a. User \in Threads /\ Pipes \subseteq Threads /\ User \notin Pipes
  BY ConstantsAssumption DEF Threads
<1>b. req' = req => SameLives
  BY DEF SameLives, SameLife
<1>c. ASSUME NEW t \in Threads, NEW to \in {"idle", "try", "on", "halt", "pend", "drain", "scan"},
             Goto(t, to), UNCHANGED <<req, pending, batch, running, hand>>,
             pc[t] \notin {"claim", "return"}
      PROVE  Books'
  <2>1. OneMoves(t)
    BY <1>c, GotoAlone DEF HandPcs
  <2> QED BY <1>b, <1>c, <2>1, BooksQuiet
<1>d. ASSUME NEW t \in Threads, NEW to \in {"idle", "mark", "drain", "cancel"}, Goto(t, to),
             NEW new \in Seq(Reqs), hand' = [hand EXCEPT ![t] = new],
             to \in HandPcs => new # <<>>, pc[t] = "scan",
             UNCHANGED <<req, pending, batch, running>>
      PROVE  Books'
  <2>1. OneMoves(t)
    BY <1>d, SnapshotAlone
  <2> QED BY <1>b, <1>d, <2>1, BooksQuiet
<1>1. ASSUME NEW p \in Pipes, StartCtx(p) \/ StopBegin(p) \/ FrameDone(p) PROVE Books'
  <2>1. CASE StartCtx(p) \/ StopBegin(p)
    <3>1. /\ pc[User] = "idle" /\ UNCHANGED <<req, pending, batch, running, hand>>
          /\ Goto(User, "on") \/ Goto(User, "halt")
      BY <2>1 DEF StartCtx, StopBegin, lists
    <3> QED BY <1>a, <1>c, <3>1
  <2>2. CASE FrameDone(p)
    <3>1. PICK r : req' = [req EXCEPT ![r].isQueued = @ \cup {p}]
      BY <2>2 DEF FrameDone
    <3>2. req' = [req EXCEPT ![r] = [@ EXCEPT !.isQueued = req[r].isQueued \cup {p}]]
      BY <3>1
    <3>3. SameLives
      BY <3>2, QueuedBitLife
    <3> QED BY <2>2, <3>3, BooksStill DEF FrameDone, lists
  <2> QED BY <1>1, <2>1, <2>2
<1>2. ASSUME NEW p \in Pipes, Work(p) PROVE Books'
  <2>1. CASE WorkStart(p)
    <3>1. /\ Goto(p, "idle") \/ Goto(p, "scan")
          /\ pc[p] = "idle" /\ UNCHANGED <<req, pending, batch, running, hand>>
      BY <2>1 DEF WorkStart, Finish, lists
    <3> QED BY <3>1, <1>a, <1>c
  <2>2. CASE WorkScan(p)
    <3>1. DoneRequests(p) \in Seq(Reqs)
      BY DoneRequestsFacts
    <3>2. /\ hand' = [hand EXCEPT ![p] = DoneRequests(p)] /\ pc[p] = "scan"
          /\ UNCHANGED <<req, pending, batch, running>>
      BY <2>2 DEF WorkScan, lists
    <3>3. PICK to \in {"idle", "mark"} : Goto(p, to) /\ (to = "mark" => DoneRequests(p) # <<>>)
      BY <2>2 DEF WorkScan, Finish
    <3> QED BY <3>1, <3>2, <3>3, <1>a, <1>d DEF HandPcs
  <2>3. CASE WorkRemove(p)
    BY <2>3, <1>a, RemoveBooks DEF WorkRemove
  <2>4. CASE WorkMark(p)
    <3>1. pc[p] = "mark" /\ UNCHANGED <<pending, batch, running>>
      BY <2>4 DEF WorkMark, lists
    <3>2. CASE p \in req[Current(p)].done
      <4>1. NextInHand(p) /\ req' = req
        BY <2>4, <3>2 DEF WorkMark
      <4>2. OneMoves(p)
        BY <1>a, <3>1, <4>1, NextAlone DEF HandPcs
      <4> QED BY <1>a, <1>b, <3>1, <4>1, <4>2, BooksQuiet
    <3>3. CASE p \notin req[Current(p)].done
      BY <1>a, <2>4, <3>1, <3>3, WorkMarks, MarkBooks
    <3> QED BY <3>2, <3>3
  <2> QED BY <1>2, <1>a, <2>1, <2>2, <2>3, <2>4, TryBooks, ClaimBooks, ReturnBooks DEF Work
<1>3. CASE StopStep
  <2>1. CASE StopHalt \/ StopDrain
    <3>1. /\ pc[User] \in {"halt", "drain"} /\ UNCHANGED <<req, pending, batch, running, hand>>
          /\ Goto(User, "pend") \/ Goto(User, "idle")
      BY <2>1 DEF StopHalt, StopDrain, lists
    <3> QED BY <1>a, <1>c, <3>1
  <2>2. CASE StopScan
    <3> DEFINE users == Keep(running, UsersOf(target))
    <3>1. users \in Seq(Reqs)
      BY KeepFacts DEF ListInv, Seqs
    <3>2. /\ hand' = [hand EXCEPT ![User] = users] /\ pc[User] = "scan"
          /\ Goto(User, IF users = <<>> THEN "drain" ELSE "cancel")
          /\ UNCHANGED <<req, pending, batch, running>>
      BY <2>2 DEF StopScan, lists
    <3> HIDE DEF users
    <3>3. PICK to \in {"drain", "cancel"} : Goto(User, to) /\ (to = "cancel" => users # <<>>)
      BY <3>2
    <3> QED BY <3>1, <3>2, <3>3, <1>a, <1>d DEF HandPcs
  <2>3. CASE StopCancel
    <3>1. PICK r : req' = [req EXCEPT ![r].isQueued = @ \cup {target}]
      BY <2>3 DEF StopCancel
    <3>2. req' = [req EXCEPT ![r] = [@ EXCEPT !.isQueued = req[r].isQueued \cup {target}]]
      BY <3>1
    <3>3. SameLives
      BY <3>2, QueuedBitLife
    <3>4. /\ pc[User] = "cancel" /\ Goto(User, "mark")
          /\ UNCHANGED <<pending, batch, running, hand>>
      BY <2>3 DEF StopCancel, lists
    <3>5. OneMoves(User)
      BY <3>4, <1>a, GotoAlone DEF HandPcs
    <3> QED BY <3>3, <3>4, <3>5, <1>a, BooksQuiet
  <2>4. CASE StopMark
    <3>1. /\ pc[User] = "mark" /\ UNCHANGED <<pending, batch, running, hand>>
      BY <2>4 DEF StopMark, lists
    <3>2. CASE ~MayDelete(Current(User))
      <4>1. Goto(User, "claim") /\ req' = req
        BY <2>4, <3>2 DEF StopMark
      <4>2. OneMoves(User)
        BY <1>a, <3>1, <4>1, GotoAlone DEF HandPcs
      <4> QED BY <1>a, <1>b, <3>1, <4>1, <4>2, BooksQuiet
    <3>3. CASE MayDelete(Current(User))
      BY <1>a, <2>4, <3>1, <3>3, StopMarks, MarkBooks
    <3> QED BY <3>2, <3>3
  <2>5. CASE StopRemove
    BY <2>5, <1>a, RemoveBooks DEF StopRemove
  <2> QED BY <1>3, <1>a, <2>1, <2>2, <2>3, <2>4, <2>5, StopPendingBooks, ClaimBooks, ReturnBooks
      DEF StopStep
<1>4. CASE StreamOn
  <2>1. /\ pc[User] = "on" /\ UNCHANGED <<req, pending, batch, running, hand>>
        /\ Goto(User, "try")
    BY <1>4 DEF StreamOn, lists
  <2> QED BY <1>a, <1>c, <2>1
<1>5. CASE UNCHANGED vars
  BY <1>5, <1>b, BooksStill DEF vars, lists, threads
<1> QED BY <1>a, <1>1, <1>2, <1>3, <1>4, <1>5, QueueBooks, TryBooks DEF Next, UserStep

-----------------------------------------------------------------------------
(* The lists together.                                                     *)

\* Joining two lists that share no entry.
LEMMA Joined ==
  ASSUME NEW R, NEW a \in Seq(R), NEW b \in Seq(R), Single(a), Single(b),
         \A x : ~(In(x, a) /\ In(x, b))
  PROVE  /\ a \o b \in Seq(R) /\ Single(a \o b)
         /\ \A x : In(x, a \o b) <=> In(x, a) \/ In(x, b)
<1>1. /\ a \o b \in Seq(R) /\ Len(a \o b) = Len(a) + Len(b) /\ Len(a) \in Nat /\ Len(b) \in Nat
      /\ \A i \in 1 .. Len(a) : (a \o b)[i] = a[i]
      /\ \A i \in 1 .. Len(a) + Len(b) : i \notin 1 .. Len(a) =>
           i - Len(a) \in 1 .. Len(b) /\ (a \o b)[i] = b[i - Len(a)]
  OBVIOUS
<1>2. ASSUME NEW x PROVE In(x, a \o b) <=> In(x, a) \/ In(x, b)
  <2>1. In(x, a \o b) => In(x, a) \/ In(x, b)
    BY <1>1 DEF In
  <2>2. In(x, a) => In(x, a \o b)
    BY <1>1 DEF In
  <2>3. ASSUME In(x, b) PROVE In(x, a \o b)
    <3>1. PICK i \in 1 .. Len(b) : b[i] = x
      BY <2>3 DEF In
    <3>2. /\ i + Len(a) \in 1 .. Len(a) + Len(b) /\ i + Len(a) \notin 1 .. Len(a)
          /\ (i + Len(a)) - Len(a) = i
      BY <1>1
    <3> QED BY <1>1, <3>1, <3>2 DEF In
  <2> QED BY <2>1, <2>2, <2>3
<1>3. ASSUME NEW i \in 1 .. Len(a) + Len(b), NEW j \in 1 .. Len(a) + Len(b),
             (a \o b)[i] = (a \o b)[j]
      PROVE  i = j
  <2>1. CASE i \in 1 .. Len(a) /\ j \in 1 .. Len(a)
    BY <1>1, <1>3, <2>1 DEF Single
  <2>2. CASE i \notin 1 .. Len(a) /\ j \notin 1 .. Len(a)
    <3>1. i - Len(a) = j - Len(a)
      BY <1>1, <1>3, <2>2 DEF Single
    <3> QED BY <1>1, <3>1
  <2>3. CASE i \in 1 .. Len(a) <=> j \notin 1 .. Len(a)
    BY <1>1, <1>3, <2>3 DEF In
  <2> QED BY <2>1, <2>2, <2>3
<1> QED BY <1>1, <1>2, <1>3 DEF Single

\* A request is on the three lists together when it is on one of them.
LEMMA OnLists ==
  ASSUME ListInv
  PROVE  /\ (pending \o batch) \o running \in Seq(Reqs) /\ Single((pending \o batch) \o running)
         /\ \A x : x \in ToSet(pending \o batch \o running) <=>
                     In(x, pending) \/ In(x, batch) \/ In(x, running)
<1>1. /\ pending \in Seq(Reqs) /\ batch \in Seq(Reqs) /\ running \in Seq(Reqs) /\ OneList
  BY DEF ListInv, Seqs
<1>2. /\ pending \o batch \in Seq(Reqs) /\ Single(pending \o batch)
      /\ \A x : In(x, pending \o batch) <=> In(x, pending) \/ In(x, batch)
  BY <1>1, Joined DEF OneList
<1>3. \A x : ~(In(x, pending \o batch) /\ In(x, running))
  BY <1>1, <1>2 DEF OneList
<1>4. /\ (pending \o batch) \o running \in Seq(Reqs) /\ Single((pending \o batch) \o running)
      /\ \A x : In(x, (pending \o batch) \o running) <=> In(x, pending \o batch) \/ In(x, running)
  BY <1>1, <1>2, <1>3, Joined DEF OneList
<1> QED BY <1>2, <1>4, ToSetIn

-----------------------------------------------------------------------------
(* The theorems. All but the last hold when user space allocates a request  *)
(* for every frame, and when it queues completed requests again as long as  *)
(* each is for one camera. The code needs that: the last buffers of a request*)
(* that is shared go back while the worker of another camera still has it in*)
(* hand, so when it is queued again the worker takes it for the old one.    *)

\* The parts of the invariant need one another: a request may be queued again
\* only because no worker has it in hand.
THEOREM RequestInvariant ==
  ASSUME ~Reuse \/ SinglePipe
  PROVE  Spec => [](/\ TypeInv /\ ListInv /\ LifeInv /\ StreamInv /\ JobInv /\ WorkHands
                    /\ SinglePipe => HandInv)
<1> DEFINE RequestInv == /\ TypeInv /\ ListInv /\ LifeInv /\ StreamInv /\ JobInv /\ WorkHands
                         /\ SinglePipe => HandInv
<1>1. Init => RequestInv
  BY TypeInvInit, ListInvInit, LifeInvInit, StreamInvInit, JobInvInit, WorkHandsInit,
     HandInvInit
<1>2. RequestInv /\ [Next]_vars => RequestInv'
  <2> SUFFICES ASSUME RequestInv, [Next]_vars PROVE RequestInv'
    OBVIOUS
  <2>1. QueuesFree
    BY QueuedFree
  <2>2. TypeInv' /\ ListInv' /\ LifeInv'
    BY <2>1, TypeInvStep, ListInvStep, LifeInvStep
  <2>3. StreamInv' /\ JobInv' /\ WorkHands'
    BY <2>1, StreamInvStep, JobInvStep, WorkHandsStep
  <2>4. SinglePipe => HandInv'
    BY <2>1, HandInvStep
  <2>5. (SinglePipe => HandInv)'
    BY <2>4 DEF SinglePipe
  <2> QED BY <2>2, <2>3, <2>5
<1> QED BY <1>1, <1>2, PTL DEF Spec

\* A request has one list_head: whatever threads race for it, it is on one of
\* the pending, the caller's and the running list, at one place.
THEOREM OneListOnly == ASSUME ~Reuse \/ SinglePipe PROVE Spec => []ListedOnce
<1>1. ASSUME ListInv PROVE ListedOnce
  <2>1. (pending \o batch) \o running \in Seq(Reqs) /\ Single((pending \o batch) \o running)
    BY <1>1, OnLists
  <2>2. DOMAIN ((pending \o batch) \o running) = 1 .. Len((pending \o batch) \o running)
    BY <2>1
  <2> QED BY <2>1, <2>2 DEF ListedOnce, IsInjective, Single
<1> QED BY <1>1, RequestInvariant, PTL

\* Of the worker that completes a request and the cleanup that cancels it, the
\* one whose cmpxchg took it to DELETING unlinks it, and finds it linked.
THEOREM RemoverAlone == ASSUME ~Reuse \/ SinglePipe PROVE Spec => []RemoverOwnsEntry
<1>1. ASSUME ListInv PROVE RemoverOwnsEntry
  <2>1. \A x : In(x, running) => x \in ToSet(running)
    BY <1>1, ToSetIn DEF ListInv, Seqs
  <2> QED BY <1>1, <2>1 DEF ListInv, Removers, RemoverOwnsEntry
<1> QED BY <1>1, RequestInvariant, PTL

\* running_job_count, reset when the first context starts and changed at four
\* places, is the length of running_job_list, and what runs or is about to run
\* stays within the 18 entries of the local arrays of dequeue and cleanup.
THEOREM JobsBounded == ASSUME ~Reuse \/ SinglePipe PROVE Spec => []JobsWithinLimit
<1>1. JobInv => JobsWithinLimit
  BY DEF JobInv
<1> QED BY <1>1, RequestInvariant, PTL

\* Every variable keeps its type: the job count never goes below zero, works
\* and snapshots hold requests.
THEOREM TypeCorrect == ASSUME ~Reuse \/ SinglePipe PROVE Spec => []TypeOK
<1>1. ASSUME TypeInv, ListInv, StreamInv, JobInv PROVE TypeOK
  <2>1. jobCount \in Nat
    BY <1>1 DEF ListInv, Seqs, JobInv, JobsWithinLimit
  <2> QED BY <1>1, <2>1
          DEF TypeInv, ListInv, Seqs, StreamInv, QueueTypes, CallTypes, TypeOK
<1> QED BY <1>1, RequestInvariant, PTL

\* When user space has all the buffers of a request back and no call of its own
\* is under way, the request is on none of the driver's lists: it may be freed
\* or queued again.
THEOREM RequeueIsSafe == ASSUME ~Reuse \/ SinglePipe PROVE Spec => []RequeuedWhenUnlinked
<1>1. ASSUME ListInv, LifeInv, JobInv PROVE RequeuedWhenUnlinked
  BY <1>1, OnLists, BackUnlinked DEF RequeuedWhenUnlinked
<1> QED BY <1>1, RequestInvariant, PTL

\* What a worker of mtk_cam_dev_req_dequeue has still to mark belongs to the
\* frame it dequeues or to an earlier one, and waits in no queue again.
THEOREM SnapshotsFresh == ASSUME ~Reuse \/ SinglePipe PROVE Spec => []SnapshotFresh
<1>1. ASSUME ListInv, LifeInv, WorkHands PROVE SnapshotFresh
  <2> SUFFICES ASSUME NEW p \in Pipes, NEW r \in ToSet(hand[p])
               PROVE  /\ p \in req[r].pipeUsed /\ r \notin ToSet(pending)
                      /\ req[r].seq[p] <= deq[p]
    BY DEF SnapshotFresh
  <2>1. /\ p \in Threads /\ p # User /\ hand[p] \in Seq(Reqs) /\ pending \in Seq(Reqs)
    BY <1>1, ConstantsAssumption DEF Threads, ListInv, Seqs
  <2>2. r \in Reqs /\ In(r, hand[p])
    BY <2>1, ToSetIn DEF ToSet
  <2>3. pc[p] \in HandPcs
    BY <1>1, <2>2 DEF WorkHands, In
  <2>4. Taken(p, r)
    BY <1>1, <2>1, <2>2, <2>3 DEF LifeInv, Snapshots
  <2>5. ~In(r, pending)
    BY <1>1, <2>2, <2>4 DEF Taken, LifeInv, ListStates
  <2>6. req[r].seq[p] <= deq[p]
    BY <1>1, <2>2 DEF WorkHands, UpToDate
  <2> QED BY <2>1, <2>4, <2>5, <2>6, ToSetIn DEF Taken, PipeOf
<1> QED BY <1>1, RequestInvariant, PTL

\* With one camera the driver knows every request whose buffers it holds: it is
\* on a list, or in the hands of the thread that is about to return them. With
\* two, stopping one of them loses what the other still waits for.
THEOREM NoneLost == ASSUME OneCamera PROVE Spec => []NoRequestLost
<1>1. SinglePipe
  BY ConstantsAssumption DEF SinglePipe, OneCamera
<1>2. Init => Books
  BY BooksInit
<1>3. TypeInv /\ ListInv /\ LifeInv /\ Books /\ [Next]_vars => Books'
  BY BooksInvStep
<1>4. ASSUME TypeInv, ListInv, Books PROVE NoRequestLost
  <2> SUFFICES ASSUME NEW r \in Reqs, req[r].held # {}
               PROVE  \/ r \in ToSet(pending \o batch \o running)
                      \/ \E t \in Threads : r \in ToSet(hand[t])
    BY DEF NoRequestLost
  <2>1. ASSUME NEW t \in Threads, pc[t] \in HandPcs, Current(t) = r
        PROVE  r \in ToSet(hand[t])
    BY <1>4, <2>1, AtHand, ToSetIn
  <2>2. req[r].state \in {"pending", "running", "deleting", "complete", "cleanup"}
    BY <1>4 DEF TypeInv, ReqType
  <2>3. Booked(r)
    BY <1>4 DEF Books
  <2>4. CASE req[r].state \in {"pending", "running", "deleting"}
    <3>1. In(r, pending) \/ In(r, batch) \/ In(r, running)
      BY <1>4, <2>3, <2>4 DEF Booked, ListInv, States
    <3> QED BY <1>4, <3>1, OnLists
  <2>5. CASE req[r].state \in {"complete", "cleanup"}
    <3>1. req[r].armed # {} \/ ~(req[r].held \subseteq req[r].armed)
      OBVIOUS
    <3>2. PICK t \in Threads : pc[t] \in {"claim", "return"} /\ Current(t) = r
      BY <2>3, <2>5, <3>1 DEF Booked
    <3> QED BY <2>1, <3>2 DEF HandPcs
  <2> QED BY <2>2, <2>4, <2>5
<1> QED BY <1>1, <1>2, <1>3, <1>4, RequestInvariant, PTL DEF Spec
=============================================================================
