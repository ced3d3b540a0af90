-------------------------- MODULE FrameSyncProofs --------------------------
(***************************************************************************)
(* Theorems about FrameSync, for any number of sensors, any table and any  *)
(* number of calls, in whatever order the threads of the sensors run:      *)
(* until an update of validSync_bits is lost or a search takes an entry    *)
(* that is still being filled (raced), the master is an entry of the table *)
(* and no sensor runs at a frame length too short for its exposure.        *)
(***************************************************************************)
EXTENDS FrameSync, WellFoundedInduction, TLAPS

-----------------------------------------------------------------------------
(* The inductive invariant.                                                *)

Mid      == {"resetMaster", "readStreaming", "readSync", "setValid"}
Unsynced == {"reset", "streamBit", "streamOn"}
FramePcs == {"shutter", "control", "trigger", "master", "select", "valid", "solve", "publish",
             "write"}

Types ==
  /\ regCnt \in 0 .. SensorMax /\ table \in [Positions -> Sensors]
  /\ streaming \subseteq Positions /\ enSync \subseteq Positions /\ validSync \subseteq Positions
  /\ master \in Positions \cup {None}
  /\ pc \in [Sensors -> {"idle"} \cup ConfigPcs \cup FramePcs]
  /\ op \in [Sensors -> {"none", "on", "off", "sync", "unsync"}]
  /\ at \in [Sensors -> Positions \cup {None}] /\ mst \in [Sensors -> Positions \cup {None}]
  /\ seen \in [Sensors -> SUBSET Positions] /\ isStreaming \subseteq Sensors

\* An entry has been pushed and filled; sensor s has the entry p.
Entry(p)   == p \in Positions /\ p < regCnt /\ \A t \in Sensors : pc[t] = "fill" => at[t] # p
Owns(s, p) == Entry(p) /\ table[p] = s

\* A sensor has one entry, and none yet while it fills the one it has pushed.
Table ==
  /\ \A p, q \in Positions : Entry(p) /\ Entry(q) /\ table[p] = table[q] => p = q
  /\ \A t \in Sensors : pc[t] = "fill" =>
       at[t] \in Positions /\ at[t] < regCnt /\ \A p \in Positions : ~Owns(t, p)
  /\ \A t, u \in Sensors : pc[t] = "fill" /\ pc[u] = "fill" /\ at[t] = at[u] => t = u

\* A call works on the entry of its own sensor; a sensor that streams has one
\* unless the table was full.
Owner ==
  /\ \A s \in Sensors : pc[s] \in {"status"} \cup Mid \cup Unsynced => Owns(s, at[s])
  /\ \A s \in Sensors : pc[s] \in FramePcs => at[s] = None \/ Owns(s, at[s])
  /\ \A s \in isStreaming :
       \/ \E p \in Positions : Owns(s, p)
       \/ regCnt = SensorMax /\ pc[s] # "fill"

\* validSync_bits holds no sensor that does not stream or is not to be synced,
\* but for those whose bits are being updated.
Bits ==
  /\ \A p \in validSync : p \in streaming \cap enSync \/ \E t \in Sensors : pc[t] \in Mid /\ at[t] = p
  /\ \A t \in Sensors : pc[t] \in Unsynced => at[t] \notin enSync
  /\ \A t \in Sensors : pc[t] \in Mid /\ op[t] \notin {"sync", "unsync"} => at[t] \notin enSync

\* The sensor that selects a master is itself valid.
Chosen ==
  /\ \A s \in Sensors : pc[s] \in {"master", "select"} => at[s] \in validSync
  /\ \A s \in Sensors : pc[s] \in {"valid", "solve"} => mst[s] \in Positions

SyncInv == Types /\ Table /\ Owner /\ Bits /\ Chosen

-----------------------------------------------------------------------------
(* The position of a sensor.                                               *)

\* A set of natural numbers that is not empty has a least element.
LEMMA LeastElement ==
  ASSUME NEW S \in SUBSET Nat, S # {}
  PROVE  \E n \in S : \A m \in S : n <= m
<1> DEFINE R == OpToRel(<, Nat)
<1>1. IsWellFoundedOn(R, Nat)
  BY NatLessThanWellFounded
<1>2. \A x, y \in Nat : <<y, x>> \in R <=> y < x
  BY DEF OpToRel
<1> HIDE DEF R
<1>3. PICK x \in S : \A y \in S : ~(<<y, x>> \in R)
  BY <1>1, WFMin
<1>4. \A y \in S : ~(y < x)
  BY <1>2, <1>3
<1>5. \A y \in S : x <= y
  BY <1>4
<1> QED BY <1>3, <1>5

\* The bounds of the sets the model is built from.
LEMMA Bounds ==
  /\ SensorMax \in Nat \ {0} /\ Positions \subseteq Nat /\ \A p \in Positions : p < SensorMax
  /\ None \notin Positions /\ SensorMax \notin Positions /\ SensorMax # None
  /\ None \in Nat
BY FrameSyncConstants DEF Positions, None

\* fs_get_reg_sensor_pos finds the first entry of the sensor, if there is one.
LEMMA PosFound ==
  ASSUME Types, NEW s \in Sensors
  PROVE  \/ Pos(s) = None /\ \A p \in Positions : p < regCnt => table[p] # s
         \/ /\ Pos(s) \in Positions /\ Pos(s) < regCnt /\ table[Pos(s)] = s
            /\ \A p \in Positions : p < regCnt /\ table[p] = s => Pos(s) <= p
<1>1. CASE Registered(s) = {}
  BY <1>1 DEF Pos, Registered
<1>2. CASE Registered(s) # {}
  <2>1. Registered(s) \in SUBSET Nat
    BY Bounds DEF Registered
  <2>2. \E p \in Registered(s) : \A q \in Registered(s) : p <= q
    BY <1>2, <2>1, LeastElement
  <2>3. Pos(s) \in Registered(s) /\ \A q \in Registered(s) : Pos(s) <= q
    BY <1>2, <2>2 DEF Pos
  <2> QED BY <2>3 DEF Registered
<1> QED BY <1>1, <1>2

-----------------------------------------------------------------------------
(* Steps that push no entry.                                               *)

\* Who owns which entry depends on the table and on the push in progress.
LEMMA EntriesKept ==
  ASSUME Types, NEW t \in Sensors, NEW w, pc[t] # "fill", w # "fill",
         pc' = [pc EXCEPT ![t] = w], regCnt' = regCnt, table' = table,
         \A u \in Sensors \ {t} : at'[u] = at[u]
  PROVE  /\ \A p : Entry(p)' <=> Entry(p)
         /\ \A u, p : Owns(u, p)' <=> Owns(u, p)
<1>1. \A u \in Sensors : pc'[u] = "fill" <=> pc[u] = "fill"
  BY DEF Types
<1>2. \A u \in Sensors : pc[u] = "fill" => at'[u] = at[u]
  OBVIOUS
<1>3. \A p : Entry(p)' <=> Entry(p)
  BY <1>1, <1>2 DEF Entry
<1> QED BY <1>3 DEF Owns

\* What such a step of t has to show of the place it goes to.
LEMMA OwnerKept ==
  ASSUME SyncInv, NEW t \in Sensors, NEW w, pc[t] # "fill", w # "fill",
         pc' = [pc EXCEPT ![t] = w], regCnt' = regCnt, table' = table,
         \A u \in Sensors \ {t} : at'[u] = at[u],
         w \in {"status"} \cup Mid \cup Unsynced => Owns(t, at'[t]),
         w \in FramePcs => at'[t] = None \/ Owns(t, at'[t]),
         isStreaming' \subseteq isStreaming \cup {t},
         \/ isStreaming' \subseteq isStreaming
         \/ \E p \in Positions : Owns(t, p)
         \/ regCnt = SensorMax
  PROVE  Table' /\ Owner'
<1>a. Types /\ Table /\ Owner
  BY DEF SyncInv
<1>1. /\ \A p : Entry(p)' <=> Entry(p)
      /\ \A u, p : Owns(u, p)' <=> Owns(u, p)
  BY <1>a, EntriesKept
<1>2. pc'[t] = w /\ \A u \in Sensors \ {t} : pc'[u] = pc[u]
  BY <1>a DEF Types
<1>3. \A u \in Sensors : pc'[u] = "fill" <=> pc[u] = "fill"
  BY <1>2
<1>4. Table'
  <2>1. \A p, q \in Positions : Entry(p)' /\ Entry(q)' /\ table'[p] = table'[q] => p = q
    BY <1>a, <1>1 DEF Table
  <2>2. \A u \in Sensors : pc'[u] = "fill" =>
          at'[u] \in Positions /\ at'[u] < regCnt' /\ \A p \in Positions : ~(Owns(u, p)')
    BY <1>a, <1>1, <1>3 DEF Table
  <2>3. \A u, v \in Sensors : pc'[u] = "fill" /\ pc'[v] = "fill" /\ at'[u] = at'[v] => u = v
    BY <1>a, <1>3 DEF Table
  <2> QED BY <2>1, <2>2, <2>3 DEF Table
<1>5. Owner'
  <2>1. \A u \in Sensors : pc'[u] \in {"status"} \cup Mid \cup Unsynced => Owns(u, at[u])'
    <3> SUFFICES ASSUME NEW u \in Sensors, pc'[u] \in {"status"} \cup Mid \cup Unsynced,
                        NEW q, q = at'[u]
                 PROVE  Owns(u, q)'
      BY DEF Owns, Entry
    <3>1. Owns(u, q)
      BY <1>a, <1>2 DEF Owner
    <3> QED BY <1>1, <3>1
  <2>2. \A u \in Sensors : pc'[u] \in FramePcs => at'[u] = None \/ Owns(u, at[u])'
    <3> SUFFICES ASSUME NEW u \in Sensors, pc'[u] \in FramePcs, NEW q, q = at'[u], q # None
                 PROVE  Owns(u, q)'
      BY DEF Owns, Entry
    <3>1. Owns(u, q)
      BY <1>a, <1>2 DEF Owner
    <3> QED BY <1>1, <3>1
  <2>3. \A u \in isStreaming' :
          \/ \E p \in Positions : Owns(u, p)'
          \/ regCnt' = SensorMax /\ pc'[u] # "fill"
    BY <1>a, <1>1, <1>2, <1>3 DEF Owner
  <2> QED BY <2>1, <2>2, <2>3 DEF Owner
<1> QED BY <1>4, <1>5

\* A step of a frame, or one that begins or ends it: the bits stay.
LEMMA FrameMove ==
  ASSUME SyncInv, NEW s \in Sensors, NEW w \in {"idle"} \cup FramePcs,
         pc[s] \in {"idle"} \cup FramePcs, pc' = [pc EXCEPT ![s] = w],
         UNCHANGED <<regCnt, table, streaming, enSync, validSync, isStreaming, op>>,
         master' \in Positions \cup {None}, at' \in [Sensors -> Positions \cup {None}],
         mst' \in [Sensors -> Positions \cup {None}], seen' \in [Sensors -> SUBSET Positions],
         \A u \in Sensors \ {s} : at'[u] = at[u] /\ mst'[u] = mst[u] /\ seen'[u] = seen[u],
         w \in FramePcs => at'[s] = None \/ Owns(s, at'[s]),
         w \in {"master", "select"} => at'[s] \in validSync,
         w \in {"valid", "solve"} => mst'[s] \in Positions
  PROVE  SyncInv'
<1>a. Types /\ Owner /\ Bits /\ Chosen
  BY DEF SyncInv
<1>b. /\ pc[s] \notin ConfigPcs /\ w \notin ConfigPcs /\ pc[s] # "fill" /\ w # "fill"
      /\ w \notin {"status"} \cup Mid \cup Unsynced
  BY DEF ConfigPcs, FramePcs, Mid, Unsynced
<1>c. Mid \cup Unsynced \subseteq ConfigPcs
  BY DEF ConfigPcs, Mid, Unsynced
<1>d. pc'[s] = w /\ \A u \in Sensors \ {s} : pc'[u] = pc[u]
  BY <1>a DEF Types
<1>1. Types'
  BY <1>a DEF Types
<1>2. Table' /\ Owner'
  BY <1>b, OwnerKept
<1>3. Bits'
  <2>1. \A u \in Sensors : pc'[u] \in ConfigPcs \/ pc[u] \in ConfigPcs =>
          u # s /\ pc'[u] = pc[u] /\ at'[u] = at[u] /\ op'[u] = op[u]
    BY <1>b, <1>d
  <2>2. \A p \in validSync' : p \in streaming' \cap enSync'
                              \/ \E t \in Sensors : pc'[t] \in Mid /\ at'[t] = p
    BY <1>a, <1>c, <2>1 DEF Bits
  <2>3. \A t \in Sensors : pc'[t] \in Unsynced => at'[t] \notin enSync'
    BY <1>a, <1>c, <2>1 DEF Bits
  <2>4. \A t \in Sensors : pc'[t] \in Mid /\ op'[t] \notin {"sync", "unsync"} => at'[t] \notin enSync'
    BY <1>a, <1>c, <2>1 DEF Bits
  <2> QED BY <2>2, <2>3, <2>4 DEF Bits
<1>4. Chosen'
  BY <1>a, <1>d DEF Chosen
<1> QED BY <1>1, <1>2, <1>3, <1>4 DEF SyncInv

\* A search that does not go wrong finds the sensor's own entry.
LEMMA FoundOwn ==
  ASSUME SyncInv, NEW s \in Sensors, Search(s), ~raced', Pos(s) # None
  PROVE  Pos(s) \in Positions /\ Owns(s, Pos(s))
<1>1. Types
  BY DEF SyncInv
<1>2. Pos(s) \in Positions /\ Pos(s) < regCnt /\ table[Pos(s)] = s
  BY <1>1, PosFound
<1>3. \A t \in Sensors : pc[t] = "fill" => at[t] # Pos(s)
  BY DEF Search, MeetsUnfilled
<1> QED BY <1>2, <1>3 DEF Owns, Entry

\* An exposure begins with the entry of its own sensor, or with none.
LEMMA ExposeStep ==
  ASSUME SyncInv, NEW s \in Sensors, NEW fl, Expose(s, fl), ~raced'
  PROVE  SyncInv'
<1>a. Types
  BY DEF SyncInv
<1>1. Pos(s) = None \/ Owns(s, Pos(s))
  BY FoundOwn DEF Expose
<1>2. /\ pc[s] = "idle" /\ pc' = [pc EXCEPT ![s] = "shutter"]
      /\ at' = [at EXCEPT ![s] = Pos(s)]
      /\ UNCHANGED <<regCnt, table, streaming, enSync, validSync, isStreaming, op, master, mst, seen>>
  BY DEF Expose, Goto, mgr, bits
<1>3. Pos(s) \in Positions \cup {None}
  BY <1>1 DEF Owns, Entry
<1>4. at'[s] = Pos(s) /\ \A u \in Sensors \ {s} : at'[u] = at[u]
  BY <1>2, <1>a DEF Types
<1>5. at' \in [Sensors -> Positions \cup {None}]
  BY <1>2, <1>3, <1>a DEF Types
<1> QED
  BY <1>a, <1>1, <1>2, <1>4, <1>5, FrameMove DEF FramePcs, Types

\* The steps of a frame.
LEMMA FrameStep ==
  ASSUME SyncInv, NEW s \in Sensors, Frame(s)
  PROVE  SyncInv'
<1>a. Types /\ Owner /\ Chosen
  BY DEF SyncInv
<1>b. /\ master \in Positions \cup {None} /\ at \in [Sensors -> Positions \cup {None}]
      /\ mst \in [Sensors -> Positions \cup {None}] /\ seen \in [Sensors -> SUBSET Positions]
      /\ validSync \subseteq Positions
  BY <1>a DEF Types
<1>c. pc[s] \in FramePcs => at[s] = None \/ Owns(s, at[s])
  BY <1>a DEF Owner
<1> DEFINE Same == UNCHANGED <<regCnt, table, streaming, enSync, validSync, isStreaming, op, at>>
<1>m. ASSUME NEW w \in {"idle"} \cup FramePcs, pc[s] \in FramePcs, pc' = [pc EXCEPT ![s] = w], Same,
             UNCHANGED <<master, mst, seen>>,
             w \in {"master", "select"} => at[s] \in validSync,
             w \in {"valid", "solve"} => mst[s] \in Positions
      PROVE  SyncInv'
  BY <1>b, <1>c, <1>m, FrameMove
<1> USE DEF Goto, mgr, bits, sensor, locals, bounds, FramePcs
<1>1. CASE CheckShutter(s)
  <2>1. \E w \in {"control", "write"} : pc' = [pc EXCEPT ![s] = w]
    BY <1>1 DEF CheckShutter
  <2>2. pc[s] = "shutter" /\ Same /\ UNCHANGED <<master, mst, seen>>
    BY <1>1 DEF CheckShutter
  <2> QED BY <1>m, <2>1, <2>2
<1>2. CASE CheckControl(s)
  <2>1. pc[s] = "control" /\ pc' = [pc EXCEPT ![s] = "trigger"] /\ Same
        /\ UNCHANGED <<master, mst, seen>>
    BY <1>2 DEF CheckControl
  <2> QED BY <1>m, <2>1
<1>3. CASE Trigger(s)
  <2>1. PICK w \in {"master", "write"} : pc' = [pc EXCEPT ![s] = w]
                                         /\ (w = "master" => at[s] \in validSync)
    BY <1>3 DEF Trigger
  <2>2. pc[s] = "trigger" /\ Same /\ UNCHANGED <<master, mst, seen>>
    BY <1>3 DEF Trigger
  <2> QED BY <1>m, <2>1, <2>2
<1>4. CASE GetMaster(s)
  <2>1. pc[s] = "master" /\ Same /\ UNCHANGED <<master, seen>> /\ at[s] \in validSync
    BY <1>4, <1>a DEF GetMaster, Chosen
  <2>2. CASE pc' = [pc EXCEPT ![s] = "select"] /\ mst' = mst
    BY <1>m, <2>1, <2>2
  <2>3. CASE pc' = [pc EXCEPT ![s] = "valid"] /\ mst' = [mst EXCEPT ![s] = master]
             /\ master \in Positions
    <3>1. mst' \in [Sensors -> Positions \cup {None}] /\ mst'[s] \in Positions
          /\ \A u \in Sensors \ {s} : mst'[u] = mst[u]
      BY <1>b, <2>3
    <3> QED BY <1>b, <1>c, <2>1, <2>3, <3>1, FrameMove
  <2> QED BY <1>4, <1>b, <2>2, <2>3 DEF GetMaster
<1>5. CASE SelectMaster(s)
  <2>1. /\ pc[s] = "select" /\ pc' = [pc EXCEPT ![s] = "valid"] /\ Same /\ seen' = seen
        /\ mst' = [mst EXCEPT ![s] = master'] /\ at[s] \in validSync
        /\ master' \in Positions \cup {SensorMax} /\ \A p \in validSync : master' <= p
    BY <1>5, <1>a DEF SelectMaster, Chosen
  <2>2. master' \in Positions
    <3>1. at[s] \in Nat /\ at[s] < SensorMax /\ master' <= at[s] /\ SensorMax \in Nat
      BY <1>b, <2>1, Bounds
    <3>2. master' # SensorMax
      BY <3>1
    <3> QED BY <2>1, <3>2
  <2>3. mst' \in [Sensors -> Positions \cup {None}] /\ mst'[s] \in Positions
        /\ \A u \in Sensors \ {s} : mst'[u] = mst[u]
    BY <1>b, <2>1, <2>2
  <2> QED BY <1>b, <1>c, <2>1, <2>2, <2>3, FrameMove
<1>6. CASE ReadValid(s)
  <2>1. /\ pc[s] = "valid" /\ pc' = [pc EXCEPT ![s] = "solve"] /\ Same
        /\ UNCHANGED <<master, mst>> /\ seen' = [seen EXCEPT ![s] = validSync]
        /\ mst[s] \in Positions
    BY <1>6, <1>a DEF ReadValid, Chosen
  <2>2. seen' \in [Sensors -> SUBSET Positions] /\ \A u \in Sensors \ {s} : seen'[u] = seen[u]
    BY <1>b, <2>1
  <2> QED BY <1>b, <1>c, <2>1, <2>2, FrameMove
<1>7. CASE Solve(s)
  <2>1. /\ pc[s] = "solve" /\ pc' = [pc EXCEPT ![s] = "publish"] /\ Same /\ master' = master
        /\ seen' = [seen EXCEPT ![s] = {}] /\ mst' = [mst EXCEPT ![s] = None]
    BY <1>7 DEF Solve
  <2>2. /\ seen' \in [Sensors -> SUBSET Positions] /\ mst' \in [Sensors -> Positions \cup {None}]
        /\ \A u \in Sensors \ {s} : seen'[u] = seen[u] /\ mst'[u] = mst[u]
    BY <1>b, <2>1
  <2> QED BY <1>b, <1>c, <2>1, <2>2, FrameMove
<1>8. CASE Publish(s)
  <2>1. pc[s] = "publish" /\ pc' = [pc EXCEPT ![s] = "write"] /\ Same
        /\ UNCHANGED <<master, mst, seen>>
    BY <1>8 DEF Publish
  <2> QED BY <1>m, <2>1
<1>9. CASE Write(s)
  <2>1. pc[s] = "write" /\ pc' = [pc EXCEPT ![s] = "idle"] /\ Same
        /\ UNCHANGED <<master, mst, seen>>
    BY <1>9 DEF Write
  <2> QED BY <1>m, <2>1
<1> QED
  BY <1>1, <1>2, <1>3, <1>4, <1>5, <1>6, <1>7, <1>8, <1>9 DEF Frame

-----------------------------------------------------------------------------
(* Starting, stopping and configuring.                                     *)

\* A step of a configuration: what it has to show of the bits.
LEMMA ConfigMove ==
  ASSUME SyncInv, Types', NEW s \in Sensors, NEW w \in {"idle"} \cup ConfigPcs,
         pc[s] \in {"idle"} \cup ConfigPcs, pc[s] # "fill", w # "fill",
         pc' = [pc EXCEPT ![s] = w],
         \A u \in Sensors \ {s} : at'[u] = at[u] /\ op'[u] = op[u],
         UNCHANGED <<regCnt, table, mst>>,
         w \in {"status"} \cup Mid \cup Unsynced => Owns(s, at'[s]),
         isStreaming' \subseteq isStreaming \cup {s},
         \/ isStreaming' \subseteq isStreaming
         \/ \E p \in Positions : Owns(s, p)
         \/ regCnt = SensorMax,
         \A p \in validSync' : \/ p \in streaming' \cap enSync'
                               \/ w \in Mid /\ at'[s] = p
                               \/ \E u \in Sensors \ {s} : pc[u] \in Mid /\ at[u] = p,
         \A p \in enSync' : p \in enSync \/ Owns(s, p),
         w \in Unsynced => at'[s] \notin enSync',
         w \in Mid /\ op'[s] \notin {"sync", "unsync"} => at'[s] \notin enSync',
         \A u \in Sensors \ {s} : pc[u] \in {"master", "select"} => at[u] \in validSync'
  PROVE  SyncInv'
<1>a. Types /\ Owner /\ Bits /\ Chosen
  BY DEF SyncInv
<1>b. w \notin FramePcs /\ pc[s] \notin FramePcs
  BY DEF ConfigPcs, FramePcs
<1>c. pc'[s] = w /\ \A u \in Sensors \ {s} : pc'[u] = pc[u]
  BY <1>a DEF Types
<1>d. ASSUME NEW u \in Sensors \ {s}, pc[u] \in Mid \cup Unsynced, at[u] \notin enSync
      PROVE  at'[u] \notin enSync'
  <2>1. Owns(u, at[u])
    BY <1>a, <1>d DEF Owner
  <2> QED BY <1>d, <2>1 DEF Owns
<1>1. Table' /\ Owner'
  BY <1>b, OwnerKept
<1>2. Bits'
  <2>1. \A p \in validSync' : p \in streaming' \cap enSync'
                              \/ \E t \in Sensors : pc'[t] \in Mid /\ at'[t] = p
    BY <1>c
  <2>2. \A t \in Sensors : pc'[t] \in Unsynced => at'[t] \notin enSync'
    BY <1>a, <1>c, <1>d DEF Bits
  <2>3. \A t \in Sensors : pc'[t] \in Mid /\ op'[t] \notin {"sync", "unsync"} => at'[t] \notin enSync'
    BY <1>a, <1>c, <1>d DEF Bits
  <2> QED BY <2>1, <2>2, <2>3 DEF Bits
<1>3. Chosen'
  <2>1. w \notin {"master", "select", "valid", "solve"}
    BY <1>b DEF FramePcs
  <2> QED BY <1>a, <1>c, <2>1 DEF Chosen
<1> QED BY <1>1, <1>2, <1>3 DEF SyncInv

\* The calls that begin a configuration.
LEMMA BeginStep ==
  ASSUME SyncInv, NEW s \in Sensors, Stream(s) \/ SetSync(s), ~raced'
  PROVE  SyncInv'
<1>a. Types /\ Bits /\ Chosen
  BY DEF SyncInv
<1>b. pc[s] = "idle" /\ pc[s] \notin {"fill"} \cup Mid
  BY DEF Stream, SetSync, Mid
<1>d. \A p \in validSync : \/ p \in streaming \cap enSync
                           \/ \E u \in Sensors \ {s} : pc[u] \in Mid /\ at[u] = p
  BY <1>a, <1>b DEF Bits
<1>e. \A u \in Sensors : pc[u] \in {"master", "select"} => at[u] \in validSync
  BY <1>a DEF Chosen
<1>1. CASE Stream(s)
  <2>1. /\ pc' = [pc EXCEPT ![s] = "register"]
        /\ UNCHANGED <<regCnt, table, streaming, enSync, validSync, isStreaming, master, at, mst, seen>>
        /\ \E o \in {"on", "off"} : op' = [op EXCEPT ![s] = o]
    BY <1>1 DEF Stream, Goto, mgr, bits
  <2>2. op' \in [Sensors -> {"none", "on", "off", "sync", "unsync"}]
    BY <1>a, <2>1 DEF Types
  <2>3. "register" \in ConfigPcs /\ "register" \notin {"status", "fill"} \cup Mid \cup Unsynced
    BY DEF ConfigPcs, Mid, Unsynced
  <2>4. pc' \in [Sensors -> {"idle"} \cup ConfigPcs \cup FramePcs]
    BY <1>a, <2>1, <2>3 DEF Types
  <2>5. Types'
    BY <1>a, <2>1, <2>2, <2>4 DEF Types
  <2>6. \A u \in Sensors \ {s} : op'[u] = op[u]
    BY <1>a, <2>1 DEF Types
  <2> QED BY <1>b, <1>d, <1>e, <2>1, <2>3, <2>5, <2>6, ConfigMove
<1>2. CASE SetSync(s) /\ Pos(s) = None
  <2>1. UNCHANGED <<regCnt, table, streaming, enSync, validSync, isStreaming, master, at, mst, seen,
                    op, pc>>
    BY <1>2 DEF SetSync, mgr, bits
  <2> QED
    BY <2>1 DEF SyncInv, Types, Table, Owner, Bits, Chosen, Owns, Entry
<1>3. CASE SetSync(s) /\ Pos(s) # None
  <2>1. /\ pc' = [pc EXCEPT ![s] = "status"] /\ at' = [at EXCEPT ![s] = Pos(s)]
        /\ UNCHANGED <<regCnt, table, streaming, enSync, validSync, isStreaming, master, mst, seen>>
        /\ \E o \in {"sync", "unsync"} : op' = [op EXCEPT ![s] = o]
    BY <1>3 DEF SetSync, Goto, mgr, bits
  <2>2. Pos(s) \in Positions /\ Owns(s, Pos(s))
    BY <1>3, FoundOwn DEF SetSync
  <2>3. /\ op' \in [Sensors -> {"none", "on", "off", "sync", "unsync"}]
        /\ at' \in [Sensors -> Positions \cup {None}] /\ at'[s] = Pos(s)
        /\ \A u \in Sensors \ {s} : at'[u] = at[u] /\ op'[u] = op[u]
    BY <1>a, <2>1, <2>2 DEF Types
  <2>4. "status" \in ConfigPcs /\ "status" \notin {"fill"} \cup Mid \cup Unsynced
    BY DEF ConfigPcs, Mid, Unsynced
  <2>5. pc' \in [Sensors -> {"idle"} \cup ConfigPcs \cup FramePcs]
    BY <1>a, <2>1, <2>4 DEF Types
  <2>6. Types'
    BY <1>a, <2>1, <2>3, <2>5 DEF Types
  <2> QED BY <1>b, <1>d, <1>e, <2>1, <2>2, <2>3, <2>4, <2>6, ConfigMove
<1> QED BY <1>1, <1>2, <1>3

\* Pushing an entry, and filling it, takes none from another sensor.
LEMMA PushOwns ==
  ASSUME SyncInv, NEW s \in Sensors, Register(s), Pos(s) = None, regCnt < SensorMax
  PROVE  /\ \A p : Entry(p)' <=> Entry(p)
         /\ \A u, p : Owns(u, p)' <=> Owns(u, p)
<1>a. Types
  BY DEF SyncInv
<1>b. /\ pc[s] = "register" /\ pc' = [pc EXCEPT ![s] = "fill"]
      /\ at' = [at EXCEPT ![s] = regCnt] /\ regCnt' = regCnt + 1 /\ table' = table
  BY DEF Register, Goto
<1>c. pc[s] # "fill" /\ \A u \in Sensors \ {s} : pc'[u] = pc[u] /\ at'[u] = at[u]
  BY <1>a, <1>b DEF Types
<1>d. regCnt \in Nat /\ regCnt \in Positions /\ pc'[s] = "fill" /\ at'[s] = regCnt
  <2>1. regCnt \in 0 .. SensorMax /\ SensorMax \in Nat
    BY <1>a, Bounds DEF Types
  <2>2. regCnt \in Nat /\ regCnt \in 0 .. SensorMax - 1
    BY <2>1
  <2> QED BY <1>a, <1>b, <2>2 DEF Types, Positions
<1>1. \A p : Entry(p)' <=> Entry(p)
  <2> SUFFICES ASSUME NEW p PROVE Entry(p)' <=> Entry(p)
    OBVIOUS
  <2> DEFINE Filled == \A u \in Sensors \ {s} : pc[u] = "fill" => at[u] # p
  <2>1. Entry(p) <=> p \in Positions /\ p < regCnt /\ Filled
    BY <1>b, <1>c DEF Entry
  <2>2. Entry(p)' <=> p \in Positions /\ p < regCnt + 1 /\ p # regCnt /\ Filled
    BY <1>b, <1>c, <1>d DEF Entry
  <2>3. p \in Positions => p \in Nat
    BY Bounds
  <2> HIDE DEF Filled
  <2> QED BY <1>d, <2>1, <2>2, <2>3
<1> QED BY <1>b, <1>1 DEF Owns

\* See PushOwns.
LEMMA FillOwns ==
  ASSUME SyncInv, NEW s \in Sensors, Fill(s)
  PROVE  /\ \A p : Entry(p)' <=> Entry(p) \/ p = at[s]
         /\ \A p : Entry(p) => p \in Positions /\ p # at[s]
         /\ \A u, p : Owns(u, p) => Owns(u, p)'
         /\ \A u, p : Owns(u, p)' => Owns(u, p) \/ (u = s /\ p = at[s])
<1>a. Types /\ Table
  BY DEF SyncInv
<1>b. /\ pc[s] = "fill" /\ pc' = [pc EXCEPT ![s] = "status"]
      /\ table' = [table EXCEPT ![at[s]] = s] /\ regCnt' = regCnt /\ at' = at
  BY DEF Fill, Goto, locals
<1>c. /\ pc'[s] = "status" /\ \A u \in Sensors \ {s} : pc'[u] = pc[u]
      /\ \A u \in Sensors \ {s} : pc[u] = "fill" => at[u] # at[s]
  BY <1>a, <1>b DEF Types, Table
<1>d. at[s] \in Positions /\ at[s] < regCnt
  BY <1>a, <1>b DEF Table
<1>e. \A p \in Positions : table'[p] = IF p = at[s] THEN s ELSE table[p]
  BY <1>a, <1>b DEF Types
<1>1. \A p : Entry(p)' <=> Entry(p) \/ p = at[s]
  <2> SUFFICES ASSUME NEW p PROVE Entry(p)' <=> Entry(p) \/ p = at[s]
    OBVIOUS
  <2> DEFINE Filled == \A u \in Sensors \ {s} : pc[u] = "fill" => at[u] # p
  <2>1. Entry(p) <=> p \in Positions /\ p < regCnt /\ p # at[s] /\ Filled
    BY <1>b DEF Entry
  <2>2. Entry(p)' <=> p \in Positions /\ p < regCnt /\ Filled
    BY <1>b, <1>c DEF Entry
  <2>3. p = at[s] => Filled
    BY <1>c
  <2> HIDE DEF Filled
  <2> QED BY <1>d, <2>1, <2>2, <2>3
<1>2. \A p : Entry(p) => p \in Positions /\ p # at[s]
  BY <1>b DEF Entry
<1>3. \A u, p : Owns(u, p) => Owns(u, p)'
  BY <1>1, <1>2, <1>e DEF Owns
<1>4. \A u, p : Owns(u, p)' => Owns(u, p) \/ (u = s /\ p = at[s])
  BY <1>1, <1>2, <1>d, <1>e DEF Owns
<1> QED BY <1>1, <1>2, <1>3, <1>4

\* fs_push_sensor takes the next position; no entry changes hands.
LEMMA PushStep ==
  ASSUME SyncInv, NEW s \in Sensors, Register(s), Pos(s) = None, regCnt < SensorMax
  PROVE  SyncInv'
<1>a. Types /\ Table /\ Owner /\ Bits /\ Chosen
  BY DEF SyncInv
<1>b. /\ pc[s] = "register" /\ pc' = [pc EXCEPT ![s] = "fill"]
      /\ at' = [at EXCEPT ![s] = regCnt] /\ regCnt' = regCnt + 1
      /\ UNCHANGED <<table, streaming, enSync, validSync, isStreaming, master, mst, seen, op>>
  BY DEF Register, Goto, bits
<1>c. \A u \in Sensors \ {s} : pc'[u] = pc[u] /\ at'[u] = at[u]
  BY <1>a, <1>b DEF Types
<1>d. {"fill", "register", "status"} \cup Mid \cup Unsynced \subseteq ConfigPcs
  BY DEF ConfigPcs, Mid, Unsynced
<1>e. "fill" \notin {"status"} \cup Mid \cup Unsynced \cup FramePcs /\ "register" \notin Mid
  BY DEF Mid, Unsynced, FramePcs
<1>f. regCnt \in Nat /\ regCnt \in Positions /\ pc'[s] = "fill" /\ at'[s] = regCnt
  <2>1. regCnt \in 0 .. SensorMax /\ SensorMax \in Nat
    BY <1>a, Bounds DEF Types
  <2>2. regCnt \in Nat /\ regCnt \in 0 .. SensorMax - 1
    BY <2>1
  <2> QED BY <1>a, <1>b, <2>2 DEF Types, Positions
<1>g. ASSUME NEW u \in Sensors \ {s}, pc'[u] = "fill"
      PROVE  at'[u] \in Positions /\ at'[u] < regCnt /\ \A p \in Positions : ~Owns(u, p)
  BY <1>a, <1>c, <1>g DEF Table
<1>1. Types'
  <2>1. at' \in [Sensors -> Positions \cup {None}]
    BY <1>a, <1>b, <1>f DEF Types
  <2>2. regCnt' \in 0 .. SensorMax
    BY <1>a, <1>b, <1>f, Bounds DEF Types
  <2>3. pc' \in [Sensors -> {"idle"} \cup ConfigPcs \cup FramePcs]
    BY <1>a, <1>b, <1>d DEF Types
  <2> QED BY <1>a, <1>b, <2>1, <2>2, <2>3 DEF Types
<1>3. \A p : Entry(p)' <=> Entry(p)
  BY PushOwns
<1>4. \A u, p : Owns(u, p)' <=> Owns(u, p)
  BY PushOwns
<1>5. Table'
  <2>1. \A p, q \in Positions : Entry(p)' /\ Entry(q)' /\ table'[p] = table'[q] => p = q
    BY <1>a, <1>b, <1>3 DEF Table
  <2>2. \A p \in Positions : ~Owns(s, p)
    BY <1>a, PosFound, Bounds DEF Owns, Entry
  <2>3. \A u \in Sensors : pc'[u] = "fill" => at'[u] \in Positions /\ at'[u] < regCnt'
    <3>1. \A p \in Positions : p < regCnt => p < regCnt + 1
      BY <1>f, Bounds
    <3>2. regCnt < regCnt + 1
      BY <1>f
    <3> QED BY <1>b, <1>f, <1>g, <3>1, <3>2
  <2>4. \A u \in Sensors : pc'[u] = "fill" => \A p \in Positions : ~(Owns(u, p)')
    BY <1>4, <1>g, <2>2
  <2>5. ASSUME NEW u \in Sensors, NEW v \in Sensors, pc'[u] = "fill", pc'[v] = "fill",
               at'[u] = at'[v]
        PROVE  u = v
    <3>1. ~(regCnt < regCnt)
      BY <1>f
    <3>2. CASE u # s /\ v # s
      BY <1>a, <1>c, <2>5, <3>2 DEF Table
    <3> QED BY <1>f, <1>g, <2>5, <3>1, <3>2
  <2> QED BY <2>1, <2>3, <2>4, <2>5 DEF Table
<1>6. Owner'
  <2>1. \A u \in Sensors : pc'[u] \in {"status"} \cup Mid \cup Unsynced => Owns(u, at[u])'
    <3> SUFFICES ASSUME NEW u \in Sensors, pc'[u] \in {"status"} \cup Mid \cup Unsynced,
                        NEW q, q = at'[u]
                 PROVE  Owns(u, q)'
      BY DEF Owns, Entry
    <3>1. Owns(u, q)
      BY <1>a, <1>c, <1>e, <1>f DEF Owner
    <3> QED BY <1>4, <3>1
  <2>2. \A u \in Sensors : pc'[u] \in FramePcs => at'[u] = None \/ Owns(u, at[u])'
    <3> SUFFICES ASSUME NEW u \in Sensors, pc'[u] \in FramePcs, NEW q, q = at'[u], q # None
                 PROVE  Owns(u, q)'
      BY DEF Owns, Entry
    <3>1. Owns(u, q)
      BY <1>a, <1>c, <1>e, <1>f DEF Owner
    <3> QED BY <1>4, <3>1
  <2>3. \A u \in isStreaming' : \E p \in Positions : Owns(u, p)'
    <3>1. regCnt # SensorMax
      BY <1>f, Bounds
    <3> QED BY <1>a, <1>b, <1>4, <3>1 DEF Owner
  <2> QED BY <2>1, <2>2, <2>3 DEF Owner
<1>7. Bits'
  BY <1>a, <1>b, <1>c, <1>d, <1>e, <1>f DEF Bits, Mid
<1>8. Chosen'
  BY <1>a, <1>b, <1>c, <1>f DEF Chosen
<1> QED BY <1>1, <1>5, <1>6, <1>7, <1>8 DEF SyncInv

\* The entry that was pushed now belongs to its sensor.
LEMMA FillStep ==
  ASSUME SyncInv, NEW s \in Sensors, Fill(s)
  PROVE  SyncInv'
<1>a. Types /\ Table /\ Owner /\ Bits /\ Chosen
  BY DEF SyncInv
<1>b. /\ pc[s] = "fill" /\ pc' = [pc EXCEPT ![s] = "status"]
      /\ table' = [table EXCEPT ![at[s]] = s]
      /\ UNCHANGED <<regCnt, streaming, enSync, validSync, isStreaming, master, at, mst, seen, op>>
  BY DEF Fill, Goto, bits, locals, sensor
<1>c. \A u \in Sensors \ {s} : pc'[u] = pc[u]
  BY <1>a, <1>b DEF Types
<1>d. {"fill", "status"} \cup Mid \cup Unsynced \subseteq ConfigPcs
  BY DEF ConfigPcs, Mid, Unsynced
<1>e. "status" \notin {"fill"} \cup Mid \cup Unsynced \cup FramePcs /\ "fill" \notin Mid
  BY DEF Mid, Unsynced, FramePcs
<1>f. at[s] \in Positions /\ \A p \in Positions : ~Owns(s, p)
  BY <1>a, <1>b DEF Table
<1>g. pc'[s] = "status" /\ \A u \in Sensors : pc'[u] = "fill" => u # s /\ pc[u] = "fill"
  BY <1>a, <1>b, <1>c DEF Types
<1>h. \A p \in Positions : table'[p] = IF p = at[s] THEN s ELSE table[p]
  BY <1>a, <1>b DEF Types
<1>1. Types'
  BY <1>a, <1>b, <1>d, <1>f DEF Types
<1>3. \A p : Entry(p)' <=> Entry(p) \/ p = at[s]
  BY FillOwns
<1>5. \A u, p : Owns(u, p) => Owns(u, p)'
  BY FillOwns
<1>4. \A u, p : Owns(u, p)' => Owns(u, p) \/ (u = s /\ p = at[s])
  BY FillOwns
<1>6. Owns(s, at[s])'
  <2> SUFFICES ASSUME NEW q, q = at[s] PROVE Owns(s, q)'
    BY <1>b DEF Owns, Entry
  <2> QED BY <1>3, <1>f, <1>h DEF Owns
<1>7. Table'
  <2>1. ASSUME NEW p \in Positions, NEW q \in Positions, Entry(p)', Entry(q)',
               table'[p] = table'[q]
        PROVE  p = q
    <3>1. ASSUME NEW r \in Positions, Entry(r) PROVE table[r] # s
      BY <1>f, <3>1 DEF Owns
    <3>2. CASE p = at[s] /\ q = at[s]
      BY <3>2
    <3>3. CASE p = at[s] /\ q # at[s]
      BY <1>3, <1>h, <2>1, <3>1, <3>3
    <3>4. CASE p # at[s] /\ q = at[s]
      BY <1>3, <1>h, <2>1, <3>1, <3>4
    <3>5. CASE p # at[s] /\ q # at[s]
      <4>1. Entry(p) /\ Entry(q) /\ table[p] = table[q]
        BY <1>3, <1>h, <2>1, <3>5
      <4> QED BY <1>a, <4>1 DEF Table
    <3> QED BY <3>2, <3>3, <3>4, <3>5
  <2>2. \A u \in Sensors : pc'[u] = "fill" =>
          at'[u] \in Positions /\ at'[u] < regCnt' /\ \A p \in Positions : ~(Owns(u, p)')
    BY <1>a, <1>b, <1>4, <1>g DEF Table
  <2>3. \A u, v \in Sensors : pc'[u] = "fill" /\ pc'[v] = "fill" /\ at'[u] = at'[v] => u = v
    BY <1>a, <1>b, <1>g DEF Table
  <2> QED BY <2>1, <2>2, <2>3 DEF Table
<1>8. Owner'
  <2>1. \A u \in Sensors : pc'[u] \in {"status"} \cup Mid \cup Unsynced => Owns(u, at[u])'
    <3> SUFFICES ASSUME NEW u \in Sensors \ {s}, NEW q, q = at'[u],
                        pc'[u] \in {"status"} \cup Mid \cup Unsynced
                 PROVE  Owns(u, q)'
      BY <1>b, <1>6 DEF Owns, Entry
    <3>1. Owns(u, q)
      BY <1>a, <1>b, <1>c DEF Owner
    <3> QED BY <1>5, <3>1
  <2>2. \A u \in Sensors : pc'[u] \in FramePcs => at'[u] = None \/ Owns(u, at[u])'
    <3> SUFFICES ASSUME NEW u \in Sensors, pc'[u] \in FramePcs, NEW q, q = at'[u], q # None
                 PROVE  Owns(u, q)'
      BY DEF Owns, Entry
    <3>1. Owns(u, q)
      BY <1>a, <1>b, <1>c, <1>e, <1>g DEF Owner
    <3> QED BY <1>5, <3>1
  <2>3. \A u \in isStreaming' :
          \/ \E p \in Positions : Owns(u, p)'
          \/ regCnt' = SensorMax /\ pc'[u] # "fill"
    BY <1>a, <1>b, <1>5, <1>g DEF Owner
  <2> QED BY <2>1, <2>2, <2>3 DEF Owner
<1>9. Bits'
  BY <1>a, <1>b, <1>c, <1>d, <1>e, <1>g DEF Bits, Mid
<1>10. Chosen'
  BY <1>a, <1>b, <1>c, <1>g DEF Chosen
<1> QED BY <1>1, <1>7, <1>8, <1>9, <1>10 DEF SyncInv

\* The steps of a configuration.
LEMMA ConfigStep ==
  ASSUME SyncInv, NEW s \in Sensors, Config(s), ~raced'
  PROVE  SyncInv'
<1>a. Types /\ Owner /\ Bits /\ Chosen
  BY DEF SyncInv
<1>b. pc[s] \in ConfigPcs
  BY DEF Config, ConfigPcs, Register, Fill, SyncStatus, ResetMaster, ReadStreaming, ReadSync,
         SetValid, ResetInst, StreamBit, StreamOn
<1>d. /\ "fill" \in ConfigPcs /\ Mid \cup Unsynced \cup {"status"} \subseteq ConfigPcs
      /\ {"readSync", "setValid", "resetMaster", "readStreaming"} = Mid
      /\ {"reset", "streamBit", "streamOn"} = Unsynced /\ Mid \cap Unsynced = {}
      /\ "idle" \notin {"status", "fill"} \cup Mid \cup Unsynced
      /\ {"status", "fill"} \cap (Mid \cup Unsynced) = {}
  BY DEF ConfigPcs, Mid, Unsynced
<1>e. \A u \in Sensors : pc[u] \in {"master", "select"} => at[u] \in validSync
  BY <1>a DEF Chosen
<1> DEFINE OtherMid(p) == \E u \in Sensors \ {s} : pc[u] \in Mid /\ at[u] = p
<1>f. \A p \in validSync : p \in streaming \cap enSync \/ (pc[s] \in Mid /\ at[s] = p) \/ OtherMid(p)
  BY <1>a DEF Bits
<1>g. pc[s] \in {"status"} \cup Mid \cup Unsynced => Owns(s, at[s]) /\ at[s] \in Positions
  BY <1>a DEF Owner, Owns, Entry
<1> DEFINE ops == {"none", "on", "off", "sync", "unsync"}
<1>t. /\ regCnt \in 0 .. SensorMax /\ table \in [Positions -> Sensors]
      /\ streaming \subseteq Positions /\ enSync \subseteq Positions
      /\ validSync \subseteq Positions /\ master \in Positions \cup {None}
      /\ pc \in [Sensors -> {"idle"} \cup ConfigPcs \cup FramePcs] /\ op \in [Sensors -> ops]
      /\ at \in [Sensors -> Positions \cup {None}] /\ mst \in [Sensors -> Positions \cup {None}]
      /\ seen \in [Sensors -> SUBSET Positions] /\ isStreaming \subseteq Sensors
  BY <1>a DEF Types
<1>p. ASSUME NEW w \in {"idle"} \cup ConfigPcs, pc' = [pc EXCEPT ![s] = w]
      PROVE  pc' \in [Sensors -> {"idle"} \cup ConfigPcs \cup FramePcs]
  BY <1>t, <1>p
<1>q. ASSUME op' = op \/ op' = [op EXCEPT ![s] = "none"]
      PROVE  op' \in [Sensors -> ops] /\ \A u \in Sensors \ {s} : op'[u] = op[u]
  BY <1>t, <1>q
<1>k. /\ Mid \cup Unsynced \cup {"idle", "status"} \subseteq {"idle"} \cup ConfigPcs
      /\ \A w \in Mid : w # "fill" /\ w \notin Unsynced
      /\ \A w \in Unsynced : w # "fill" /\ w \notin Mid
      /\ \A w \in {"idle", "status"} : w # "fill" /\ w \notin Mid /\ w \notin Unsynced
  BY <1>d
<1>m. ASSUME NEW w \in {"idle"} \cup ConfigPcs, pc[s] # "fill", w # "fill", Types',
             pc' = [pc EXCEPT ![s] = w], op' = op \/ op' = [op EXCEPT ![s] = "none"],
             UNCHANGED <<regCnt, table, mst, at>>,
             w \in Mid \cup Unsynced => Owns(s, at[s]), w # "status",
             isStreaming' \subseteq isStreaming \cup {s},
             isStreaming' \subseteq isStreaming \/ Owns(s, at[s]) \/ regCnt = SensorMax,
             \A p \in validSync' : \/ p \in streaming' \cap enSync'
                                   \/ w \in Mid /\ at[s] = p
                                   \/ OtherMid(p),
             \A p \in enSync' : p \in enSync \/ Owns(s, p),
             w \in Unsynced => at[s] \notin enSync',
             w \in Mid => op' = op /\ (op[s] \notin {"sync", "unsync"} => at[s] \notin enSync'),
             \A u \in Sensors \ {s} : pc[u] \in {"master", "select"} => at[u] \in validSync'
      PROVE  SyncInv'
  <2>1. \A u \in Sensors \ {s} : at'[u] = at[u] /\ op'[u] = op[u]
    BY <1>m, <1>q
  <2>2. \/ isStreaming' \subseteq isStreaming
        \/ \E p \in Positions : Owns(s, p)
        \/ regCnt = SensorMax
    BY <1>m DEF Owns, Entry
  <2>3. \A p \in validSync' : \/ p \in streaming' \cap enSync'
                              \/ w \in Mid /\ at'[s] = p
                              \/ \E u \in Sensors \ {s} : pc[u] \in Mid /\ at[u] = p
    BY <1>m
  <2>4. /\ w \in {"status"} \cup Mid \cup Unsynced => Owns(s, at'[s])
        /\ w \in Unsynced => at'[s] \notin enSync'
        /\ w \in Mid /\ op'[s] \notin {"sync", "unsync"} => at'[s] \notin enSync'
    BY <1>m
  <2> QED BY <1>b, <1>m, <2>1, <2>2, <2>3, <2>4, ConfigMove
<1>1. CASE Register(s) /\ Pos(s) # None
  <2>1. /\ pc[s] = "register" /\ pc' = [pc EXCEPT ![s] = "status"]
        /\ at' = [at EXCEPT ![s] = Pos(s)]
        /\ UNCHANGED <<regCnt, table, streaming, enSync, validSync, isStreaming, master, mst, seen, op>>
    BY <1>1 DEF Register, Goto, bits
  <2>2. Pos(s) \in Positions /\ Owns(s, Pos(s))
    BY <1>1, FoundOwn DEF Register
  <2>3. /\ at' \in [Sensors -> Positions \cup {None}] /\ at'[s] = Pos(s)
        /\ \A u \in Sensors \ {s} : at'[u] = at[u]
    BY <1>t, <2>1, <2>2
  <2>4. Types'
    BY <1>t, <1>p, <1>d, <2>1, <2>3 DEF Types
  <2>5. "status" \notin Mid \cup Unsynced /\ "register" \notin Mid
    BY DEF Mid, Unsynced
  <2>6. Owns(s, at'[s])
    BY <2>2, <2>3
  <2>7. /\ "status" \in ConfigPcs /\ "status" # "fill" /\ pc[s] # "fill" /\ "status" \notin Mid
        /\ "status" \notin Unsynced
    BY <1>d, <2>1, <2>5
  <2>8. \A u \in Sensors \ {s} : at'[u] = at[u] /\ op'[u] = op[u]
    BY <2>1, <2>3
  <2>9. /\ UNCHANGED <<regCnt, table, mst>>
        /\ isStreaming' \subseteq isStreaming \cup {s}
        /\ isStreaming' \subseteq isStreaming
        /\ \A p \in enSync' : p \in enSync \/ Owns(s, p)
    BY <2>1
  <2>10. \A p \in validSync' : \/ p \in streaming' \cap enSync'
                                \/ \E u \in Sensors \ {s} : pc[u] \in Mid /\ at[u] = p
    BY <1>f, <2>1, <2>5
  <2>11. \A u \in Sensors \ {s} : pc[u] \in {"master", "select"} => at[u] \in validSync'
    BY <1>e, <2>1
  <2> QED
    BY <1>b, <2>1, <2>4, <2>6, <2>7, <2>8, <2>9, <2>10, <2>11, ConfigMove
<1>2. CASE Register(s) /\ Pos(s) = None /\ regCnt < SensorMax
  BY <1>2, PushStep
<1>3. CASE Register(s) /\ Pos(s) = None /\ ~(regCnt < SensorMax)
  <2>1. /\ pc[s] = "register" /\ pc' = [pc EXCEPT ![s] = "idle"]
        /\ op' = [op EXCEPT ![s] = "none"]
        /\ isStreaming' \in {isStreaming \cup {s}, isStreaming \ {s}}
        /\ UNCHANGED <<regCnt, table, streaming, enSync, validSync, master, mst, seen, at>>
    BY <1>3 DEF Register, Return, Goto, bits
  <2>2. Types'
    BY <1>t, <1>p, <2>1 DEF Types
  <2>3. regCnt = SensorMax
    BY <1>3, <1>t, Bounds
  <2>4. "idle" \notin {"status", "fill", "readSync", "setValid"} \cup Mid \cup Unsynced
        /\ "register" \notin Mid
    BY DEF Mid, Unsynced
  <2>5. isStreaming' \subseteq isStreaming \cup {s}
    BY <2>1
  <2>6. \A p \in validSync' : p \in streaming' \cap enSync' \/ OtherMid(p)
    BY <1>f, <2>1, <2>4
  <2>7. /\ pc[s] # "fill" /\ \A p \in enSync' : p \in enSync \/ Owns(s, p)
        /\ \A u \in Sensors \ {s} : pc[u] \in {"master", "select"} => at[u] \in validSync'
        /\ isStreaming' \subseteq isStreaming \cup {s}
    BY <1>e, <2>1
  <2> QED BY <1>k, <2>1, <2>2, <2>3, <2>4, <2>6, <2>7, <1>m
<1>4. CASE Fill(s)
  BY <1>4, FillStep
<1>5. CASE SyncStatus(s)
  <2>1. /\ pc[s] = "status" /\ pc' = [pc EXCEPT ![s] = "resetMaster"]
        /\ UNCHANGED <<regCnt, table, streaming, validSync, isStreaming, master, mst, seen, op, at>>
        /\ enSync' = IF op[s] = "sync" THEN enSync \cup {at[s]} ELSE enSync \ {at[s]}
    BY <1>5 DEF SyncStatus, Goto, mgr, locals, sensor
  <2>2. Owns(s, at[s]) /\ at[s] \in Positions
    BY <1>g, <2>1
  <2>3. Types'
    BY <1>t, <1>p, <1>d, <2>1, <2>2 DEF Types
  <2>4. /\ \A p \in validSync' : p \in streaming' \cap enSync' \/ at'[s] = p \/ OtherMid(p)
        /\ \A p \in enSync' : p \in enSync \/ Owns(s, p)
    BY <1>f, <1>d, <2>1, <2>2
  <2>5. op'[s] \notin {"sync", "unsync"} => at'[s] \notin enSync'
    BY <2>1
  <2>6. "resetMaster" \in Mid
    BY <1>d
  <2> QED BY <1>e, <1>k, <2>1, <2>2, <2>3, <2>4, <2>5, <2>6, <1>m
<1>6. CASE ResetMaster(s)
  <2>1. /\ pc[s] = "resetMaster" /\ pc' = [pc EXCEPT ![s] = "readStreaming"]
        /\ UNCHANGED <<regCnt, table, streaming, enSync, validSync, isStreaming, mst, seen, op, at>>
        /\ master' \in {None, master}
    BY <1>6 DEF ResetMaster, Goto, mgr, locals, sensor, bits
  <2>2. Owns(s, at[s])
    BY <1>g, <1>d, <2>1
  <2>3. Types'
    BY <1>t, <1>p, <1>d, <2>1 DEF Types
  <2>4. op[s] \notin {"sync", "unsync"} => at[s] \notin enSync
    BY <1>a, <1>d, <2>1 DEF Bits
  <2>5. {pc[s], "readStreaming"} \subseteq Mid
    BY <1>d, <2>1
  <2>6. \A p \in validSync' : p \in streaming' \cap enSync' \/ at[s] = p \/ OtherMid(p)
    BY <1>f, <2>1
  <2>7. /\ pc[s] # "fill" /\ \A p \in enSync' : p \in enSync \/ Owns(s, p)
        /\ \A u \in Sensors \ {s} : pc[u] \in {"master", "select"} => at[u] \in validSync'
        /\ isStreaming' \subseteq isStreaming \cup {s}
    BY <1>e, <2>1
  <2> QED BY <1>k, <2>1, <2>2, <2>3, <2>4, <2>5, <2>6, <2>7, <1>m
<1>7. CASE ReadStreaming(s)
  <2>1. /\ pc[s] = "readStreaming" /\ pc' = [pc EXCEPT ![s] = "readSync"]
        /\ UNCHANGED <<regCnt, table, streaming, enSync, validSync, isStreaming, mst, op, at, master>>
        /\ seen' = [seen EXCEPT ![s] = streaming]
    BY <1>7 DEF ReadStreaming, Goto, mgr, sensor, bits
  <2>2. Owns(s, at[s])
    BY <1>g, <1>d, <2>1
  <2>3. Types' /\ seen'[s] = streaming
    BY <1>t, <1>p, <1>d, <2>1 DEF Types
  <2>4. op[s] \notin {"sync", "unsync"} => at[s] \notin enSync
    BY <1>a, <1>d, <2>1 DEF Bits
  <2>5. {pc[s], "readSync"} \subseteq Mid
    BY <1>d, <2>1
  <2>6. \A p \in validSync' : p \in streaming' \cap enSync' \/ at[s] = p \/ OtherMid(p)
    BY <1>f, <2>1
  <2>7. /\ pc[s] # "fill" /\ \A p \in enSync' : p \in enSync \/ Owns(s, p)
        /\ \A u \in Sensors \ {s} : pc[u] \in {"master", "select"} => at[u] \in validSync'
        /\ isStreaming' \subseteq isStreaming \cup {s}
    BY <1>e, <2>1
  <2> QED BY <1>k, <2>1, <2>2, <2>3, <2>4, <2>5, <2>6, <2>7, <1>m
<1>8. CASE ReadSync(s)
  <2>1. /\ pc[s] = "readSync" /\ pc' = [pc EXCEPT ![s] = "setValid"]
        /\ UNCHANGED <<regCnt, table, streaming, enSync, validSync, isStreaming, mst, op, at, master>>
        /\ seen' = [seen EXCEPT ![s] = seen[s] \cap enSync]
    BY <1>8 DEF ReadSync, Goto, mgr, sensor, bits
  <2>2. Owns(s, at[s])
    BY <1>g, <1>d, <2>1
  <2>4. seen' \in [Sensors -> SUBSET Positions]
    BY <1>t, <2>1
  <2>5. Types'
    BY <1>t, <1>p, <1>d, <2>1, <2>4 DEF Types
  <2>6. op[s] \notin {"sync", "unsync"} => at[s] \notin enSync
    BY <1>a, <1>d, <2>1 DEF Bits
  <2>7. {pc[s], "setValid"} \subseteq Mid
    BY <1>d, <2>1
  <2>8. \A p \in validSync' : p \in streaming' \cap enSync' \/ at[s] = p \/ OtherMid(p)
    BY <1>f, <2>1
  <2>9. /\ pc[s] # "fill" /\ \A p \in enSync' : p \in enSync \/ Owns(s, p)
        /\ \A u \in Sensors \ {s} : pc[u] \in {"master", "select"} => at[u] \in validSync'
        /\ isStreaming' \subseteq isStreaming \cup {s}
    BY <1>e, <2>1
  <2> QED BY <1>k, <2>1, <2>2, <2>5, <2>6, <2>7, <2>8, <2>9, <1>m
<1>9. CASE SetValid(s)
  <2>1. /\ pc[s] = "setValid"
        /\ UNCHANGED <<regCnt, table, streaming, enSync, isStreaming, mst, at, master>>
        /\ validSync' = seen[s] /\ seen' = [seen EXCEPT ![s] = {}]
        /\ \/ pc' = [pc EXCEPT ![s] = "idle"] /\ op' = [op EXCEPT ![s] = "none"]
           \/ pc' = [pc EXCEPT ![s] = "reset"] /\ op' = op /\ op[s] \notin {"sync", "unsync"}
    BY <1>9 DEF SetValid, ValidBits, Return, Goto, mgr, sensor
  <2>2. Owns(s, at[s]) /\ at[s] \in Positions
    BY <1>g, <1>d, <2>1
  <2>3. seen[s] = streaming \cap enSync
    BY <1>9 DEF SetValid
  <2>4. op[s] \notin {"sync", "unsync"} => at[s] \notin enSync
    BY <1>a, <1>d, <2>1 DEF Bits
  <2>5. seen' \in [Sensors -> SUBSET Positions] /\ validSync' \subseteq Positions
    BY <1>t, <2>1
  <2>6. \A p \in validSync' : p \in streaming' \cap enSync'
    BY <2>1, <2>3
  <2>7. ASSUME NEW u \in Sensors \ {s}, pc[u] \in {"master", "select"}
        PROVE  at[u] \in validSync'
    <3>1. at[u] \in validSync /\ at[u] \in Positions
      BY <1>e, <1>t, <2>7
    <3>2. Owns(u, at[u])
      BY <1>a, <2>7, <3>1, Bounds DEF Owner, FramePcs
    <3>3. ASSUME NEW v \in Sensors, pc[v] \in Mid, at[v] = at[u] PROVE FALSE
      <4>1. Owns(v, at[u])
        BY <1>a, <3>3 DEF Owner
      <4>2. v = u
        BY <3>2, <4>1 DEF Owns
      <4> QED BY <2>7, <3>3, <4>2 DEF Mid
    <3>4. at[u] \in streaming \cap enSync
      BY <1>a, <3>1, <3>3 DEF Bits
    <3> QED BY <2>1, <2>3, <3>4
  <2>8. CASE pc' = [pc EXCEPT ![s] = "idle"] /\ op' = [op EXCEPT ![s] = "none"]
    <3>1. Types'
      BY <1>t, <1>p, <2>1, <2>5, <2>8 DEF Types
    <3>2. "idle" \notin {"status", "fill", "readSync", "setValid"} \cup Mid \cup Unsynced
      BY DEF Mid, Unsynced
    <3>3. isStreaming' \subseteq isStreaming /\ isStreaming' \subseteq isStreaming \cup {s}
      BY <2>1
    <3> QED BY <1>e, <1>k, <2>1, <2>6, <2>7, <2>8, <3>1, <3>2, <3>3, <1>m
  <2>9. CASE pc' = [pc EXCEPT ![s] = "reset"] /\ op' = op /\ op[s] \notin {"sync", "unsync"}
    <3>1. Types'
      BY <1>t, <1>p, <1>d, <2>1, <2>5, <2>9 DEF Types
    <3>2. "reset" \in ConfigPcs /\ "reset" \notin {"fill", "readSync", "setValid"} \cup Mid
      BY DEF Mid, ConfigPcs
    <3>3. isStreaming' \subseteq isStreaming /\ isStreaming' \subseteq isStreaming \cup {s}
      BY <2>1
    <3>4. Owns(s, at'[s]) /\ at'[s] \notin enSync'
      BY <2>1, <2>2, <2>4, <2>9
    <3> QED BY <1>e, <1>k, <2>1, <2>6, <2>7, <2>9, <3>1, <3>2, <3>3, <3>4, <1>m
  <2> QED BY <2>1, <2>8, <2>9
<1>10. CASE ResetInst(s)
  <2>1. /\ pc[s] = "reset" /\ pc' = [pc EXCEPT ![s] = "streamBit"]
        /\ UNCHANGED <<regCnt, table, streaming, enSync, validSync, isStreaming, mst, seen, op, at,
                       master>>
    BY <1>10 DEF ResetInst, Goto, mgr, sensor, bits, locals
  <2>2. Owns(s, at[s]) /\ at[s] \notin enSync
    BY <1>a, <1>g, <1>d, <2>1 DEF Bits
  <2>3. Types'
    BY <1>t, <1>p, <1>d, <2>1 DEF Types
  <2>4. "streamBit" \in ConfigPcs /\ "streamBit" \notin {"fill", "readSync", "setValid"} \cup Mid
        /\ "reset" \notin Mid
    BY DEF Mid, ConfigPcs
  <2>5. \A p \in validSync' : p \in streaming' \cap enSync' \/ OtherMid(p)
    BY <1>f, <2>1, <2>4
  <2>6. /\ pc[s] # "fill" /\ \A p \in enSync' : p \in enSync \/ Owns(s, p)
        /\ \A u \in Sensors \ {s} : pc[u] \in {"master", "select"} => at[u] \in validSync'
        /\ isStreaming' \subseteq isStreaming \cup {s}
    BY <1>e, <2>1
  <2>7. /\ "streamBit" \in {"idle"} \cup ConfigPcs /\ "streamBit" \notin Mid
        /\ "streamBit" # "fill" /\ "streamBit" # "status"
        /\ pc' = [pc EXCEPT ![s] = "streamBit"] /\ op' = op
        /\ UNCHANGED <<regCnt, table, mst, at>> /\ isStreaming' \subseteq isStreaming
        /\ at[s] \notin enSync'
    BY <2>1, <2>2, <2>4
  <2> QED BY <2>2, <2>3, <2>5, <2>6, <2>7, <1>m
<1>11. CASE StreamBit(s)
  <2>1. /\ pc[s] = "streamBit"
        /\ UNCHANGED <<regCnt, table, enSync, validSync, mst, seen, at, master>>
        /\ streaming' = streaming \ {at[s]}
        /\ \/ pc' = [pc EXCEPT ![s] = "streamOn"] /\ op' = op /\ isStreaming' = isStreaming
           \/ /\ pc' = [pc EXCEPT ![s] = "idle"] /\ op' = [op EXCEPT ![s] = "none"]
              /\ isStreaming' = isStreaming \ {s}
    BY <1>11 DEF StreamBit, Return, Goto, mgr
  <2>2. Owns(s, at[s]) /\ at[s] \notin enSync
    BY <1>a, <1>g, <1>d, <2>1 DEF Bits
  <2>3. "streamBit" \notin Mid
    BY DEF Mid
  <2>4. \A p \in validSync' : p \in streaming' \cap enSync' \/ OtherMid(p)
    BY <1>f, <2>1, <2>2, <2>3
  <2>5. CASE pc' = [pc EXCEPT ![s] = "streamOn"] /\ op' = op /\ isStreaming' = isStreaming
    <3>1. Types'
      BY <1>t, <1>p, <1>d, <2>1, <2>5 DEF Types
    <3>2. "streamOn" \in ConfigPcs /\ "streamOn" \notin {"fill", "readSync", "setValid"} \cup Mid
      BY DEF Mid, ConfigPcs
    <3>3. Owns(s, at'[s]) /\ at'[s] \notin enSync'
      BY <2>1, <2>2
    <3> QED BY <1>e, <1>k, <2>1, <2>4, <2>5, <3>1, <3>2, <3>3, <1>m
  <2>6. CASE /\ pc' = [pc EXCEPT ![s] = "idle"] /\ op' = [op EXCEPT ![s] = "none"]
             /\ isStreaming' = isStreaming \ {s}
    <3>1. Types'
      BY <1>t, <1>p, <2>1, <2>6 DEF Types
    <3>2. "idle" \notin {"status", "fill", "readSync", "setValid"} \cup Mid \cup Unsynced
      BY DEF Mid, Unsynced
    <3>3. isStreaming' \subseteq isStreaming /\ isStreaming' \subseteq isStreaming \cup {s}
      BY <2>6
    <3> QED BY <1>e, <1>k, <2>1, <2>4, <2>6, <3>1, <3>2, <3>3, <1>m
  <2> QED BY <2>1, <2>5, <2>6
<1>12. CASE StreamOn(s)
  <2>1. /\ pc[s] = "streamOn" /\ pc' = [pc EXCEPT ![s] = "idle"]
        /\ op' = [op EXCEPT ![s] = "none"]
        /\ UNCHANGED <<regCnt, table, enSync, validSync, mst, seen, at, master>>
        /\ streaming' = streaming \cup {at[s]} /\ isStreaming' = isStreaming \cup {s}
    BY <1>12 DEF StreamOn, Return, Goto, mgr
  <2>2. Owns(s, at[s]) /\ at[s] \in Positions
    BY <1>g, <1>d, <2>1
  <2>3. "streamOn" \notin Mid
    BY DEF Mid
  <2>4. \A p \in validSync' : p \in streaming' \cap enSync' \/ OtherMid(p)
    BY <1>f, <2>1, <2>3
  <2>5. Types'
    BY <1>t, <1>p, <2>1, <2>2 DEF Types
  <2>6. "idle" \notin {"status", "fill", "readSync", "setValid"} \cup Mid \cup Unsynced
    BY DEF Mid, Unsynced
  <2>7. isStreaming' \subseteq isStreaming \cup {s} /\ \E p \in Positions : Owns(s, p)
    BY <2>1, <2>2
  <2>8. \A p \in validSync' : p \in streaming' \cap enSync' \/ OtherMid(p)
    BY <2>4
  <2>9. /\ pc[s] # "fill" /\ \A p \in enSync' : p \in enSync \/ Owns(s, p)
        /\ \A u \in Sensors \ {s} : pc[u] \in {"master", "select"} => at[u] \in validSync'
        /\ isStreaming' \subseteq isStreaming \cup {s}
    BY <1>e, <2>1
  <2>10. /\ "idle" \in {"idle"} \cup ConfigPcs /\ "idle" \notin Mid /\ "idle" \notin Unsynced
         /\ "idle" # "fill" /\ "idle" # "status"
         /\ pc' = [pc EXCEPT ![s] = "idle"] /\ op' = [op EXCEPT ![s] = "none"]
         /\ UNCHANGED <<regCnt, table, mst, at>>
    BY <2>1, <2>6
  <2> QED BY <2>2, <2>5, <2>8, <2>9, <2>10, <1>m
<1> QED
  BY <1>1, <1>2, <1>3, <1>4, <1>5, <1>6, <1>7, <1>8, <1>9, <1>10, <1>11, <1>12 DEF Config

-----------------------------------------------------------------------------
(* The theorem about the master.                                           *)

\* Nothing is registered, streams or is configured at first.
LEMMA InitLemma ==
  ASSUME Init
  PROVE  SyncInv
<1>1. Types
  <2>1. 0 \in Sensors /\ 0 \in 0 .. SensorMax
    BY Bounds, FrameSyncConstants DEF Sensors
  <2> QED BY <2>1 DEF Init, Types
<1>2. \A s \in Sensors : pc[s] = "idle"
  BY DEF Init
<1>3. Owner /\ Bits /\ Chosen
  BY <1>2 DEF Init, Owner, Bits, Chosen, ConfigPcs, FramePcs, Mid, Unsynced
<1>4. Table
  BY <1>2, Bounds DEF Init, Table, Entry
<1> QED BY <1>1, <1>3, <1>4 DEF SyncInv

\* Every step keeps the invariant.
LEMMA SyncStep ==
  ASSUME SyncInv, [Next]_vars, ~raced'
  PROVE  SyncInv'
<1>a. ASSUME UNCHANGED <<regCnt, table, streaming, enSync, validSync, isStreaming, master, at, mst,
                         seen, op, pc>>
      PROVE  SyncInv'
  BY <1>a DEF SyncInv, Types, Table, Owner, Bits, Chosen, Owns, Entry
<1>1. ASSUME NEW s \in Sensors, Stream(s) \/ SetSync(s) PROVE SyncInv'
  BY <1>1, BeginStep
<1>2. ASSUME NEW s \in Sensors, Config(s) PROVE SyncInv'
  BY <1>2, ConfigStep
<1>3. ASSUME NEW s \in Sensors, Frame(s) PROVE SyncInv'
  BY <1>3, FrameStep
<1>4. ASSUME NEW s \in Sensors, RepeatShutter(s) PROVE SyncInv'
  BY <1>4, ExposeStep DEF RepeatShutter
<1>5. ASSUME NEW s \in Sensors, NEW en \in BOOLEAN, N1(s, en) \/ MStream(s, en) PROVE SyncInv'
  BY <1>a, <1>5 DEF N1, MStream, mgr, bits, sensor, locals
<1>6. ASSUME NEW s \in Sensors, NEW fl \in MinFls, SetShutter(s, fl) PROVE SyncInv'
  BY <1>6, ExposeStep DEF SetShutter
<1>7. CASE UNCHANGED vars
  BY <1>a, <1>7 DEF vars, mgr, bits, sensor, locals
<1> QED BY <1>1, <1>2, <1>3, <1>4, <1>5, <1>6, <1>7 DEF Next

\* What has gone wrong stays so.
LEMMA RacedStep ==
  ASSUME raced, [Next]_vars
  PROVE  raced'
<1>1. ASSUME NEW s \in Sensors, Stream(s) \/ SetSync(s) PROVE raced'
  BY <1>1 DEF Stream, SetSync, Search
<1>2. ASSUME NEW s \in Sensors, Config(s) PROVE raced'
  BY <1>2 DEF Config, Register, Fill, SyncStatus, ResetMaster, ReadStreaming, ReadSync, SetValid,
              ResetInst, StreamBit, StreamOn, Search
<1>3. ASSUME NEW s \in Sensors, Frame(s) PROVE raced'
  BY <1>3 DEF Frame, CheckShutter, CheckControl, Trigger, GetMaster, SelectMaster, ReadValid,
              Solve, Publish, Write
<1>4. ASSUME NEW s \in Sensors, NEW fl, Expose(s, fl) PROVE raced'
  BY <1>4 DEF Expose, Search
<1>5. ASSUME NEW s \in Sensors, NEW en \in BOOLEAN, N1(s, en) \/ MStream(s, en) PROVE raced'
  BY <1>5 DEF N1, MStream, Search
<1>6. CASE UNCHANGED vars
  BY <1>6 DEF vars
<1> QED BY <1>1, <1>2, <1>3, <1>4, <1>5, <1>6 DEF Next, RepeatShutter, SetShutter

\* The master a sensor reads the parameters of is an entry of the table, until
\* an update of validSync_bits is lost or a search takes an entry that is still
\* being filled: fs_get_valid_master_instance_idx never finds the bits empty,
\* since the sensor that asks is in them.  Whatever calls of other sensors do
\* between its checks, they clear the bits of their own sensors only.
THEOREM MasterSafe == Spec => []MasterInRange
<1>1. Init => raced \/ SyncInv
  BY InitLemma
<1>2. (raced \/ SyncInv) /\ [Next]_vars => (raced \/ SyncInv)'
  BY SyncStep, RacedStep
<1>3. raced \/ SyncInv => MasterInRange
  BY DEF SyncInv, Chosen, MasterInRange
<1> QED BY <1>1, <1>2, <1>3, PTL DEF Spec

-----------------------------------------------------------------------------
(* The frame length a sensor is given: the inductive invariant.            *)

Lengths == [min : Nat, target : Nat]
Results == [min : Nat, target : Nat, out : Nat]
Numbers ==
  /\ want \in [Sensors -> Nat] /\ reg \in [Sensors -> Nat] /\ fsyncOut \in [Sensors -> Nat]
  /\ algCell \in [Positions -> Nat] /\ para \in [Positions -> Lengths]
  /\ new \in [Sensors -> Results] /\ cbCtx \in [Positions -> Sensors \cup {None}]
  /\ pfCtrl \subseteq Positions /\ setupComplete \subseteq Positions
  /\ maxFl \in [Sensors -> Nat]

\* What streams and is to be synced is valid, but for the one being updated.
AllValid ==
  \A p \in streaming \cap enSync : p \in validSync \/ \E t \in Sensors : pc[t] \in Mid /\ at[t] = p

\* A streaming sensor has its stream bit and its call-back; no call-back is
\* left of another sensor.
Live ==
  \A s \in isStreaming : \A p \in Positions :
    Owns(s, p) /\ pc[s] # "streamOn" => p \in streaming /\ cbCtx[p] = s
Callbacks == \A p \in Positions : cbCtx[p] # None => Owns(cbCtx[p], p)

\* What a call for an exposure has reached: a sensor to be synced passes every
\* check, and is written with a frame length of its own call-back.  The bound on
\* that length is harmless since the exposure has been bounded alike.
Deep == FramePcs \ {"shutter", "write"}
CallOf(s) ==
  /\ pc[s] \in FramePcs => s \in isStreaming
  /\ pc[s] \in Deep => at[s] \in Positions
  /\ pc[s] = "trigger" /\ at[s] \in enSync => at[s] \in pfCtrl \cap setupComplete
  /\ pc[s] = "publish" => new[s].out >= want[s]
  /\ pc[s] = "write" /\ at[s] \in enSync => fsyncOut[s] >= want[s]
  /\ pc[s] \notin FramePcs \/ at[s] \notin enSync => reg[s] >= want[s]
  /\ want[s] <= maxFl[s]
Calls == \A s \in Sensors : CallOf(s)

FitInv == Numbers /\ AllValid /\ Live /\ Callbacks /\ Calls

-----------------------------------------------------------------------------
(* Largest frame lengths, and cells.                                       *)

\* A bound of the values at the positions below n.
LEMMA BoundBelow ==
  ASSUME NEW f \in [Nat -> Nat], NEW n \in Nat
  PROVE  \E b \in Nat : \A i \in 0 .. n - 1 : f[i] <= b
<1> DEFINE HasBound(k) == \E b \in Nat : \A i \in 0 .. k - 1 : f[i] <= b
           Bad == {k \in Nat : ~HasBound(k)}
<1>1. HasBound(0)
  BY 0 \in Nat
<1>2. ASSUME NEW k \in Nat, HasBound(k) PROVE HasBound(k + 1)
  <2>1. PICK b \in Nat : \A i \in 0 .. k - 1 : f[i] <= b
    BY <1>2
  <2>2. f[k] \in Nat /\ \A i \in 0 .. k : i = k \/ i \in 0 .. k - 1
    OBVIOUS
  <2>3. b + f[k] \in Nat /\ \A i \in 0 .. (k + 1) - 1 : f[i] <= b + f[k]
    BY <2>1, <2>2
  <2> QED BY <2>3
<1> HIDE DEF HasBound
<1>3. CASE Bad # {}
  <2>1. PICK k \in Bad : \A m \in Bad : k <= m
    BY <1>3, LeastElement
  <2>2. k \in Nat /\ ~HasBound(k) /\ k # 0
    BY <1>1, <2>1
  <2>3. k - 1 \in Nat /\ (k - 1) + 1 = k /\ ~(k <= k - 1)
    BY <2>2
  <2>4. HasBound(k - 1)
    BY <2>1, <2>3
  <2>5. HasBound((k - 1) + 1)
    BY <1>2, <2>3, <2>4
  <2> QED BY <2>2, <2>3, <2>5
<1>4. CASE Bad = {}
  BY <1>4 DEF HasBound
<1> QED BY <1>3, <1>4

\* The largest of a bounded set of numbers is one of them, and above the others.
LEMMA LargestIs ==
  ASSUME NEW S \in SUBSET Nat, S # {}, NEW b \in Nat, \A m \in S : m <= b
  PROVE  Largest(S) \in S /\ \A m \in S : m <= Largest(S)
<1> DEFINE T == {b - m : m \in S}
<1>0. \A m \in S : b - m \in Nat
  OBVIOUS
<1>1. T \in SUBSET Nat /\ T # {}
  BY <1>0
<1>2. PICK t \in T : \A u \in T : t <= u
  BY <1>1, LeastElement
<1>3. PICK n \in S : t = b - n
  BY <1>2
<1>4. \A m \in S : b - n <= b - m
  BY <1>2, <1>3
<1>5. \A m \in S : m <= n
  BY <1>4
<1>6. \E l \in S : \A m \in S : m <= l
  BY <1>5
<1> QED BY <1>6 DEF Largest

\* The largest of a number and of those at some positions.
LEMMA LargestOf ==
  ASSUME NEW n \in Nat, NEW P \in SUBSET Positions, NEW f \in [Positions -> Nat]
  PROVE  LET m == Largest({n} \cup {f[p] : p \in P}) IN m \in Nat /\ n <= m
<1> DEFINE S == {n} \cup {f[p] : p \in P}
           g == [i \in Nat |-> IF i \in Positions THEN f[i] ELSE 0]
<1>1. PICK b \in Nat : \A i \in 0 .. SensorMax - 1 : g[i] <= b
  <2>1. g \in [Nat -> Nat] /\ SensorMax \in Nat
    BY Bounds
  <2> HIDE DEF g
  <2> QED BY <2>1, BoundBelow
<1>2. \A p \in Positions : f[p] \in Nat /\ f[p] <= b
  <2>1. \A p \in Positions : p \in 0 .. SensorMax - 1 /\ g[p] = f[p]
    BY Bounds DEF Positions
  <2> HIDE DEF g
  <2> QED BY <1>1, <2>1
<1>3. b + n \in Nat /\ n <= b + n /\ \A p \in Positions : f[p] <= b + n
  BY <1>2
<1>4. S \in SUBSET Nat /\ n \in S /\ \A m \in S : m <= b + n
  BY <1>2, <1>3
<1> HIDE DEF S
<1>5. Largest(S) \in S /\ \A m \in S : m <= Largest(S)
  BY <1>3, <1>4, LargestIs
<1>6. Largest(S) \in Nat /\ n <= Largest(S)
  BY <1>4, <1>5
<1> QED BY <1>6 DEF S

\* A frame of c cells is as long as each of its cells needs.
LEMMA CellFits ==
  ASSUME NEW w \in Nat, NEW c \in Nat \ {0}, NEW a \in Nat, a >= w * c
  PROVE  a \div c \in Nat /\ a \div c >= w
<1> DEFINE q == a \div c
<1>1. q \in Nat /\ a = q * c + (a % c) /\ a % c \in 0 .. c - 1
  OBVIOUS
<1>2. \A k \in Nat : (q + k + 1) * c = q * c + k * c + c /\ k * c \in Nat /\ q * c \in Nat
  BY <1>1
<1>3. q < w => \E k \in Nat : w = q + k + 1
  BY <1>1, w = q + (w - q - 1) + 1
<1> HIDE DEF q
<1>4. ~(q < w)
  BY <1>1, <1>2, <1>3
<1> QED BY <1>1, <1>4 DEF q

-----------------------------------------------------------------------------
(* Whose entry it is, and what a step of another sensor leaves.            *)

\* An exposure, as user space or the next frame asks for it.
Exposure(s) == \E fl \in Nat : fl <= maxFl[s] /\ Expose(s, fl)
Mode(s) == \E en \in BOOLEAN : N1(s, en) \/ MStream(s, en)
Step(s) == Stream(s) \/ SetSync(s) \/ Config(s) \/ Frame(s) \/ Exposure(s) \/ Mode(s)

\* Every step of the system is one of these.
LEMMA StepOf == ASSUME Numbers, Calls, Next PROVE \E t \in Sensors : Step(t)
<1>1. ASSUME NEW s \in Sensors, RepeatShutter(s) PROVE Exposure(s)
  BY <1>1 DEF RepeatShutter, Exposure, Numbers, Calls, CallOf
<1>2. ASSUME NEW s \in Sensors, NEW fl \in MinFls, SetShutter(s, fl) PROVE Exposure(s)
  <2>1. fl \in Nat /\ maxFl[s] \in Nat
    BY FrameSyncConstants DEF Numbers
  <2>2. Bounded(s, fl) \in Nat /\ Bounded(s, fl) <= maxFl[s]
    BY <2>1 DEF Bounded, Smaller
  <2> QED BY <1>2, <2>2 DEF SetShutter, Exposure
<1> QED BY <1>1, <1>2 DEF Next, Step, Mode

\* What a sensor can do at most stays.
LEMMA LimitsKept == ASSUME NEW t \in Sensors, Step(t) PROVE maxFl' = maxFl
<1> USE DEF fixed
<1>1. CASE Stream(t) \/ SetSync(t) \/ Exposure(t) \/ Mode(t)
  BY <1>1 DEF Stream, SetSync, Exposure, Expose, Mode, N1, MStream
<1>2. CASE Config(t)
  BY <1>2 DEF Config, Register, Fill, SyncStatus, ResetMaster, ReadStreaming, ReadSync, SetValid,
              ResetInst, StreamBit, StreamOn
<1>3. CASE Frame(t)
  BY <1>3 DEF Frame, CheckShutter, CheckControl, Trigger, GetMaster, SelectMaster, ReadValid,
              Solve, Publish, Write
<1> QED BY <1>1, <1>2, <1>3 DEF Step

\* Entries stay with their sensors; one is added when it is filled.
LEMMA OwnsSteps ==
  ASSUME SyncInv, NEW t \in Sensors, Step(t)
  PROVE  \A u, p : /\ Owns(u, p) => Owns(u, p)'
                   /\ Owns(u, p)' => Owns(u, p) \/ (Fill(t) /\ u = t /\ p = at[t])
<1>a. Types
  BY DEF SyncInv
<1>u. ASSUME NEW w, pc[t] # "fill", w # "fill", pc' = [pc EXCEPT ![t] = w], regCnt' = regCnt,
             table' = table, \A u \in Sensors \ {t} : at'[u] = at[u]
      PROVE  \A u, p : Owns(u, p)' <=> Owns(u, p)
  BY <1>a, <1>u, EntriesKept
<1>v. ASSUME UNCHANGED <<pc, at, regCnt, table>> PROVE \A u, p : Owns(u, p)' <=> Owns(u, p)
  BY <1>v DEF Owns, Entry
<1>1. CASE Stream(t)
  <2>1. pc[t] = "idle" /\ pc' = [pc EXCEPT ![t] = "register"] /\ UNCHANGED <<at, regCnt, table>>
    BY <1>1 DEF Stream, Goto, mgr
  <2> QED BY <1>u, <2>1
<1>2. CASE SetSync(t)
  <2>1. UNCHANGED <<regCnt, table>> /\ pc[t] = "idle"
    BY <1>2 DEF SetSync, mgr
  <2>2. CASE UNCHANGED <<pc, at>>
    BY <1>v, <2>1, <2>2
  <2>3. CASE pc' = [pc EXCEPT ![t] = "status"] /\ at' = [at EXCEPT ![t] = Pos(t)]
    <3>1. \A u \in Sensors \ {t} : at'[u] = at[u]
      BY <1>a, <2>3 DEF Types
    <3> QED BY <1>u, <2>1, <2>3, <3>1
  <2> QED BY <1>2, <2>2, <2>3 DEF SetSync, Goto
<1>3. CASE Register(t)
  <2>1. CASE Pos(t) = None /\ regCnt < SensorMax
    BY <1>3, <2>1, PushOwns
  <2>2. CASE ~(Pos(t) = None /\ regCnt < SensorMax)
    <3>1. /\ pc[t] = "register" /\ UNCHANGED <<regCnt, table>>
          /\ \E w \in {"status", "idle"} : pc' = [pc EXCEPT ![t] = w]
          /\ at' = at \/ at' = [at EXCEPT ![t] = Pos(t)]
      BY <1>3, <2>2 DEF Register, Return, Goto
    <3>2. \A u \in Sensors \ {t} : at'[u] = at[u]
      BY <1>a, <3>1 DEF Types
    <3> QED BY <1>u, <3>1, <3>2
  <2> QED BY <2>1, <2>2
<1>4. CASE Fill(t)
  BY <1>4, FillOwns
<1>5. CASE SyncStatus(t) \/ ResetMaster(t) \/ ReadStreaming(t) \/ ReadSync(t) \/ SetValid(t)
           \/ ResetInst(t) \/ StreamBit(t) \/ StreamOn(t)
  <2>1. /\ pc[t] # "fill" /\ UNCHANGED <<regCnt, table, at>>
        /\ \E w \in {"resetMaster", "readStreaming", "readSync", "setValid", "reset", "streamBit",
                     "streamOn", "idle"} : pc' = [pc EXCEPT ![t] = w]
    BY <1>5 DEF SyncStatus, ResetMaster, ReadStreaming, ReadSync, SetValid, ResetInst, StreamBit,
                StreamOn, Return, Goto, mgr, locals
  <2> QED BY <1>u, <2>1
<1>6. CASE Frame(t)
  <2>1. /\ pc[t] # "fill" /\ UNCHANGED <<regCnt, table, at>>
        /\ \E w \in {"control", "trigger", "write", "master", "select", "valid", "solve", "publish",
                     "idle"} : pc' = [pc EXCEPT ![t] = w]
    BY <1>6 DEF Frame, CheckShutter, CheckControl, Trigger, GetMaster, SelectMaster, ReadValid,
                Solve, Publish, Write, Goto, mgr, locals
  <2> QED BY <1>u, <2>1
<1>7. CASE Exposure(t)
  <2>1. /\ pc[t] = "idle" /\ UNCHANGED <<regCnt, table>> /\ pc' = [pc EXCEPT ![t] = "shutter"]
        /\ at' = [at EXCEPT ![t] = Pos(t)]
    BY <1>7 DEF Exposure, Expose, Goto, mgr
  <2>2. \A u \in Sensors \ {t} : at'[u] = at[u]
    BY <1>a, <2>1 DEF Types
  <2> QED BY <1>u, <2>1, <2>2
<1>8. CASE Mode(t)
  BY <1>8, <1>v DEF Mode, N1, MStream, mgr, locals
<1> QED BY <1>1, <1>2, <1>3, <1>4, <1>5, <1>6, <1>7, <1>8 DEF Step, Config

\* A step leaves what other sensors keep for themselves.
Kept(s) ==
  /\ pc'[s] = pc[s] /\ at'[s] = at[s] /\ want'[s] = want[s] /\ reg'[s] = reg[s]
  /\ new'[s] = new[s] /\ (s \in isStreaming' <=> s \in isStreaming)
LEMMA OthersLocals ==
  ASSUME Types, Numbers, NEW t \in Sensors, Step(t), NEW s \in Sensors \ {t}
  PROVE  Kept(s)
<1>a. /\ pc \in [Sensors -> {"idle"} \cup ConfigPcs \cup FramePcs]
      /\ at \in [Sensors -> Positions \cup {None}]
      /\ want \in [Sensors -> Nat] /\ reg \in [Sensors -> Nat] /\ new \in [Sensors -> Results]
  BY DEF Types, Numbers
<1> USE <1>a DEF Kept, Goto, Return
<1>1. CASE Stream(t) \/ SetSync(t)
  BY <1>1 DEF Stream, SetSync
<1>2. CASE Register(t)
  BY <1>2 DEF Register
<1>3. CASE Fill(t) \/ SyncStatus(t) \/ ResetMaster(t) \/ ReadStreaming(t) \/ ReadSync(t)
  BY <1>3 DEF Fill, SyncStatus, ResetMaster, ReadStreaming, ReadSync, sensor, locals
<1>4. CASE SetValid(t) \/ ResetInst(t)
  BY <1>4 DEF SetValid, ResetInst, sensor, locals
<1>5. CASE StreamBit(t) \/ StreamOn(t)
  BY <1>5 DEF StreamBit, StreamOn
<1>6. CASE CheckShutter(t) \/ CheckControl(t) \/ Trigger(t) \/ GetMaster(t) \/ SelectMaster(t)
  BY <1>6 DEF CheckShutter, CheckControl, Trigger, GetMaster, SelectMaster, sensor, locals
<1>7. CASE ReadValid(t) \/ Publish(t) \/ Write(t)
  BY <1>7 DEF ReadValid, Publish, Write, sensor, locals
<1>8. CASE Solve(t)
  <2>1. /\ pc' = [pc EXCEPT ![t] = "publish"] /\ at' = at /\ want' = want /\ reg' = reg
        /\ isStreaming' = isStreaming /\ \E n : new' = [new EXCEPT ![t] = n]
    BY <1>8 DEF Solve, sensor
  <2> QED BY <2>1
<1>9. CASE Exposure(t)
  BY <1>9 DEF Exposure, Expose
<1>10. CASE Mode(t)
  BY <1>10 DEF Mode, N1, MStream, sensor, locals
<1> QED
  BY <1>1, <1>2, <1>3, <1>4, <1>5, <1>6, <1>7, <1>8, <1>9, <1>10 DEF Step, Config, Frame

\* Nor does it touch their entries.
Untouched(p) ==
  /\ p \in enSync' <=> p \in enSync
  /\ p \in streaming' <=> p \in streaming
  /\ p \in pfCtrl' <=> p \in pfCtrl
  /\ p \in setupComplete' <=> p \in setupComplete
  /\ algCell'[p] = algCell[p] /\ cbCtx'[p] = cbCtx[p]
LEMMA OthersShared ==
  ASSUME SyncInv, Numbers, Callbacks, Calls, NEW t \in Sensors, Step(t),
         NEW s \in Sensors \ {t}, NEW p, Owns(s, p)
  PROVE  Untouched(p) /\ fsyncOut'[s] = fsyncOut[s]
<1>a. Types /\ Owner
  BY DEF SyncInv
<1>b. p \in Positions /\ table[p] = s
  BY DEF Owns, Entry
<1>c. /\ algCell \in [Positions -> Nat] /\ cbCtx \in [Positions -> Sensors \cup {None}]
      /\ fsyncOut \in [Sensors -> Nat]
  BY DEF Numbers
<1>1. pc[t] \notin {"idle", "register"} => at[t] # p
  <2>1. CASE pc[t] = "fill"
    BY <2>1 DEF Owns, Entry
  <2>2. CASE pc[t] # "fill"
    BY <1>a, <1>b, <2>2, Bounds DEF Owner, Types, Owns, ConfigPcs, FramePcs, Mid, Unsynced
  <2> QED BY <2>1, <2>2
<1>2. Pos(t) # p
  BY <1>a, <1>b, PosFound, Bounds
<1>3. at[t] \in Positions => cbCtx[at[t]] = None \/ table[at[t]] = cbCtx[at[t]]
  BY DEF Callbacks, Owns
<1> USE <1>b, <1>c DEF Untouched
<1>4. CASE Stream(t) \/ SetSync(t)
  BY <1>4 DEF Stream, SetSync, bits, ctrl, modes
<1>5. CASE Register(t) \/ Fill(t) \/ ResetMaster(t) \/ ReadStreaming(t) \/ ReadSync(t)
  BY <1>5 DEF Register, Fill, ResetMaster, ReadStreaming, ReadSync, bits, ctrl, modes, sensor
<1>6. CASE SyncStatus(t)
  BY <1>1, <1>6 DEF SyncStatus, bits, ctrl, modes, sensor
<1>7. CASE SetValid(t) \/ ResetInst(t)
  BY <1>1, <1>7 DEF SetValid, ResetInst, bits, ctrl, modes, sensor
<1>8. CASE StreamBit(t) \/ StreamOn(t)
  BY <1>1, <1>8 DEF StreamBit, StreamOn, bits, ctrl, modes
<1>9. CASE CheckShutter(t) \/ Trigger(t) \/ GetMaster(t) \/ SelectMaster(t) \/ ReadValid(t)
           \/ Solve(t) \/ Write(t)
  BY <1>9 DEF CheckShutter, Trigger, GetMaster, SelectMaster, ReadValid, Solve, Write, bits, ctrl,
              modes, sensor
<1>10. CASE CheckControl(t)
  BY <1>1, <1>10 DEF CheckControl, bits, modes, sensor
<1>11. CASE Publish(t)
  <2>1. pc[t] = "publish" /\ UNCHANGED <<enSync, streaming, algCell, cbCtx>>
        /\ pfCtrl' = pfCtrl \ {at[t]} /\ setupComplete' = setupComplete \ {at[t]}
    BY <1>11 DEF Publish, bits
  <2>2. Untouched(p)
    BY <1>1, <2>1
  <2>3. fsyncOut'[s] = fsyncOut[s]
    <3>1. at[t] \in Positions
      BY <2>1 DEF Calls, CallOf, Deep, FramePcs
    <3>2. table[at[t]] = t
      BY <1>a, <2>1, <3>1, Bounds DEF Owner, Owns, FramePcs
    <3>3. cbCtx[at[t]] # s
      BY <1>3, <3>1, <3>2, Bounds, FrameSyncConstants DEF Sensors, None
    <3> QED BY <1>11, <3>3 DEF Publish
  <2> QED BY <2>2, <2>3
<1>12. CASE Exposure(t)
  BY <1>12 DEF Exposure, Expose, bits, ctrl, modes
<1>13. CASE Mode(t)
  <2>1. UNCHANGED <<bits, ctrl, cbCtx, fsyncOut>>
    BY <1>13 DEF Mode, N1, MStream, sensor
  <2>2. algCell'[p] = algCell[p]
    BY <1>2, <1>13 DEF Mode, N1, MStream
  <2> QED BY <2>1, <2>2 DEF bits, ctrl
<1> QED
  BY <1>4, <1>5, <1>6, <1>7, <1>8, <1>9, <1>10, <1>11, <1>12, <1>13 DEF Step, Config, Frame

\* A step of one sensor leaves the call of another where it was.
LEMMA CallOfOther ==
  ASSUME SyncInv, Types', FitInv, NEW t \in Sensors, Step(t), NEW s \in Sensors \ {t}
  PROVE  CallOf(s)'
<1>a. Types /\ Owner /\ Numbers /\ Callbacks /\ Calls /\ CallOf(s)
  BY DEF SyncInv, FitInv, Calls
<1>1. Kept(s)
  BY <1>a, OthersLocals
<1>2. ASSUME pc[s] \in FramePcs, at[s] # None
      PROVE  Untouched(at[s]) /\ fsyncOut'[s] = fsyncOut[s]
  <2>1. Owns(s, at[s])
    BY <1>a, <1>2 DEF Owner
  <2> QED BY <1>a, <2>1, OthersShared
<1>3. None \notin enSync /\ None \notin enSync'
  BY <1>a, Bounds DEF Types
<1>4. pc[s] \in FramePcs => (at[s] \in enSync' <=> at[s] \in enSync)
  BY <1>2, <1>3 DEF Untouched
<1>5. pc[s] = "trigger" /\ at[s] \in enSync => at[s] \in pfCtrl' \cap setupComplete'
  BY <1>a, <1>2, <1>3 DEF Untouched, CallOf, FramePcs
<1>8. pc[s] = "write" /\ at[s] \in enSync => fsyncOut'[s] >= want[s]
  BY <1>a, <1>2, <1>3 DEF CallOf, FramePcs
<1>9. {"trigger", "publish", "write"} \subseteq FramePcs
  BY DEF FramePcs
<1> HIDE DEF FramePcs
<1>10. /\ pc'[s] \in FramePcs => s \in isStreaming'
       /\ pc'[s] \in Deep => at'[s] \in Positions
       /\ pc'[s] = "trigger" /\ at'[s] \in enSync' => at'[s] \in pfCtrl' \cap setupComplete'
  BY <1>a, <1>1, <1>4, <1>5, <1>9 DEF CallOf, Kept
<1>11. (pc'[s] = "publish" => new'[s].out >= want'[s]) /\ want'[s] <= maxFl'[s]
  BY <1>a, <1>1, LimitsKept DEF CallOf, Kept
<1>12. pc'[s] = "write" /\ at'[s] \in enSync' => fsyncOut'[s] >= want'[s]
  BY <1>1, <1>4, <1>8, <1>9 DEF Kept
<1>13. pc'[s] \notin FramePcs \/ at'[s] \notin enSync' => reg'[s] >= want'[s]
  BY <1>a, <1>1, <1>4 DEF CallOf, Kept
<1> QED BY <1>10, <1>11, <1>12, <1>13 DEF CallOf

-----------------------------------------------------------------------------
(* The call of a sensor.                                                   *)

\* The entry a call works on streams with a call-back of the call's own sensor,
\* and is valid when it is to be synced.
LEMMA CallAt ==
  ASSUME SyncInv, FitInv, NEW s \in Sensors, pc[s] \in FramePcs
  PROVE  /\ at[s] # None => at[s] \in Positions /\ at[s] \in streaming /\ cbCtx[at[s]] = s
         /\ at[s] \in enSync => at[s] # None /\ at[s] \in validSync \cap streaming
<1>a. Types /\ Owner /\ AllValid /\ Live /\ CallOf(s)
  BY DEF SyncInv, FitInv, Calls
<1>b. s \in isStreaming /\ pc[s] # "streamOn" /\ pc[s] \notin Mid
  BY <1>a DEF CallOf, FramePcs, Mid
<1>1. at[s] # None => Owns(s, at[s]) /\ at[s] \in Positions
  BY <1>a DEF Owner, Owns, Entry
<1>2. at[s] # None => at[s] \in streaming /\ cbCtx[at[s]] = s
  BY <1>a, <1>b, <1>1 DEF Live
<1>3. at[s] \in enSync => at[s] # None
  BY <1>a, Bounds DEF Types
<1>4. ASSUME at[s] \in enSync, at[s] \notin validSync PROVE FALSE
  <2>1. PICK t \in Sensors : pc[t] \in Mid /\ at[t] = at[s]
    BY <1>a, <1>2, <1>3, <1>4 DEF AllValid
  <2>2. Owns(t, at[s])
    BY <1>a, <2>1 DEF Owner
  <2>3. t = s
    BY <1>1, <1>3, <1>4, <2>2 DEF Owns
  <2> QED BY <1>b, <2>1, <2>3
<1> QED BY <1>1, <1>2, <1>3, <1>4

\* What a sensor is to run at fits its own exposure, bounded as it is.
LEMMA SolveTarget ==
  ASSUME Types, Numbers, NEW s \in Sensors, at[s] \in Positions, want[s] <= maxFl[s], Solve(s)
  PROVE  new'[s] \in Results /\ new'[s].out >= want[s]
<1> DEFINE others == {p \in seen[s] : p < regCnt /\ Heard(s, table[p])}
           f == [p \in Positions |-> para[p].min]
           g == [p \in Positions |-> para[p].target]
           low == Largest({Own(s)} \cup {para[p].min : p \in others})
           high == Largest({Own(s)} \cup {para[p].target : p \in others})
<1>1. Own(s) \in Nat
  <2>1. want[s] \in Nat /\ Cell(at[s]) \in Nat
    BY DEF Numbers, Cell
  <2> QED BY <2>1 DEF Own
<1>2. others \in SUBSET Positions /\ f \in [Positions -> Nat] /\ g \in [Positions -> Nat]
  BY DEF Types, Numbers, Lengths
<1>3. {para[p].min : p \in others} = {f[p] : p \in others}
  BY <1>2
<1>4. {para[p].target : p \in others} = {g[p] : p \in others}
  BY <1>2
<1>5. new' = [new EXCEPT ![s] = [min |-> Own(s), target |-> Smaller(low, high),
                                 out |-> Bounded(s, Smaller(low, high) \div Cell(at[s]))]]
  BY DEF Solve, Agreed
<1> HIDE DEF others, f, g
<1>6. low \in Nat /\ Own(s) <= low
  BY <1>1, <1>2, <1>3, LargestOf
<1>7. high \in Nat /\ Own(s) <= high
  BY <1>1, <1>2, <1>4, LargestOf
<1> HIDE DEF low, high
<1> DEFINE agreed == Smaller(low, high)
           per == agreed \div Cell(at[s])
<1>8. agreed \in Nat /\ agreed >= Own(s)
  BY <1>1, <1>6, <1>7 DEF Smaller
<1> HIDE DEF agreed
<1>9. per \in Nat /\ per >= want[s]
  <2>1. want[s] \in Nat /\ Cell(at[s]) \in Nat \ {0}
    BY DEF Numbers, Cell
  <2>2. agreed >= want[s] * Cell(at[s])
    BY <1>8 DEF Own
  <2> QED BY <1>8, <2>1, <2>2, CellFits
<1> HIDE DEF per
<1>10. Bounded(s, per) \in Nat /\ Bounded(s, per) >= want[s]
  BY <1>9 DEF Bounded, Smaller, Numbers
<1>11. new'[s] = [min |-> Own(s), target |-> agreed, out |-> Bounded(s, per)]
  BY <1>5 DEF Numbers, agreed, per
<1> QED BY <1>1, <1>8, <1>10, <1>11 DEF Results

\* What the call-back leaves fits the exposure.
LEMMA PublishFits ==
  ASSUME SyncInv, FitInv, NEW s \in Sensors, Publish(s)
  PROVE  fsyncOut'[s] \in Nat /\ fsyncOut'[s] >= want[s]
<1>a. Numbers /\ CallOf(s)
  BY DEF FitInv, Calls
<1>1. pc[s] = "publish" /\ at[s] \in Positions /\ cbCtx[at[s]] = s /\ s # None
  <2>1. pc[s] = "publish" /\ pc[s] \in FramePcs /\ pc[s] \in Deep
    BY DEF Publish, Deep, FramePcs
  <2>2. at[s] \in Positions /\ at[s] # None
    BY <1>a, <2>1, Bounds DEF CallOf
  <2> QED BY <2>1, <2>2, CallAt, FrameSyncConstants DEF Sensors, None
<1>2. new[s].out \in Nat /\ new[s].out >= want[s]
  BY <1>a, <1>1 DEF Numbers, Results, CallOf
<1>3. fsyncOut'[s] = new[s].out
  BY <1>a, <1>1 DEF Publish, Numbers
<1> QED BY <1>2, <1>3

\* A step of a sensor's own call.
LEMMA CallOfSelf ==
  ASSUME SyncInv, Types', FitInv, NEW s \in Sensors, Step(s)
  PROVE  CallOf(s)'
<1>a. Types /\ Numbers /\ CallOf(s)
  BY DEF SyncInv, FitInv, Calls
<1>b. /\ pc \in [Sensors -> {"idle"} \cup ConfigPcs \cup FramePcs]
      /\ at \in [Sensors -> Positions \cup {None}] /\ want \in [Sensors -> Nat]
      /\ reg \in [Sensors -> Nat] /\ fsyncOut \in [Sensors -> Nat]
      /\ maxFl \in [Sensors -> Nat] /\ want[s] <= maxFl[s]
  BY <1>a DEF Types, Numbers, CallOf
<1>e. maxFl' = maxFl
  BY LimitsKept
\* A step that leaves its frame length, to a place outside a frame.
<1>c. ASSUME pc[s] \notin FramePcs, pc'[s] \notin FramePcs, reg'[s] = reg[s],
             want'[s] \in {0, want[s]}
      PROVE  CallOf(s)'
  <2>1. reg'[s] >= want'[s] /\ want'[s] <= maxFl'[s]
    BY <1>a, <1>b, <1>c, <1>e DEF CallOf
  <2>2. pc'[s] \notin {"trigger", "publish", "write"} \cup Deep
    BY <1>c DEF FramePcs, Deep
  <2> HIDE DEF FramePcs, Deep
  <2> QED BY <1>c, <2>1, <2>2 DEF CallOf
\* A step within a frame.
<1>d. ASSUME NEW w \in FramePcs, pc[s] \in FramePcs, pc'[s] = w, at'[s] = at[s],
             UNCHANGED <<enSync, isStreaming, want, reg>>,
             w \in Deep => at[s] \in Positions,
             w = "trigger" /\ at[s] \in enSync => at[s] \in pfCtrl' \cap setupComplete',
             w = "publish" => new'[s].out >= want[s],
             w = "write" /\ at[s] \in enSync => fsyncOut'[s] >= want[s]
      PROVE  CallOf(s)'
  <2>1. /\ pc'[s] \in FramePcs => s \in isStreaming'
        /\ pc'[s] \in Deep => at'[s] \in Positions
        /\ pc'[s] = "trigger" /\ at'[s] \in enSync' => at'[s] \in pfCtrl' \cap setupComplete'
    BY <1>a, <1>d DEF CallOf
  <2>3. (pc'[s] = "publish" => new'[s].out >= want'[s]) /\ want'[s] <= maxFl'[s]
    BY <1>b, <1>d, <1>e
  <2>4. pc'[s] = "write" /\ at'[s] \in enSync' => fsyncOut'[s] >= want'[s]
    BY <1>d
  <2>5. pc'[s] \notin FramePcs \/ at'[s] \notin enSync' => reg'[s] >= want'[s]
    BY <1>a, <1>d DEF CallOf
  <2> QED BY <2>1, <2>3, <2>4, <2>5 DEF CallOf
<1>1. CASE Stream(s) \/ SetSync(s)
  <2>1. pc[s] = "idle" /\ reg' = reg /\ want'[s] \in {0, want[s]}
        /\ pc'[s] \in {"idle", "register", "status"}
    BY <1>1, <1>b DEF Stream, SetSync, Goto
  <2> QED BY <1>c, <2>1 DEF FramePcs
<1>2. CASE Config(s)
  <2> USE DEF Goto, Return, sensor
  <2>1. CASE Register(s) \/ Fill(s) \/ SyncStatus(s)
    BY <1>b, <1>c, <2>1 DEF Register, Fill, SyncStatus, FramePcs
  <2>2. CASE ResetMaster(s) \/ ReadStreaming(s) \/ ReadSync(s) \/ SetValid(s)
    BY <1>b, <1>c, <2>2 DEF ResetMaster, ReadStreaming, ReadSync, SetValid, FramePcs
  <2>3. CASE ResetInst(s) \/ StreamBit(s) \/ StreamOn(s)
    BY <1>b, <1>c, <2>3 DEF ResetInst, StreamBit, StreamOn, FramePcs
  <2> QED BY <1>2, <2>1, <2>2, <2>3 DEF Config
<1>3. CASE Mode(s)
  <2>1. pc[s] = "idle" /\ UNCHANGED <<pc, reg, want>>
    BY <1>3 DEF Mode, N1, MStream, sensor
  <2> QED BY <1>c, <2>1 DEF FramePcs
<1>4. CASE Exposure(s)
  <2>1. PICK fl \in Nat : fl <= maxFl[s] /\ Expose(s, fl)
    BY <1>4 DEF Exposure
  <2>2. /\ s \in isStreaming' /\ pc'[s] = "shutter" /\ at'[s] = Pos(s) /\ enSync' = enSync
        /\ want'[s] = fl /\ (Pos(s) \notin enSync => reg'[s] = fl) /\ fl <= maxFl'[s]
    BY <1>b, <1>e, <2>1 DEF Expose, Goto, bits
  <2>3. pc'[s] \notin FramePcs \/ at'[s] \notin enSync' => reg'[s] >= want'[s]
    BY <2>2 DEF FramePcs
  <2> QED BY <2>2, <2>3 DEF CallOf, Deep
<1>5. CASE Frame(s)
  <2>a. /\ pc[s] \in FramePcs
        /\ at[s] # None => at[s] \in Positions /\ at[s] \in streaming /\ cbCtx[at[s]] = s
        /\ at[s] \in enSync => at[s] # None /\ at[s] \in validSync \cap streaming
    <3>1. pc[s] \in FramePcs
      BY <1>5 DEF Frame, CheckShutter, CheckControl, Trigger, GetMaster, SelectMaster, ReadValid,
                  Solve, Publish, Write, FramePcs
    <3> QED BY <3>1, CallAt
  <2>b. pc[s] \in Deep => at[s] \in Positions
    BY <1>a DEF CallOf
  <2> USE DEF Goto, bits, ctrl, modes, sensor, locals
  <2>1. CASE CheckShutter(s)
    <3>1. /\ pc'[s] \in {"control", "write"} /\ UNCHANGED <<at, enSync, isStreaming, want, reg>>
          /\ pc'[s] = "control" => at[s] \in validSync
          /\ pc'[s] = "write" => at[s] \notin validSync \cap streaming
      BY <1>b, <2>1 DEF CheckShutter
    <3>2. validSync \subseteq Positions
      BY <1>a DEF Types
    <3> QED BY <1>d, <2>a, <3>1, <3>2 DEF FramePcs, Deep
  <2>2. CASE CheckControl(s)
    <3>1. /\ pc[s] = "control" /\ pc'[s] = "trigger"
          /\ UNCHANGED <<at, enSync, isStreaming, want, reg>>
          /\ at[s] \in validSync \cap streaming => at[s] \in pfCtrl' \cap setupComplete'
      BY <1>b, <2>2 DEF CheckControl
    <3> QED BY <1>d, <2>a, <2>b, <3>1 DEF FramePcs, Deep
  <2>3. CASE Trigger(s)
    <3>1. /\ pc[s] = "trigger" /\ pc'[s] \in {"master", "write"}
          /\ UNCHANGED <<at, enSync, isStreaming, want, reg>>
          /\ pc'[s] = "write" => at[s] \notin validSync \cap pfCtrl \cap setupComplete
      BY <1>b, <2>3 DEF Trigger
    <3>2. at[s] \in enSync => at[s] \in validSync \cap pfCtrl \cap setupComplete
      BY <1>a, <2>a, <3>1 DEF CallOf
    <3> QED BY <1>d, <2>a, <2>b, <3>1, <3>2 DEF FramePcs, Deep
  <2>4. CASE GetMaster(s) \/ SelectMaster(s) \/ ReadValid(s)
    <3>1. /\ pc[s] \in {"master", "select", "valid"} /\ pc'[s] \in {"select", "valid", "solve"}
          /\ UNCHANGED <<at, enSync, isStreaming, want, reg>>
      BY <1>b, <2>4 DEF GetMaster, SelectMaster, ReadValid
    <3> QED BY <1>d, <2>b, <3>1 DEF FramePcs, Deep
  <2>5. CASE Solve(s)
    <3>1. /\ pc[s] = "solve" /\ pc'[s] = "publish"
          /\ UNCHANGED <<at, enSync, isStreaming, want, reg, algCell>>
      BY <1>b, <2>5 DEF Solve
    <3>2. at[s] \in Positions
      BY <2>b, <3>1 DEF FramePcs, Deep
    <3>3. new'[s].out >= want[s]
      BY <1>a, <1>b, <2>5, <3>2, SolveTarget
    <3> QED BY <1>d, <2>a, <3>1, <3>2, <3>3 DEF FramePcs
  <2>6. CASE Publish(s)
    <3>1. /\ pc'[s] = "write" /\ UNCHANGED <<at, enSync, isStreaming, want, reg>>
      BY <1>b, <2>6 DEF Publish
    <3>2. fsyncOut'[s] >= want[s]
      BY <2>6, PublishFits
    <3> QED BY <1>d, <2>a, <3>1, <3>2 DEF FramePcs, Deep
  <2>7. CASE Write(s)
    <3>1. /\ pc[s] = "write" /\ pc'[s] = "idle" /\ want' = want
          /\ reg'[s] = IF at[s] \in enSync THEN fsyncOut[s] ELSE reg[s]
      BY <1>b, <2>7 DEF Write
    <3>2. reg'[s] >= want'[s] /\ want'[s] <= maxFl'[s]
      BY <1>a, <1>b, <1>e, <3>1 DEF CallOf
    <3> QED BY <3>1, <3>2 DEF CallOf, FramePcs, Deep
  <2> QED BY <1>5, <2>1, <2>2, <2>3, <2>4, <2>5, <2>6, <2>7 DEF Frame
<1> QED BY <1>1, <1>2, <1>3, <1>4, <1>5 DEF Step

-----------------------------------------------------------------------------
(* The rest of the invariant.                                              *)

\* Numbers and sets of positions stay such.
LEMMA NumbersStep ==
  ASSUME SyncInv, FitInv, NEW s \in Sensors, Step(s)
  PROVE  Numbers'
<1>a. Types /\ Numbers /\ CallOf(s)
  BY DEF SyncInv, FitInv, Calls
<1>b. /\ validSync \subseteq Positions /\ streaming \subseteq Positions
      /\ NoPara \in Lengths /\ NoResult \in Results /\ {0, 2, CellSize} \subseteq Nat
  BY <1>a, FrameSyncConstants DEF Types, NoPara, NoResult, Lengths, Results
<1>e. maxFl' = maxFl
  BY LimitsKept
<1> DEFINE Rest == <<algCell, para, new, cbCtx, pfCtrl, setupComplete>>
<1>c. ASSUME UNCHANGED <<want, reg, fsyncOut>>, UNCHANGED Rest PROVE Numbers'
  BY <1>a, <1>c, <1>e DEF Numbers
<1>d. ASSUME want' \in [Sensors -> Nat], reg' \in [Sensors -> Nat], fsyncOut' = fsyncOut,
             UNCHANGED Rest
      PROVE  Numbers'
  BY <1>a, <1>d, <1>e DEF Numbers
<1> USE DEF ctrl, modes, sensor, locals
<1>1. CASE Stream(s)
  BY <1>1, <1>a, <1>d DEF Stream, Numbers
<1>2. CASE SetSync(s) \/ Register(s) \/ Fill(s) \/ ResetMaster(s) \/ ReadStreaming(s) \/ ReadSync(s)
           \/ SetValid(s)
  BY <1>2, <1>c DEF SetSync, Register, Fill, ResetMaster, ReadStreaming, ReadSync, SetValid
<1>3. CASE SyncStatus(s)
  <2>1. /\ UNCHANGED <<want, reg, fsyncOut, algCell, para, new, cbCtx>>
        /\ pfCtrl' \subseteq pfCtrl /\ setupComplete' \subseteq setupComplete
    BY <1>3 DEF SyncStatus
  <2> QED BY <1>a, <1>e, <2>1 DEF Numbers
<1>4. CASE ResetInst(s)
  <2>1. /\ UNCHANGED <<want, reg, fsyncOut, new, cbCtx, pfCtrl, setupComplete>>
        /\ para' = [para EXCEPT ![at[s]] = NoPara] /\ algCell' = [algCell EXCEPT ![at[s]] = 0]
    BY <1>4 DEF ResetInst
  <2> QED BY <1>a, <1>e, <1>b, <2>1 DEF Numbers
<1>5. CASE StreamBit(s) \/ StreamOn(s)
  <2>1. /\ UNCHANGED <<want, reg, fsyncOut, new, para, algCell, pfCtrl, setupComplete>>
        /\ \E u \in Sensors \cup {None} : cbCtx' = [cbCtx EXCEPT ![at[s]] = u]
    BY <1>5 DEF StreamBit, StreamOn
  <2> QED BY <1>a, <1>e, <2>1 DEF Numbers
<1>6. CASE Mode(s)
  <2>1. /\ UNCHANGED <<want, reg, fsyncOut, new, para, cbCtx, pfCtrl, setupComplete>>
        /\ \E n \in Nat : algCell' = [algCell EXCEPT ![Pos(s)] = n] \/ algCell' = algCell
    <3>1. UNCHANGED <<want, reg, fsyncOut, new, para, cbCtx, pfCtrl, setupComplete>>
      BY <1>6 DEF Mode, N1, MStream
    <3>2. ASSUME NEW en \in BOOLEAN, N1(s, en)
          PROVE  \E n \in Nat : algCell' = [algCell EXCEPT ![Pos(s)] = n]
      BY <1>b, <3>2 DEF N1
    <3>3. ASSUME NEW en \in BOOLEAN, MStream(s, en)
          PROVE  \E n \in Nat : algCell' = [algCell EXCEPT ![Pos(s)] = n] \/ algCell' = algCell
      <4>1. algCell' = [algCell EXCEPT ![Pos(s)] = IF N1Allowed(Pos(s), en)
                                                   THEN (IF en THEN 2 ELSE 0) ELSE algCell[Pos(s)]]
        BY <3>3 DEF MStream
      <4>2. Pos(s) \in Positions
        BY <1>a, <3>3, PosFound DEF MStream
      <4>3. algCell[Pos(s)] \in Nat
        BY <1>a, <4>2 DEF Numbers
      <4> QED BY <4>1, <4>3
    <3> QED BY <1>6, <3>1, <3>2, <3>3 DEF Mode
  <2> QED BY <1>a, <1>e, <2>1 DEF Numbers
<1>7. CASE Exposure(s)
  BY <1>7, <1>a, <1>d DEF Exposure, Expose, Numbers
<1>8. CASE CheckShutter(s) \/ Trigger(s) \/ GetMaster(s) \/ SelectMaster(s) \/ ReadValid(s)
  BY <1>8, <1>c DEF CheckShutter, Trigger, GetMaster, SelectMaster, ReadValid
<1>9. CASE CheckControl(s)
  <2>1. /\ UNCHANGED <<want, reg, fsyncOut, algCell, para, new, cbCtx>>
        /\ pfCtrl' \subseteq pfCtrl \cup validSync
        /\ setupComplete' \subseteq setupComplete \cup streaming
    BY <1>9 DEF CheckControl
  <2> QED BY <1>a, <1>e, <1>b, <2>1 DEF Numbers
<1>10. CASE Solve(s)
  <2>1. at[s] \in Positions
    BY <1>10, <1>a DEF Solve, CallOf, Deep, FramePcs
  <2>2. new'[s] \in Results
    BY <1>10, <1>a, <2>1, SolveTarget DEF CallOf
  <2>3. \E n : new' = [new EXCEPT ![s] = n]
    BY <1>10 DEF Solve
  <2>4. UNCHANGED <<want, reg, fsyncOut, algCell, para, cbCtx, pfCtrl, setupComplete>>
    BY <1>10 DEF Solve
  <2>5. new' \in [Sensors -> Results]
    BY <1>a, <2>2, <2>3 DEF Numbers
  <2> QED BY <1>a, <1>e, <2>4, <2>5 DEF Numbers
<1>11. CASE Publish(s)
  <2>1. /\ UNCHANGED <<want, reg, algCell, cbCtx>>
        /\ para' = [para EXCEPT ![at[s]] = [min |-> new[s].min, target |-> new[s].target]]
        /\ new' = [new EXCEPT ![s] = NoResult]
        /\ pfCtrl' \subseteq pfCtrl /\ setupComplete' \subseteq setupComplete
    BY <1>11 DEF Publish
  <2>2. pc[s] \in FramePcs /\ at[s] \in Positions /\ at[s] # None
    BY <1>11, <1>a, Bounds DEF Publish, CallOf, Deep, FramePcs
  <2>3. cbCtx[at[s]] = s /\ s # None
    BY <2>2, CallAt, FrameSyncConstants DEF Sensors, None
  <2>4. fsyncOut' = [fsyncOut EXCEPT ![s] = new[s].out]
    BY <1>11, <2>3 DEF Publish
  <2>5. fsyncOut'[s] \in Nat
    BY <1>11, PublishFits
  <2>6. fsyncOut' \in [Sensors -> Nat]
    BY <1>a, <2>4, <2>5 DEF Numbers
  <2>7. new' \in [Sensors -> Results] /\ para' \in [Positions -> Lengths]
    <3>1. [min |-> new[s].min, target |-> new[s].target] \in Lengths
      BY <1>a DEF Numbers, Results, Lengths
    <3> QED BY <1>a, <1>b, <2>1, <3>1 DEF Numbers
  <2> QED BY <1>a, <1>e, <2>1, <2>6, <2>7 DEF Numbers
<1>12. CASE Write(s)
  BY <1>12, <1>a, <1>d DEF Write, Numbers
<1> QED
  BY <1>1, <1>2, <1>3, <1>4, <1>5, <1>6, <1>7, <1>8, <1>9, <1>10, <1>11, <1>12
     DEF Step, Config, Frame

\* A sensor that streams and is to be synced becomes valid.
LEMMA AllValidStep ==
  ASSUME SyncInv, FitInv, NEW t \in Sensors, Step(t), ~raced'
  PROVE  AllValid'
<1>a. Types /\ Bits /\ AllValid
  BY DEF SyncInv, FitInv
<1>b. /\ pc \in [Sensors -> {"idle"} \cup ConfigPcs \cup FramePcs]
      /\ at \in [Sensors -> Positions \cup {None}]
  BY <1>a DEF Types
<1>c. \A u \in Sensors \ {t} : pc'[u] = pc[u] /\ at'[u] = at[u]
  BY <1>a, OthersLocals DEF Kept, FitInv
<1>d. ASSUME \A p \in streaming' \cap enSync' :
               \/ p \in streaming \cap enSync
               \/ p \in validSync'
               \/ pc'[t] \in Mid /\ at'[t] = p,
             validSync' = validSync,
             pc[t] \in Mid => pc'[t] \in Mid /\ at'[t] = at[t]
      PROVE  AllValid'
  <2> SUFFICES ASSUME NEW p \in streaming' \cap enSync'
               PROVE  p \in validSync' \/ \E u \in Sensors : pc'[u] \in Mid /\ at'[u] = p
    BY DEF AllValid
  <2>1. CASE p \in streaming \cap enSync
    <3>1. CASE p \in validSync
      BY <1>d, <3>1
    <3>2. CASE \E u \in Sensors : pc[u] \in Mid /\ at[u] = p
      <4>1. PICK u \in Sensors : pc[u] \in Mid /\ at[u] = p
        BY <3>2
      <4>2. pc'[u] \in Mid /\ at'[u] = p
        BY <1>c, <1>d, <4>1
      <4> QED BY <4>2
    <3> QED BY <1>a, <2>1, <3>1, <3>2 DEF AllValid
  <2> QED BY <1>d, <2>1
<1> USE DEF bits, locals, Goto, Return
<1>1. CASE SyncStatus(t)
  <2>1. /\ pc'[t] = "resetMaster" /\ at' = at /\ UNCHANGED <<streaming, validSync>>
        /\ enSync' \subseteq enSync \cup {at[t]}
    BY <1>b, <1>1 DEF SyncStatus
  <2>2. pc'[t] \in Mid
    BY <2>1 DEF Mid
  <2> QED BY <1>d, <2>1, <2>2
<1>2. CASE SetValid(t)
  <2>1. validSync' = streaming' \cap enSync'
    BY <1>2 DEF SetValid, ValidBits
  <2> QED BY <2>1 DEF AllValid
<1>3. CASE StreamBit(t) \/ StreamOn(t)
  <2>1. /\ pc[t] \in Unsynced /\ pc[t] \notin Mid /\ UNCHANGED <<enSync, validSync>>
        /\ streaming' \subseteq streaming \cup {at[t]}
    BY <1>3 DEF StreamBit, StreamOn, Mid, Unsynced
  <2>2. at[t] \notin enSync
    BY <1>a, <2>1 DEF Bits
  <2> QED BY <1>d, <2>1, <2>2
<1>4. CASE ResetMaster(t) \/ ReadStreaming(t) \/ ReadSync(t)
  <2>1. pc'[t] \in Mid /\ UNCHANGED <<streaming, enSync, validSync, at>>
    BY <1>b, <1>4 DEF ResetMaster, ReadStreaming, ReadSync, Mid
  <2> QED BY <1>d, <2>1
<1>5. CASE Stream(t) \/ SetSync(t) \/ Register(t) \/ Fill(t) \/ ResetInst(t)
  <2>1. pc[t] \notin Mid /\ UNCHANGED <<streaming, enSync, validSync>>
    BY <1>5 DEF Stream, SetSync, Register, Fill, ResetInst, Mid
  <2> QED BY <1>d, <2>1
<1>6. CASE Frame(t) \/ Exposure(t) \/ Mode(t)
  <2>1. pc[t] \notin Mid /\ UNCHANGED <<streaming, enSync, validSync>>
    BY <1>6 DEF Frame, CheckShutter, CheckControl, Trigger, GetMaster, SelectMaster, ReadValid,
                Solve, Publish, Write, Exposure, Expose, Mode, N1, MStream, Mid
  <2> QED BY <1>d, <2>1
<1> QED BY <1>1, <1>2, <1>3, <1>4, <1>5, <1>6 DEF Step, Config

\* Call-backs go to the sensor whose entry it is.
LEMMA CallbacksStep ==
  ASSUME SyncInv, FitInv, NEW t \in Sensors, Step(t)
  PROVE  Callbacks'
<1>a. Types /\ Owner /\ Numbers /\ Callbacks
  BY DEF SyncInv, FitInv
<1>1. \A p \in Positions :
        cbCtx'[p] \in {None, cbCtx[p]} \/ (cbCtx'[p] = t /\ Owns(t, p))
  <2> USE DEF sensor, locals
  <2>1. CASE StreamBit(t)
    BY <1>a, <2>1 DEF StreamBit, Numbers
  <2>2. CASE StreamOn(t)
    <3>1. Owns(t, at[t]) /\ cbCtx' = [cbCtx EXCEPT ![at[t]] = t]
      BY <1>a, <2>2 DEF StreamOn, Owner, Unsynced
    <3> QED BY <1>a, <3>1 DEF Numbers
  <2>3. CASE Stream(t) \/ SetSync(t) \/ Register(t) \/ Fill(t) \/ SyncStatus(t) \/ ResetMaster(t)
             \/ ReadStreaming(t) \/ ReadSync(t) \/ SetValid(t) \/ ResetInst(t)
    BY <2>3 DEF Stream, SetSync, Register, Fill, SyncStatus, ResetMaster, ReadStreaming, ReadSync,
                SetValid, ResetInst
  <2>4. CASE Frame(t) \/ Exposure(t) \/ Mode(t)
    BY <2>4 DEF Frame, CheckShutter, CheckControl, Trigger, GetMaster, SelectMaster, ReadValid,
                Solve, Publish, Write, Exposure, Expose, Mode, N1, MStream
  <2> QED BY <2>1, <2>2, <2>3, <2>4 DEF Step, Config
<1>2. \A u, p : Owns(u, p) => Owns(u, p)'
  BY OwnsSteps
<1> SUFFICES ASSUME NEW p \in Positions, NEW u, u = cbCtx'[p], u # None PROVE Owns(u, p)'
  BY DEF Callbacks, Owns, Entry
<1>3. Owns(u, p)
  BY <1>a, <1>1 DEF Callbacks
<1> QED BY <1>2, <1>3

\* A sensor streams with its stream bit and its call-back.
LEMMA LiveStep ==
  ASSUME SyncInv, Types', FitInv, NEW t \in Sensors, Step(t)
  PROVE  Live'
<1>a. Types /\ Table /\ Owner /\ Numbers /\ Live /\ Callbacks /\ Calls
  BY DEF SyncInv, FitInv
<1>b. /\ pc \in [Sensors -> {"idle"} \cup ConfigPcs \cup FramePcs]
      /\ at \in [Sensors -> Positions \cup {None}]
  BY <1>a DEF Types
<1>c. \A u, p : Owns(u, p)' => Owns(u, p) \/ (Fill(t) /\ u = t /\ p = at[t])
  BY OwnsSteps
<1> DEFINE Fits(s) == \A p \in Positions :
                        Owns(s, p)' /\ pc'[s] # "streamOn" => p \in streaming' /\ cbCtx'[p] = s
<1>1. ASSUME NEW s \in Sensors \ {t}, s \in isStreaming' PROVE Fits(s)
  <2> SUFFICES ASSUME NEW p \in Positions, Owns(s, p)', pc'[s] # "streamOn"
               PROVE  p \in streaming' /\ cbCtx'[p] = s
    OBVIOUS
  <2>1. Owns(s, p)
    BY <1>c
  <2>2. s \in isStreaming /\ pc'[s] = pc[s]
    BY <1>a, <1>1, OthersLocals DEF Kept
  <2>3. Untouched(p)
    BY <1>a, <2>1, OthersShared
  <2> QED BY <1>a, <2>1, <2>2, <2>3 DEF Live, Untouched
<1>2. ASSUME t \in isStreaming' PROVE Fits(t)
  <2>k. ASSUME ~Fill(t), pc[t] # "streamOn", UNCHANGED <<streaming, cbCtx>>, isStreaming' = isStreaming
        PROVE  Fits(t)
    BY <1>a, <1>c, <1>2, <2>k DEF Live
  <2> USE DEF bits, sensor, locals, Goto, Return
  <2>1. CASE Register(t)
    <3>1. pc[t] = "register" /\ UNCHANGED <<streaming, cbCtx, table>>
          /\ (isStreaming' = isStreaming \/ Pos(t) = None)
      BY <2>1 DEF Register
    <3>2. CASE isStreaming' = isStreaming
      BY <2>k, <3>1, <3>2 DEF Fill
    <3>3. CASE Pos(t) = None
      <4>1. \A p \in Positions : ~Owns(t, p)
        BY <1>a, <3>3, PosFound, Bounds DEF Owns, Entry
      <4>2. \A p \in Positions : ~(Owns(t, p)')
        BY <1>c, <3>1, <4>1 DEF Fill
      <4> QED BY <4>2
    <3> QED BY <3>1, <3>2, <3>3
  <2>2. CASE Fill(t)
    <3>1. pc[t] = "fill" /\ isStreaming' = isStreaming
      BY <2>2 DEF Fill
    <3>2. t \notin isStreaming
      BY <1>a, <3>1 DEF Table, Owner
    <3> QED BY <1>2, <3>1, <3>2
  <2>3. CASE StreamBit(t)
    BY <1>2, <1>b, <2>3 DEF StreamBit
  <2>4. CASE StreamOn(t)
    <3>1. pc[t] = "streamOn" /\ streaming' = streaming \cup {at[t]}
          /\ cbCtx' = [cbCtx EXCEPT ![at[t]] = t]
      BY <2>4 DEF StreamOn
    <3>2. Owns(t, at[t])
      BY <1>a, <3>1 DEF Owner, Unsynced
    <3>3. \A p \in Positions : Owns(t, p)' => p = at[t]
      <4>1. \A p \in Positions : Owns(t, p) => p = at[t]
        BY <1>a, <3>2 DEF Owns, Table, Entry
      <4> QED BY <1>c, <3>1, <4>1 DEF Fill
    <3>4. cbCtx'[at[t]] = t
      BY <1>a, <3>1, <3>2 DEF Numbers, Owns, Entry
    <3> QED BY <3>1, <3>3, <3>4
  <2>5. CASE SyncStatus(t) \/ ResetMaster(t) \/ ReadStreaming(t) \/ ReadSync(t) \/ SetValid(t)
             \/ ResetInst(t)
    <3>1. /\ pc[t] \notin {"fill", "streamOn"} /\ UNCHANGED <<streaming, cbCtx>>
          /\ isStreaming' = isStreaming
      BY <2>5 DEF SyncStatus, ResetMaster, ReadStreaming, ReadSync, SetValid, ResetInst
    <3> QED BY <2>k, <3>1 DEF Fill
  <2>6. CASE Frame(t)
    <3>1. /\ pc[t] \notin {"fill", "streamOn"} /\ UNCHANGED <<streaming, cbCtx>>
          /\ isStreaming' = isStreaming
      BY <2>6 DEF Frame, CheckShutter, CheckControl, Trigger, GetMaster, SelectMaster, ReadValid,
                  Solve, Publish, Write
    <3> QED BY <2>k, <3>1 DEF Fill
  <2>7. CASE Stream(t) \/ SetSync(t) \/ Exposure(t) \/ Mode(t)
    <3>1. /\ pc[t] \notin {"fill", "streamOn"} /\ UNCHANGED <<streaming, cbCtx>>
          /\ isStreaming' = isStreaming
      BY <2>7 DEF Stream, SetSync, Exposure, Expose, Mode, N1, MStream
    <3> QED BY <2>k, <3>1 DEF Fill
  <2> QED BY <2>1, <2>2, <2>3, <2>4, <2>5, <2>6, <2>7 DEF Step, Config
<1>3. isStreaming' \subseteq Sensors
  BY DEF Types
<1> QED BY <1>1, <1>2, <1>3 DEF Live

-----------------------------------------------------------------------------
(* The theorem.                                                            *)

\* No exposure is set at first; every step keeps the invariant.
LEMMA FitInit == Init => FitInv
<1> SUFFICES ASSUME Init PROVE FitInv
  OBVIOUS
<1>1. Numbers
  <2>1. NoPara \in Lengths /\ NoResult \in Results
    BY DEF NoPara, NoResult, Lengths, Results
  <2>2. maxFl \in [Sensors -> Nat]
    BY FrameSyncConstants DEF Init
  <2> QED BY <2>1, <2>2 DEF Init, Numbers
<1>2. AllValid /\ Live /\ Callbacks
  BY DEF Init, AllValid, Live, Callbacks
<1>3. Calls
  <2>1. \A s \in Sensors : pc[s] = "idle" /\ pc[s] \notin FramePcs \cup Deep /\ reg[s] = 0 /\ want[s] = 0
    BY DEF Init, FramePcs, Deep
  <2>2. \A s \in Sensors : 0 <= maxFl[s]
    BY <1>1 DEF Numbers
  <2> QED BY <2>1, <2>2 DEF Calls, CallOf
<1> QED BY <1>1, <1>2, <1>3 DEF FitInv

\* See FitInit.
LEMMA FitStep ==
  ASSUME SyncInv, SyncInv', FitInv, [Next]_vars, ~raced'
  PROVE  FitInv'
<1>a. Numbers /\ Calls /\ Types'
  BY DEF SyncInv, FitInv
<1>1. CASE Next
  <2>1. PICK t \in Sensors : Step(t)
    BY <1>a, <1>1, StepOf
  <2>2. Numbers' /\ AllValid' /\ Live' /\ Callbacks'
    BY <1>a, <2>1, NumbersStep, AllValidStep, LiveStep, CallbacksStep
  <2>3. ASSUME NEW s \in Sensors PROVE CallOf(s)'
    BY <1>a, <2>1, CallOfSelf, CallOfOther
  <2> QED BY <2>2, <2>3 DEF FitInv, Calls
<1>2. CASE UNCHANGED vars
  <2> USE DEF vars, mgr, bits, ctrl, modes, sensor, locals, fixed
  <2>1. Numbers' /\ AllValid'
    BY <1>2 DEF FitInv, Numbers, AllValid
  <2>2. Live' /\ Callbacks'
    BY <1>2 DEF FitInv, Live, Callbacks, Owns, Entry
  <2>3. ASSUME NEW s \in Sensors PROVE CallOf(s)'
    BY <1>2 DEF FitInv, Calls, CallOf
  <2> QED BY <2>1, <2>2, <2>3 DEF FitInv, Calls
<1> QED BY <1>1, <1>2

\* Between two calls a streaming sensor never runs at a frame length too short
\* for its exposure (WrittenFits; notify_fsync_mgr_set_shutter), until an update
\* of validSync_bits is lost or a search takes an entry that is still being
\* filled, however the calls of the sensors interleave.
THEOREM WrittenLongEnough == Spec => []WrittenFits
<1>1. Init => raced \/ (SyncInv /\ FitInv)
  BY InitLemma, FitInit
<1>2. (raced \/ (SyncInv /\ FitInv)) /\ [Next]_vars => (raced \/ (SyncInv /\ FitInv))'
  BY SyncStep, FitStep, RacedStep
<1>3. raced \/ (SyncInv /\ FitInv) => WrittenFits
  <2> SUFFICES ASSUME SyncInv, FitInv, NEW s \in isStreaming, pc[s] = "idle" PROVE reg[s] >= want[s]
    BY DEF WrittenFits
  <2>1. s \in Sensors /\ CallOf(s) /\ pc[s] \notin FramePcs
    BY DEF SyncInv, Types, FitInv, Calls, FramePcs
  <2> QED BY <2>1 DEF CallOf
<1> QED BY <1>1, <1>2, <1>3, PTL DEF Spec
=============================================================================
