------------------------------ MODULE FrameSync ------------------------------
(***************************************************************************)
(* Frame sync: the manager that gives several image sensors one frame      *)
(* length (frame-sync/frame_sync.c, the FPS part of frame_sync_algo.c) and *)
(* the sensor adaptor that calls it (adaptor-drv.c, adaptor-ctrls.c), as   *)
(* the repository builds it: atomics without a lock around them            *)
(* (ALL_USING_ATOMIC), stand-alone mode (FORCE_USING_SA_MODE), two stages  *)
(* (TWO_STAGE_FS), and no source of vsync timestamps (neither USING_CCU    *)
(* nor USING_N3D), so that vsyncs are never aligned and only the frame     *)
(* lengths are.                                                            *)
(*                                                                         *)
(* A sensor's calls run under its ctx->mutex, so there is one thread per   *)
(* sensor; threads of different sensors interleave at every access to what *)
(* they share: the registration table, the bit masks, master_idx, and the  *)
(* dynamic parameters.  Nothing orders them: user space opens each sensor  *)
(* on its own, and the sensor kthreads of the cameras apply the controls   *)
(* of requests, V4L2_CID_FRAME_SYNC of every camera of a request from one  *)
(* of them (mtk_cam_req_frame_sync_start).  Frame lengths are small        *)
(* numbers.                                                                *)
(***************************************************************************)
EXTENDS Integers, FiniteSets

CONSTANTS
  NumSensors,   \* sensors of the system, ctx->idx 0, 1, ...
  SensorMax,    \* SENSOR_MAX_NUM: positions of the registration table
  Delays,       \* frame_time_delay_frame of the sensors, 2 or 3 each: the cases
  MinFls,       \* frame lengths the exposures of a sensor ask for
  MaxFls,       \* max_frame_length of the sensors: the cases
  CellSize,     \* the n of N:1 sync
  MaxCalls,     \* bound: starts, stops, set_sync calls and changes
  MaxChange     \* bound: N:1 calls, and exposures that change while streaming

Sensors   == 0 .. NumSensors - 1
Positions == 0 .. SensorMax - 1
None      == 255        \* MASTER_IDX_NONE, and the 0xffffffff of no position

ASSUME FrameSyncConstants ==
  /\ NumSensors \in Nat \ {0} /\ NumSensors <= None   \* no sensor is None
  /\ SensorMax \in 1 .. None - 1
  /\ Delays \subseteq [Sensors -> {2, 3}]
  /\ MinFls \subseteq Nat \ {0} /\ CellSize \in Nat \ {0}
  /\ MaxFls \subseteq [Sensors -> Nat \ {0}] /\ {MaxCalls, MaxChange} \subseteq Nat

VARIABLES
  regCnt, table,                 \* reg_table: how many, and the sensor at each position
  streaming, enSync, validSync,  \* streaming_bits, enSync_bits, validSync_bits
  pfCtrl, setupComplete,         \* pf_ctrl_bits, setup_complete_bits
  master,                        \* master_idx
  ftMode, mgrCell,               \* ft_mode, frame_cell_size of the manager
  algCell,                       \* fs_inst[].frame_cell_size of the algorithm
  para,                          \* fs_sa_inst.dynamic_paras
  cbCtx,                         \* cb_data[].p_ctx: the sensor a frame length goes to
  isStreaming,                   \* ctx->is_streaming of the adaptor
  asked,                         \* sensors whose V4L2_CID_FRAME_SYNC control is 1
  fsyncOut,                      \* ctx->fsync_out_fl
  fdelay, maxFl,                 \* frame_time_delay_frame and max_fl_lc of each sensor
  reg,                           \* the frame length the sensor was given last
  want,                          \* the frame length its exposure needs; 0: none set
  pc, op, at, seen, mst, new,    \* per thread: place, call and local variables
  raced,                         \* history: an unlocked access has gone wrong
  calls, changes                 \* how much of the bounds is used

mgr    == <<regCnt, table>>
bits   == <<streaming, enSync, validSync>>
ctrl   == <<pfCtrl, setupComplete>>
modes  == <<ftMode, mgrCell, algCell>>
sensor == <<isStreaming, asked, fsyncOut, reg, want>>
locals == <<op, at, seen, mst, new>>
fixed  == <<fdelay, maxFl>>
bounds == <<calls, changes>>
vars   == <<mgr, bits, ctrl, modes, sensor, locals, bounds, fixed, master, para, cbCtx, pc,
            raced>>

NoPara   == [min |-> 0, target |-> 0]
NoResult == [min |-> 0, target |-> 0, out |-> 0]
Normal == [n1 |-> "none", assign |-> FALSE]
ConfigPcs == {"register", "fill", "status", "resetMaster", "readStreaming", "readSync",
              "setValid", "reset", "streamBit", "streamOn"}

Init ==
  /\ regCnt = 0 /\ table = [p \in Positions |-> 0]
  /\ streaming = {} /\ enSync = {} /\ validSync = {}
  /\ pfCtrl = {} /\ setupComplete = {} /\ master = None
  /\ ftMode = [p \in Positions |-> Normal]
  /\ mgrCell = [p \in Positions |-> 0] /\ algCell = [p \in Positions |-> 0]
  /\ para = [p \in Positions |-> NoPara] /\ cbCtx = [p \in Positions |-> None]
  /\ isStreaming = {} /\ asked = {} /\ fdelay \in Delays /\ maxFl \in MaxFls
  /\ fsyncOut = [s \in Sensors |-> 0] /\ reg = [s \in Sensors |-> 0]
  /\ want = [s \in Sensors |-> 0]
  /\ pc = [s \in Sensors |-> "idle"] /\ op = [s \in Sensors |-> "none"]
  /\ at = [s \in Sensors |-> None] /\ seen = [s \in Sensors |-> {}]
  /\ mst = [s \in Sensors |-> None] /\ new = [s \in Sensors |-> NoResult]
  /\ raced = FALSE /\ calls = 0 /\ changes = 0

Goto(s, l) == pc' = [pc EXCEPT ![s] = l]
Return(s)  == Goto(s, "idle") /\ op' = [op EXCEPT ![s] = "none"]

\* fs_search_reg_sensors by sensor_idx: the first entry that matches.
Registered(s) == {p \in Positions : p < regCnt /\ table[p] = s}
Pos(s) == IF Registered(s) = {} THEN None
          ELSE CHOOSE p \in Registered(s) : \A q \in Registered(s) : p <= q

\* A search takes an entry that another thread has pushed but not filled yet,
\* still all zero, for its own: from then on two sensors share a position.
MeetsUnfilled(s) == \E t \in Sensors : pc[t] = "fill" /\ at[t] = Pos(s)
Search(s) == raced' = (raced \/ MeetsUnfilled(s))

\* A sensor whose N:1 mode is on counts n of its frames as one.
Cell(p) == IF algCell[p] > 1 THEN algCell[p] ELSE 1

------------------------------------------------------------------------------
(* Streaming and set_sync.                                                 *)

\* The adaptor starts or stops the sensor; its exposure is set anew after.
Stream(s) ==
  /\ pc[s] = "idle" /\ calls < MaxCalls
  /\ op' = [op EXCEPT ![s] = IF s \in isStreaming THEN "off" ELSE "on"]
  /\ want' = [want EXCEPT ![s] = 0]
  /\ calls' = calls + 1 /\ Goto(s, "register")
  /\ UNCHANGED <<mgr, bits, ctrl, modes, isStreaming, asked, fsyncOut, reg, at, seen, mst, new,
                 changes, master, para, cbCtx, fixed, raced>>

\* V4L2_CID_FRAME_SYNC has no EXECUTE_ON_WRITE flag: the control framework
\* passes a write on only when it changes the value.
SetSync(s) ==
  /\ pc[s] = "idle" /\ calls < MaxCalls
  /\ asked' = IF s \in asked THEN asked \ {s} ELSE asked \cup {s}
  /\ calls' = calls + 1
  /\ IF Pos(s) = None THEN UNCHANGED <<op, at, pc>>
     ELSE /\ op' = [op EXCEPT ![s] = IF s \in asked THEN "unsync" ELSE "sync"]
          /\ at' = [at EXCEPT ![s] = Pos(s)] /\ Goto(s, "status")
  /\ Search(s)
  /\ UNCHANGED <<mgr, bits, ctrl, modes, isStreaming, fsyncOut, reg, want, seen, mst, new, changes,
                 master, para, cbCtx, fixed>>

\* fs_register_sensor: found, pushed (the count first, the entry after), or the
\* table is full and the adaptor goes on without frame sync.
Register(s) ==
  /\ pc[s] = "register"
  /\ IF Pos(s) # None THEN
       /\ at' = [at EXCEPT ![s] = Pos(s)] /\ Goto(s, "status")
       /\ UNCHANGED <<regCnt, isStreaming, op>>
     ELSE IF regCnt < SensorMax THEN
       /\ at' = [at EXCEPT ![s] = regCnt] /\ regCnt' = regCnt + 1
       /\ Goto(s, "fill") /\ UNCHANGED <<isStreaming, op>>
     ELSE
       /\ isStreaming' = IF op[s] = "on" THEN isStreaming \cup {s} ELSE isStreaming \ {s}
       /\ Return(s) /\ UNCHANGED <<regCnt, at>>
  /\ Search(s)
  /\ UNCHANGED <<table, bits, ctrl, modes, asked, fsyncOut, reg, want, seen, mst, new, bounds,
                 master, para, cbCtx, fixed>>

Fill(s) ==
  /\ pc[s] = "fill"
  /\ table' = [table EXCEPT ![at[s]] = s] /\ Goto(s, "status")
  /\ UNCHANGED <<regCnt, bits, ctrl, modes, sensor, locals, bounds, master, para, cbCtx,
                 fixed, raced>>

\* fs_set_sync_status.  Starting and stopping a stream unset sync first.
SyncStatus(s) ==
  /\ pc[s] = "status"
  /\ IF op[s] = "sync" THEN enSync' = enSync \cup {at[s]} /\ UNCHANGED ctrl
     ELSE /\ enSync' = enSync \ {at[s]}
          /\ pfCtrl' = pfCtrl \ {at[s]} /\ setupComplete' = setupComplete \ {at[s]}
  /\ Goto(s, "resetMaster")
  /\ UNCHANGED <<mgr, streaming, validSync, modes, sensor, locals, bounds, master, para, cbCtx,
                 fixed, raced>>

\* fs_sa_try_reset_master_idx.
ResetMaster(s) ==
  /\ pc[s] = "resetMaster"
  /\ master' = IF master = at[s] THEN None ELSE master
  /\ Goto(s, "readStreaming")
  /\ UNCHANGED <<mgr, bits, ctrl, modes, sensor, locals, bounds, para, cbCtx, fixed, raced>>

\* fs_update_valid_sync_bit: two reads and a write.
ReadStreaming(s) ==
  /\ pc[s] = "readStreaming"
  /\ seen' = [seen EXCEPT ![s] = streaming] /\ Goto(s, "readSync")
  /\ UNCHANGED <<mgr, bits, ctrl, modes, sensor, op, at, mst, new, bounds, master, para, cbCtx,
                 fixed, raced>>

ReadSync(s) ==
  /\ pc[s] = "readSync"
  /\ seen' = [seen EXCEPT ![s] = @ \cap enSync] /\ Goto(s, "setValid")
  /\ UNCHANGED <<mgr, bits, ctrl, modes, sensor, op, at, mst, new, bounds, master, para, cbCtx,
                 fixed, raced>>

ValidCleared(s) == IF op[s] = "sync" THEN seen[s] ELSE {}   \* fault
ValidBits(s) == seen[s]

SetValid(s) ==
  /\ pc[s] = "setValid"
  /\ validSync' = ValidBits(s) /\ seen' = [seen EXCEPT ![s] = {}]
  /\ raced' = (raced \/ seen[s] # streaming \cap enSync)
  /\ IF op[s] \in {"sync", "unsync"} THEN Return(s) ELSE Goto(s, "reset") /\ UNCHANGED op
  /\ UNCHANGED <<mgr, streaming, enSync, ctrl, modes, sensor, at, mst, new, bounds, master,
                 para, cbCtx, fixed>>

\* fs_alg_reset_fs_inst: the instance and its dynamic parameters, without the
\* mutex the other sensors read them under.
ResetInst(s) ==
  /\ pc[s] = "reset"
  /\ para' = [para EXCEPT ![at[s]] = NoPara] /\ algCell' = [algCell EXCEPT ![at[s]] = 0]
  /\ Goto(s, "streamBit")
  /\ UNCHANGED <<mgr, bits, ctrl, ftMode, mgrCell, sensor, locals, bounds, master, cbCtx,
                 fixed, raced>>

\* The stream bit and the call-back go; a stop also leaves the feature mode.
StreamBit(s) ==
  /\ pc[s] = "streamBit"
  /\ streaming' = streaming \ {at[s]} /\ cbCtx' = [cbCtx EXCEPT ![at[s]] = None]
  /\ IF op[s] = "on" THEN Goto(s, "streamOn") /\ UNCHANGED <<ftMode, mgrCell, isStreaming, op>>
     ELSE /\ ftMode' = [ftMode EXCEPT ![at[s]] = Normal]
          /\ mgrCell' = [mgrCell EXCEPT ![at[s]] = 0]
          /\ isStreaming' = isStreaming \ {s} /\ Return(s)
  /\ UNCHANGED <<mgr, enSync, validSync, ctrl, algCell, asked, fsyncOut, reg, want, at, seen, mst,
                 new, bounds, master, para, fixed, raced>>

StreamOn(s) ==
  /\ pc[s] = "streamOn"
  /\ streaming' = streaming \cup {at[s]} /\ cbCtx' = [cbCtx EXCEPT ![at[s]] = s]
  /\ isStreaming' = isStreaming \cup {s} /\ Return(s)
  /\ UNCHANGED <<mgr, enSync, validSync, ctrl, modes, asked, fsyncOut, reg, want, at, seen, mst,
                 new, bounds, master, para, fixed, raced>>

------------------------------------------------------------------------------
(* N:1 sync and M-Stream.                                                  *)

\* A change of what sensors ask for, other than their first exposures.
Changing == calls < MaxCalls /\ changes < MaxChange
Changed  == calls' = calls + 1 /\ changes' = changes + 1

\* fs_check_n_1_status_ctrl: only the normal mode can turn N:1 on, and only a
\* mode that is on, or still going off, can turn it off.
N1Allowed(p, en) == IF en THEN ftMode[p] = Normal ELSE ftMode[p].n1 # "none"

\* fs_n_1_en: the mode waits for the next frame length, the cell size does not.
N1(s, en) ==
  /\ pc[s] = "idle" /\ Changing /\ Pos(s) # None
  /\ N1Allowed(Pos(s), en)
  /\ ftMode' = [ftMode EXCEPT ![Pos(s)] = [n1 |-> IF en THEN "on" ELSE "off", assign |-> FALSE]]
  /\ mgrCell' = [mgrCell EXCEPT ![Pos(s)] = IF en THEN CellSize ELSE 0]
  /\ algCell' = [algCell EXCEPT ![Pos(s)] = IF en THEN CellSize ELSE 0]
  /\ Changed /\ Search(s)
  /\ UNCHANGED <<mgr, bits, ctrl, sensor, locals, master, para, cbCtx, fixed, pc>>

\* fs_mstream_en: N:1 with n = 2, and the assigned-tag flag whatever N:1 said.
MStream(s, en) ==
  /\ pc[s] = "idle" /\ Changing /\ Pos(s) # None
  /\ LET ok   == N1Allowed(Pos(s), en)
         cell == IF en THEN 2 ELSE 0
     IN  /\ ftMode' = [ftMode EXCEPT ![Pos(s)] =
                         [n1 |-> IF ~ok THEN @.n1 ELSE IF en THEN "on" ELSE "off", assign |-> en]]
         /\ mgrCell' = [mgrCell EXCEPT ![Pos(s)] = IF ok THEN cell ELSE @]
         /\ algCell' = [algCell EXCEPT ![Pos(s)] = IF ok THEN cell ELSE @]
  /\ Changed /\ Search(s)
  /\ UNCHANGED <<mgr, bits, ctrl, sensor, locals, master, para, cbCtx, fixed, pc>>

\* fs_check_n_1_status_extra_ctrl: a frame length was calculated.
Settled(mode) == [mode EXCEPT !.n1 = CASE @ = "on" -> "keep" [] @ = "off" -> "none" [] OTHER -> @]

------------------------------------------------------------------------------
(* An exposure of a streaming sensor.                                      *)

Smaller(a, b) == IF a <= b THEN a ELSE b
Largest(S)    == CHOOSE n \in S : \A m \in S : m <= n

\* calc_min_fl_lc bounds what an exposure asks for, check_fl_boundary what the
\* sensor is to run at.
Bounded(s, fl) == Smaller(fl, maxFl[s])

\* s_ctrl and notify_fsync_mgr_set_shutter: a sensor that is not to be synced
\* is written at once.
Expose(s, fl) ==
  /\ pc[s] = "idle" /\ s \in isStreaming
  /\ want' = [want EXCEPT ![s] = fl]
  /\ reg' = IF Pos(s) \in enSync THEN reg ELSE [reg EXCEPT ![s] = fl]
  /\ at' = [at EXCEPT ![s] = Pos(s)]
  /\ Goto(s, "shutter")
  /\ Search(s)
  /\ UNCHANGED <<mgr, bits, ctrl, modes, isStreaming, asked, fsyncOut, op, seen, mst, new,
                 master, para, cbCtx, fixed>>

SetShutter(s, fl) ==
  /\ Bounded(s, fl) # want[s] /\ Expose(s, Bounded(s, fl))
  /\ IF want[s] = 0 THEN UNCHANGED bounds ELSE Changing /\ Changed

\* The next frame with the same exposure.
RepeatShutter(s) == want[s] # 0 /\ Expose(s, want[s]) /\ UNCHANGED bounds

\* fs_set_shutter: this sensor streams and is to be synced.
CheckShutter(s) ==
  /\ pc[s] = "shutter"
  /\ Goto(s, IF at[s] \in validSync \cap streaming THEN "control" ELSE "write")
  /\ UNCHANGED <<mgr, bits, ctrl, modes, sensor, locals, bounds, master, para, cbCtx,
                 fixed, raced>>

\* fs_check_frame_sync_ctrl, then fs_notify_sensor_ctrl_setup_complete.
CheckControl(s) ==
  /\ pc[s] = "control"
  /\ pfCtrl' = IF at[s] \in validSync THEN pfCtrl \cup {at[s]} ELSE pfCtrl
  /\ setupComplete' = IF at[s] \in streaming THEN setupComplete \cup {at[s]} ELSE setupComplete
  /\ Goto(s, "trigger")
  /\ UNCHANGED <<mgr, bits, modes, sensor, locals, bounds, master, para, cbCtx, fixed, raced>>

\* fs_try_trigger_frame_sync_sa.
Trigger(s) ==
  /\ pc[s] = "trigger"
  /\ Goto(s, IF at[s] \in validSync \cap pfCtrl \cap setupComplete THEN "master" ELSE "write")
  /\ UNCHANGED <<mgr, bits, ctrl, modes, sensor, locals, bounds, master, para, cbCtx,
                 fixed, raced>>

\* fs_get_valid_master_instance_idx.  FS_CHECK_BIT of an index beyond the table
\* is 0xFFFFFFFF, not 0, so such a master counts as valid.
GetMaster(s) ==
  /\ pc[s] = "master"
  /\ IF master = None \/ master \in Positions \ validSync
     THEN Goto(s, "select") /\ UNCHANGED mst
     ELSE Goto(s, "valid") /\ mst' = [mst EXCEPT ![s] = master]
  /\ UNCHANGED <<mgr, bits, ctrl, modes, sensor, op, at, seen, new, bounds, master, para, cbCtx,
                 fixed, raced>>

\* The first position that is valid, or SENSOR_MAX_NUM when none is.
SelectMaster(s) ==
  /\ pc[s] = "select"
  /\ master' \in Positions \cup {SensorMax}
  /\ master' \in validSync \/ master' = SensorMax
  /\ \A p \in validSync : master' <= p
  /\ mst' = [mst EXCEPT ![s] = master'] /\ Goto(s, "valid")
  /\ UNCHANGED <<mgr, bits, ctrl, modes, sensor, op, at, seen, new, bounds, para, cbCtx,
                 fixed, raced>>

ReadValid(s) ==
  /\ pc[s] = "valid"
  /\ seen' = [seen EXCEPT ![s] = validSync] /\ Goto(s, "solve")
  /\ UNCHANGED <<mgr, bits, ctrl, modes, sensor, op, at, mst, new, bounds, master, para, cbCtx,
                 fixed, raced>>

\* A sensor takes no notice of one whose frame length acts later than its own.
Heard(s, t) == fdelay[s] >= fdelay[t]

OwnOneFrame(s) == want[s]                      \* fault
Own(s) == want[s] * Cell(at[s])

\* Targets alone would hold each other up for ever once an exposure is shorter.
TargetKept(min, target) == target              \* fault
Agreed(min, target) == Smaller(min, target)

\* do_fps_sync_sa.  A position holds the delay of the sensor registered there.
\* What the sensor is to run at is bounded again, what it asks for is not.
Solve(s) ==
  /\ pc[s] = "solve"
  /\ LET others == {p \in seen[s] : p < regCnt /\ Heard(s, table[p])}
         min    == Largest({Own(s)} \cup {para[p].min : p \in others})
         target == Largest({Own(s)} \cup {para[p].target : p \in others})
         agreed == Agreed(min, target)
     IN  new' = [new EXCEPT ![s] = [min |-> Own(s), target |-> agreed,
                                    out |-> Bounded(s, agreed \div Cell(at[s]))]]
  /\ seen' = [seen EXCEPT ![s] = {}] /\ mst' = [mst EXCEPT ![s] = None]
  /\ Goto(s, "publish")
  /\ UNCHANGED <<mgr, bits, ctrl, modes, sensor, op, at, bounds, master, para, cbCtx,
                 fixed, raced>>

\* The parameters are shared, the call-back stores the frame length in the
\* context it was registered with, and the frame is done.
Publish(s) ==
  /\ pc[s] = "publish"
  /\ para' = [para EXCEPT ![at[s]] = [min |-> new[s].min, target |-> new[s].target]]
  /\ fsyncOut' = IF cbCtx[at[s]] = None THEN fsyncOut
                 ELSE [fsyncOut EXCEPT ![cbCtx[at[s]]] = new[s].out]
  /\ pfCtrl' = pfCtrl \ {at[s]} /\ setupComplete' = setupComplete \ {at[s]}
  /\ ftMode' = [ftMode EXCEPT ![at[s]] = Settled(@)]
  /\ new' = [new EXCEPT ![s] = NoResult] /\ Goto(s, "write")
  /\ UNCHANGED <<mgr, bits, mgrCell, algCell, isStreaming, asked, reg, want, op, at, seen, mst,
                 bounds, master, cbCtx, fixed, raced>>

\* SENSOR_FEATURE_SET_MULTI_SHUTTER_FRAME_TIME with ctx->fsync_out_fl.
Write(s) ==
  /\ pc[s] = "write"
  /\ reg' = IF at[s] \in enSync THEN [reg EXCEPT ![s] = fsyncOut[s]] ELSE reg
  /\ Goto(s, "idle")
  /\ UNCHANGED <<mgr, bits, ctrl, modes, isStreaming, asked, fsyncOut, want, locals, bounds,
                 master, para, cbCtx, fixed, raced>>

------------------------------------------------------------------------------
Config(s) == \/ Register(s) \/ Fill(s) \/ SyncStatus(s) \/ ResetMaster(s) \/ ReadStreaming(s)
             \/ ReadSync(s) \/ SetValid(s) \/ ResetInst(s) \/ StreamBit(s) \/ StreamOn(s)

Frame(s) == \/ CheckShutter(s) \/ CheckControl(s) \/ Trigger(s) \/ GetMaster(s) \/ SelectMaster(s)
            \/ ReadValid(s) \/ Solve(s) \/ Publish(s) \/ Write(s)

Next == \E s \in Sensors :
          \/ Stream(s) \/ SetSync(s) \/ Config(s) \/ Frame(s) \/ RepeatShutter(s)
          \/ \E en \in BOOLEAN : N1(s, en) \/ MStream(s, en)
          \/ \E fl \in MinFls : SetShutter(s, fl)

Spec == Init /\ [][Next]_vars

\* Calls run to their end, and user space sets the exposure of every frame.
\* A sensor's mutex lets one of them run at a time.
FairSpec == Spec /\ \A s \in Sensors : WF_vars(Config(s) \/ Frame(s) \/ RepeatShutter(s))

------------------------------------------------------------------------------
(* Properties: what the code promises until an unlocked access has gone    *)
(* wrong, however the calls of the sensors interleave.                     *)

\* Once exposures and settings no longer change, every synced sensor whose
\* frame length acts no sooner than that of the others runs at the longest
\* frame (cell) that any of them asks for, or at the longest it can do itself,
\* and goes on doing so: no parameter of a stopped, restarted or changed sensor
\* stays behind (do_fps_sync_sa, fs_alg_sa_update_dynamic_para,
\* check_fl_boundary).  A quicker sensor takes no notice of it.
Slowest(S) == Largest({want[t] * Cell(Pos(t)) : t \in S})
Synced     == {t \in Sensors : Pos(t) \in validSync}
ActsLast(s) == \A t \in Synced : fdelay[s] >= fdelay[t]
RunsAt(s, cell) == reg[s] = Bounded(s, cell \div Cell(Pos(s)))
FollowsSlowest ==
  <>[](raced \/ \A s \in Synced : want[s] # 0 /\ ActsLast(s) => RunsAt(s, Slowest(Synced)))

\* Between two calls a streaming sensor never runs at a frame length too short
\* for its exposure, which the adaptor writes with whatever frame length the
\* last call-back left in ctx->fsync_out_fl (notify_fsync_mgr_set_shutter).
WrittenFits ==
  raced \/ \A s \in isStreaming : pc[s] = "idle" /\ want[s] # 0 => reg[s] >= want[s]

\* The master whose parameters a sensor goes on to read is an entry of the
\* table: SENSOR_MAX_NUM, which fs_get_valid_master_instance_idx returns and
\* keeps when no sensor is valid any more, comes of nothing but a lost update of
\* validSync_bits or a shared position.
MasterInRange ==
  raced \/ \A s \in Sensors : pc[s] \in {"valid", "solve"} => mst[s] \in Positions
=============================================================================
