# A TLA+ model of the MediaTek camera ISP driver

This directory models the parts of the driver whose correctness depends on the
order in which threads, interrupts, works and user space act. The modules are
translated from the C code; every definition names the lines it stands for in
`PROJECT.json` ("map"). Seven components are modelled and checked: the **CCD
endpoint** and the **CCD bus** (the channel to the user-space composer daemon),
the **media requests** and the **frames** of the camera driver, the **HCP**
messages and the **imgsys** request path of the image processing driver, and the
**frame sync** of the image sensors. Of all seven TLAPS proves properties for
all values of the constants.

Paths below are relative to `src/drivers/`; `camsys/` stands for
`media/platform/mtk-isp/isp_70/camsys/src/`.

## 1. Inventory

| Component | Files | State | Operations | What is hard |
|---|---|---|---|---|
| CCD endpoint | `rpmsg/mtk_ccd_rpmsg.c`, `mtk_ccd_rpmsg_ipi.c` | command queue, counter `ccd_cmd_sent`, `worker_read_rdy`, `ccd_mep_state`, reference count | send, worker read (blocking), worker write, create, destroy | lost wake-ups, queue emptied between test and lock, use after release |
| CCD registry and listen mailbox | same files, `remoteproc/mtk_ccd.c` | idr of devices, one-slot mailbox, open count | create/destroy client device, master listen, daemon open/release | interrupted waits leave half-made devices; waits under `ccd_open_mutex`; daemon exit against STREAMOFF |
| CCD memory | `remoteproc/mtk_ccd_mem.c` | per-daemon list of dma-buf mappings | allocate, map, free | pairing of maps and unmaps |
| Media requests | `camsys/mtk_cam.c`, `mtk_cam-ctrl.c`, `mtk_cam-video.c` | pending and running job lists, `running_job_count`, per-request `state`, `done_status`, `pipe_used`, per-pipe `buf_state`, streaming bits | MEDIA_REQUEST_IOC_QUEUE, try_queue, enqueue, frame-done interrupt, frame-done work, STREAMON, STREAMOFF | four locks, snapshots used after unlock, two cameras sharing requests, clean-up against completion |
| CQ working buffers | `camsys/mtk_cam.c`, `mtk_cam-pool.c`, `mtk_cam-ctrl.c` | using, composed and processing lists, buffer pool, composed/dequeued frame numbers | composer work, composer ack, SOF, CQ done, frame done | acks after STREAMOFF, first frame, buffers returned once |
| Request/sensor state machine | `camsys/mtk_cam-ctrl.c` | `E_STATE_*` per request, sensor deadline timer | SOF, CQ done, SW-P1 done, sensor work | late sensor settings, missed SOF, DONE_MISMATCH |
| Raw/camsv hardware | `camsys/mtk_cam-raw.c`, `mtk_cam-sv.c` | registers, message FIFO from hard IRQ to IRQ thread | stream on/off, interrupts | mostly register sequences |
| Seninf, CSI PHY | `camsys/mtk_cam-seninf-*.c`, `mtk_csi_phy_2_0/` | mux allocation, routes, PHY state | get/put mux, link, stream | shared muxes |
| DVFS, power, HSF, debug, time sync, flash | `camsys/mtk_cam-dvfs_qos.c`, ... | votes, dumps | set/reset | little protocol state |
| Imgsys | `media/platform/mtk-isp/isp_70/imgsys/` | pending requests, per-pipe running lists, singlenode/user fences | queue, runner, cmdq callbacks | asynchronous callbacks against stop |
| MTK HCP | `isp_70/mtk-hcp/` | message pool, reply flags, daemon alive bit | send, receive, reply, daemon open/close | lost or late replies, time-outs |
| Legacy VCU camera | `media/platform/mtk-camera/` | V4L2 m2m-like contexts | V4L2 ops over a VCU IPI | separate driver |
| Sensor adaptor, sensors | `misc/mediatek/imgsensor/src-v4l2/` | sensor mode, register tables | control handlers, ioctls | data tables |
| Frame sync | `.../src-v4l2/frame-sync/` | registered, streaming, sync-enabled and valid bits, frame lengths | register, stream, set sync, set shutter, N:1 | unlocked shared bits, stale frame lengths of stopped sensors, bounds that break sync |

How they interact. User space queues a media request; the camera driver keeps it
on `pending_job_list` until its pipes stream, links it on `running_job_list`,
builds frame parameters in a composer work and sends them through `rpmsg_send` to
the **CCD endpoint**. The daemon reads them (IOCTL_CCD_WORKER_READ), composes a
command queue, and writes the answer back (IOCTL_CCD_WORKER_WRITE), which runs
`isp_composer_handler` in the daemon's thread. Interrupts apply the command queue
and report frames done; the frame-done interrupt queues a work on the ordered
`frame_done_wq` of the context; the work returns the pipe's buffers to vb2 and,
when the request's last pipe is done, takes it off the running list and tries to
queue the next one. STREAMOFF clears bits, sweeps both lists, drains the
workqueues and destroys the endpoint. The **CCD bus** creates and announces these
endpoints to the daemon when a camera starts and destroys them when it stops or
when the daemon exits. The image system works alike with its own daemon: **imgsys**
sends a request through **HCP**, the daemon announces the groups of frames it
composed, and a runner gives them to the command queue (GCE). The sensor adaptor
calls **frame sync** at every frame from the exposure controls of each sensor.

What makes each correct: the *endpoint* must hand over every command once, in
order, wake its reader, and stay allocated for the threads inside it; a *request*
must be on one list, be removed once, return each pipe's buffers once and in
frame order, eventually, and never be touched by a thread that worked on its
previous use; *STREAMOFF* must end and leave no buffer behind.

`PROJECT.json` lists the hazards at their lines with the properties that cover
them, and says why where none does.

## 2. Plan

Done, in this order:

1. `CcdChannel` (abstract), `CcdEndpoint`, `CcdEndpointProofs`, `MCCcdEndpoint`.
2. `CamRequest`, `CamRequestProofs`, `CamListProofs`, `MCCamRequest`.
3. `CamFrame`, `CamFrameProofs`, `MCCamFrame`: composer round trip, CQ buffers and
   the request state machine of a streaming pipe.
4. `CcdBus`, `CcdBusProofs`, `MCCcdBus`: registry, mailbox, daemon restarts.
5. `Hcp`, `HcpProofs`, `MCHcp`; `Imgsys`, `ImgsysProofs`, `MCImgsys`.
6. `FrameSync`, `FrameSyncProofs`, `MCFrameSync`.

Left:

* Proofs: `ReturnedInFrameOrder` of `CamRequest`.
* `CamFrame` across STREAMOFF and restart, and multi-exposure (`mstream`) frames.
* Seninf mux allocation and routing; camsv pipes inside a raw context.

## 3. Modules and the code

Each thread has a program counter, `pc`; a step is one critical section, one
atomic access, or a stretch of code whose accesses no other thread can tell apart.
Where a model merges more than that, the module says so. Numbers of calls are
bounded by constants named `Max...` in guards.

### CcdEndpoint

One endpoint. A step is one critical section (`queue_lock`, `endpoints_lock`) or
one `atomic_t` access.

| Code | Model |
|---|---|
| `pending_sendq.queue`, `ccd_cmd_sent`, `worker_read_rdy`, `ccd_mep_state` | `queue`, `cmdSent`, `readRdy`, `mepState` |
| `ept->refcount`, `__ept_release` | `refs`; 0 is released |
| idr entry, `rpdev.ept` | `listed`, `ept` |
| waiters on `worker_readwq` | `asleep` |
| `rpmsg_ccd_ipi_send` | `Send` (critical section), `SendWake`; `SendFreed` if the endpoint was released under the sender |
| `ccd_worker_read` | `ReadLookup`, `ReadCheck`, `ReadCount`, `ReadArm`, `ReadWait`, `ReadInterrupted`, `ReadDisarm`, `ReadRecheck`, `ReadPop`, `ReadPut` |
| `ccd_worker_write` | `WriteLookup`, `WriteCheck`, `WriteCall`, `WritePut` |
| `mtk_rpmsg_destroy_ept` | `DestroyBegin` ... `DestroyPut` |

A message is its number. `ReadPop` and `DestroyPop` do what the code does on an
empty queue: `list_first_entry` is then no entry at all, so the step sets `oops`,
after which nothing is modelled. Both look at `ccd_cmd_sent` and take the entry
later: when both have seen the same last message the counter even goes to -1,
although it "Should be 0, 1, ..., N" (`mtk_ccd_rpmsg_internal.h:43`); the properties
speak of what happens before that. `wait_event_interruptible` enqueues before
it tests, so test and sleep are one step. Whoever calls `wake_up` wakes all
sleepers. The variable `quiesced`, chosen initially, says who destroys: the client
(`mtk_cam_stop_ctx` drains the composer workqueue, the only sender, before
`isp_composer_uninit`), or the release of the daemon's file, which the client's
senders do not know of. The latter also lets readers be inside the endpoint at that
time, which a daemon with one open file cannot reach: more interleavings, not fewer.

`CcdChannel` is what an endpoint promises: a first-in first-out channel that is
closed once. `CcdEndpoint` implements it (`ImplementsChannel`).

### CcdBus

The devices, their announcement and destruction; of an endpoint only whether it is
absent, live or destroyed.

| Code | Model |
|---|---|
| `mtk_rpmsg_rproc_subdev.endpoints` (idr), devices on the rpmsg bus | `idr`, `dev` |
| `ctx->rpmsg_dev` | `ctxDev` |
| `g_ccd_open_mutex`, `ccd_user_cnt` | `openMutex`, `userCnt` |
| `listen_obj_rdy`, `listen_obj` | `ready`, `listenObj` |
| `mchinfo_list` of `ccd_master_destroy` | `victims` |
| worker threads of the daemon (external) | `workers` |
| `isp_composer_init`, `mtk_create_client_msgdevice` | `Start`, `AnnounceNow`/`AnnounceWait`/`AnnounceWoken`/`AnnounceRelocked`, `StartInterrupted`, `CreateEpt` |
| `isp_composer_uninit`, `mtk_destroy_client_msgdevice` | `Stop`, the same announcement, `StopInterrupted`, `Stopped`, `DestroyFind`, `Unregister`, `DestroyEpt` |
| `ccd_open`, `ccd_release`, `ccd_master_destroy` | `Open`, `Exit`, `ReleaseBegin`, `ReleaseNext`, `ReleaseEnd` |
| `ccd_master_listen` | `ListenNow`, `ListenWait`, `ListenWoken`, `ListenRelocked` |

STREAMON and STREAMOFF are serialised by the media device's `req_queue_mutex`
(V4L2 core, external), hence one client thread. Things the code does and the model
keeps: after an interrupted start the leftover device keeps its address, so the
next device of the pipe gets the one above while its endpoint is addressed by the
pipe's; `ctx->rpmsg_dev` dangles when a daemon's exit has destroyed the device; a
restarted daemon can read an announcement meant for its predecessor; poster and
listener do not look at the mailbox again after waiting for its lock.

### CamRequest

Pipes are raw pipelines, each with its context and one video node. The threads are
one frame-done worker per context and one thread for the ioctls: queueing,
STREAMON and STREAMOFF all hold the media device's `req_queue_mutex` (V4L2 core).

| Code | Model |
|---|---|
| `pending_job_list`, `running_job_list`, `running_job_count` | `pending`, `running`, `jobCount` |
| `equeue_list` of the `try_queue` inside `queue_lock` | `batch` (not empty: `queue_lock` is held) |
| `mtk_cam_request.state`, `pipe_used`, `done_status` | `req[r].state`, `.pipeUsed`, `.done` |
| `buf_state == -1`, buffers vb2 waits for | `.armed`, `.held` |
| `frame_done_work.is_queued`, `frame_seq_no` | `.isQueued`, `.seq` |
| frame work queued to the composer | `.handed` |
| `cam->streaming_pipe`, `ctx->streaming`, started context | `streamingPipe`, `streaming`, `started` |
| `deq_s_data[]`, `clean_s_data[]` | `hand[t]` |
| `frame_done_wq` | `doneWq[p]`, executing work first |
| a walk over a list that skips, keeps or unlinks entries | `Keep(s, S)` |
| `mtk_cam_req_queue` | `Queue`, then `TryPick`/`Enqueue` |
| `mtk_cam_dev_req_try_queue`, `mtk_cam_dev_req_enqueue` | `TryPick`, `Enqueue`, `EnqueueRejected` |
| `mtk_cam_vb2_start_streaming` | `StartCtx`, `StreamOn`, then `TryQueue` |
| `mtk_camsys_frame_done` | `FrameDone` |
| `mtk_cam_handle_frame_done`, `mtk_cam_dequeue_req_frame` | `WorkStart`, `WorkScan`, `WorkMark`, `WorkRemove`, `Claim`, `Return`, `TryQueue` |
| `mtk_cam_vb2_stop_streaming` | `StopBegin`, `StopHalt`, `StopPending`, `StopScan`, `StopCancel`, `StopMark`, `StopRemove`, `Claim`, `Return`, `StopDrain` |

Abstractions. Linking one request and `mtk_cam_dev_req_enqueue` are one step, as
are the interrupt's look-up and `queue_work`, and reading `running_job_count` and
picking (only holders of `queue_lock` increase the counter). The frame numbers are
the code's; the composer and the hardware are reduced to: composed frames finish
in number order, some without an interrupt (`CamFrame` looks inside). The model
stops (`warned`) where the kernel prints a WARN it cannot recover from: a rejected
request, or vb2's warning that `stop_streaming` left buffers behind.

`Reuse` says whether user space reinitialises completed requests
(MEDIA_REQUEST_IOC_REINIT) or allocates one per frame.

What the model shows and no run states, because no comment or test says what should
happen: with requests that are both shared by two cameras and reused, a worker can
act on a request that was queued anew after its scan; stopping one camera unlinks
the pending requests of another that has not started (`mtk_cam.c:887`); and
`streaming_pipe` is set before `ctx->streaming`, so a request may run on a camera
whose composer never got it.

### CamFrame

The frames of one streaming raw pipe with a sensor, by their numbers, from the
enqueue to the return of the buffers. `feature_active = 0`, `USINGSCQ = 1`,
`INITIAL_REQ_SYNC = 0`.

| Code | Model |
|---|---|
| `running_job_list`, `state_element.estate`, `camsys_state_list` | `running`, `estate`, `stateList` |
| `enqueued_frame_seq_no`, `dequeued_frame_seq_no` | `enqueued`, `dequeued` |
| `sensor_enq_seq_no`, `sensor_request_seq_no`, `isp_request_seq_no`, `last_drained_seq_no` | `sensorEnq`, `sensorSeq`, `ispSeq`, `lastDrained` |
| `composer_wq`, `using_buffer_list`, `composed_buffer_list`, `processing_buffer_list`, `composed_frame_seq_no` | `txWq`, `using`, `composedList`, `processing`, `composed` |
| `mtk_cam_dev_req_enqueue`, `mtk_cam_initial_sensor_setup` | `EnqNumber`, `EnqLink`, `EnqEnlist`, `EnqSetSensor` |
| `isp_tx_frame_worker`, `isp_composer_handle_ack` | `TxFrame`, `Ack` |
| `mtk_cam_try_set_sensor` on the sensor kthread, `mtk_cam_set_sensor_full` | `TrySetSensor`, `WorkerSetSensor` |
| `sensor_deadline_timer_handler` | `DeadlineTimer` |
| `mtk_irq_raw`, `push_msgfifo` | `Irq` |
| `mtk_thread_irq_raw`, `mtk_camsys_event_handle_raw`, `mtk_camsys_raw_cq_done`, `mtk_camsys_raw_frame_start`, `mtk_camsys_raw_state_handle` | `IrqTake`, `IrqScan`, `IrqHwDelay`, `IrqDecide`, `IrqApply` |
| `mtk_cam_handle_frame_done` on `frame_done_wq` | `DonePrepare`, `DoneDequeue` |
| the raw hardware (external) | `HwCqLoad`, `HwSof`, `HwLateSof`, `HwDone` |

The hardware is what the handlers take it to be: a CQ is in the outer registers at
the latest during the frame after the one it was applied in, so its load straddles
at most one start of frame; a start of frame copies outer to inner registers unless
the last frame is unfinished; a frame is written once and repeated without writing
until the next CQ is there; the event of a start of frame is taken up before the
next one, though its handler may then still be at work. `MaxFaults` bounds together
the starts of frame that find the last frame unfinished and the events a full
`msg_fifo` drops. The write counter wraps at `CntMod` (2^8 in the code).

Merged or left out: the timer callback is one step (the race of its re-arming with
the kick of the enqueue, `mtk_cam-ctrl.c:1560` against `mtk_cam.c:4772`, only
delays a frame); acks come in the order of the frames, which `CcdEndpoint` shows of
the channel and the daemon keeps.

### Hcp

| Code | Model |
|---|---|
| `msg_list`, `chans[MODULE_IMG]`, `user_obj`, `seq` | `msgList`, `chan`, `body`, `seq` |
| `hcp_id_ack[id]` | `ack[s]`: 0, or the number of the message whose answer set it |
| message object taken off a list | `held[t]` |
| `hcp_send_internal`, `mtk_hcp_send`, `mtk_hcp_send_async` | `Send`, then the steps of `Sender`: take an object or sleep in `msg_wq`, reset the acknowledgement, append and wake the poller, wait for the answer or its time-out |
| `mtk_hcp_poll`, HCP_GET_OBJECT, HCP_COMPLETE | the steps of `Reader`, `Complete` |
| `mtk_hcp_purge_msg`, open, release | `Purge`, `Open`, `Exit` |

`cur` and `stale` are history: which answers could set the flag. The comment at
`mtk-hcp.c:532-533` says that a send that times out clears what it leaves behind;
nothing is cleared, and a late answer is taken for that of the next message of its
id, as TLC shows once `stale` is left out of the property. `AckIsOwn` states only what is left: an answer is that
of the waiting message or of one of its id that was outstanding when the flag was
reset; one that had arrived before is not counted. A purge empties the channel and wakes nobody in `msg_wq`, so
`NobodySleepsOnFullPool` holds until the first purge. Each id has one sender at a time
(`hw_op_lock`, the ordered `mdpcb_wq`).

### Imgsys

| Code | Model |
|---|---|
| `pipe->streaming`, STREAMOFF's places | `streaming`, `stop` |
| buffers of a request | `bufs`: with user space, the driver, done or in error |
| `imgsys_freebufferlist`, `enqueue_wq`, `sem`, `num_composing` | `wbuf`, `freeBufs`, `enqueueWq`, `composer`, `sem`, `numComposing` |
| `reqfd_cbinfo_list` | `record` |
| `gwork_pool`, `runnerque` and its thread | `freeWorks`, `runQ`, `enabled`, `runner` |
| command queue call-backs, `imgsys_cmdq_wq`, `mdpcb_wq` | `cbWq`, `cb`, `mdpcbWq` |
| reference count of the GCE buffer | `gceRef` |
| `mtk_imgsys_hw_enqueue`, `imgsys_composer_workfunc` | `Queue`, `Composer` |
| `imgsys_scp_handler`, `imgsys_runner_func`, `imgsys_mdp_cb_func`, `mtk_imgsys_notify`, `cmdq_cb_timeout_worker` | `Handler`, `Runner`, `CallBack`, `TimeoutWork` |
| `mtk_imgsys_hw_streamoff` and disconnect | `StopBegin`, `Stop` |
| daemon and command queue (external) | `DaemonFetch`, `TaskDone` |

External: one thread of the daemon announces the groups of a request once each, the
first one first, and announces nothing after DEINIT; the GCE runs the tasks of a
group in order. `MaxFault` bounds sends and submissions that fail and hangs.
Merged or left out: the state check and the return of buffers in `job_finish`; only
packets with `group_id >= 0`; `frm_info_list` is never filled, so the wait for it is
no wait; `JOB_RUN` is not defined, so the flush itself finishes no job; requests are
queued only while streaming.

### FrameSync

As the repository builds it: `ALL_USING_ATOMIC`, `FORCE_USING_SA_MODE`,
`TWO_STAGE_FS`, `QUERY_CCU_TS_AT_SOF`, and neither `USING_CCU` nor `USING_N3D`. No
source of timestamps is therefore configured, vsyncs are never aligned, and what is
left is the synchronisation of frame lengths.

| Code | Model |
|---|---|
| `reg_table`, `streaming_bits`, `enSync_bits`, `validSync_bits` | `regCnt`, `table`, `streaming`, `enSync`, `validSync` |
| `pf_ctrl_bits`, `setup_complete_bits`, `master_idx` | `pfCtrl`, `setupComplete`, `master` |
| `ft_mode`, `frame_cell_size` (manager and algorithm) | `ftMode`, `mgrCell`, `algCell` |
| `fs_sa_inst.dynamic_paras` | `para` |
| `ctx->is_streaming`, `ctx->fsync_out_fl`, the V4L2_CID_FRAME_SYNC control | `isStreaming`, `fsyncOut`, `asked` |
| frame length last given to the sensor, needed by its exposure | `reg`, `want` |
| `fl_active_delay`, `max_fl_lc` of the algorithm | `fdelay`, `maxFl` |
| `calc_min_fl_lc`, `check_fl_boundary` | `Bounded` |
| `fs_streaming`, `fs_set_sync` | `Stream`, `SetSync`, steps of `Config` |
| `fs_n_1_en`, `fs_mstream_en` | `N1`, `MStream` |
| exposure control, `notify_fsync_mgr_set_shutter`, `fs_set_shutter`, `fs_try_trigger_frame_sync_sa`, `do_fps_sync_sa` | `SetShutter`, `RepeatShutter`, steps of `Frame` |

A sensor's calls hold its `ctx->mutex`, so there is one thread per sensor, and
nothing orders the threads of different sensors: the manager has no lock around its
atomics ("TODO: add a lock to keep atomic op consistency", `frame_sync.c:1126`),
each sensor is a device of its own, and the sensor kthreads of the cameras apply the
controls of requests, `mtk_cam_req_frame_sync_start` those of all cameras of a
request. So every step of one sensor's calls interleaves with those of the others.
Twice this goes wrong: `fs_update_valid_sync_bit` writes `validSync_bits` from reads
another call has overtaken, and a search of the table meets an entry that was counted
(`frame_sync.c:491`) but not filled, which looks like that of sensor 0. The history
variable `raced` notes that one of the two has happened; the passing properties say
what the code promises until then, in every interleaving. Beyond that point they
fail: without `raced`, and without the constraint that stops TLC there, TLC finds
`MasterInRange` and `WrittenFits` violated.

The frame lengths of exposures are small numbers; line times are alike. What an
exposure asks for and what a sensor is to run at are bounded by the longest frame of
the sensor ("this case will break sync", `frame_sync_algo.c:274`), so a sensor may be
unable to follow; `FollowsSlowest` says that it then runs at its longest frame.
The drivers in the repository implement no SET_MULTI_SHUTTER_FRAME_TIME, so `reg` is
the frame length the adaptor hands to a sensor. `IMGSENSOR_USE_PM_FRAMEWORK` is not
defined, so controls are always forwarded.

A sensor whose frame length acts after two frames takes no notice of one that needs
three (`frame_sync_algo.c:2670`), although the comment (2663) speaks of "all other
sensor": with unlike delays the quick one stays at its own frame length, and the
sensors run apart. `FollowsSlowest` therefore claims something of those sensors only
whose frame length acts no sooner than that of every other synced one; without that
premise TLC finds it violated. Also seen, and stated by no property: M-Stream
switched on again before the next frame is refused but its ASSIGN mode set; N:1
enabled before the start is cleared in the algorithm and kept in the manager.

### Fault operators

An operator whose comment says "fault" is a plausible mistake in the code that
the operator below it models (a reference not taken, an entry added at the wrong
end, a skipped test). The specification never uses it. `PROJECT.json` ("mutants")
pairs each property with the fault that breaks it.

## 4. Runs

| Run | Question | States | Result |
|---|---|---|---|
| `ccd_endpoint` | Does the channel deliver in order (refinement of `CcdChannel`), wake its reader, drain completely, let readers go, and protect the threads inside by its reference count, whoever destroys it? | 22 k | holds |
| `ccd_bus` | Are announcements delivered, idr and daemon in step with the cameras, and do starts and stops end, with daemons that exit and an interrupted start? | 395 k | holds |
| `cam_one_camera` | Are reused requests clean, none lost, buffers returned in frame order and eventually, does STREAMOFF end? | 174 k | holds |
| `cam_shared_requests` | With requests of both cameras: one list, one remover, one return, and the job limit? | 1.37 M | holds |
| `cam_frame` | Is a returned frame written, and not written afterwards, with late and lost interrupts? Is the state of a request that of its CQ? | 3.0 M | holds |
| `cam_frame_liveness` | Is every enqueued frame returned? | 160 k | holds |
| `hcp` | Are message objects conserved, senders and pollers woken, and is an answer that came before a message was sent not taken for its own? | 860 k | holds |
| `imgsys` | Is a request notified when all its groups are done and every request returned, with a failure and a STREAMOFF at any moment? | 478 k | holds |
| `frame_sync` | Until an access races: are frame lengths long enough for the exposures, is the master an entry of the table, and do sensors that act no sooner than the others settle on the slowest's frame length, as far as each can? | 1.21 M | holds |
| `cam_stop_race` | Does STREAMOFF return all buffers? | | violated |
| `ccd_bus_exit_race` | Is an endpoint destroyed once? | | violated |
| `imgsys_stale_notify` | Is a request notified in the stream it belongs to? | | violated |

The violated properties are statements of comments in the code; `PROJECT.json`
("findings") quotes them and tells the schedule. (1) The clean-up of STREAMOFF does
not see requests a frame-done worker holds between the two lists. (2) STREAMOFF
destroys its device without the mutex under which the exit of the daemon destroys
all, and both find it. (3) A request that waits for the composer when STREAMOFF
flushes is not counted, is sent in the next stream and notified there. Each
schedule is a few steps of two or three threads and needs no failing device.

### Bounds

* Endpoint: two senders and four messages fill, empty and refill the queue while a
  reader is at any of its ten positions.
* Bus: three starts of two cameras make a camera start again while another streams;
  two daemons let one open while the other is still releasing; one signal and one
  exit each hit every position.
* Requests: `MaxJobs = 2` against three requests makes the job limit bind and leaves
  one waiting (6 or 9 in the code); two cameras are the least that share a request;
  `MaxStart = 2` covers a restart with everything the first stream left; four queue
  calls use requests again. `BadReqs` has a request the driver rejects.
* Frames: three frames and as many CQ buffers have one frame in each stage (sensor
  set, CQ applied, exposing); frames above two are those the sensor kthread sets;
  `CntMod = 4` lets the counter's arithmetic be exercised and keeps the assumption
  `MaxJobs < CntMod` (9 jobs against 2^8 in the code: with `CntMod = 2` and
  `MaxJobs = 3` TLC finds `DoneWasWritten` violated, a late counter then looks like an
  early one); `KickAfter = 1` (3 in the
  code) lets the enqueue set the sensor within three frames. Liveness uses one job
  and one buffer, where a request that is not returned blocks all others. Deadlock
  is checked: a streaming sensor always has a next frame.
* HCP: two objects against three sends make the pool empty; two readers are the
  least that race for the channel; `Batch = 1` makes a second GET_OBJECT necessary.
* Imgsys: a request of two groups, the first with an early call-back, and two of one
  group; one composing slot and two buffers for three requests. One session, since a
  second one shows finding (3).
* Frame sync: two sensors, with equal and with different delays, of which the first
  can do every exposure (longest frame 4) and the second cannot (3); exposures 2 and
  4, and cells of two frames, which ask for more than either can do. Five calls start
  both sensors, bring both into sync and then stop one, take it out of sync or, once,
  change an exposure or a cell; the first exposure after a start is free. The
  constraint `NotRaced` ends a behaviour where `raced` becomes true: it stays true,
  so every property holds from there on. The branch of a full registration table is
  not reached with two sensors.

Requests are interchangeable, so the safety runs of `CamRequest` use symmetry; runs
with liveness do not. Where deadlock is not checked the system may rest: the bounds
are used up and everything is back, nothing is modelled after `oops` or `warned`,
or, in `CcdBus`, a start waits for a daemon that exits: STREAMON waits for the
mailbox holding `ccd_open_mutex`, and the release of the daemon, as well as the open
of the next one, need that mutex, until a signal ends the wait.

### Fairness

Kernel threads that are inside a call are scheduled: weak fairness of each thread's
steps, of each ordered workqueue, of an ioctl that was entered, of threaded
interrupts. Hardware that streams delivers frames and loads CQs; the command queue
finishes its tasks; a daemon serves its messages and, for HCP, is started again
after an exit. User space need not make another call, and no signal or bounded
fault is promised; the exception is frame sync, where user space is assumed to set
the exposure of every frame (`RepeatShutter`), as the camera middleware does.
Within `BlockedReadersReleased` the escape `oops` is the double take described
above; `StartStopEnds` and the camera's liveness allow for the WARN states.

### Preconditions of passing properties

All visible in the properties and configurations: `NoLostWakeup` is for one reader per endpoint
(the daemon's use; the flag cannot serve two). `NoRequestLost` is
for one camera. `SnapshotFresh`, `RequeuedWhenUnlinked`, `ListedOnce`,
`RemoverOwnsEntry` and `JobsWithinLimit` are for requests that are not reused, or
are for one camera each; with requests of two cameras that are reused TLC finds the
first two violated, and the others too once a camera starts a second time.
`IdrIsLive` and `DaemonKnowsCameras` are for starts
that no signal interrupted, the latter also for daemons that did not exit;
`MailboxNotOverwritten` is about what is posted, not about the device an interrupted
start leaves behind (`mtk_ccd_rpmsg.c:397`). `StartStopEnds` is for a daemon that
ends up listening: that excludes the one real deadlock of the component, a start that
waits, with the mutex, for a daemon that needs the mutex to exit. `NothingStranded`
counts commands, so it does not see one taken twice.
`NoRequestLost` counts a request on the local list of a worker as known, which
STREAMOFF does not; `cam_stop_race` shows the difference, with one camera.
`EveryRequestReturned` looks at requests that hold a working buffer, in one
session; what the next session sees of the last is in `imgsys_stale_notify` only. `NotifiedIsRunning` is for
one stream session, and so are `TypeOK` and `GceMemoryHeld` of `Imgsys`: STREAMON
puts every work buffer back into the pool and takes the first reference of the GCE
memory anew, whatever groups of the previous stream the command queue still holds;
with `MaxSession = 2` TLC finds the pool larger than it was made, and the memory
released under a running group. `MasterInRange`, `WrittenFits` and `FollowsSlowest`
hold until `raced`, that is, until an update of `validSync_bits` is lost or two sensors
share an entry, as the code's own "TODO: add a lock to keep atomic op consistency"
expects; `FollowsSlowest` is for the sensors that act last.

## 5. Proofs

All for arbitrary constants that satisfy the named assumption of the module (finite
sets, disjoint thread names, limits that are natural numbers).

`CcdEndpointProofs`:

* `UseAfterRelease`, `ReleaseOnce`, `TypeCorrect` rest on `RefsInv`: `refs` is the
  number of threads inside a read or a write, plus one while the owner has not
  dropped its own reference. The two facts that make it inductive are that a
  look-up needs the idr entry and that the owner removes the entry before it drops
  its reference, both under `endpoints_lock`. Cardinality of the set of holders is
  followed step by step with the lemmas on finite sets.
* `ChannelRefinement`: `left \o queue` is always 1..nSent in order; a `Send`
  maps to `Put`, a pop of either side to `Take`, `DestroyBegin` to `Close`, the
  rest to a stutter.
* `WakeupNotLost`: for a single reader, with the strengthening that the flag is
  set whenever the reader is between arming and disarming it.
* `DrainedCompletely`: `ccd_cmd_sent` is the length of the queue until two takers
  have raced for one message (`CountInv`), so the destroyer that reads it as zero
  leaves no command behind.

`CamRequestProofs`:

* `ReturnedOnce`: for any number of requests, pipes, and any interleaving of
  workers, interrupts and ioctls, a pipe's buffers are returned by one thread,
  once, and are held by the driver when that happens. The inductive invariant
  (`Invariant`) says that what is armed is held, that a thread about to return
  buffers finds them held and no longer armed, and that no two threads owe the
  same. It is proved without assuming anything about the contents of lists and
  snapshots, stale requests included: the cmpxchg of `buf_state` carries it all.

`CamListProofs`, under `~Reuse \/ SinglePipe`: requests are allocated for every
frame, or each is for one camera. The code needs one of the two (section 4,
Preconditions). `RequestInvariant` is the conjunction of these parts, each with a
section of its own; a request is queued again only when it is free (`QueuesFree`),
and for that they need one another:

* `ListInv`: pending, batch and running list share no request and hold none twice;
  a request on a list still has a pipe, so it is not queued again; one in state
  RUNNING is on the running list, so the thread whose cmpxchg takes it to DELETING
  finds it there; the requests threads are about to unlink are distinct. From it
  `OneListOnly` and `RemoverAlone`.
* `LifeInv`: a request that waits has all its buffers, one that runs has a pipe that
  is not done and still has its own; a snapshot holds requests that ran on its pipe,
  and buffers are claimed only of a pipe that is marked. `StreamInv`: only a
  started pipe streams or has a frame-done work, so a stop that waits for the works
  leaves none behind.
* `JobInv`: `running_job_count` is the length of the running list, a request in state
  DELETING has a thread that is about to unlink it, and what runs holds buffers of
  started cameras only (unless a stop left buffers behind, after which the model ends). So nothing runs when the last camera stops, and the reset of the
  counter when the first one starts again changes nothing: `JobsBounded`, and
  `TypeCorrect`, whose point is that the counter never goes below zero.
* `HandInv`, when each request is for one camera: a snapshot has no duplicates, and
  what a worker has in hand still has its buffers, unless the camera is
  being stopped. With it, a request whose buffers are back is in nobody's hands:
  `RequeueIsSafe`.
* `WorkHands`: what a worker has in hand has a frame number up to the one it
  dequeues, also while another thread numbers new requests: `SnapshotsFresh`.
* `Books`, for one camera: a request that waits and holds buffers is on the pending
  list or in the batch, one that is being deleted is on the running list, and
  buffers still held after that have a thread that claims or returns
  them: `NoneLost`. With two cameras it is false (`mtk_cam.c:887`).
* The walks over the lists are the recursive function `Keep`. What it returns
  (`KeepFacts`) is an induction over the list, for which the library's induction
  theorems cannot be used (they take an operator); it is done with a least
  counterexample, from the well-foundedness of `<` on the natural numbers.

`CcdBusProofs`:

* `TypeCorrect`, `MailboxSafe`: `BusInv` adds to the types that a thread inside a
  section has the mutex (`MutexHeld`), that the user count is the number of daemons
  that are open (`Counted`), that devices being started or destroyed are the ones
  the thread found, and that the mailbox is still empty when a poster takes its lock
  again (`EmptyWhenRelocked`): true because posters are serialised, not because
  anybody looks.
* `IdrSafe`: while no signal interrupted a start (`Undisturbed`), every address
  names the device that was given it.
* `WorkersFollow`: while nothing was interrupted and no daemon exited, the daemon's
  workers are those of the streaming cameras, but for the announcements under way.
  The strengthening (`Unbroken`) says for each position of the client thread what
  has been announced, and counts the message in the mailbox as announced; the
  daemon that takes it up then changes nothing that `Unbroken` speaks of.

`CamFrameProofs`, under `MaxJobs < CntMod`:

* `DoneBuffersAreWritten`, `ReturnedBuffersStay`, `ScanReadsFilledEntries`. The three
  need each other. `FrameInv` follows the numbers of the frames: down the composer
  and the CQ registers they only grow (`Flow`), an interrupt carries numbers the
  hardware has reached (`Seen`), and a done interrupt is consumed before the SOF that
  follows it (`DoneSafe`). The handler of a SOF compares one byte of the write
  counter, read at the interrupt, with the frames that still run; it stands for a
  frame that was written by then (`WriteInv`). Were it taken for a later one, that
  would be a full turn of the byte away, and so many requests never run (`Jobs` and
  the assumption).
* `AppliedInOrder`: the CQ applied at a SOF is that of the request that moves to state
  CQ. The handler takes the head of the composed list and the last entry of the state
  list, and nothing in the code compares their numbers. `ApplyInv` shows that both are
  the frame after the last one applied: no frame is lost in the composer (`Complete`),
  the sensor worker sets a frame only when the one before was applied (`Cursor`,
  `Setting`), nothing above the last one applied is past SENSOR (`States`), and frames 1
  and 2 are apart because there is no SOF before the first CQ done interrupt (`Boot`).
  It takes `MaxJobs <= CqBufs`: `isp_tx_frame_worker` drops a frame for which there is no
  CQ buffer under a WARN, and the next composed CQ is then that of a later frame. The code
  has 16 buffers in a context (`CAM_CQ_BUF_NUM`) and at most 9 requests run
  (`RAW_PIPELINE_NUM * MTK_CAM_MAX_RUNNING_JOBS`), and each buffer that is out belongs to
  a request that runs (`Pool`).

`ImgsysProofs`:

* `DoneAfterAllTasks`, for any number of stream sessions: a request is notified only
  when every task of every group has run. `ImgsysInv` says that a group is in one
  place of its journey (`Journey`), that the groups of a request are announced and
  submitted as the daemon lists them (`Together`, `Advance`), and that call-backs
  come in the order of the tasks (`CbOrder`), so the counter of a request, a number,
  counts the set of the groups that came back (`Record`).
* `FirstStreamTypes`, `GceHeldInFirstStream`, `NotifiedInFirstStream`: pool, reference
  count and stream of a notified request, in the first stream session. Their part
  of the invariant (`FirstStream`) counts buffers and references by cardinalities.
  The restriction is needed (section 4, Preconditions).

`HcpProofs`:

* `ObjectsConserved`, `PoolWakes`, `AnswerIsOwn`, `TypeCorrect`: `HcpInv` adds
  `Hands` (an object in a thread's hands if and only if it is between taking and
  putting), `Filled` (objects in the channel or with a reader hold a message) and
  `Answerable` (what can still be answered is the current message or was
  outstanding when the flag was reset).

`FrameSyncProofs`, for calls that interleave in any way; the properties, and so the
invariants, say `raced \/ ...`, and `raced` stays true once it is:

* `MasterSafe`: until an access has raced, `SyncInv` says that a call works on the
  entry of its own sensor, that a sensor owns at most one entry of the table, and none
  while the entry it pushed is not filled yet, that the bits are within the table, that
  `validSync_bits` is within `streaming_bits` and `enSync_bits` but for the entry
  being updated, and that a sensor that chooses a master is itself valid, so the
  choice is never empty. Several calls may be between their reads and their write of
  the mask at once; the only steps that break any of this are the two that set `raced`.
* `WrittenLongEnough` rests on `FitInv` besides `SyncInv`. Nothing in the adaptor
  compares the frame length of the call-back with the exposure; it is long enough
  because a sensor whose control is on passes every check of the manager on its way
  there: a sensor that streams has its stream bit and its own call-back (`Live`,
  `Callbacks`), so what `enSync_bits` holds of it `validSync_bits` holds too
  (`AllValid`, the converse of the part of `SyncInv` that serves `MasterSafe`), and no
  other sensor's call touches its entry (`OthersShared`). The call itself (`Calls`)
  then ends in a target no shorter than its own cells (`LargestOf`), which the
  call-back divides by their number (`CellFits`); the bound on the result cuts nothing
  the exposure needs, which is bounded alike (`LimitsKept`).

## 6. Checked but not proved, and not modelled

Liveness under fairness is model-checked only (the prover has no rule for it here):
`BlockedReadersReleased`, `QueuedIsReturned`, `StopEnds`, `EveryFrameReturned`,
`StartStopEnds`, `ChannelDrains`, `EveryRequestReturned`, `FollowsSlowest`. So is
the one safety property that no theorem names, `ReturnedInFrameOrder` of `CamRequest`.

Sequential consistency is assumed of `atomic_t` accesses outside locks. Not in
`CamRequest`: multi-exposure `s_data`, time-shared and stagger modes, meta1 works,
contexts of several pipes or nodes, failing stream-on, the DONE/ERROR value of a
returned buffer, and the time-out of the composer session. Not in `CamFrame`:
stopping, exposure and sensor switches, sensor-less pipes, camsv and mraw. Not in
`Imgsys`: batch mode, frame parameters, module power. Not in `FrameSync`: vsync
alignment (unreachable in the built configuration), hardware sensor sync, console
overrides, anti-flicker. Components without a module are listed in section 1 and,
with reasons, in `PROJECT.json`: register sequences, format tables, clock votes and
sensor drivers hold no protocol state a model checker would explore.

## 7. Running

    tlc -config CamRequest_one_camera.cfg MCCamRequest
    tlc -config CcdEndpoint_one_reader.cfg MCCcdEndpoint
    tlapm CamListProofs.tla

and likewise for the other configurations (`PROJECT.json`, "runs") and the modules
named `...Proofs`.
