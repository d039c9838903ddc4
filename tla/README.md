# TLA+ models of the softwinner device tree

Specifications, model-checking runs and proofs for the code of this Android
device tree that has behaviour worth specifying. The tree collects many
unrelated programs (hardware abstraction libraries, a system update agent, a
few applications, configuration). The largest with logic of its own, and the
one where ordering, failure and concurrency decide whether a device survives an
update, is the **ULI update agent** under
`src/crane-MID9742-sc3052/uli_agent/uli/` (written `uli/` below). Most modules
are about it; two are about the camera and the audio HAL under
`src/common/hardware/`, whose threads share queues, buffers and locks.

## 1. Inventory

### The update agent

| Component (source under `uli/`) | State | Operations | Hard part | What makes it correct |
|---|---|---|---|---|
| Agent task (`core/common/core-common-state.c`, `-unattended.c`, `-control.c`, `platform/platform-utility.c`) | public state, delay, exit and restart requests, persistent copy | `UtvApplication`, `UtvAgentTask`, `UtvSetState`, `UtvClearState`, `UtvUserAbort`, `UtvUserExit`, shutdown | the state is tested and cleared without the mutex; crash and restart | an abort is not undone by a late event, is acted on, and wakes the sleeper; the delay slept is the event's own |
| Timed waits (`platform/os/android/platform-os-android-mutex.c`, `-time.c`) | table of wait handles, each a counting semaphore | `UtvWaitInit`, `UtvWaitTimed`, `UtvWaitSignal`, `UtvWaitDestroy`, `UtvWakeAllThreads`, `UtvSleep` | handles are reused while others signal them; counts below zero | a handle is private, no sleeper misses a wake-up |
| Mutex table (same file) | handles of mutexes | `UtvMutexInit/Lock/Unlock/Destroy` | destroyed while in use | exclusion |
| Thread registry (`platform-os-android-thread.c`) | `threadExists`, `threadBeingCreated` | `UtvThreadCreate`, `UtvThreadExit` | a table without a lock, a flag that a failure leaves set | names exactly the running threads; create and exit return |
| Section filter (`core/broadcast/core-broadcast-sectionfilter.c`) with the DVB personality (`platform/data/broadcast/linux-dvbapi/`) | queue, its count, a wait, the pump thread | open, get, close, deliver, `PumpThread` | producer and consumer without a lock; open and close against the pump's life | order, no sleep over a section, no pump outside an open filter |
| Broadcast discovery and download (`core/broadcast/` carousel, channel, download, packetfilter; `getDownloadWorkerBroadcast`) | download info, block map | scans of DSI, DII, DDB | timeouts, repeated and missing blocks | a module is complete when reported so |
| Internet download (`core/common/core-common-interactive.c`, `-compatibility.c`, `platform/platform-install.c`, `platform-persist.c`) | download tracker, open component file, module count | `downloadComponentWorkerInternet`, `UtvPlatformInstallModuleData`, `UtvPlatformPersistWrite` | resumption after errors and power failures; nothing is synced | what is reported delivered is there, in one version |
| Update store (`platform/platform-store.c`) | table of stores | open, write, close, assign remote | store 0 outlives the offer it was opened for | what is taken from an open store is true of the offer |
| Image table (`core/common/core-common-image.c`, `-manifest.c`) | open images | open, close, component directory | freed directories still pointed at | an offer that can be acted on has its image |
| Interactive interface (`core-common-interactive.c`, `jni-interface.c`, `project/project-generic.c`) | one schedule, the access mutex, the delivery mode | scan of the network or a medium, download, install, shutdown | the schedule is withdrawn without the mutex while a thread uses it | a thread's update is not replaced; the supervisor knows the kind it was offered |
| Host name lookup (`platform/data/internet/common/`) | cache, three statics, wait handles | lookup with timeout, detached thread | late answer of a lookup that timed out; an abort's signal | an address belongs to its name; no wait is left behind |
| Transport, live support, web server, generated stubs | sockets, sessions | | input and output | |

How they interact: one thread runs `UtvApplication`, which calls
`UtvAgentTask`; the task scans (section filter or web services) and downloads.
Everything that blocks does so on a timed wait. A user thread stops whatever
runs by setting the public state to ABORT and calling `UtvWakeAllThreads`;
every loop tests the state. The registry of threads tells the abort whether
anything runs at all. The download writes the component files and the tracker,
which persistent memory carries over a restart, in the same file as the public
state.

### The hardware abstraction libraries and the rest of the tree

| Component (source under `src/common/hardware/`) | State | Operations | Hard part | What makes it correct |
|---|---|---|---|---|
| Camera HAL (`camera/CameraHardware.cpp`, `V4L2Camera.cpp`, `V4L2CameraDevice.cpp`, `CallbackNotifier.cpp`, `PreviewWindow.cpp`) | device state, driver queue, ring of captured slots, flags of a picture | start and stop preview, take and cancel a picture, recording; capture, preview and picture thread | buffers shown while the device stops; one signal without its mutex; a thread stopped before it runs | every buffer comes back, the capture thread stops with the preview, calls return, the picture is taken |
| Audio HAL (`audio/audio_hw.c`) | a stream each way, echo reference, mode, routes, three mutexes | write, read, standby, routing, raw mode, change of mode | locks taken in sequence; a reference shared by two streams | no stream keeps a dead reference, routes follow the mode, no deadlock |

The display, composer and gralloc, sensors, GPS, lights, modem monitor,
recovery, what the supervisor service keeps of its own and two applications
remain: `PROJECT.json` lists each with the reason it is not modelled; most are
device input and output or user interface.

## 2. Plan

Done in this order, the most important behaviour first:

1. `AgentTask`: the state every other part obeys, with `AgentTask_proofs`.
2. `WaitHandle`: the waits everything blocks on.
3. `SectionQueue`: the producer and consumer behind every scan.
4. `ThreadRegistry`.
5. `UpdateDelivery` (what a download promises) and `ModuleDownload` (how the
   code keeps it), the second shown to implement the first; that, and the
   intactness of what a session has passed, proved.

6. `HostLookup`: the cache and the late thread.
7. `UpdateOffer`: what the supervisor is offered, and what is open behind it.
8. `Camera` and `Audio`: the two libraries with threads of their own.
9. The proofs of `WaitHandle`, `ThreadRegistry`, `HostLookup`, `UpdateOffer`
   and `Audio`, of `SleepMatchesState` and of the count of modules.
10. `SectionSource`, and the proofs of `SectionQueue`, of its refinement and of
    `Camera`.

To do:

11. `DdbReassembly` and the broadcast download worker, on top of `SectionSource`.
12. An abstract "sleep that an abort ends" which `WaitHandle` implements and
    `AgentTask`, `SectionQueue` and `HostLookup` use.
13. The asynchronous scans of `project-generic.c`, which share one request.
14. The contents of the update store, for a policy that stores components, and
    what the supervisor keeps.

Theorems to prove next: the refinement of 12; that what `DdbReassembly` hands to
the store is a whole module; the type of `Camera` with the bound of its driver's
queue.

## 3. The modules

### AgentTask (with MCAgentTask, AgentTask_proofs)

The loop of `UtvApplication`, one label per point where another thread's step
can matter. `UtvSetState` is two steps, because the state is read
(`UtvGetState`) and reset (`UtvClearState`) without the mutex; the persistent
write is two steps, because `fopen "wb"` empties the file before it is written.
A scan asks for the schedule, sleeps until an update of the network can be had
(the same `UtvSleep`, whose end writes what is left over the agent's delay),
transfers it and installs it. Transfer and installation each begin by setting
the state to DOWNLOAD with no delay, whether or not the state is refused, and
record how they ended; what they do otherwise is one step with any result the
code returns, and so is the download of the download event. Users abort
(`UtvUserAbort`), exit (`UtvUserExit`) or ask for a restart; a process may
crash at any point and `Boot` reads what the file holds. `locksLive` stands for
what the C library makes of mutexes that `UtvPublicAgentShutdown` destroyed and
nothing initialises again when `UtvExecute` fails.

### WaitHandle

`apUtvWait` maps handles to heap blocks; a block is assigned under the lock of
the list, initialised after it, destroyed before it is unassigned. `uiCount` is
an unsigned semaphore (`CountMod` instead of 2^32) that a timeout decrements
too. The waker's loop is one step per read of the table and one per signal, as
`UtvWaitSignal` reads the table before it locks. What runs under a wait's own
mutex is one step. A signal to a block that has been destroyed has no effect on
the others: what the C library does there is undefined, and nothing else is
claimed.

### SectionSource, SectionQueue

The core thread's calls of the section filter, the pump thread of the DVB
personality, and a user. Increment and decrement of the queue's count are a
read and a write each. `raced` remembers that an update was lost, `stray` that
the pump signalled a wait that is not the filter's, `stopFailed` that `DMX_STOP`
failed. Failures of `UtvWaitInit` and of `DMX_STOP` are steps, bounded by
`MaxFailures`.

`SectionSource` is what a scan may rely on: a bounded queue, first in and first
out, that refuses a section only when every slot is taken. A section that was
handed out occupies its slot until the count is decremented, and no longer:
what the scan has in its hand while it parses is a slot the pump may fill
again. `SectionQueue` maps to it while the core thread is in the loop that
reads; a lost update of the count ends the promise (`trusted`).

### ThreadRegistry

The table `threadExists` as its two fields, cleared by an exit in two steps,
and the flag `threadBeingCreated`, tested in one step and set in another. A
thread that finds the flag set sleeps a second and looks again, at most
`THREAD_COUNT` times; `Sleep` assumes that a create that is under way ends
before all these seconds have passed.

### HostLookup

`UtvPlatformInternetCommonDNS`, one label per access to the statics through
which the detached resolver thread answers: the address, the flag and the wait
handle. The cache is two entries filled in a circle; the waits are those of the
process (`UTV_WAIT_MAX`), each a count. `gethostbyname` answers at any time, or
never; a call waits its time out or is signalled, by the thread or by an abort
(`Wake`). `overlap` is a history variable: a call began while another, or the
thread of one whose time was over, was under way.

### UpdateOffer

The calls that `jni-interface.c` makes for the supervisor, one at a time: a scan
of the network, a scan of a medium, download, install and shutdown. `image` is
the table of images, lowest entry first; `g_sSchedule` the one schedule of the
process, of which the first update matters; `open` says whether the image behind
its handle is still open, which the code does not know. A scan goes label by
label with the access mutex held; the threads that download (`INTERNET`) and
install (`FILE`) take the mutex and keep it to their end; withdrawing an offer
does not take it. A thread may end early at any time, which is all there is of
aborts. The table is of any size: images that scans of unfit updates and files
leave open fill it in the end, and nothing else bounds a behaviour.

### Camera

The thread of the camera service, which goes through a call as a list of steps
(`todo`), the capture thread (`WorkerThread`), the preview thread and the
picture thread. Where a lock is held over several steps it is a variable; the
conditions are labels at which a thread waits. The driver's queue and
`mQueueBuffer` are sequences of buffers and of slots, the second with room for
`NB_BUFFER - 1`. A picture stops the device and starts it with one buffer. A
step that would use a NULL pointer goes to `crashed`, after which nothing
happens. `late` remembers that the frame of a picture did not come in the time
of its `select`.

### Audio

The playback, record and policy thread with the mutexes of device, output and
input. Nobody takes a stream's mutex without the device's, so what is done
under the latter is one step, enabled when the stream's mutexes it takes are
free; a write or a read keeps its own stream's mutex after it has released the
device's. `out_write` reads the mode before it has any lock. Handles of the
driver are counted (`outOpen`, `inOpen`), echo references numbered, and
released references never used again while any stream has them. A write to an
output that was never opened goes to `crashed`; `leaked` remembers that a
resampler could not be created, after which a handle stays open. The constant
`WithoutEarpiece` is the device's property `audio.without.earpiece`, with which
the amplifier is on for the earpiece too (`Amplified`).

### UpdateDelivery, ModuleDownload (with MCModuleDownload and proofs)

`UpdateDelivery` says what a resumable download promises: data only ever changes
to the version under way or is lost (which may uncover older data where the last
write never left the memory), and a session is reported well only if everything
wanted is there in its version. `ModuleDownload` is the code: the worker, the
tracker of received modules with a CRC each, the count that decides when the
component's file is closed, the data still in the stdio buffer (`tail`), the
persistent tracker and what a power failure leaves of all that. A CRC is
modelled by the data it was computed from. `file` is what a reader of the files
finds, so `Content` is that with the buffered data added, and maps to `content`.
Writing persistent memory may fail at every call. `sure` is a history variable:
FALSE once a recorded module failed its check while the records were kept, after
which the count of modules is no longer exact (section 5).

## 4. The runs

Passing runs, with their distinct states:

| Run | Instance | States | Shows |
|---|---|---|---|
| `agent_safety` | two interchangeable users, all requests, 2 requests, 2 process starts | 321,000 | `Exclusion`, `NeverDestroyedHeld`, `SleepMatchesState`, `AbortSticky`: the mutex excludes and is not pulled from under its holder; no event undoes an abort; the delay slept is that of the state, not what a sleep inside a scan has left |
| `agent_live` | two users, abort and exit, 2 requests | 153,000 | `AbortWakesSleeper`, `AbortHonoured`, `ExitHonoured`, in both sleeps, as long as some registered thread runs |
| `wait_sleeps` | two sleepers, two entries, two waits per handle, two sleeps each, one abort | 247,000 | `PrivateHandle`, `WakeReachesAll`, `AbortWakesFirstWait` |
| `section_scans` | queue of 2, 3 sections, 2 opens, one abort, one failure | 315,000 | `InOrder`, `PumpWithinOpen`, `NoSleepOverSection`, `AbortEndsScan`, and `SourceKept`: the refinement of `SectionSource` |
| `registry_single` | one creator, 2 threads, 2 routines, 2 entries | 54,000 | `ActiveSeen`, `NoGhost`, `CallsReturn`: the abort sees whoever runs, no entry outlives its thread, create and exit return |
| `download_resume` | components of 2 and 1 modules and an incompatible one, two versions, 4 records, 2 retries | 37,000 | `PrefixIntact`, `CountsAgree`, `SessionEnds`, and `Delivers`: the refinement of `UpdateDelivery` |
| `camera_preview` | two buffers, three calls | 218,000 | `BuffersReturn`, `WorkerStops`, `CallReturns`, `PictureTaken`: no buffer is lost over stops and restarts; without a picture the capture thread stops with the device and every call returns; a first picture is taken |
| `lookup_late` | two callers, two hosts, one wait, two threads, one abort, one refusal | 707,000 | `OwnAnswer`, `HandlesReturn`, `LookupEnds`: calls that do not overlap get, and keep, the address they asked for, and leave no wait behind; every call returns |
| `audio_calls` | a device without an earpiece, five calls other than to write and to read | 109,000 | `EchoLive`, `EchoHeld`, `ActiveRuns`, `RoutesMatch`, `CallsReturn`: no dead reference, none pulled from under a write; handles and routes agree with the streams and the mode; no deadlock |
| `updateoffer_calls` | an image table of five | 176,000 | `NetDirectoryHeld`, `ModeMatches`, `OfferStable`, `CallsEnd`: an offer of the network with store 0 open has its image; the supervisor knows its kind; no scan replaces what a thread works on; calls and threads end |

Runs that find a disagreement between the code and what it says of itself:

| Run | Shows |
|---|---|
| `section_reopen` | the pump ends without leaving the registry, so the second open of the filter is refused |
| `download_announce` | a resumed session reports UTV_DOWNLOAD_COMPLETE without completing the component or announcing the update |

Six more configurations are kept for use by hand; each gives in seconds a trace
that contradicts what a comment of the code says (`tlc -config X.cfg M`):

| Configuration, module | Shows |
|---|---|
| `AgentTask_missedwake.cfg`, `MCAgentTask` | `UtvAbort` returns early when no registered thread, open file, held mutex or select is active (`core-common-state.c:195`), and a thread that sleeps has released the mutex of its wait: the agent sleeps on. `platform-os-android-time.c:56`: "Uses a timed wait so that an abort can wake it up" |
| `AgentTask_returns.cfg`, `MCAgentTask` | the shutdown's own abort, made in state EXIT, records EXIT as the state to go back to; `UtvPlatformPersistRead` restores it (`platform-persist.c:175`) and the next `UtvApplication` returns at once, with no exit asked for (`platform-utility.c:74`) |
| `WaitHandle_lostwake.cfg`, `WaitHandle` | a wait used again after a timeout loses the signal of an abort: its count had passed below zero (`platform-os-android-mutex.c:610`), and the signal only makes it zero |
| `ThreadRegistry_routine.cfg`, `ThreadRegistry` | the same routine can be threaded twice: an exit clears handle and routine in two steps, and the second may hit the entry of a new thread (`platform-os-android-thread.c:176`) |
| `HostLookup_falseexit.cfg`, `HostLookup` | a look-up that an abort signals before its answer returns UTV_OK without an address (`platform-data-internet-common.c:196`, against the comment at `:191`) |
| `UpdateOffer_directory.cfg`, `UpdateOffer` | with store 0 open an install or a download takes the schedule without a new scan though the image of its offer, of a medium, has been closed (`jni-interface.c:481`) |

### Why the bounds are enough

Two users or two sleepers give every race of a pair; a third repeats one of
them. Two process starts let a crash or a clean exit precede a whole life. A
queue of two slots with three sections is full, wraps and overflows. Two entries
and two threads fill the registry, and two routines make a create fail for
either reason. In `download_resume` two modules let a first be kept while a
second is fetched, damaged or recorded twice; four records leave one to spare,
so the tracker also runs full; two versions let a session find the data, the
records and the open file of another. The same module with a component of three
modules and five records (394,000 states, ten minutes) was checked once with the
same result and is not kept as a run. Two callers, two resolver threads and one
wait make a look-up late, let a late thread answer another host and make a call
find no wait. Two buffers are the fewest with which one is shown while another
is filled; three calls start, stop and start again, or take a picture in
between. Five calls of the audio service are a change of mode and back, a change
of route and two standbys, with as many writes and reads as there are (with
`WithoutEarpiece` FALSE the same run passes, with as many states). Five
entries of the image table let the images of two scans be open, one be leaked,
and the table run full; that run has no other bound. All counters without a
bound in the code have one in a guard: `MaxRequests`, `MaxBoots`, `MaxSleeps`,
`MaxWaits`, `MaxAborts`, `MaxSections`, `MaxOpens`, `MaxFailures`, `MaxLookups`,
`MaxWakes`, `MaxRefusals`, `MaxCalls`. `written` saturates one above the module
count, which is all the code compares it with. `CHECK_DEADLOCK FALSE` stands
where the bounds or the program itself let everything stop.

### Fairness

A thread that can run does run, and an attempt to lock a mutex that is released
again and again succeeds: strong fairness on `SetLock`, on the threads of
`Audio`, which do little else but lock, and on the locks of `UpdateOffer`. A
timeout, a request, a new process, a delivered section, an answer of a name
server and a failure are never assumed. Termination of a download session
assumes only that its worker keeps running. `CallsReturn` of `ThreadRegistry`
needs nothing of the other threads. In `Camera` a frame that is due comes in the
end (the sensor delivers) while its device is started; in `UpdateOffer` a scan
and a thread end, which the timeouts of the network, the lines of a file and
the size of an update ensure. A resolver thread need not end: `LookupEnds`
rests on the time-out of its caller alone, which is fair.

## 5. Behaviour the models show that no standing run records

What the six configurations of section 4 show, and besides:

- A crowded wait table: `UtvSleep` ignores the failure of `UtvWaitInit` and goes
  on with handle 0, another thread's (`platform-os-android-time.c:71`);
  `PrivateHandle` fails with fewer entries than sleepers.
- `UtvWaitTimed` does not count spurious returns and timeouts apart from
  signals (`platform-os-android-mutex.c:610`).
- `UtvSleep` writes what is left of it over the delay of the agent
  (`platform-os-android-time.c:81`), also in the middle of a scan
  (`core-common-unattended.c:308`). A download that then ends with
  UTV_NO_DOWNLOAD leaves state and delay as they are (`:406`): DOWNLOAD with no
  delay, from the start of the transfer (`core-common-interactive.c:1595`), and
  not the leftover. The agent goes on with a download event at once, and not
  with a scan after the long delay.
- An exit request survives a failed `UtvExecute` and turns a later abort into an
  exit (`core-common-state.c:158`); `agent_live` has no restart requests for
  this reason.
- A lost update of `uiSectionQueueCount` (`core-broadcast-sectionfilter.c:255`,
  `:376`) shifts the queue until the next open: a stale slot may be handed out.
  Properties that need the count say `~raced`.
- `UtvGetSectionData` frees the slot before the caller has parsed the section in
  it (`core-broadcast-sectionfilter.c:376`).
- The DSI and DII scans can sleep over a section after a timeout (`:343`), which
  is why `NoSleepOverSection` speaks of scans that stop at the first error.
- A failed `DMX_STOP` leaves the pump alive
  (`platform-data-broadcast-linux-dvbapi.c:578`) while the wait and the buffer it
  uses go, which is why `PumpWithinOpen` says `~stopFailed`.
- Two creators of threads may take the same entry of the registry
  (`platform-os-android-thread.c:243`).
- After a failed check of a recorded module other than the first of its
  component the records are kept, and each module fetched again is recorded
  twice: the module count is too high from then on, so the file may be closed
  early (the next module appends to it, and no data is lost: `PrefixIntact`
  holds without `sure`) or left open, and the tracker may run full, after
  which no session of this version can proceed.
- Clearing the tracker in mid session sets its version to 0, so that what the
  session records is thrown away by the next one.
- Look-ups that overlap share the statics: a late thread answers whoever asks
  then, and the cache keeps the wrong address under the name
  (`platform-data-internet-common.c:114`). `OwnAnswer` says `~overlap`.
- Store 0 stays open when an offer is withdrawn, so that a later download does
  not refresh the schedule until another scan of the network succeeds
  (`jni-interface.c:411`, `:473`, `:481`). Images of unfit updates and of files
  without one for this device are left open until the table is full. The offer
  is taken back without the access mutex and its image closed while a thread
  reads it (`project-generic.c:8778`): `OfferStable` only says that the update
  is not replaced.
- Camera: slots stay in `mQueueBuffer` when the device is stopped and are shown
  after a restart (`V4L2CameraDevice.cpp:413`-`446`). The picture thread may set
  the running flag again after a stop (`:660`); the stop then finds no control
  pipe (`V4L2Camera.cpp:249`) and the capture thread survives the device, which
  is why `WorkerStops` and `CallReturns` speak of runs without a picture. One
  signal is sent for two waiters (`V4L2Camera.cpp:110`), and that for the
  picture without its mutex (`V4L2CameraDevice.cpp:561`). A time-out in the
  burst of one ends the thread with no picture. `mTakingPicture` stays set when
  the device cannot be started (`CameraHardware.cpp:1110`), and the format of a
  recording is that of the hint before (`:929`).
- Audio: `out_write` tests the mode without a lock; `start_output_stream` then
  refuses but says 0, and the write goes on with no PCM handle (`crashed`). A
  resampler that cannot be created leaves the handle open and the input active
  (`leaked`). With two outputs or inputs at a time the device points to the
  last: the code has a FIXME for it, the model one of each. The microphone's
  mute and `bluetooth_nrec` are written without a lock.

## 6. What is proved

`AgentTask_proofs` (for any set of user threads and any bounds, from
`UsersAssumption`: no user is the agent's own thread) proves

- `TypeCorrect`: `Spec => []TypeOK`, in particular that the persistent file only
  ever holds states and delays the code can write;
- `MutualExclusion`: `Spec => []Exclusion`, never two threads between the lock
  and the unlock of the state;
- `DestroyedFree`: `Spec => []NeverDestroyedHeld`, the shutdown never destroys
  the mutex while a thread holds it;
- `AbortIsSticky`: the action property `AbortSticky`, no late event undoes an
  abort;
- `DelayIsOwn`: `Spec => []SleepMatchesState`, the delay slept is that of the
  event the state names.

The first four follow from one inductive invariant, `IInv`: `TypeOK`, `Exclusion`,
`OwnerWrites` (whoever is about to write the state holds the mutex, where one
exists), `ReturnPoints` (which labels a call of `UtvSetState` may return to) and
`StopsAborted` (a task that is shutting down has made the state ABORT).
`Exclusion` alone is not inductive: the shutdown destroys the mutex, which makes
every later lock fail and lets threads through. It is safe only since the
shutdown's own abort came first: with the state at ABORT no thread takes the
branch that writes, and that is what `StopsAborted` and `ReturnPoints` carry.
There is one lemma per group of actions and one step per action below it; the
temporal steps combine them by `PTL`.

`DelayIsOwn` has an invariant of its own above that, `DelayInv`: the delay is
written before the state and the state may then be refused, so that in between
the two disagree. `Pending` says the delay is that of the event being set,
`Settled` that it is that of the state wherever the state was just set, or the
state is ABORT or, once a scan is over, EXIT (from the end of a sleep inside a
scan to the transfer that follows, nothing is said of the delay: it is what the
sleep has left); `UsersAbort` that other threads only ever make the state
ABORT; `Uninterrupted` that the event of a complete download is not aborted in
its midst, since it would be left with the short delay of a scan; and `Asleep`
that an exit is not slept on, and that without a usable mutex there is no wait
to sleep on either.

`ModuleDownload_proofs` first proves `DeliveryTypeCorrect` and
`DeliversOneVersion` of `UpdateDelivery`: whatever is lost, broken off or
delivered again, a device that was told the update is there holds one version
throughout. `OneVersion` is inductive together with the type. It then proves,
for any components, module counts, versions, size of the tracker and number of
retries, from `DownloadAssumption`,

- `DownloadTypeCorrect`: `Spec => []TypeOK`;
- `PassedIsIntact`: `Spec => []PrefixIntact`, everything a session has passed is
  in the files and of its version;
- `WorkerDelivers`: `Spec => Delivers`, the worker implements `UpdateDelivery`;
- `WorkerDeliversOneVersion`: `Spec => []Delivery!OneVersion`, from
  `WorkerDelivers` and `DeliversOneVersion`;
- `CountsStayRight`: `Spec => []CountsAgree`, the count that closes a component's
  file is right as long as no check of a recorded module failed.

`PrefixIntact` is not inductive. What it rests on is in `IInv`, which is
`TypeOK`, `PrefixIntact` and four more conjuncts. `Coherence`: a tracker that
names a version has no CRC of another, so that what is skipped is of the version
under way; the record made for a duplicate module has the CRC of whatever was in
its place, which is why this is about every record and not only those in use.
`Accounted`: in the midst of a component its file is open, or there is a record
of it and the file will be opened to append: opening it never truncates what was
passed. `LeftOpen`: a file left open by the last session comes with an empty
tracker, so that no module is skipped while old data is still in the buffer.
`Position`: where the worker can be. The lemmas come in this order: places,
records and files; trackers; one lemma per action for `IInv`; one per action for
the refinement, where a failed session maps to `Fail`, an installed module to
`Write`, the end of a session to `Succeed` or `Fail` and everything else to a
stutter.

The proof covers more than the run can. With a second component of two modules,
a tracker that outlived failed writes of persistent memory lets the worker
append over an older download, and a crash while the module is still in the
stdio buffer uncovers the older data. That is why `UpdateDelivery` has `Broken`:
at one place, and never at the end of a session that succeeds, data older than
the last seen may come back. The instance of `download_resume` is too small for
it (an instance with components of 2, 1 and 2 modules and 5 records, 357,000
states, reaches it, and is too slow for a standing run); the theorem holds of
all.

`CountsStayRight` rests on what a tracker that is `sure` looks like, in the
session and in persistent memory (`Sound`): a component is recorded from its
first module on, each module once (`Exact`), and only after the components
before it (`InOrder`, which a tracker cleared in mid session loses together with
its version). `Resuming` and `Recording` relate that to the position of the
worker; a session that has cleared the tracker still has the right number for
the component it is in, which is all the count is compared with.

`Platform_proofs` holds the proofs of the two tables of the platform. Of
`WaitHandle` it proves `WaitTypeCorrect`, and, assuming `Enough` (finitely
many sleepers, not more than `UTV_WAIT_MAX`), `HandlesPrivate`
(`[]PrivateHandle`) and `WakeReachesSleepers` (`[]WakeReachesAll`). Without
`Enough` both are false: `UtvSleep` ignores that there is no handle left. That a
free entry is found is a pigeonhole argument (`EntryLeft`). The invariant is the
type with `Places`, and `Private`: a sleeper that is not idle has a handle and a
block of its own, alive for as long as it can use it (`Owned`); those who wait
on a block are the sleepers blocked on it (`Waiting`); and whoever a waker still
has to wake lies ahead of its walk through the table (`Ahead`), although entries
come and go meanwhile.

Of `ThreadRegistry` it proves `RegistryTypeCorrect` for any creators and, for
one creator (`OneCreator`), `ActiveThreadsSeen` (`[]ActiveSeen`) and
`NoGhostThreads` (`[]NoGhost`). The invariant adds that the flag is set and the
chosen entry free while a thread is being created (`FlagSet`), that a thread
which is not in the table yet cannot get past the loop of `UtvThreadExit`
(`Unregistered`) and that it has one entry (`OneEntry`). With two creators the
properties are false, as section 5 says.

`SectionQueue_proofs` proves, for a queue of any depth and any bounds,
`SectionTypeCorrect`, `SectionsInOrder` (`[]InOrder`), `PumpStaysWithin`
(`[]PumpWithinOpen`: also after opens that failed, until a `DMX_STOP` fails),
`NoneSleptOver` (`[]NoSleepOverSection`) and `ReadsFromSource` (`SourceKept`).
`SizesAssumption` asks of `CountMod` only that the sections and aborts of one
behaviour do not wrap the semaphore. The properties rest on:

- `Filter` and `Life`: the buffer, the wait and the entry of the registry
  outlive the pump. As the entry is never cleared (`section_reopen`), there is
  one pump in a process, and one scan that reads from it.
- `Ring`: while the count is exact, it is what waits, `Fill`, corrected by what
  each thread has done to the indices and not to the count yet; the input index
  is `Fill` slots after the output index, and those slots hold what was
  delivered and not handed out, in order. `Counts` says that the section about
  to be copied finds a free slot: only the pump increments, so that its test for
  a full queue stays true.
- `Fresh`: an open finds queue and history empty unless an old pump runs, with
  which it fails.
- `Signalled`: sections that wait do not outnumber the signals that are counted,
  on their way, or just received; `Bounded` keeps that count from wrapping. A
  timeout decrements the count as well, which is why this is about scans that
  end with the first error.

The refinement adds `Handed`: what the pump offers is a section, and the filter
is running, so that none is refused for any reason but a full queue. A step of
the core or the pump maps to one step of `SectionSource` (`Copy` to `Put`, a
`Deliver` that finds the queue full to `Refuse`, `Take`, `Decrement` to `Free`,
`Parse` to `Done` or `Close`) or to a stutter; the step that loses an update
maps to `Spoil`.

`Camera_proofs` proves, for any number of buffers from two on and of calls,
`BuffersComeBack` (`[]BuffersReturn`) and `WorkerEndsWithDevice`
(`[]WorkerStops`). `BuffersReturn` is not inductive, since a slot goes back by
the index in `mV4l2buf`, not by its own, and a stop clears the indices:
`Covered` says that the index is right (`Known`) wherever a buffer of a started
device waits to be given back, and `Stopped` that a device started with all its
buffers has no picture under way, which would keep its buffer. `WorkerStops`
rests on an order: a device is stopped only after its thread was joined, started
only while it is stopped, and its thread created only after that. `Ordered` says
so of the steps a call has left (`todo`); every call's list has that order, also
when one list follows another (`Chain`) or when the thread cannot be started
(`UndoFits`). A stop waits until `mThreadRunning`, which the preview thread sets
when it shows a frame; `Watched` says that no slot of an earlier run is shown
before the new thread is ready, since the stop took their sizes and they are
given back unshown, so that the flag speaks of the new thread. `Control` says
that a thread that has begun has its pipe, and `Quiet` that without a picture no
step of a picture comes (section 5 says what those break).

`HostLookup_proofs` proves `LookupTypeCorrect`, `AnswersOwnHost`
(`[]OwnAnswer`) and `WaitsGivenBack` (`[]HandlesReturn`). While no calls have
overlapped, at most one call and one resolver thread are under way and the
thread is the call's (`Alone`), what is answered is the address asked for
(`OwnAddress`), and all waits but the call's own were left by refused threads
(`Spared`). The bounds are constants, so that it holds however many look-ups,
aborts and refusals there are.

`UpdateOffer_proofs` proves, for an image table of any size, `OfferTypeCorrect`,
`DirectoryHeldForNet` (`[]NetDirectoryHeld`), `SupervisorKnowsKind`
(`[]ModeMatches`) and the action property `UpdateNotReplaced` (`OfferStable`).
The invariant is `TypeOK`, `Exclusion` (who is scanning or at work holds the
access mutex), `Kinds` (what a call will report or launch, and of which kind the
schedule is) and `Held` (the image that the schedule says is open is, and is of
its mode; a scan of the network starts from no offer). `NetDirectoryHeld` is not
inductive: a download that is under way may have its image closed by a call that
withdraws the offer, and opens another.

`Audio_proofs` proves, for any number of calls, `AudioTypeCorrect`,
`ReferencesLive` (`[]EchoLive`), the action property `ReferenceHeld`
(`EchoHeld`), `StreamsKnown` (`[]ActiveRuns`) and `RoutesFollow`
(`[]RoutesMatch`), on devices with and without an earpiece. The invariant is
`Places` (which locks a thread holds where it is), `Streams` (`Types`; what the
device knows of a stream that runs, `Outs` and `Ins`; whose reference a stream
has, `Echo`) and `Routes`. `EchoLive` rests on an order: the output that has
the reference is the active one, which whoever releases the reference looks at
and waits for.

Only model-checked: liveness (`AbortWakesSleeper`, `AbortHonoured`,
`ExitHonoured`, `AbortWakesFirstWait`, `AbortEndsScan`, `SessionEnds`,
`LookupEnds`, `CallsEnd`, both `CallsReturn`, `CallReturns`, `PictureTaken`),
which with fairness and ENABLED is outside TLAPS. Every invariant and every
action property that a passing run checks, and both refinements, are theorems.
No module declares a RECURSIVE operator.

## 7. Not modelled, and why

Within the modelled components:

- components approved for storage and partition components (the policy of
  `jni-interface.c:455` approves none for storage, and the partition functions
  of the repository are placeholders); decryption, as a fetch that may deliver
  damaged data; what is scanned, downloaded and installed in `AgentTask`; the
  tuner;
- in `AgentTask`, other threads that sleep, and so write the agent's delay: the
  ts-file and static broadcast personalities have one
  (`platform-data-broadcast-ts-file.c:353`, `-static.c:193`), the linux-dvbapi
  personality that is modelled has none. Nor does it have the interactive calls
  of other threads (`UtvPublicDownloadComponents` of `project-generic.c`, the
  `UtvClearState` of its callbacks), which the supervisor makes in a process
  where `UtvApplication` does not run: `UpdateOffer` is about those;
- in `UpdateOffer`, concurrent calls of the supervisor (its service makes them
  one after the other), aborts but as threads that end early, a shutdown while a
  thread is at work, store 2 and its size (never reset, so that a later update
  from a medium may find it empty), the limit of images from the network, and
  the asynchronous scans, which write the shared `s_scanRequest` before the
  thread is created (`project-generic.c:535`);
- in `Camera`, the thread of face detection (which takes `mObjectLock` and
  `mPreviewMutex` in the other order than the preview thread,
  `V4L2CameraDevice.cpp:738`-`770`), auto focus, the command queue, the callbacks
  that `cleanupCBNotifier` sets to NULL, and the time a frame takes, but for
  `late`;
- in `Audio`, volumes, TTY, Bluetooth, FM, the position counters and the
  contents of buffers.

The Linux ports of threads, mutexes and time are near copies of the Android
ones. Outside these components: see `PROJECT.json`, where every component has a
note. Of the source the tree holds, much is generated or vendored (gSOAP and its
stubs, cJSON, kernel headers), a near copy for another device, or arithmetic and
device input and output; the broadcast parsers are the largest part that a model
could still be made of. Code outside the repository appears as one definition,
`Usable` in `WaitHandle` (what locking a pthread mutex does).
