------------------------------- MODULE Camera -------------------------------
(***************************************************************************)
(* The camera HAL: the thread of the camera service that calls             *)
(* CameraHardware, the capture thread of V4L2Camera (WorkerThread), and    *)
(* the preview and the picture thread of V4L2CameraDevice.                 *)
(*                                                                         *)
(* A frame buffer is with the driver, or it has been taken by the capture  *)
(* thread, queued and shown, and goes back with VIDIOC_QBUF.  Five         *)
(* mutexes and four condition variables connect the threads; one signal    *)
(* is sent without its mutex, and one wait entered without it.             *)
(***************************************************************************)
EXTENDS Naturals, Sequences

CONSTANTS
  NB_BUFFER,       \* buffers of a preview; a still picture has one
  MaxCalls         \* bound: calls of the camera service

ASSUME BoundsAssumption ==
  /\ NB_BUFFER \in Nat \ {0, 1}
  /\ MaxCalls \in Nat

Threads == {"Api", "Worker", "Preview", "Picture"}
Buffers == 0 .. NB_BUFFER - 1
NoBuffer == NB_BUFFER
None == "none"

VARIABLES
  mState,              \* ECDS_INITIALIZED, ECDS_CONNECTED or ECDS_STARTED
  mBufferCnt,
  driver,              \* the buffers queued with the driver, oldest first
  mV4l2buf,            \* of each slot: its index, and if it has a frame's size
  mCurrentV4l2buf,
  mQueueBuffer,        \* slots queued for the preview thread
  mTakingPicture, mTakingPictureRecord, mThreadRunning,
  mPreviewEnabled,     \* of PreviewWindow
  wanted,              \* mTakingPicture of CallbackNotifier
  hint, bPixFmtNV12,   \* the recording hint, and the format that goes with it
  exitPending,         \* requestExitAndWait of the capture thread is under way
  mOneBurst,
  control,             \* the capture thread has opened its control pipe
  photoMutex, previewMutex, objectLock,   \* the thread that holds each
  pc,
  todo,                \* what is left of the call of the camera service
  held,                \* the buffer in the hand of the capture thread
  slot,                \* the slot in the hand of the preview thread
  frame,               \* the slot in the hand of the picture thread
  calls,
  late,                \* the frame of a picture did not come in time
  pictures, snapshots  \* still pictures, and pictures in recorder mode, so far

deviceVars == <<mState, mBufferCnt, driver, mV4l2buf, mCurrentV4l2buf>>
flagVars == <<mTakingPicture, mTakingPictureRecord, mThreadRunning, wanted>>
windowVars == <<mPreviewEnabled, hint, bPixFmtNV12>>
threadVars == <<exitPending, mOneBurst, control>>
lockVars == <<photoMutex, previewMutex, objectLock>>
handVars == <<held, slot, frame>>
boundVars == <<calls, late, pictures, snapshots>>
vars == <<deviceVars, mQueueBuffer, flagVars, windowVars, threadVars, lockVars,
          pc, todo, handVars, boundVars>>

Empty == [index |-> 0, sized |-> FALSE]
Started == mState = "ECDS_STARTED"
Running == pc["Worker"] # None

\* the HAL once connectCamera has succeeded, long after its threads were made;
\* setParameters may have set the hint
Init ==
  /\ mState = "ECDS_CONNECTED" /\ mBufferCnt = NB_BUFFER /\ driver = <<>>
  /\ mPreviewEnabled = FALSE /\ hint \in BOOLEAN /\ bPixFmtNV12 = hint
  /\ mQueueBuffer = <<>>
  /\ mV4l2buf = [b \in Buffers |-> Empty] /\ mCurrentV4l2buf = NoBuffer
  /\ mTakingPicture = FALSE /\ mTakingPictureRecord = FALSE
  /\ mThreadRunning = FALSE /\ wanted = FALSE
  /\ exitPending = FALSE /\ mOneBurst = FALSE /\ control = FALSE
  /\ photoMutex = None /\ previewMutex = None /\ objectLock = None
  /\ pc = [Api |-> "top", Preview |-> "top", Picture |-> "photoWait",
           Worker |-> None]
  /\ todo = <<>>
  /\ held = NoBuffer /\ slot = NoBuffer /\ frame = NoBuffer
  /\ calls = 0 /\ late = FALSE /\ pictures = 0 /\ snapshots = 0
-----------------------------------------------------------------------------
Goto(t, l) == pc' = [pc EXCEPT ![t] = l]

\* mutant: the signal is forgotten
SignalNobody(t, l) == Goto(t, l)
\* pthread_cond_signal(&mTakePhotoCond) by t, which goes on to l: it wakes the
\* picture thread or a call in stopDeliveringFrames, whichever waits
SignalPhoto(t, l) ==
  LET waiting == {w \in Threads : pc[w] = "photoWait"}
  IN  IF waiting = {} THEN Goto(t, l)
      ELSE \E w \in waiting : pc' = [pc EXCEPT ![t] = l, ![w] = "photoWoken"]

\* setThreadRunning(true) by t, which goes on to l
SetThreadRunning(t, l) ==
  /\ mThreadRunning' = TRUE
  /\ pc' = [pc EXCEPT ![t] = l,
              !["Api"] = IF ~mThreadRunning /\ @ = "runWait" THEN "top" ELSE @]

\* VIDIOC_QBUF, whose failure is ignored
Qbuf(b) ==
  driver' = IF Started /\ b < mBufferCnt
               /\ \A i \in 1 .. Len(driver) : driver[i] # b
            THEN Append(driver, b) ELSE driver
-----------------------------------------------------------------------------
(* Calls of the camera service, one at a time, as the steps they take; a   *)
(* call that would change nothing is left out.                             *)

StopDelivery == <<"photo", "running", "thread", "stopDevice">>
StopIfStarted == IF Started THEN StopDelivery ELSE <<>>
StopPreviewSteps == IF mPreviewEnabled THEN StopIfStarted ELSE <<>>
Begin == (IF mState = "ECDS_INITIALIZED" THEN <<"connect">> ELSE <<>>)
           \o <<"startDevice", "deliver">>
StartPreviewSteps == StopIfStarted \o Begin

Call(steps) ==
  /\ pc["Api"] = "top" /\ todo = <<>> /\ calls < MaxCalls
  /\ calls' = calls + 1
  /\ todo' = steps
  /\ UNCHANGED <<deviceVars, mQueueBuffer, threadVars, lockVars, pc, handVars,
                 late, mTakingPicture, mTakingPictureRecord,
                 mThreadRunning>>

StartPreview ==
  /\ Call(StartPreviewSteps) /\ mPreviewEnabled' = TRUE
  /\ UNCHANGED <<wanted, hint, bPixFmtNV12, pictures, snapshots>>

StopPreview ==
  /\ mPreviewEnabled
  /\ Call(StopPreviewSteps) /\ mPreviewEnabled' = FALSE
  /\ UNCHANGED <<wanted, hint, bPixFmtNV12, pictures, snapshots>>

TakePicture ==
  /\ mState # "ECDS_INITIALIZED"
  /\ wanted' = TRUE
  /\ \/ /\ hint
        /\ Call(<<"snap">>)
        /\ snapshots' = snapshots + 1
        /\ UNCHANGED <<pictures, mPreviewEnabled>>
     \/ /\ ~hint
        /\ Call(StopIfStarted \o <<"taking", "startDevice",
               IF mPreviewEnabled THEN "burstOver" ELSE "burst">>)
        /\ mPreviewEnabled' = FALSE
        /\ pictures' = pictures + 1 /\ UNCHANGED snapshots
  /\ UNCHANGED <<hint, bPixFmtNV12>>

\* it hands the old value of bPixFmtNV12 to the recording hint
StartRecording ==
  /\ mState # "ECDS_INITIALIZED"
  /\ ~bPixFmtNV12
  /\ Call(StopIfStarted \o Begin) /\ mPreviewEnabled' = TRUE
  /\ bPixFmtNV12' = TRUE /\ hint' = FALSE
  /\ UNCHANGED <<wanted, pictures, snapshots>>

SetParameters ==
  /\ \E h \in BOOLEAN \ {hint} : hint' = h /\ bPixFmtNV12' = h
  /\ Call(<<>>)
  /\ UNCHANGED <<wanted, mPreviewEnabled, pictures, snapshots>>

CloseCamera ==
  /\ mState # "ECDS_INITIALIZED"
  /\ Call(StopIfStarted \o <<"disconnect">>) /\ mPreviewEnabled' = FALSE
  /\ UNCHANGED <<wanted, hint, bPixFmtNV12, pictures, snapshots>>

Calls == \/ StartPreview \/ StopPreview \/ TakePicture \/ StartRecording
         \/ SetParameters \/ CloseCamera
-----------------------------------------------------------------------------
(* The steps of a call.                                                    *)

At(step) == pc["Api"] = "top" /\ todo # <<>> /\ Head(todo) = step
Done == todo' = Tail(todo)
DeviceAlone == UNCHANGED <<deviceVars, mQueueBuffer, windowVars>>

\* stopDeliveringFrames: wait until the picture under way has been taken, ...
StopPhoto ==
  /\ At("photo") /\ photoMutex = None /\ Done
  /\ IF mTakingPicture THEN Goto("Api", "photoWait") ELSE UNCHANGED pc
  /\ DeviceAlone
  /\ UNCHANGED <<flagVars, threadVars, lockVars, handVars, boundVars>>

StopPhotoWoken ==
  /\ pc["Api"] = "photoWoken" /\ photoMutex = None
  /\ Goto("Api", "top")
  /\ DeviceAlone
  /\ UNCHANGED <<flagVars, threadVars, lockVars, todo, handVars, boundVars>>

\* ... until the capture thread is known to run, ...
\* mutant: it is stopped at once
NeverEarly == FALSE
TooEarly == ~mThreadRunning
StopRunning ==
  /\ At("running") /\ Done
  /\ IF TooEarly THEN Goto("Api", "runWait") ELSE UNCHANGED pc
  /\ DeviceAlone
  /\ UNCHANGED <<flagVars, threadVars, lockVars, handVars, boundVars>>

\* ... and stop it; without its pipe it is not told to
StopThread ==
  /\ At("thread") /\ Done
  /\ IF control THEN exitPending' = TRUE /\ Goto("Api", "join")
     ELSE UNCHANGED <<exitPending, pc>>
  /\ DeviceAlone
  /\ UNCHANGED <<flagVars, mOneBurst, control, lockVars, handVars, boundVars>>

Join ==
  /\ pc["Api"] = "join" /\ ~Running
  /\ exitPending' = FALSE /\ control' = FALSE
  /\ Goto("Api", "top")
  /\ DeviceAlone
  /\ UNCHANGED <<flagVars, mOneBurst, lockVars, todo, handVars, boundVars>>

Step(step) ==
  /\ At(step) /\ Done
  /\ UNCHANGED <<pc, threadVars, lockVars, handVars, boundVars, mQueueBuffer>>

\* the queue keeps its slots, and they lose what they say
StopDevice ==
  /\ Step("stopDevice") /\ objectLock = None
  /\ mState' = "ECDS_CONNECTED"
  /\ driver' = <<>>
  /\ mV4l2buf' = [b \in Buffers |-> Empty] /\ mCurrentV4l2buf' = NoBuffer
  /\ UNCHANGED <<mBufferCnt, flagVars, windowVars>>

StartDevice ==
  /\ Step("startDevice") /\ objectLock = None
  /\ mState' = "ECDS_STARTED"
  /\ mBufferCnt' = IF mTakingPicture THEN 1 ELSE NB_BUFFER
  /\ driver' = [i \in 1 .. mBufferCnt' |-> i - 1]
  /\ mCurrentV4l2buf' = NoBuffer
  /\ UNCHANGED <<mV4l2buf, flagVars, windowVars>>

Connect ==
  /\ \/ Step("connect") /\ objectLock = None /\ mState' = "ECDS_CONNECTED"
        /\ UNCHANGED wanted
     \/ Step("disconnect") /\ objectLock = None /\ mState' = "ECDS_INITIALIZED"
        /\ wanted' = FALSE
  /\ UNCHANGED <<mBufferCnt, driver, mV4l2buf, mCurrentV4l2buf, windowVars,
                 mTakingPicture, mTakingPictureRecord, mThreadRunning>>

\* setTakingPicture and setTakingPictureRecord
SetTaking ==
  /\ photoMutex = None
  /\ \/ Step("taking") /\ mTakingPicture' = TRUE
        /\ UNCHANGED mTakingPictureRecord
     \/ Step("snap") /\ mTakingPictureRecord' = TRUE
        /\ UNCHANGED mTakingPicture
  /\ UNCHANGED <<deviceVars, mThreadRunning, wanted, windowVars>>

\* what a call still does when its capture thread cannot be started, because
\* the last one still runs
Undo(step) == CASE step = "deliver" -> <<"stopDevice">>
                [] step = "burstOver" -> StartPreviewSteps
                [] step = "burst" -> <<>>

\* startDeliveringFrames
Deliver(step, burst) ==
  /\ At(step)
  /\ mThreadRunning' = FALSE
  /\ mOneBurst' = burst
  /\ pc' = [pc EXCEPT !["Worker"] = IF Running THEN @ ELSE "starting"]
  /\ exitPending' = (exitPending /\ Running)
  /\ todo' = IF Running THEN Undo(step) ELSE Tail(todo)
  /\ wanted' = (wanted /\ ~(Running /\ burst))
  /\ mPreviewEnabled' = IF Running THEN step = "burstOver" ELSE mPreviewEnabled
  /\ UNCHANGED <<deviceVars, mQueueBuffer, hint, bPixFmtNV12,
                 mTakingPicture, mTakingPictureRecord, control, lockVars,
                 handVars, boundVars>>

StartDelivering == \/ Deliver("deliver", FALSE)
                   \/ Deliver("burst", TRUE) \/ Deliver("burstOver", TRUE)

ApiStep == \/ StopPhoto \/ StopPhotoWoken \/ StopRunning \/ StopThread \/ Join
           \/ StopDevice \/ StartDevice \/ Connect \/ SetTaking
           \/ StartDelivering
-----------------------------------------------------------------------------
(* inWorkerThread, the capture thread.                                     *)

ApiAlone == UNCHANGED <<windowVars, todo, calls, pictures, snapshots,
                        exitPending, mOneBurst>>
\* mutant: the request to exit is not looked at
AgainAlways == IF mOneBurst THEN None ELSE "capture"
Again == IF exitPending \/ mOneBurst THEN None ELSE "capture"

\* readyToRun; a request to exit that is already there ends the thread
WorkerReady ==
  /\ pc["Worker"] = "starting"
  /\ control' = TRUE
  /\ Goto("Worker", IF exitPending THEN None ELSE "capture")
  /\ ApiAlone
  /\ UNCHANGED <<deviceVars, mQueueBuffer, flagVars, lockVars, handVars,
                 late>>

\* select times out after two seconds, which counts as a turn of the loop
NoFrame ==
  /\ pc["Worker"] = "capture"
  /\ Goto("Worker", Again)
  /\ ApiAlone
  /\ UNCHANGED <<deviceVars, mQueueBuffer, flagVars, control, lockVars,
                 handVars>>

WorkerTimeout == NoFrame /\ late' = (late \/ mOneBurst)

\* the same without a buffer to fill, or when VIDIOC_DQBUF fails on a device
\* that is not streaming
WorkerIdles ==
  NoFrame /\ (~Started \/ (exitPending /\ driver = <<>>)) /\ UNCHANGED late

WorkerDequeue ==
  /\ pc["Worker"] = "capture"
  /\ Started /\ driver # <<>>
  /\ held' = Head(driver) /\ driver' = Tail(driver)
  /\ Goto("Worker", "fill")
  /\ ApiAlone
  /\ UNCHANGED <<mState, mBufferCnt, mV4l2buf, mCurrentV4l2buf, mQueueBuffer,
                 flagVars, control, lockVars, slot, frame, late>>

\* the slot takes the size the device has now, which is none once it stopped
WorkerFill ==
  /\ pc["Worker"] = "fill"
  /\ mV4l2buf' = [mV4l2buf EXCEPT ![held] = [index |-> held, sized |-> Started]]
  /\ mCurrentV4l2buf' = held
  /\ Goto("Worker", IF mTakingPicture THEN "photo" ELSE "queue")
  /\ ApiAlone
  /\ UNCHANGED <<mState, mBufferCnt, driver, mQueueBuffer, flagVars, control,
                 lockVars, handVars, late>>

\* the picture's frame ends the thread and stays where it is
WorkerPhoto ==
  /\ pc["Worker"] = "photo"
  /\ SignalPhoto("Worker", None)
  /\ held' = NoBuffer
  /\ ApiAlone
  /\ UNCHANGED <<deviceVars, mQueueBuffer, flagVars, control, lockVars, slot,
                 frame, late>>

\* OSAL_Queue, a ring of one node less than it was created with; a frame that
\* finds it full goes back to the driver
\* mutant: the refused frame is forgotten
RefusedLost == UNCHANGED driver
Refused == Qbuf(held)
QueueFull == Len(mQueueBuffer) >= NB_BUFFER - 1
WorkerQueue ==
  /\ pc["Worker"] = "queue"
  /\ IF QueueFull
     THEN Refused /\ UNCHANGED mQueueBuffer
     ELSE mQueueBuffer' = Append(mQueueBuffer, held) /\ UNCHANGED driver
  /\ held' = NoBuffer
  /\ Goto("Worker", "announce")
  /\ ApiAlone
  /\ UNCHANGED <<mState, mBufferCnt, mV4l2buf, mCurrentV4l2buf, flagVars,
                 control, lockVars, slot, frame, late>>

WorkerAnnounce ==
  /\ pc["Worker"] = "announce" /\ previewMutex = None
  /\ pc' = [pc EXCEPT !["Worker"] = "record",
              !["Preview"] = IF @ = "wait" THEN "woken" ELSE @]
  /\ ApiAlone
  /\ UNCHANGED <<deviceVars, mQueueBuffer, flagVars, control, lockVars,
                 handVars, late>>

\* a picture in recorder mode is taken of the frames of the preview
WorkerRecord ==
  /\ pc["Worker"] = "record"
  /\ mTakingPictureRecord' = FALSE
  /\ IF mTakingPictureRecord THEN SignalPhoto("Worker", Again)
     ELSE Goto("Worker", Again)
  /\ ApiAlone
  /\ UNCHANGED <<deviceVars, mQueueBuffer, mTakingPicture, mThreadRunning,
                 wanted, control, lockVars, handVars, late>>

WorkerStep == \/ WorkerReady \/ WorkerDequeue \/ WorkerFill \/ WorkerPhoto
              \/ WorkerQueue \/ WorkerAnnounce \/ WorkerRecord
              \/ WorkerIdles
-----------------------------------------------------------------------------
(* previewThread.                                                          *)

WorkerAlone == UNCHANGED <<mState, mBufferCnt, mV4l2buf, mCurrentV4l2buf,
                           control, held, frame, late>> /\ ApiAlone

PreviewDequeue ==
  /\ pc["Preview"] = "top"
  /\ IF mQueueBuffer = <<>>
     THEN Goto("Preview", "idle") /\ UNCHANGED <<mQueueBuffer, slot>>
     ELSE /\ slot' = Head(mQueueBuffer) /\ mQueueBuffer' = Tail(mQueueBuffer)
          /\ Goto("Preview", "held")
  /\ WorkerAlone
  /\ UNCHANGED <<driver, flagVars, lockVars>>

\* pthread_cond_wait on a mutex that this thread has not locked the first time:
\* the mutex is released whoever holds it, and from then on this thread holds
\* it whenever it does not wait
PreviewWait ==
  /\ pc["Preview"] = "idle"
  /\ previewMutex' = None
  /\ Goto("Preview", "wait")
  /\ WorkerAlone
  /\ UNCHANGED <<driver, mQueueBuffer, flagVars, photoMutex, objectLock, slot>>

PreviewWoken ==
  /\ pc["Preview"] = "woken" /\ previewMutex = None
  /\ previewMutex' = "Preview"
  /\ Goto("Preview", "top")
  /\ WorkerAlone
  /\ UNCHANGED <<driver, mQueueBuffer, flagVars, photoMutex, objectLock, slot>>

\* a slot of another size or format is given back, by the index it has now
Mismatch == ~mV4l2buf[slot].sized
PreviewLock ==
  /\ pc["Preview"] = "held" /\ objectLock = None
  /\ \/ /\ Mismatch
        /\ Qbuf(mV4l2buf[slot].index)
        /\ slot' = NoBuffer
        /\ Goto("Preview", "top") /\ UNCHANGED objectLock
     \/ /\ ~Mismatch
        /\ objectLock' = "Preview"
        /\ Goto("Preview", "show") /\ UNCHANGED <<driver, slot>>
  /\ WorkerAlone
  /\ UNCHANGED <<mQueueBuffer, flagVars, photoMutex, previewMutex>>

PreviewShow ==
  /\ pc["Preview"] = "show"
  /\ Qbuf(mV4l2buf[slot].index)
  /\ slot' = NoBuffer
  /\ SetThreadRunning("Preview", "top")
  /\ objectLock' = None
  /\ WorkerAlone
  /\ UNCHANGED <<mQueueBuffer, mTakingPicture, mTakingPictureRecord, wanted,
                 photoMutex, previewMutex>>

PreviewStep == \/ PreviewDequeue \/ PreviewWait \/ PreviewWoken
               \/ PreviewLock \/ PreviewShow
-----------------------------------------------------------------------------
(* pictureThread.                                                          *)

PreviewAlone == UNCHANGED <<deviceVars, mQueueBuffer, control, held, slot,
                            late, previewMutex, objectLock>> /\ ApiAlone

PictureWait ==
  /\ pc["Picture"] = "top" /\ photoMutex = None
  /\ Goto("Picture", "photoWait")
  /\ PreviewAlone /\ UNCHANGED <<flagVars, photoMutex, frame>>

PictureWoken ==
  /\ pc["Picture"] = "photoWoken" /\ photoMutex = None
  /\ photoMutex' = "Picture"
  /\ frame' = mCurrentV4l2buf
  /\ Goto("Picture", "photo")
  /\ PreviewAlone /\ UNCHANGED flagVars

\* onTakingPicture: the picture is compressed and handed to the application,
\* once for each call of takePicture
Photograph ==
  /\ pc["Picture"] = "photo"
  /\ wanted' = FALSE
  /\ mTakingPicture' = FALSE
  /\ frame' = NoBuffer /\ photoMutex' = None
  /\ Goto("Picture", "running")
  /\ PreviewAlone /\ UNCHANGED <<mTakingPictureRecord, mThreadRunning>>

PictureRunning ==
  /\ pc["Picture"] = "running"
  /\ SetThreadRunning("Picture", "top")
  /\ PreviewAlone
  /\ UNCHANGED <<mTakingPicture, mTakingPictureRecord, wanted, photoMutex,
                 frame>>

PictureStep == PictureWait \/ PictureWoken \/ Photograph \/ PictureRunning
-----------------------------------------------------------------------------
\* takePictureHW reads its frame through a null pointer
Crashed == pc["Picture"] = "photo" /\ wanted /\ frame = NoBuffer

Next == /\ ~Crashed
        /\ \/ Calls \/ ApiStep
           \/ WorkerStep \/ WorkerTimeout
           \/ PreviewStep \/ PictureStep

\* Each thread that can run does, and the sensor delivers: a frame that is due
\* arrives in the end.  Nobody need call, and no wait need time out.
Fairness == /\ WF_vars(ApiStep /\ ~Crashed)
            /\ WF_vars(WorkerStep /\ ~Crashed)
            /\ WF_vars(PreviewStep /\ ~Crashed)
            /\ WF_vars(PictureStep /\ ~Crashed)

Spec == Init /\ [][Next]_vars
FairSpec == Spec /\ Fairness
-----------------------------------------------------------------------------
TypeOK ==
  /\ mState \in {"ECDS_INITIALIZED", "ECDS_CONNECTED", "ECDS_STARTED"}
  /\ mBufferCnt \in 1 .. NB_BUFFER
  /\ driver \in Seq(Buffers) /\ Len(driver) <= mBufferCnt
  /\ mV4l2buf \in [Buffers -> [index : Buffers, sized : BOOLEAN]]
  /\ mQueueBuffer \in Seq(Buffers) /\ Len(mQueueBuffer) < NB_BUFFER
  /\ {mCurrentV4l2buf, held, slot, frame} \subseteq Buffers \cup {NoBuffer}
  /\ {mTakingPicture, mTakingPictureRecord, mThreadRunning, mPreviewEnabled,
      wanted, hint, bPixFmtNV12, exitPending, mOneBurst, control}
       \subseteq BOOLEAN
  /\ photoMutex \in {None, "Picture"} /\ previewMutex \in {None, "Preview"}
  /\ objectLock \in {None, "Preview"}

\* No buffer of a preview is lost: each is with the driver, queued, or in the
\* hand of a thread that gives it back; whatever is stopped and restarted while
\* slots are queued, and whatever the ring refuses.
BuffersReturn == Started /\ mBufferCnt = NB_BUFFER => \A b \in Buffers :
  \/ b \in {held, slot}
  \/ \E i \in 1 .. Len(driver) : driver[i] = b
  \/ \E i \in 1 .. Len(mQueueBuffer) : mQueueBuffer[i] = b

\* "readyToRun must be called before stopDeliveringFrames": a device that is not
\* started has no capture thread that was missed, as long as no picture is taken.
NoPicture == pictures = 0 /\ snapshots = 0
WorkerStops == NoPicture /\ Running => Started \/ exitPending

\* Every call of the camera service returns, as long as no picture is taken.
Idle == pc["Api"] = "top" /\ todo = <<>>
CallReturns == []<>(Idle \/ ~NoPicture)

\* A first picture whose exposure is started is taken, unless the frame does not
\* come in time or the next call comes, and waits, while it is still due.
Undisturbed == pictures <= 1 /\ snapshots = 0 /\ ~late
PictureTaken == Undisturbed /\ (At("burst") \/ At("burstOver")) ~>
                  \/ ~mTakingPicture \/ ~Undisturbed \/ pc["Api"] = "photoWait"
=============================================================================
