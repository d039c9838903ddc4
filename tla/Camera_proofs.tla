--------------------------- MODULE Camera_proofs ---------------------------
(***************************************************************************)
(* Proofs about the camera HAL.  For any number of buffers of a preview    *)
(* and of calls, no buffer of a preview is lost, and as long as no picture *)
(* is taken no capture thread outlives the device it captures from.        *)
(***************************************************************************)
EXTENDS Camera, SequenceTheorems, TLAPS

StepNames == {"photo", "running", "thread", "stopDevice", "connect",
              "startDevice", "deliver", "taking", "snap", "burst",
              "burstOver", "disconnect"}
WorkerLabels == {None, "starting", "capture", "fill", "photo", "queue",
                 "announce", "record"}

ApiLabels == {"top", "photoWait", "photoWoken", "runWait", "join"}
PreviewLabels == {"top", "idle", "wait", "woken", "held", "show"}
PictureLabels == {"top", "photoWait", "photoWoken", "photo", "running"}

\* What the variables hold, and where each thread can be.
Data ==
  /\ mState \in {"ECDS_INITIALIZED", "ECDS_CONNECTED", "ECDS_STARTED"}
  /\ mBufferCnt \in 1 .. NB_BUFFER
  /\ driver \in Seq(Buffers)
  /\ mV4l2buf \in [Buffers -> [index : Buffers, sized : BOOLEAN]]
  /\ mQueueBuffer \in Seq(Buffers)
  /\ todo \in Seq(StepNames)
  /\ pictures \in Nat /\ snapshots \in Nat
Labels ==
  /\ pc \in [Threads -> WorkerLabels \cup ApiLabels \cup PreviewLabels
                          \cup PictureLabels]
  /\ pc["Api"] \in ApiLabels /\ pc["Worker"] \in WorkerLabels
  /\ pc["Preview"] \in PreviewLabels /\ pc["Picture"] \in PictureLabels
Hands ==
  /\ pc["Worker"] \in {"fill", "photo", "queue"} => held \in Buffers
  /\ pc["Preview"] \in {"held", "show"} => slot \in Buffers
Typed == Data /\ Labels /\ Hands

\* What precedes a step in every call of the camera service.
Ordered(s) == \A i \in 2 .. Len(s) :
  /\ s[i] \in {"taking", "disconnect"} => s[i - 1] = "stopDevice"
  /\ s[i] = "stopDevice" => s[i - 1] = "thread"
  /\ s[i] = "thread" => s[i - 1] = "running"
  /\ s[i] = "startDevice" => s[i - 1] \in {"stopDevice", "connect", "taking"}
  /\ s[i] = "deliver" => s[i - 1] = "startDevice"
  /\ s[i] # "connect"

\* The device is not started when a call comes to certain steps, ...
Next1(step) == todo # <<>> /\ todo[1] = step
Stopped ==
  /\ \A step \in {"taking", "startDevice", "connect", "disconnect"} :
       Next1(step) => ~Started
  /\ Started /\ mBufferCnt = NB_BUFFER => ~mTakingPicture

\* ... the lock of the device and the request to exit belong to one step, and a
\* capture thread that has begun has its pipe.
Control ==
  /\ pc["Preview"] = "show" => objectLock = "Preview"
  /\ exitPending => pc["Api"] = "join"
  /\ pc["Api"] = "join" => exitPending /\ ~Next1("thread")
  /\ pc["Worker"] \notin {None, "starting"} => control

\* Where each buffer of a preview is, and by which index it goes back.
InDriver(b) == \E i \in 1 .. Len(driver) : driver[i] = b
InQueue(b) == \E i \in 1 .. Len(mQueueBuffer) : mQueueBuffer[i] = b
Known(b) == mV4l2buf[b].index = b
Covered(b) ==
  \/ InDriver(b)
  \/ b = held /\ pc["Worker"] = "fill"
  \/ b = held /\ pc["Worker"] = "queue" /\ Known(b)
  \/ InQueue(b) /\ Known(b)
  \/ b = slot /\ pc["Preview"] \in {"held", "show"} /\ Known(b)
Returning == Started /\ mBufferCnt = NB_BUFFER => \A b \in Buffers : Covered(b)

\* The steps of a picture.
Photographic == {"taking", "snap", "burst", "burstOver"}
Plain(s) == \A i \in 1 .. Len(s) : s[i] \notin Photographic

\* As long as no picture is taken: the steps of a picture are not taken, ...
Unshown == pc["Preview"] # "show" /\ \A b \in Buffers : ~mV4l2buf[b].sized
Quiet == NoPicture =>
  /\ ~mTakingPicture /\ ~mTakingPictureRecord /\ ~mOneBurst
  /\ pc["Picture"] = "photoWait" /\ pc["Worker"] # "photo"
  /\ pc["Api"] \notin {"photoWait", "photoWoken"}
  /\ Plain(todo)

\* ... nothing is shown before the capture thread is ready, which is known to
\* run when it is stopped, and which has ended when the device is.
Watched == NoPicture =>
  /\ ~Started => \A b \in Buffers : ~mV4l2buf[b].sized
  /\ pc["Worker"] = "starting" => ~mThreadRunning /\ Unshown
  /\ Next1("thread") /\ pc["Api"] = "top" => mThreadRunning
  /\ Next1("stopDevice") /\ pc["Api"] # "join" => ~Running
  /\ Next1("deliver") => Started /\ ~Running /\ Unshown

IInv == /\ Typed /\ Ordered(todo) /\ Stopped /\ Control
        /\ Returning /\ Quiet /\ Watched /\ WorkerStops
-----------------------------------------------------------------------------
\* What is assumed of the constants.
LEMMA ConstantFacts ==
  /\ NB_BUFFER \in Nat \ {0, 1} /\ MaxCalls \in Nat
  /\ 0 \in Buffers /\ NoBuffer \notin Buffers
BY BoundsAssumption DEF Buffers, NoBuffer

\* What a plan of steps promises to whoever begins it with the device started
\* or not.
Fits(s, started) ==
  /\ s \in Seq(StepNames) /\ Ordered(s)
  /\ s # <<>> => s[1] \notin {"thread", "stopDevice", "deliver"}
  /\ s # <<>> /\ started =>
       s[1] \notin {"taking", "startDevice", "connect", "disconnect"}

\* One plan after another.
LEMMA Chain ==
  ASSUME NEW s \in Seq(StepNames), NEW t \in Seq(StepNames),
         Ordered(s), Ordered(t), s # <<>>,
         t # <<>> =>
           /\ t[1] \notin {"stopDevice", "thread", "deliver", "connect"}
           /\ s[Len(s)] = "stopDevice"
  PROVE  s \o t \in Seq(StepNames) /\ Ordered(s \o t) /\ (s \o t)[1] = s[1]
<1>1. /\ s \o t \in Seq(StepNames) /\ Len(s \o t) = Len(s) + Len(t)
      /\ Len(s) \in Nat /\ Len(t) \in Nat /\ Len(s) > 0
      /\ \A i \in 1 .. Len(s) : (s \o t)[i] = s[i]
      /\ \A i \in Len(s) + 1 .. Len(s) + Len(t) : (s \o t)[i] = t[i - Len(s)]
  OBVIOUS
<1>2. ASSUME NEW i \in 2 .. Len(s \o t), i <= Len(s)
      PROVE  /\ (s \o t)[i] = s[i] /\ (s \o t)[i - 1] = s[i - 1]
             /\ i \in 2 .. Len(s)
  BY <1>1, <1>2
<1>3. ASSUME NEW i \in 2 .. Len(s \o t), i = Len(s) + 1
      PROVE  (s \o t)[i] = t[1] /\ (s \o t)[i - 1] = "stopDevice" /\ t # <<>>
  BY <1>1, <1>3
<1>4. ASSUME NEW i \in 2 .. Len(s \o t), i > Len(s) + 1
      PROVE  /\ (s \o t)[i] = t[i - Len(s)] /\ i - Len(s) \in 2 .. Len(t)
             /\ (s \o t)[i - 1] = t[(i - Len(s)) - 1]
  BY <1>1, <1>4
<1>5. Ordered(s \o t)
  <2> SUFFICES ASSUME NEW i \in 2 .. Len(s \o t)
               PROVE  LET u == s \o t IN
                 /\ u[i] \in {"taking", "disconnect"} => u[i - 1] = "stopDevice"
                 /\ u[i] = "stopDevice" => u[i - 1] = "thread"
                 /\ u[i] = "thread" => u[i - 1] = "running"
                 /\ u[i] = "startDevice" =>
                      u[i - 1] \in {"stopDevice", "connect", "taking"}
                 /\ u[i] = "deliver" => u[i - 1] = "startDevice"
                 /\ u[i] # "connect"
    BY DEF Ordered
  <2>1. CASE i <= Len(s)
    BY <1>2, <2>1 DEF Ordered
  <2>2. CASE i = Len(s) + 1
    BY <1>3, <2>2
  <2>3. CASE i > Len(s) + 1
    BY <1>4, <2>3 DEF Ordered
  <2>. QED BY <1>1, <2>1, <2>2, <2>3
<1>. QED BY <1>1, <1>5

\* So it is for the steps of a picture: none in either, none in both.
LEMMA ChainPlain ==
  ASSUME NEW s \in Seq(StepNames), NEW t \in Seq(StepNames), Plain(s), Plain(t)
  PROVE  Plain(s \o t)
<1> SUFFICES ASSUME NEW i \in 1 .. Len(s \o t)
             PROVE  (s \o t)[i] \notin Photographic
  BY DEF Plain
<1>1. CASE i <= Len(s)
  BY <1>1 DEF Plain
<1>2. CASE i > Len(s)
  <2>1. (s \o t)[i] = t[i - Len(s)] /\ i - Len(s) \in 1 .. Len(t)
    BY <1>2
  <2>. QED BY <2>1 DEF Plain
<1>. QED BY <1>1, <1>2

\* The parts that calls are made of.
LEMMA Parts ==
  /\ \A s \in {StopDelivery, <<"startDevice", "deliver">>, <<"disconnect">>,
               <<"connect", "startDevice", "deliver">>, <<"snap">>, <<>>,
               <<"taking", "startDevice", "burst">>,
               <<"taking", "startDevice", "burstOver">>} :
       s \in Seq(StepNames) /\ Ordered(s)
  /\ \A s \in {StopDelivery, <<"startDevice", "deliver">>, <<"disconnect">>,
               <<"connect", "startDevice", "deliver">>, <<>>} : Plain(s)
  /\ StopDelivery # <<>> /\ StopDelivery[Len(StopDelivery)] = "stopDevice"
  /\ StopDelivery[1] = "photo"
<1> USE DEF StopDelivery
<1>1. \A s \in {StopDelivery, <<"startDevice", "deliver">>, <<"disconnect">>,
               <<"connect", "startDevice", "deliver">>, <<"snap">>, <<>>,
               <<"taking", "startDevice", "burst">>,
               <<"taking", "startDevice", "burstOver">>} :
       s \in Seq(StepNames)
  <2>1. <<"photo", "running", "thread", "stopDevice">> \in Seq(StepNames)
    BY DEF StepNames
  <2>2. <<"startDevice", "deliver">> \in Seq(StepNames)
    BY DEF StepNames
  <2>3. <<"disconnect">> \in Seq(StepNames)
    BY DEF StepNames
  <2>4. <<"connect", "startDevice", "deliver">> \in Seq(StepNames)
    BY DEF StepNames
  <2>5. <<"snap">> \in Seq(StepNames)
    BY DEF StepNames
  <2>6. <<>> \in Seq(StepNames)
    BY DEF StepNames
  <2>7. <<"taking", "startDevice", "burst">> \in Seq(StepNames)
    BY DEF StepNames
  <2>8. <<"taking", "startDevice", "burstOver">> \in Seq(StepNames)
    BY DEF StepNames
  <2>. QED BY <2>1, <2>2, <2>3, <2>4, <2>5, <2>6, <2>7, <2>8
<1>2. /\ Ordered(StopDelivery) /\ Ordered(<<"startDevice", "deliver">>)
      /\ Ordered(<<"disconnect">>) /\ Ordered(<<"snap">>) /\ Ordered(<<>>)
      /\ Ordered(<<"connect", "startDevice", "deliver">>)
      /\ Ordered(<<"taking", "startDevice", "burst">>)
      /\ Ordered(<<"taking", "startDevice", "burstOver">>)
  BY DEF Ordered
<1>3. \A s \in {StopDelivery, <<"startDevice", "deliver">>, <<"disconnect">>,
               <<"connect", "startDevice", "deliver">>, <<>>} : Plain(s)
  BY DEF Plain, Photographic
<1>. QED BY <1>1, <1>2, <1>3

\* What the calls plan fits the state they are made in.
LEMMA PlansFit ==
  ASSUME Typed
  PROVE  /\ Fits(StopIfStarted, Started) /\ Plain(StopIfStarted)
         /\ Fits(StartPreviewSteps, Started) /\ Plain(StartPreviewSteps)
         /\ \A r \in {"burst", "burstOver"} :
              Fits(StopIfStarted \o <<"taking", "startDevice", r>>, Started)
         /\ mState # "ECDS_INITIALIZED" =>
              /\ Fits(StopIfStarted \o <<"disconnect">>, Started)
              /\ Plain(StopIfStarted \o <<"disconnect">>)
         /\ Fits(<<"snap">>, Started) /\ Fits(<<>>, Started) /\ Plain(<<>>)
<1> DEFINE S == StopDelivery
           Rests == {<<"startDevice", "deliver">>, <<"disconnect">>,
                     <<"taking", "startDevice", "burst">>,
                     <<"taking", "startDevice", "burstOver">>}
<1>1. \A t \in Rests : /\ t \in Seq(StepNames) /\ Ordered(t) /\ t # <<>>
                       /\ t[1] \in {"startDevice", "disconnect", "taking"}
  <2>1. \A t \in Rests : t \in Seq(StepNames) /\ Ordered(t)
    BY Parts
  <2>2. \A t \in Rests : t # <<>>
    OBVIOUS
  <2>3. \A t \in Rests : t[1] \in {"startDevice", "disconnect", "taking"}
    OBVIOUS
  <2>. QED BY <2>1, <2>2, <2>3
<1>2. Fits(S, Started) /\ Plain(S) /\ \A t \in Rests : Fits(S \o t, Started)
  <2>1. Fits(S, Started) /\ Plain(S)
    BY Parts DEF Fits
  <2>2. ASSUME NEW t \in Rests PROVE Fits(S \o t, Started)
    <3>1. /\ S \in Seq(StepNames) /\ Ordered(S) /\ S # <<>>
          /\ S[Len(S)] = "stopDevice" /\ S[1] = "photo"
      BY Parts
    <3>2. /\ t \in Seq(StepNames) /\ Ordered(t) /\ t # <<>>
          /\ t[1] \notin {"stopDevice", "thread", "deliver", "connect"}
      BY <1>1
    <3> HIDE DEF S, Rests
    <3>3. S \o t \in Seq(StepNames) /\ Ordered(S \o t) /\ (S \o t)[1] = "photo"
      BY <3>1, <3>2, Chain
    <3>. QED BY <3>3 DEF Fits
  <2>. QED BY <2>1, <2>2
<1>3. ~Started => \A t \in Rests : Fits(<<>> \o t, Started) /\ <<>> \o t = t
  <2> SUFFICES ASSUME NEW t \in Rests, ~Started
               PROVE  Fits(t, Started) /\ <<>> \o t = t
    OBVIOUS
  <2> HIDE DEF Rests
  <2>1. Fits(t, Started)
    BY <1>1 DEF Fits
  <2>. QED BY <1>1, <2>1, ConcatEmptySeq
<1>4. /\ ~Started => Fits(<<"connect", "startDevice", "deliver">>, Started)
      /\ Fits(<<"snap">>, Started) /\ Fits(<<>>, Started) /\ Plain(<<>>)
  BY Parts DEF Fits
<1>5. \A r \in {"burst", "burstOver"} : <<"taking", "startDevice", r>> \in Rests
  OBVIOUS
<1>6. Begin = IF mState = "ECDS_INITIALIZED"
              THEN <<"connect", "startDevice", "deliver">>
              ELSE <<"startDevice", "deliver">>
  <2>1. <<"connect">> \o <<"startDevice", "deliver">> =
          <<"connect", "startDevice", "deliver">>
    <3> DEFINE T == {"connect", "startDevice", "deliver"}
    <3>1. <<"connect">> \in Seq(T) /\ <<"startDevice", "deliver">> \in Seq(T)
      OBVIOUS
    <3>2. <<"connect", "startDevice", "deliver">> \in Seq(T)
      OBVIOUS
    <3>3. /\ Len(<<"connect">>) = 1 /\ Len(<<"startDevice", "deliver">>) = 2
          /\ Len(<<"connect", "startDevice", "deliver">>) = 3
      OBVIOUS
    <3> DEFINE u == <<"connect">>
               v == <<"startDevice", "deliver">>
               w == <<"connect", "startDevice", "deliver">>
    <3>4. /\ u[1] = "connect" /\ v[1] = "startDevice" /\ v[2] = "deliver"
          /\ w[1] = "connect" /\ w[2] = "startDevice" /\ w[3] = "deliver"
      OBVIOUS
    <3> HIDE DEF T, u, v, w
    <3>5. /\ u \o v \in Seq(T) /\ Len(u \o v) = 3
          /\ \A i \in 1 .. 3 : (u \o v)[i] = IF i <= 1 THEN u[i] ELSE v[i - 1]
      BY <3>1, <3>3, ConcatProperties DEF u, v
    <3>6. \A i \in 1 .. 3 : (u \o v)[i] = w[i]
      BY <3>4, <3>5
    <3>7. w \in Seq(T) /\ Len(w) = 3
      BY <3>2, <3>3 DEF w
    <3>8. u \o v = w
      BY <3>5, <3>6, <3>7, SeqEqual
    <3>. QED BY <3>8 DEF u, v, w
  <2>2. <<>> \o <<"startDevice", "deliver">> = <<"startDevice", "deliver">>
    OBVIOUS
  <2>. QED BY <2>1, <2>2 DEF Begin
<1>7. Started => mState # "ECDS_INITIALIZED"
  BY DEF Started
<1>8. /\ Plain(S \o <<"startDevice", "deliver">>)
      /\ Plain(S \o <<"disconnect">>)
  BY Parts, ChainPlain
<1> HIDE DEF S
<1>9. Fits(StartPreviewSteps, Started) /\ Plain(StartPreviewSteps)
  <2>1. CASE Started
    BY <1>2, <1>6, <1>7, <1>8, <2>1 DEF StartPreviewSteps, StopIfStarted, S
  <2>2. CASE ~Started
    <3>1. <<>> \o <<"connect", "startDevice", "deliver">> =
            <<"connect", "startDevice", "deliver">>
      OBVIOUS
    <3>. QED BY <1>3, <1>4, <1>6, <2>2, <3>1, Parts
         DEF StartPreviewSteps, StopIfStarted
  <2>. QED BY <2>1, <2>2
<1>10. /\ Fits(StopIfStarted, Started) /\ Plain(StopIfStarted)
       /\ \A t \in Rests : Fits(StopIfStarted \o t, Started)
       /\ Plain(StopIfStarted \o <<"disconnect">>)
  <2>1. CASE Started
    BY <1>2, <1>8, <2>1 DEF StopIfStarted, S
  <2>2. CASE ~Started
    BY <1>3, <1>4, <2>2, Parts DEF StopIfStarted
  <2>. QED BY <2>1, <2>2
<1>. QED BY <1>4, <1>5, <1>9, <1>10

\* The plan that is left once its first step is done.
LEMMA RestFits ==
  ASSUME todo \in Seq(StepNames), Ordered(todo), todo # <<>>, Done
  PROVE  /\ todo' \in Seq(StepNames) /\ Ordered(todo')
         /\ Plain(todo) => Plain(todo')
         /\ todo' # <<>> =>
              LET step == todo'[1] IN
              /\ step \in {"taking", "disconnect"} => todo[1] = "stopDevice"
              /\ step = "stopDevice" => todo[1] = "thread"
              /\ step = "thread" => todo[1] = "running"
              /\ step = "startDevice" =>
                   todo[1] \in {"stopDevice", "connect", "taking"}
              /\ step = "deliver" => todo[1] = "startDevice"
              /\ step # "connect"
<1>1. /\ todo' \in Seq(StepNames) /\ Len(todo) \in Nat
      /\ Len(todo') = Len(todo) - 1
      /\ \A i \in 1 .. Len(todo') : todo'[i] = todo[i + 1]
  BY HeadTailProperties DEF Done
<1>2. \A i \in 2 .. Len(todo') : /\ i + 1 \in 2 .. Len(todo)
                                 /\ todo'[i] = todo[i + 1]
                                 /\ todo'[i - 1] = todo[(i + 1) - 1]
  BY <1>1
<1>3. Ordered(todo')
  BY <1>2 DEF Ordered
<1>4. Plain(todo) => Plain(todo')
  BY <1>1 DEF Plain
<1>5. todo' # <<>> => /\ 2 \in 2 .. Len(todo) /\ todo'[1] = todo[2]
                     /\ todo[2 - 1] = todo[1]
  BY <1>1
<1>. QED BY <1>1, <1>3, <1>4, <1>5 DEF Ordered

\* What a call still does when its capture thread cannot be started.
LEMMA UndoFits ==
  ASSUME Typed
  PROVE  /\ Undo("deliver") = <<"stopDevice">> /\ Undo("burst") = <<>>
         /\ Undo("burstOver") = StartPreviewSteps
         /\ <<"stopDevice">> \in Seq(StepNames) /\ Ordered(<<"stopDevice">>)
BY DEF Undo, StepNames, Ordered

\* What every call of the camera service does.
LEMMA CallsFit ==
  ASSUME Typed, Calls
  PROVE  /\ pc["Api"] = "top" /\ todo = <<>> /\ Fits(todo', Started)
         /\ UNCHANGED <<deviceVars, mQueueBuffer, threadVars, lockVars, pc,
                        handVars, mTakingPicture, mTakingPictureRecord,
                        mThreadRunning>>
         /\ pictures' \in Nat /\ snapshots' \in Nat
         /\ NoPicture' => NoPicture /\ Plain(todo')
<1> DEFINE Same == UNCHANGED <<deviceVars, mQueueBuffer, threadVars, lockVars,
                              pc, handVars, mTakingPicture,
                              mTakingPictureRecord, mThreadRunning>>
<1>1. ASSUME NEW steps, Call(steps), Fits(steps, Started)
      PROVE  pc["Api"] = "top" /\ todo = <<>> /\ Fits(todo', Started) /\ Same
  BY <1>1 DEF Call
<1>2. pictures \in Nat /\ snapshots \in Nat
  BY DEF Typed, Data
<1>3. ASSUME NEW steps, Call(steps), Fits(steps, Started), Plain(steps),
             UNCHANGED <<pictures, snapshots>>
      PROVE  /\ pc["Api"] = "top" /\ todo = <<>> /\ Fits(todo', Started) /\ Same
             /\ pictures' \in Nat /\ snapshots' \in Nat
             /\ NoPicture' => NoPicture /\ Plain(todo')
  <2>1. todo' = steps
    BY <1>3 DEF Call
  <2>. QED BY <1>1, <1>2, <1>3, <2>1 DEF NoPicture
<1> HIDE DEF Same
<1>4. CASE StartPreview
  BY <1>3, <1>4, PlansFit DEF StartPreview, Same
<1>5. CASE StopPreview
  <2>1. /\ Fits(StopPreviewSteps, Started) /\ Plain(StopPreviewSteps)
        /\ Call(StopPreviewSteps) /\ UNCHANGED <<pictures, snapshots>>
    BY <1>5, PlansFit DEF StopPreview, StopPreviewSteps
  <2>. QED BY <1>3, <2>1 DEF Same
<1>6. CASE TakePicture
  <2>1. CASE /\ Call(<<"snap">>)
             /\ snapshots' = snapshots + 1 /\ pictures' = pictures
    <3>1. ~NoPicture'
      BY <1>2, <2>1 DEF NoPicture
    <3>. QED BY <1>1, <1>2, <2>1, <3>1, PlansFit DEF Same
  <2>2. CASE \E r \in {"burst", "burstOver"} :
               Call(StopIfStarted \o <<"taking", "startDevice", r>>)
             /\ pictures' = pictures + 1 /\ snapshots' = snapshots
    <3>1. ~NoPicture'
      BY <1>2, <2>2 DEF NoPicture
    <3>. QED BY <1>1, <1>2, <2>2, <3>1, PlansFit DEF Same
  <2>3. (IF mPreviewEnabled THEN "burstOver" ELSE "burst")
          \in {"burst", "burstOver"}
    OBVIOUS
  <2>. QED BY <1>6, <2>1, <2>2, <2>3 DEF TakePicture
<1>7. CASE StartRecording
  <2>1. Call(StartPreviewSteps) /\ UNCHANGED <<pictures, snapshots>>
    BY <1>7 DEF StartRecording, StartPreviewSteps
  <2>. QED BY <1>3, <2>1, PlansFit DEF Same
<1>8. CASE SetParameters
  BY <1>3, <1>8, PlansFit DEF SetParameters, Same
<1>9. CASE CloseCamera
  <2>1. /\ Call(StopIfStarted \o <<"disconnect">>)
        /\ mState # "ECDS_INITIALIZED" /\ UNCHANGED <<pictures, snapshots>>
    BY <1>9 DEF CloseCamera
  <2>. QED BY <1>3, <2>1, PlansFit DEF Same
<1>. QED BY <1>4, <1>5, <1>6, <1>7, <1>8, <1>9 DEF Calls

\* What a call does whose capture thread is to start.
LEMMA DeliverFits ==
  ASSUME Typed, Ordered(todo), StartDelivering
  PROVE  /\ pc["Api"] = "top" /\ todo # <<>>
         /\ todo[1] \in {"deliver", "burst", "burstOver"}
         /\ todo' \in Seq(StepNames) /\ Ordered(todo')
         /\ Running /\ todo' # <<>> /\ todo[1] = "deliver" =>
              todo'[1] = "stopDevice"
         /\ Running /\ todo' # <<>> /\ todo[1] # "deliver" =>
              /\ todo'[1] \notin {"thread", "stopDevice", "deliver"}
              /\ Started => todo'[1] \notin
                   {"taking", "startDevice", "connect", "disconnect"}
         /\ ~Running => Done
         /\ pc' = [pc EXCEPT !["Worker"] = IF Running THEN @ ELSE "starting"]
         /\ mThreadRunning' = FALSE /\ exitPending' = (exitPending /\ Running)
         /\ mOneBurst' = (todo[1] # "deliver")
         /\ UNCHANGED <<deviceVars, mQueueBuffer, mTakingPicture,
                        mTakingPictureRecord, control, lockVars, handVars,
                        boundVars>>
<1>1. PICK step \in {"deliver", "burst", "burstOver"} :
        Deliver(step, step # "deliver")
  BY DEF StartDelivering
<1>2. /\ pc["Api"] = "top" /\ todo # <<>> /\ todo[1] = step
      /\ todo' = IF Running THEN Undo(step) ELSE Tail(todo)
  BY <1>1 DEF Deliver, At, Typed, Data
<1>3. CASE Running
  <2>1. CASE step = "deliver"
    <3>1. todo' = <<"stopDevice">>
      BY <1>2, <1>3, <2>1, UndoFits
    <3>2. todo' \in Seq(StepNames) /\ Ordered(todo')
      BY <3>1, UndoFits
    <3>3. todo'[1] = "stopDevice"
      BY <3>1
    <3>4. todo[1] = "deliver"
      BY <1>2, <2>1
    <3>. QED BY <1>1, <1>2, <1>3, <2>1, <3>2, <3>3, <3>4 DEF Deliver
  <2>2. CASE step # "deliver"
    <3>1. Fits(todo', Started)
      BY <1>1, <1>2, <1>3, <2>2, UndoFits, PlansFit
    <3>. QED BY <1>1, <1>2, <1>3, <2>2, <3>1 DEF Deliver, Fits
  <2>. QED BY <2>1, <2>2
<1>4. CASE ~Running
  <2>1. Done
    BY <1>2, <1>4 DEF Done
  <2>2. todo' \in Seq(StepNames) /\ Ordered(todo')
    BY <1>2, <2>1, RestFits DEF Typed, Data
  <2>. QED BY <1>1, <1>2, <1>4, <2>1, <2>2 DEF Deliver
<1>. QED BY <1>3, <1>4

\* VIDIOC_QBUF keeps what the driver has, and adds the buffer it is given.
LEMMA QbufKeeps ==
  ASSUME driver \in Seq(Buffers), NEW b \in Buffers, Qbuf(b)
  PROVE  /\ driver' \in Seq(Buffers)
         /\ \A x \in Buffers : InDriver(x) => InDriver(x)'
         /\ Started /\ b < mBufferCnt => InDriver(b)'
<1>1. CASE driver' = driver
  BY <1>1 DEF Qbuf, InDriver
<1>2. CASE driver' = Append(driver, b)
  <2>1. /\ driver' \in Seq(Buffers) /\ Len(driver') = Len(driver) + 1
        /\ Len(driver) \in Nat /\ driver'[Len(driver) + 1] = b
        /\ \A i \in 1 .. Len(driver) : driver'[i] = driver[i]
    BY <1>2, AppendProperties
  <2>. QED BY <2>1 DEF InDriver
<1>. QED BY <1>1, <1>2 DEF Qbuf

\* Where each thread can be.
LEMMA LabelsKept ==
  IInv /\ [Next]_vars => (Labels /\ Hands)'
<1> SUFFICES ASSUME IInv, [Next]_vars PROVE (Labels /\ Hands)'
  OBVIOUS
<1> USE ConstantFacts
    DEF IInv, Typed, Labels, Hands, Data, Threads, ApiLabels, WorkerLabels,
        PreviewLabels, PictureLabels, Running, None, deviceVars, handVars,
        boundVars, threadVars, lockVars, flagVars
<1>1. CASE Calls
  BY <1>1, CallsFit
<1>2. CASE StopPhoto
  BY <1>2 DEF StopPhoto, At, Done, DeviceAlone, Goto
<1>3. CASE StopPhotoWoken
  BY <1>3 DEF StopPhotoWoken, DeviceAlone, Goto
<1>4. CASE StopRunning
  BY <1>4 DEF StopRunning, At, Done, TooEarly, DeviceAlone, Goto
<1>5. CASE StopThread
  BY <1>5 DEF StopThread, At, Done, DeviceAlone, Goto
<1>6. CASE Join
  BY <1>6 DEF Join, DeviceAlone, Goto
<1>7. CASE StopDevice
  BY <1>7 DEF StopDevice, Step, At, Done
<1>8. CASE StartDevice
  BY <1>8 DEF StartDevice, Step, At, Done
<1>9. CASE Connect
  BY <1>9 DEF Connect, Step, At, Done
<1>10. CASE SetTaking
  BY <1>10 DEF SetTaking, Step, At, Done
<1>11. CASE StartDelivering
  <2>1. /\ pc' = [pc EXCEPT !["Worker"] = IF Running THEN @ ELSE "starting"]
        /\ held' = held /\ slot' = slot
    BY <1>11, DeliverFits
  <2>. QED BY <2>1
<1>12. CASE WorkerReady
  BY <1>12 DEF WorkerReady, ApiAlone, Goto
<1>13. CASE WorkerDequeue
  BY <1>13, HeadTailProperties DEF WorkerDequeue, ApiAlone, Goto
<1>14. CASE WorkerFill
  BY <1>14 DEF WorkerFill, ApiAlone, Goto
<1>15. CASE WorkerPhoto
  BY <1>15 DEF WorkerPhoto, ApiAlone, Goto, SignalPhoto
<1>16. CASE WorkerQueue
  BY <1>16 DEF WorkerQueue, ApiAlone, Goto, Refused, QueueFull, Qbuf
<1>17. CASE WorkerAnnounce
  BY <1>17 DEF WorkerAnnounce, ApiAlone, Goto
<1>18. CASE WorkerRecord
  BY <1>18 DEF WorkerRecord, ApiAlone, Goto, SignalPhoto, Again
<1>19. CASE WorkerIdles
  BY <1>19 DEF WorkerIdles, ApiAlone, Goto, NoFrame, Again
<1>20. CASE WorkerTimeout
  BY <1>20 DEF WorkerTimeout, ApiAlone, Goto, NoFrame, Again
<1>21. CASE PreviewDequeue
  BY <1>21, HeadTailProperties DEF PreviewDequeue, WorkerAlone, ApiAlone, Goto
<1>22. CASE PreviewWait
  BY <1>22 DEF PreviewWait, WorkerAlone, ApiAlone, Goto
<1>23. CASE PreviewWoken
  BY <1>23 DEF PreviewWoken, WorkerAlone, ApiAlone, Goto
<1>24. CASE PreviewLock
  BY <1>24 DEF PreviewLock, WorkerAlone, ApiAlone, Goto, Mismatch, Qbuf
<1>25. CASE PreviewShow
  BY <1>25 DEF PreviewShow, WorkerAlone, ApiAlone, Goto, Qbuf, SetThreadRunning
<1>26. CASE PictureWait
  BY <1>26 DEF PictureWait, PreviewAlone, ApiAlone, Goto
<1>27. CASE PictureWoken
  BY <1>27 DEF PictureWoken, PreviewAlone, ApiAlone, Goto
<1>28. CASE Photograph
  BY <1>28 DEF Photograph, PreviewAlone, ApiAlone, Goto
<1>29. CASE PictureRunning
  BY <1>29 DEF PictureRunning, PreviewAlone, ApiAlone, Goto, SetThreadRunning
<1>30. CASE UNCHANGED vars
  BY <1>30 DEF vars
<1>. QED BY <1>1, <1>2, <1>3, <1>4, <1>5, <1>6, <1>7, <1>8, <1>9, <1>10, <1>11,
     <1>12, <1>13, <1>14, <1>15, <1>16, <1>17, <1>18, <1>19, <1>20, <1>21,
     <1>22, <1>23, <1>24, <1>25, <1>26, <1>27, <1>28, <1>29, <1>30 DEF Next,
     ApiStep, WorkerStep, PreviewStep, PictureStep

\* What the variables hold.
LEMMA DataKept ==
  IInv /\ [Next]_vars => Data'
<1> SUFFICES ASSUME IInv, [Next]_vars PROVE Data'
  OBVIOUS
<1> USE ConstantFacts
    DEF IInv, Typed, Data, Started, deviceVars, flagVars, windowVars,
        threadVars, lockVars, handVars, boundVars
<1>1. CASE Calls
  BY <1>1, CallsFit DEF Fits
<1>2. CASE StopPhoto
  BY <1>2, RestFits DEF StopPhoto, At, Done, DeviceAlone, Goto
<1>3. CASE StopPhotoWoken
  BY <1>3, RestFits DEF StopPhotoWoken, DeviceAlone, Goto
<1>4. CASE StopRunning
  BY <1>4, RestFits DEF StopRunning, At, Done, TooEarly, DeviceAlone, Goto
<1>5. CASE StopThread
  BY <1>5, RestFits DEF StopThread, At, Done, DeviceAlone, Goto
<1>6. CASE Join
  BY <1>6, RestFits DEF Join, DeviceAlone, Goto
<1>7. CASE StopDevice
  <2>1. [b \in Buffers |-> Empty]
          \in [Buffers -> [index : Buffers, sized : BOOLEAN]]
    BY DEF Empty
  <2>2. <<>> \in Seq(Buffers)
    OBVIOUS
  <2>3. todo' \in Seq(StepNames)
    BY <1>7, RestFits DEF StopDevice, Step, At
  <2>. QED BY <1>7, <2>1, <2>2, <2>3 DEF StopDevice, Step
<1>8. CASE StartDevice
  <2>1. mBufferCnt' \in 1 .. NB_BUFFER
    BY <1>8 DEF StartDevice
  <2>2. driver' \in Seq(Buffers)
    BY <1>8, <2>1 DEF StartDevice, Buffers
  <2>3. todo' \in Seq(StepNames)
    BY <1>8, RestFits DEF StartDevice, Step, At
  <2>. QED BY <1>8, <2>1, <2>2, <2>3 DEF StartDevice, Step
<1>9. CASE Connect
  BY <1>9, RestFits DEF Connect, Step, At, Done
<1>10. CASE SetTaking
  BY <1>10, RestFits DEF SetTaking, Step, At, Done
<1>11. CASE StartDelivering
  BY <1>11, DeliverFits
<1>12. CASE WorkerReady
  BY <1>12 DEF WorkerReady, ApiAlone, Goto
<1>13. CASE WorkerDequeue
  BY <1>13, HeadTailProperties DEF WorkerDequeue, ApiAlone, Goto
<1>14. CASE WorkerFill
  BY <1>14 DEF WorkerFill, ApiAlone, Goto
<1>15. CASE WorkerPhoto
  BY <1>15 DEF WorkerPhoto, ApiAlone, Goto, SignalPhoto
<1>16. CASE WorkerQueue
  <2>1. held \in Buffers
    BY <1>16 DEF WorkerQueue, Hands
  <2>2. CASE QueueFull
    <3>1. driver' \in Seq(Buffers)
      BY <1>16, <2>1, <2>2, QbufKeeps DEF WorkerQueue, Refused
    <3>. QED BY <1>16, <2>2, <3>1 DEF WorkerQueue, ApiAlone
  <2>3. CASE ~QueueFull
    <3>1. mQueueBuffer' = Append(mQueueBuffer, held) /\ driver' = driver
      BY <1>16, <2>3 DEF WorkerQueue
    <3>2. mQueueBuffer' \in Seq(Buffers)
      BY <2>1, <3>1, AppendProperties
    <3>. QED BY <1>16, <3>1, <3>2 DEF WorkerQueue, ApiAlone
  <2>. QED BY <2>2, <2>3
<1>17. CASE WorkerAnnounce
  BY <1>17 DEF WorkerAnnounce, ApiAlone, Goto
<1>18. CASE WorkerRecord
  BY <1>18 DEF WorkerRecord, ApiAlone, Goto, SignalPhoto, Again
<1>19. CASE WorkerIdles
  BY <1>19 DEF WorkerIdles, ApiAlone, Goto, NoFrame, Again
<1>20. CASE WorkerTimeout
  BY <1>20 DEF WorkerTimeout, ApiAlone, Goto, NoFrame, Again
<1>21. CASE PreviewDequeue
  <2>2. CASE mQueueBuffer = <<>>
    BY <1>21, <2>2 DEF PreviewDequeue, WorkerAlone, ApiAlone
  <2>3. CASE mQueueBuffer # <<>>
    <3>1. mQueueBuffer' = Tail(mQueueBuffer)
      BY <1>21, <2>3 DEF PreviewDequeue
    <3>2. Tail(mQueueBuffer) \in Seq(Buffers)
      BY <2>3, HeadTailProperties
    <3>. QED BY <1>21, <3>1, <3>2 DEF PreviewDequeue, WorkerAlone, ApiAlone
  <2>. QED BY <2>2, <2>3
<1>22. CASE PreviewWait
  BY <1>22 DEF PreviewWait, WorkerAlone, ApiAlone, Goto
<1>23. CASE PreviewWoken
  BY <1>23 DEF PreviewWoken, WorkerAlone, ApiAlone, Goto
<1>24. CASE PreviewLock
  <2>1. mV4l2buf[slot].index \in Buffers
    BY <1>24 DEF PreviewLock, Hands
  <2>2. driver' \in Seq(Buffers)
    BY <1>24, <2>1, QbufKeeps DEF PreviewLock
  <2>. QED BY <1>24, <2>2 DEF PreviewLock, WorkerAlone, ApiAlone
<1>25. CASE PreviewShow
  <2>1. mV4l2buf[slot].index \in Buffers
    BY <1>25 DEF PreviewShow, Hands
  <2>2. driver' \in Seq(Buffers)
    BY <1>25, <2>1, QbufKeeps DEF PreviewShow
  <2>. QED BY <1>25, <2>2 DEF PreviewShow, WorkerAlone, ApiAlone
<1>26. CASE PictureWait
  BY <1>26 DEF PictureWait, PreviewAlone, ApiAlone, Goto
<1>27. CASE PictureWoken
  BY <1>27 DEF PictureWoken, PreviewAlone, ApiAlone, Goto
<1>28. CASE Photograph
  BY <1>28 DEF Photograph, PreviewAlone, ApiAlone, Goto
<1>29. CASE PictureRunning
  BY <1>29 DEF PictureRunning, PreviewAlone, ApiAlone, Goto, SetThreadRunning
<1>30. CASE UNCHANGED vars
  BY <1>30 DEF vars
<1>. QED BY <1>1, <1>2, <1>3, <1>4, <1>5, <1>6, <1>7, <1>8, <1>9, <1>10, <1>11,
     <1>12, <1>13, <1>14, <1>15, <1>16, <1>17, <1>18, <1>19, <1>20, <1>21,
     <1>22, <1>23, <1>24, <1>25, <1>26, <1>27, <1>28, <1>29, <1>30 DEF Next,
     ApiStep, WorkerStep, PreviewStep, PictureStep

\* The two of them.
LEMMA TypesKept == IInv /\ [Next]_vars => Typed'
BY LabelsKept, DataKept DEF Typed

\* Calls take their steps in order.
LEMMA PlanKept ==
  IInv /\ Typed' /\ [Next]_vars => (Ordered(todo) /\ Stopped /\ Control)'
<1> SUFFICES ASSUME IInv, Typed', [Next]_vars
             PROVE  (Ordered(todo) /\ Stopped /\ Control)'
  OBVIOUS
<1> USE ConstantFacts
    DEF IInv, Typed, Labels, Data, Threads, Stopped, Control, Next1, Started,
        Running, None, WorkerLabels, deviceVars, flagVars, windowVars,
        threadVars, lockVars, handVars, boundVars
<1>1. CASE Calls
  BY <1>1, CallsFit DEF Fits
<1>2. CASE StopPhoto
  BY <1>2, RestFits DEF StopPhoto, At, Done, DeviceAlone, Goto
<1>3. CASE StopPhotoWoken
  BY <1>3, RestFits DEF StopPhotoWoken, DeviceAlone, Goto
<1>4. CASE StopRunning
  BY <1>4, RestFits DEF StopRunning, At, Done, TooEarly, DeviceAlone, Goto
<1>5. CASE StopThread
  BY <1>5, RestFits DEF StopThread, At, Done, DeviceAlone, Goto
<1>6. CASE Join
  BY <1>6, RestFits DEF Join, DeviceAlone, Goto
<1>7. CASE StopDevice
  BY <1>7, RestFits DEF StopDevice, Step, At, Done
<1>8. CASE StartDevice
  BY <1>8, RestFits DEF StartDevice, Step, At, Done
<1>9. CASE Connect
  BY <1>9, RestFits DEF Connect, Step, At, Done
<1>10. CASE SetTaking
  BY <1>10, RestFits DEF SetTaking, Step, At, Done
<1>11. CASE StartDelivering
  <2>1. /\ pc["Api"] = "top" /\ todo # <<>>
        /\ todo[1] \in {"deliver", "burst", "burstOver"}
        /\ todo' \in Seq(StepNames) /\ Ordered(todo')
        /\ UNCHANGED <<mState, mBufferCnt, mTakingPicture, control, objectLock>>
        /\ pc' = [pc EXCEPT !["Worker"] = IF Running THEN @ ELSE "starting"]
        /\ exitPending' = (exitPending /\ Running)
    BY <1>11, DeliverFits
  <2>2. ASSUME todo' # <<>>, Started
        PROVE  todo'[1] \notin
                 {"taking", "startDevice", "connect", "disconnect"}
    <3>1. CASE Running
      BY <1>11, <2>1, <2>2, <3>1, DeliverFits
    <3>2. CASE ~Running
      <4>1. Done
        BY <1>11, <3>2, DeliverFits
      <4>. QED BY <2>1, <2>2, <4>1, RestFits
    <3>. QED BY <3>1, <3>2
  <2>3. ~exitPending
    BY <2>1
  <2>. QED BY <2>1, <2>2, <2>3
<1>12. CASE WorkerReady
  BY <1>12 DEF WorkerReady, ApiAlone, Goto
<1>13. CASE WorkerDequeue
  BY <1>13 DEF WorkerDequeue, ApiAlone, Goto
<1>14. CASE WorkerFill
  BY <1>14 DEF WorkerFill, ApiAlone, Goto
<1>15. CASE WorkerPhoto
  BY <1>15 DEF WorkerPhoto, ApiAlone, Goto, SignalPhoto
<1>16. CASE WorkerQueue
  BY <1>16 DEF WorkerQueue, ApiAlone, Goto, Refused, QueueFull, Qbuf
<1>17. CASE WorkerAnnounce
  BY <1>17 DEF WorkerAnnounce, ApiAlone, Goto
<1>18. CASE WorkerRecord
  BY <1>18 DEF WorkerRecord, ApiAlone, Goto, SignalPhoto, Again
<1>19. CASE WorkerIdles
  BY <1>19 DEF WorkerIdles, ApiAlone, Goto, NoFrame, Again
<1>20. CASE WorkerTimeout
  BY <1>20 DEF WorkerTimeout, ApiAlone, Goto, NoFrame, Again
<1>21. CASE PreviewDequeue
  BY <1>21 DEF PreviewDequeue, WorkerAlone, ApiAlone, Goto
<1>22. CASE PreviewWait
  BY <1>22 DEF PreviewWait, WorkerAlone, ApiAlone, Goto
<1>23. CASE PreviewWoken
  BY <1>23 DEF PreviewWoken, WorkerAlone, ApiAlone, Goto
<1>24. CASE PreviewLock
  BY <1>24 DEF PreviewLock, WorkerAlone, ApiAlone, Goto, Mismatch, Qbuf
<1>25. CASE PreviewShow
  BY <1>25 DEF PreviewShow, WorkerAlone, ApiAlone, Goto, Qbuf, SetThreadRunning
<1>26. CASE PictureWait
  BY <1>26 DEF PictureWait, PreviewAlone, ApiAlone, Goto
<1>27. CASE PictureWoken
  BY <1>27 DEF PictureWoken, PreviewAlone, ApiAlone, Goto
<1>28. CASE Photograph
  BY <1>28 DEF Photograph, PreviewAlone, ApiAlone, Goto
<1>29. CASE PictureRunning
  BY <1>29 DEF PictureRunning, PreviewAlone, ApiAlone, Goto, SetThreadRunning
<1>30. CASE UNCHANGED vars
  BY <1>30 DEF vars
<1>. QED BY <1>1, <1>2, <1>3, <1>4, <1>5, <1>6, <1>7, <1>8, <1>9, <1>10, <1>11,
     <1>12, <1>13, <1>14, <1>15, <1>16, <1>17, <1>18, <1>19, <1>20, <1>21,
     <1>22, <1>23, <1>24, <1>25, <1>26, <1>27, <1>28, <1>29, <1>30 DEF Next,
     ApiStep, WorkerStep, PreviewStep, PictureStep

\* Only a call takes a picture.
LEMMA PicturesCounted ==
  ASSUME Typed, [Next]_vars
  PROVE  NoPicture' => NoPicture
<1> USE DEF boundVars, NoPicture
<1>1. CASE Calls
  BY <1>1, CallsFit
<1>2. CASE StopPhoto
  BY <1>2 DEF StopPhoto, At, Done, DeviceAlone, Goto
<1>3. CASE StopPhotoWoken
  BY <1>3 DEF StopPhotoWoken, DeviceAlone, Goto
<1>4. CASE StopRunning
  BY <1>4 DEF StopRunning, At, Done, TooEarly, DeviceAlone, Goto
<1>5. CASE StopThread
  BY <1>5 DEF StopThread, At, Done, DeviceAlone, Goto
<1>6. CASE Join
  BY <1>6 DEF Join, DeviceAlone, Goto
<1>7. CASE StopDevice
  BY <1>7 DEF StopDevice, Step, At, Done
<1>8. CASE StartDevice
  BY <1>8 DEF StartDevice, Step, At, Done
<1>9. CASE Connect
  BY <1>9 DEF Connect, Step, At, Done
<1>10. CASE SetTaking
  BY <1>10 DEF SetTaking, Step, At, Done
<1>11. CASE StartDelivering
  BY <1>11 DEF StartDelivering, Deliver
<1>12. CASE WorkerReady
  BY <1>12 DEF WorkerReady, ApiAlone, Goto
<1>13. CASE WorkerDequeue
  BY <1>13 DEF WorkerDequeue, ApiAlone, Goto
<1>14. CASE WorkerFill
  BY <1>14 DEF WorkerFill, ApiAlone, Goto
<1>15. CASE WorkerPhoto
  BY <1>15 DEF WorkerPhoto, ApiAlone, Goto, SignalPhoto
<1>16. CASE WorkerQueue
  BY <1>16 DEF WorkerQueue, ApiAlone, Goto
<1>17. CASE WorkerAnnounce
  BY <1>17 DEF WorkerAnnounce, ApiAlone, Goto
<1>18. CASE WorkerRecord
  BY <1>18 DEF WorkerRecord, ApiAlone, Goto, SignalPhoto, Again
<1>19. CASE WorkerIdles
  BY <1>19 DEF WorkerIdles, ApiAlone, Goto, NoFrame, Again
<1>20. CASE WorkerTimeout
  BY <1>20 DEF WorkerTimeout, ApiAlone, Goto, NoFrame, Again
<1>21. CASE PreviewDequeue
  BY <1>21 DEF PreviewDequeue, WorkerAlone, ApiAlone, Goto
<1>22. CASE PreviewWait
  BY <1>22 DEF PreviewWait, WorkerAlone, ApiAlone, Goto
<1>23. CASE PreviewWoken
  BY <1>23 DEF PreviewWoken, WorkerAlone, ApiAlone, Goto
<1>24. CASE PreviewLock
  BY <1>24 DEF PreviewLock, WorkerAlone, ApiAlone, Goto
<1>25. CASE PreviewShow
  BY <1>25 DEF PreviewShow, WorkerAlone, ApiAlone, Goto, SetThreadRunning
<1>26. CASE PictureWait
  BY <1>26 DEF PictureWait, PreviewAlone, ApiAlone, Goto
<1>27. CASE PictureWoken
  BY <1>27 DEF PictureWoken, PreviewAlone, ApiAlone, Goto
<1>28. CASE Photograph
  BY <1>28 DEF Photograph, PreviewAlone, ApiAlone, Goto
<1>29. CASE PictureRunning
  BY <1>29 DEF PictureRunning, PreviewAlone, ApiAlone, Goto, SetThreadRunning
<1>30. CASE UNCHANGED vars
  BY <1>30 DEF vars
<1>. QED BY <1>1, <1>2, <1>3, <1>4, <1>5, <1>6, <1>7, <1>8, <1>9, <1>10, <1>11,
     <1>12, <1>13, <1>14, <1>15, <1>16, <1>17, <1>18, <1>19, <1>20, <1>21,
     <1>22, <1>23, <1>24, <1>25, <1>26, <1>27, <1>28, <1>29, <1>30 DEF Next,
     ApiStep, WorkerStep, PreviewStep, PictureStep

\* A buffer stays where it is when nothing moves it.
LEMMA CoverKept ==
  ASSUME NEW b \in Buffers,
         UNCHANGED <<mState, mBufferCnt, driver, mQueueBuffer, mV4l2buf, held,
                     slot>>,
         pc["Worker"] \in {"fill", "queue"} => pc'["Worker"] = pc["Worker"],
         pc["Preview"] \in {"held", "show"} =>
           pc'["Preview"] \in {"held", "show"}
  PROVE  Covered(b) => Covered(b)'
BY DEF Covered, InDriver, InQueue, Known

\* A slot that is given back by the index it has is with the driver again.
LEMMA ShownBack ==
  ASSUME Typed, Started, mBufferCnt = NB_BUFFER, slot \in Buffers,
         Qbuf(mV4l2buf[slot].index), NEW b \in Buffers
  PROVE  /\ InDriver(b) => InDriver(b)'
         /\ b = slot /\ Known(b) => InDriver(b)'
<1>1. mV4l2buf[slot].index \in Buffers /\ driver \in Seq(Buffers)
  BY DEF Typed, Data
<1>2. mV4l2buf[slot].index < mBufferCnt
  BY <1>1, ConstantFacts DEF Buffers
<1> DEFINE x == mV4l2buf[slot].index
<1> HIDE DEF x
<1>3. /\ \A y \in Buffers : InDriver(y) => InDriver(y)'
      /\ \E i \in 1 .. Len(driver') : driver'[i] = x
  <2>1. x \in Buffers /\ x < mBufferCnt /\ Qbuf(x)
    BY <1>1, <1>2 DEF x
  <2>. QED BY <1>1, <2>1, QbufKeeps DEF InDriver
<1>. QED BY <1>3 DEF Known, InDriver, x

\* Every buffer of a preview stays on its way.
LEMMA ReturningKept ==
  IInv /\ Typed' /\ [Next]_vars => Returning'
<1> SUFFICES ASSUME IInv, Typed', [Next]_vars, Started',
                    mBufferCnt' = NB_BUFFER, NEW b \in Buffers
             PROVE  Covered(b)'
  BY DEF Returning
<1> USE ConstantFacts, CoverKept
    DEF IInv, Typed, Labels, Returning, Threads, Started, None, deviceVars,
        handVars, ApiLabels, WorkerLabels, PreviewLabels, PictureLabels
<1>1. CASE Calls
  BY <1>1, CallsFit
<1>2. CASE StopPhoto
  BY <1>2 DEF StopPhoto, At, Done, DeviceAlone, Goto
<1>3. CASE StopPhotoWoken
  BY <1>3 DEF StopPhotoWoken, DeviceAlone, Goto
<1>4. CASE StopRunning
  BY <1>4 DEF StopRunning, At, Done, TooEarly, DeviceAlone, Goto
<1>5. CASE StopThread
  BY <1>5 DEF StopThread, At, Done, DeviceAlone, Goto
<1>6. CASE Join
  BY <1>6 DEF Join, DeviceAlone, Goto
<1>7. CASE StopDevice
  BY <1>7 DEF StopDevice
<1>8. CASE StartDevice
  <2>1. driver' = [i \in 1 .. NB_BUFFER |-> i - 1]
    BY <1>8 DEF StartDevice
  <2>2. b + 1 \in 1 .. NB_BUFFER /\ (b + 1) - 1 = b
    BY DEF Buffers
  <2>3. Len(driver') = NB_BUFFER /\ driver'[b + 1] = b
    BY <2>1, <2>2
  <2>. QED BY <2>2, <2>3 DEF Covered, InDriver
<1>9. CASE Connect
  BY <1>9 DEF Connect
<1>10. CASE SetTaking
  BY <1>10 DEF SetTaking, Step, At, Done
<1>11. CASE StartDelivering
  <2>1. pc' = [pc EXCEPT !["Worker"] = IF Running THEN @ ELSE "starting"]
        /\ UNCHANGED <<deviceVars, mQueueBuffer, handVars>>
    BY <1>11, DeliverFits
  <2>2. Covered(b)
    BY <2>1
  <2>. QED BY <2>1, <2>2 DEF Running
<1>12. CASE WorkerReady
  BY <1>12 DEF WorkerReady, ApiAlone, Goto
<1>13. CASE WorkerDequeue
  <2>1. /\ UNCHANGED <<mState, mBufferCnt, mV4l2buf, mQueueBuffer, slot>>
        /\ pc["Worker"] = "capture" /\ pc'["Worker"] = "fill"
        /\ pc'["Preview"] = pc["Preview"] /\ driver # <<>>
        /\ held' = Head(driver) /\ driver' = Tail(driver)
    BY <1>13 DEF WorkerDequeue, Goto
  <2>2. Covered(b)
    BY <2>1
  <2>3. ASSUME InDriver(b) PROVE b = held' \/ InDriver(b)'
    <3>1. driver \in Seq(Buffers)
      BY DEF Data
    <3>2. PICK i \in 1 .. Len(driver) : driver[i] = b
      BY <2>3 DEF InDriver
    <3>3. CASE i = 1
      BY <2>1, <3>2, <3>3
    <3>4. CASE i # 1
      <4>1. i - 1 \in 1 .. Len(driver') /\ driver'[i - 1] = b
        BY <2>1, <3>1, <3>2, <3>4, HeadTailProperties
      <4>. QED BY <4>1 DEF InDriver
    <3>. QED BY <3>3, <3>4
  <2>. QED BY <2>1, <2>2, <2>3 DEF Covered, InQueue, Known
<1>14. CASE WorkerFill
  <2>1. /\ UNCHANGED <<mState, mBufferCnt, driver, mQueueBuffer, held, slot>>
        /\ pc["Worker"] = "fill" /\ pc'["Preview"] = pc["Preview"]
    BY <1>14 DEF WorkerFill, Goto, ApiAlone
  <2>2. pc'["Worker"] = "queue"
    <3>1. ~mTakingPicture
      BY <2>1 DEF Stopped
    <3>. QED BY <1>14, <3>1 DEF WorkerFill, Goto
  <2>3. mV4l2buf' =
          [mV4l2buf EXCEPT ![held] = [index |-> held, sized |-> Started]]
    BY <1>14 DEF WorkerFill
  <2>4. mV4l2buf \in [Buffers -> [index : Buffers, sized : BOOLEAN]]
    BY DEF Data
  <2>5. b = held => Known(b)'
    BY <2>1, <2>3, <2>4 DEF Known
  <2>6. b # held => (Known(b) => Known(b)')
    BY <2>1, <2>3, <2>4 DEF Known
  <2>7. Covered(b)
    BY <2>1
  <2>. QED BY <2>1, <2>2, <2>5, <2>6, <2>7 DEF Covered, InDriver, InQueue
<1>15. CASE WorkerPhoto
  <2>1. /\ UNCHANGED <<deviceVars, mQueueBuffer, slot>>
        /\ pc["Worker"] = "photo" /\ pc'["Preview"] = pc["Preview"]
    BY <1>15 DEF WorkerPhoto, ApiAlone, Goto, SignalPhoto
  <2>2. Covered(b)
    BY <2>1
  <2>. QED BY <2>1, <2>2 DEF Covered, InDriver, InQueue, Known
<1>16. CASE WorkerQueue
  <2>1. /\ UNCHANGED <<mState, mBufferCnt, mV4l2buf, slot>>
        /\ pc["Worker"] = "queue" /\ pc'["Worker"] = "announce"
        /\ pc'["Preview"] = pc["Preview"]
    BY <1>16 DEF WorkerQueue, Goto
  <2>2. Covered(b) /\ held \in Buffers
    BY <2>1 DEF Hands
  <2>3. CASE QueueFull
    <3>1. Qbuf(held) /\ mQueueBuffer' = mQueueBuffer
      BY <1>16, <2>3 DEF WorkerQueue, Refused
    <3>2. held < mBufferCnt
      BY <2>1, <2>2 DEF Buffers
    <3>3. driver \in Seq(Buffers)
      BY DEF Data
    <3>4. /\ InDriver(b) => InDriver(b)'
          /\ b = held => InDriver(b)'
      BY <2>1, <2>2, <3>1, <3>2, <3>3, QbufKeeps
    <3>. QED BY <2>1, <2>2, <3>1, <3>4 DEF Covered, InQueue, Known
  <2>4. CASE ~QueueFull
    <3>1. mQueueBuffer' = Append(mQueueBuffer, held) /\ driver' = driver
      BY <1>16, <2>4 DEF WorkerQueue
    <3>2. mQueueBuffer \in Seq(Buffers)
      BY DEF Data
    <3>3. /\ Len(mQueueBuffer') = Len(mQueueBuffer) + 1
          /\ Len(mQueueBuffer) \in Nat
          /\ mQueueBuffer'[Len(mQueueBuffer) + 1] = held
          /\ \A i \in 1 .. Len(mQueueBuffer) :
               mQueueBuffer'[i] = mQueueBuffer[i]
      BY <2>2, <3>1, <3>2, AppendProperties
    <3>4. (InQueue(b) => InQueue(b)') /\ (b = held => InQueue(b)')
      BY <3>3 DEF InQueue
    <3>. QED BY <2>1, <2>2, <3>1, <3>4 DEF Covered, InDriver, Known
  <2>. QED BY <2>3, <2>4
<1>17. CASE WorkerAnnounce
  BY <1>17 DEF WorkerAnnounce, ApiAlone, Goto
<1>18. CASE WorkerRecord
  BY <1>18 DEF WorkerRecord, ApiAlone, Goto, SignalPhoto, Again
<1>19. CASE WorkerIdles
  BY <1>19 DEF WorkerIdles, ApiAlone, Goto, NoFrame, Again
<1>20. CASE WorkerTimeout
  BY <1>20 DEF WorkerTimeout, ApiAlone, Goto, NoFrame, Again
<1>21. CASE PreviewDequeue
  <2>1. /\ UNCHANGED <<deviceVars, held>>
        /\ pc["Preview"] = "top" /\ pc'["Worker"] = pc["Worker"]
    BY <1>21 DEF PreviewDequeue, Goto, WorkerAlone
  <2>2. Covered(b)
    BY <2>1
  <2>3. CASE mQueueBuffer = <<>>
    BY <1>21, <2>1, <2>2, <2>3 DEF PreviewDequeue, Goto
  <2>4. CASE mQueueBuffer # <<>>
    <3>1. /\ slot' = Head(mQueueBuffer) /\ mQueueBuffer' = Tail(mQueueBuffer)
          /\ pc'["Preview"] = "held"
      BY <1>21, <2>4 DEF PreviewDequeue, Goto
    <3>2. ASSUME InQueue(b) PROVE b = slot' \/ InQueue(b)'
      <4>1. mQueueBuffer \in Seq(Buffers)
        BY DEF Data
      <4>2. PICK i \in 1 .. Len(mQueueBuffer) : mQueueBuffer[i] = b
        BY <3>2 DEF InQueue
      <4>3. CASE i = 1
        BY <3>1, <4>2, <4>3
      <4>4. CASE i # 1
        <5>1. i - 1 \in 1 .. Len(mQueueBuffer') /\ mQueueBuffer'[i - 1] = b
          BY <2>4, <3>1, <4>1, <4>2, <4>4, HeadTailProperties
        <5>. QED BY <5>1 DEF InQueue
      <4>. QED BY <4>3, <4>4
    <3>. QED BY <2>1, <2>2, <3>1, <3>2 DEF Covered, InDriver, Known
  <2>. QED BY <2>3, <2>4
<1>22. CASE PreviewWait
  BY <1>22 DEF PreviewWait, WorkerAlone, ApiAlone, Goto
<1>23. CASE PreviewWoken
  BY <1>23 DEF PreviewWoken, WorkerAlone, ApiAlone, Goto
<1>24. CASE PreviewLock
  <2>1. /\ UNCHANGED <<mState, mBufferCnt, mV4l2buf, mQueueBuffer, held>>
        /\ pc["Preview"] = "held" /\ pc'["Worker"] = pc["Worker"]
    BY <1>24 DEF PreviewLock, Goto, WorkerAlone
  <2>2. Covered(b) /\ slot \in Buffers
    BY <2>1 DEF Hands
  <2>3. CASE Qbuf(mV4l2buf[slot].index)
    BY <2>1, <2>2, <2>3, ShownBack DEF Covered, InQueue, Known
  <2>4. CASE pc'["Preview"] = "show" /\ UNCHANGED <<driver, slot>>
    BY <2>1, <2>2, <2>4
  <2>. QED BY <1>24, <2>3, <2>4 DEF PreviewLock, Goto
<1>25. CASE PreviewShow
  <2>1. /\ UNCHANGED <<mState, mBufferCnt, mV4l2buf, mQueueBuffer, held>>
        /\ pc["Preview"] = "show" /\ pc'["Worker"] = pc["Worker"]
        /\ Qbuf(mV4l2buf[slot].index)
    BY <1>25 DEF PreviewShow, SetThreadRunning, WorkerAlone
  <2>2. Covered(b) /\ slot \in Buffers
    BY <2>1 DEF Hands
  <2>. QED BY <2>1, <2>2, ShownBack DEF Covered, InQueue, Known
<1>26. CASE PictureWait
  BY <1>26 DEF PictureWait, PreviewAlone, ApiAlone, Goto
<1>27. CASE PictureWoken
  BY <1>27 DEF PictureWoken, PreviewAlone, ApiAlone, Goto
<1>28. CASE Photograph
  BY <1>28 DEF Photograph, PreviewAlone, ApiAlone, Goto
<1>29. CASE PictureRunning
  BY <1>29 DEF PictureRunning, PreviewAlone, ApiAlone, Goto, SetThreadRunning
<1>30. CASE UNCHANGED vars
  BY <1>30 DEF vars
<1>. QED BY <1>1, <1>2, <1>3, <1>4, <1>5, <1>6, <1>7, <1>8, <1>9, <1>10, <1>11,
     <1>12, <1>13, <1>14, <1>15, <1>16, <1>17, <1>18, <1>19, <1>20, <1>21,
     <1>22, <1>23, <1>24, <1>25, <1>26, <1>27, <1>28, <1>29, <1>30 DEF Next,
     ApiStep, WorkerStep, PreviewStep, PictureStep

\* As long as no picture is taken, no step of a picture is.
LEMMA QuietKept ==
  IInv /\ Typed' /\ [Next]_vars => Quiet'
<1> SUFFICES ASSUME IInv, Typed', [Next]_vars, NoPicture'
             PROVE  /\ ~mTakingPicture' /\ ~mTakingPictureRecord' /\ ~mOneBurst'
                    /\ pc'["Picture"] = "photoWait" /\ pc'["Worker"] # "photo"
                    /\ pc'["Api"] \notin {"photoWait", "photoWoken"}
                    /\ Plain(todo')
  BY DEF Quiet, NoPicture, Plain
<1> DEFINE Still ==
      /\ ~mTakingPicture /\ ~mTakingPictureRecord /\ ~mOneBurst
      /\ pc["Picture"] = "photoWait" /\ pc["Worker"] # "photo"
      /\ pc["Api"] \notin {"photoWait", "photoWoken"}
      /\ Plain(todo)
<1>0. Still
  BY PicturesCounted DEF IInv, Quiet
<1>A. /\ todo \in Seq(StepNames) /\ Ordered(todo)
      /\ pc \in [Threads -> WorkerLabels \cup ApiLabels \cup PreviewLabels
                              \cup PictureLabels]
  BY DEF IInv, Typed, Data, Labels
<1>B. ASSUME NEW step, At(step) PROVE step \notin Photographic
  <2>1. 1 \in 1 .. Len(todo) /\ todo[1] = step
    BY <1>A, <1>B DEF At
  <2>. QED BY <1>0, <2>1 DEF Plain
<1>C. At("taking") \/ At("snap") \/ At("burst") \/ At("burstOver") => FALSE
  BY <1>B DEF Photographic
<1> USE <1>0, <1>A
    DEF Threads, None, flagVars, threadVars, deviceVars, boundVars,
        ApiLabels, WorkerLabels, PreviewLabels, PictureLabels
<1>1. CASE Calls
  BY <1>1, CallsFit DEF IInv
<1>2. CASE StopPhoto
  BY <1>2, RestFits DEF StopPhoto, At, Done, DeviceAlone, Goto
<1>3. CASE StopPhotoWoken
  BY <1>3 DEF StopPhotoWoken, DeviceAlone, Goto
<1>4. CASE StopRunning
  BY <1>4, RestFits DEF StopRunning, At, Done, TooEarly, DeviceAlone, Goto
<1>5. CASE StopThread
  BY <1>5, RestFits DEF StopThread, At, Done, DeviceAlone, Goto
<1>6. CASE Join
  BY <1>6 DEF Join, DeviceAlone, Goto
<1>7. CASE StopDevice
  BY <1>7, RestFits DEF StopDevice, Step, At, Done
<1>8. CASE StartDevice
  BY <1>8, RestFits DEF StartDevice, Step, At, Done
<1>9. CASE Connect
  BY <1>9, RestFits DEF Connect, Step, At, Done
<1>10. CASE SetTaking
  BY <1>10, <1>C DEF SetTaking, Step
<1>11. CASE StartDelivering
  <2>1. Deliver("deliver", FALSE)
    BY <1>11, <1>C DEF StartDelivering, Deliver
  <2>2. Plain(todo')
    <3>1. CASE Running
      <4>1. todo' = <<"stopDevice">>
        BY <2>1, <3>1 DEF Deliver, Undo
      <4>. QED BY <4>1 DEF Plain, Photographic
    <3>2. CASE ~Running
      BY <2>1, <3>2, RestFits DEF Deliver, At, Done
    <3>. QED BY <3>1, <3>2
  <2>. QED BY <2>1, <2>2 DEF Deliver
<1>12. CASE WorkerReady
  BY <1>12 DEF WorkerReady, ApiAlone, Goto
<1>13. CASE WorkerDequeue
  BY <1>13 DEF WorkerDequeue, ApiAlone, Goto
<1>14. CASE WorkerFill
  BY <1>14 DEF WorkerFill, ApiAlone, Goto
<1>15. CASE WorkerPhoto
  BY <1>15 DEF WorkerPhoto, ApiAlone, Goto, SignalPhoto
<1>16. CASE WorkerQueue
  BY <1>16 DEF WorkerQueue, ApiAlone, Goto
<1>17. CASE WorkerAnnounce
  BY <1>17 DEF WorkerAnnounce, ApiAlone, Goto
<1>18. CASE WorkerRecord
  BY <1>18 DEF WorkerRecord, ApiAlone, Goto, Again
<1>19. CASE WorkerIdles
  BY <1>19 DEF WorkerIdles, ApiAlone, Goto, NoFrame, Again
<1>20. CASE WorkerTimeout
  BY <1>20 DEF WorkerTimeout, ApiAlone, Goto, NoFrame, Again
<1>21. CASE PreviewDequeue
  BY <1>21 DEF PreviewDequeue, WorkerAlone, ApiAlone, Goto
<1>22. CASE PreviewWait
  BY <1>22 DEF PreviewWait, WorkerAlone, ApiAlone, Goto
<1>23. CASE PreviewWoken
  BY <1>23 DEF PreviewWoken, WorkerAlone, ApiAlone, Goto
<1>24. CASE PreviewLock
  BY <1>24 DEF PreviewLock, WorkerAlone, ApiAlone, Goto
<1>25. CASE PreviewShow
  BY <1>25 DEF PreviewShow, WorkerAlone, ApiAlone, Goto, SetThreadRunning
<1>26. CASE PictureWait
  BY <1>26 DEF PictureWait, PreviewAlone, ApiAlone, Goto
<1>27. CASE PictureWoken
  BY <1>27 DEF PictureWoken, PreviewAlone, ApiAlone, Goto
<1>28. CASE Photograph
  BY <1>28 DEF Photograph, PreviewAlone, ApiAlone, Goto
<1>29. CASE PictureRunning
  BY <1>29 DEF PictureRunning, PreviewAlone, ApiAlone, Goto, SetThreadRunning
<1>30. CASE UNCHANGED vars
  BY <1>30 DEF vars
<1>. QED BY <1>1, <1>2, <1>3, <1>4, <1>5, <1>6, <1>7, <1>8, <1>9, <1>10, <1>11,
     <1>12, <1>13, <1>14, <1>15, <1>16, <1>17, <1>18, <1>19, <1>20, <1>21,
     <1>22, <1>23, <1>24, <1>25, <1>26, <1>27, <1>28, <1>29, <1>30 DEF Next,
     ApiStep, WorkerStep, PreviewStep, PictureStep

\* As long as no picture is taken, a capture thread is known to run when it is
\* stopped, and has ended when the device is.
LEMMA WatchedKept ==
  IInv /\ (Typed /\ Control)' /\ [Next]_vars => (Watched /\ WorkerStops)'
<1> SUFFICES ASSUME IInv, Typed', Control', [Next]_vars, NoPicture'
             PROVE  /\ ~Started' => \A b \in Buffers : ~mV4l2buf'[b].sized
                    /\ pc'["Worker"] = "starting" =>
                         ~mThreadRunning' /\ Unshown'
                    /\ Next1("thread")' /\ pc'["Api"] = "top" => mThreadRunning'
                    /\ Next1("stopDevice")' /\ pc'["Api"] # "join" => ~Running'
                    /\ Next1("deliver")' => Started' /\ ~Running' /\ Unshown'
                    /\ Running' => Started' \/ exitPending'
  BY DEF Watched, WorkerStops, NoPicture
<1> DEFINE Seen ==
      /\ ~Started => \A b \in Buffers : ~mV4l2buf[b].sized
      /\ pc["Worker"] = "starting" => ~mThreadRunning /\ Unshown
      /\ Next1("thread") /\ pc["Api"] = "top" => mThreadRunning
      /\ Next1("stopDevice") /\ pc["Api"] # "join" => ~Running
      /\ Next1("deliver") => Started /\ ~Running /\ Unshown
      /\ Running => Started \/ exitPending
    Still ==
      /\ ~mTakingPicture /\ ~mTakingPictureRecord /\ ~mOneBurst
      /\ pc["Picture"] = "photoWait" /\ pc["Worker"] # "photo"
      /\ pc["Api"] \notin {"photoWait", "photoWoken"}
      /\ Plain(todo)
<1>0. Seen /\ Still
  BY PicturesCounted DEF IInv, Quiet, Watched, WorkerStops
<1>A. /\ todo \in Seq(StepNames) /\ Ordered(todo) /\ todo' \in Seq(StepNames)
      /\ pc \in [Threads -> WorkerLabels \cup ApiLabels \cup PreviewLabels
                              \cup PictureLabels]
      /\ mV4l2buf \in [Buffers -> [index : Buffers, sized : BOOLEAN]]
      /\ pc["Preview"] \in {"held", "show"} => slot \in Buffers
      /\ Control /\ Stopped
  BY DEF IInv, Typed, Data, Labels, Hands
<1>B. ASSUME NEW step, At(step) PROVE step \notin Photographic /\ Next1(step)
  <2>1. 1 \in 1 .. Len(todo) /\ todo[1] = step
    BY <1>A, <1>B DEF At
  <2>. QED BY <1>0, <2>1 DEF Plain, Next1, At
<1>C. At("taking") \/ At("snap") \/ At("burst") \/ At("burstOver") => FALSE
  BY <1>B DEF Photographic
<1> USE <1>0, <1>A
    DEF Threads, None, Running, Started, Control, Stopped, Next1, Unshown,
        flagVars, threadVars, deviceVars, lockVars, handVars, ApiLabels,
        WorkerLabels, PreviewLabels, PictureLabels
<1>1. CASE Calls
  BY <1>1, CallsFit DEF IInv, Fits
<1>2. CASE StopPhoto
  BY <1>2, RestFits DEF StopPhoto, At, Done, DeviceAlone, Goto
<1>3. CASE StopPhotoWoken
  BY <1>3 DEF StopPhotoWoken, DeviceAlone, Goto
<1>4. CASE StopRunning
  BY <1>4, RestFits DEF StopRunning, At, Done, TooEarly, DeviceAlone, Goto
<1>5. CASE StopThread
  BY <1>5, RestFits DEF StopThread, At, Done, DeviceAlone, Goto
<1>6. CASE Join
  BY <1>6 DEF Join, DeviceAlone, Goto
<1>7. CASE StopDevice
  <2>1. At("stopDevice") /\ Next1("stopDevice") /\ ~Running
    BY <1>7, <1>B DEF StopDevice, Step, At
  <2>2. todo' # <<>> => todo'[1] \notin {"thread", "stopDevice", "deliver"}
    BY <1>7, <2>1, RestFits DEF StopDevice, Step, At
  <2>3. pc' = pc
    BY <1>7 DEF StopDevice, Step
  <2>4. \A b \in Buffers : ~mV4l2buf'[b].sized
    BY <1>7 DEF StopDevice, Empty
  <2>. QED BY <2>1, <2>2, <2>3, <2>4
<1>8. CASE StartDevice
  BY <1>8, RestFits DEF StartDevice, Step, At, Done
<1>9. CASE Connect
  BY <1>9, RestFits DEF Connect, Step, At, Done
<1>10. CASE SetTaking
  BY <1>10, <1>C DEF SetTaking, Step
<1>11. CASE StartDelivering
  <2>1. Deliver("deliver", FALSE) /\ Next1("deliver")
    BY <1>11, <1>B, <1>C DEF StartDelivering, Deliver
  <2>2. Started /\ ~Running /\ Unshown
    BY <2>1
  <2>3. Done /\ todo # <<>> /\ todo[1] = "deliver"
    BY <2>1, <2>2 DEF Deliver, Done
  <2>4. todo' # <<>> => todo'[1] \notin {"thread", "stopDevice", "deliver"}
    BY <2>3, RestFits
  <2>. QED BY <2>1, <2>2, <2>4 DEF Deliver
<1>12. CASE WorkerReady
  BY <1>12 DEF WorkerReady, ApiAlone, Goto
<1>13. CASE WorkerDequeue
  BY <1>13 DEF WorkerDequeue, ApiAlone, Goto
<1>14. CASE WorkerFill
  BY <1>14 DEF WorkerFill, ApiAlone, Goto
<1>15. CASE WorkerPhoto
  BY <1>15 DEF WorkerPhoto, ApiAlone, Goto, SignalPhoto
<1>16. CASE WorkerQueue
  BY <1>16 DEF WorkerQueue, ApiAlone, Goto
<1>17. CASE WorkerAnnounce
  BY <1>17 DEF WorkerAnnounce, ApiAlone, Goto
<1>18. CASE WorkerRecord
  BY <1>18 DEF WorkerRecord, ApiAlone, Goto, Again
<1>19. CASE WorkerIdles
  BY <1>19 DEF WorkerIdles, ApiAlone, Goto, NoFrame, Again
<1>20. CASE WorkerTimeout
  BY <1>20 DEF WorkerTimeout, ApiAlone, Goto, NoFrame, Again
<1>21. CASE PreviewDequeue
  BY <1>21 DEF PreviewDequeue, WorkerAlone, ApiAlone, Goto
<1>22. CASE PreviewWait
  BY <1>22 DEF PreviewWait, WorkerAlone, ApiAlone, Goto
<1>23. CASE PreviewWoken
  BY <1>23 DEF PreviewWoken, WorkerAlone, ApiAlone, Goto
<1>24. CASE PreviewLock
  BY <1>24 DEF PreviewLock, WorkerAlone, ApiAlone, Goto, Mismatch
<1>25. CASE PreviewShow
  BY <1>25 DEF PreviewShow, WorkerAlone, ApiAlone, Goto, SetThreadRunning
<1>26. CASE PictureWait
  BY <1>26 DEF PictureWait, PreviewAlone, ApiAlone, Goto
<1>27. CASE PictureWoken
  BY <1>27 DEF PictureWoken, PreviewAlone, ApiAlone, Goto
<1>28. CASE Photograph
  BY <1>28 DEF Photograph, PreviewAlone, ApiAlone, Goto
<1>29. CASE PictureRunning
  BY <1>29 DEF PictureRunning, PreviewAlone, ApiAlone, Goto, SetThreadRunning
<1>30. CASE UNCHANGED vars
  BY <1>30 DEF vars
<1>. QED BY <1>1, <1>2, <1>3, <1>4, <1>5, <1>6, <1>7, <1>8, <1>9, <1>10, <1>11,
     <1>12, <1>13, <1>14, <1>15, <1>16, <1>17, <1>18, <1>19, <1>20, <1>21,
     <1>22, <1>23, <1>24, <1>25, <1>26, <1>27, <1>28, <1>29, <1>30 DEF Next,
     ApiStep, WorkerStep, PreviewStep, PictureStep

\* The invariant holds of the camera that has just been connected.
LEMMA InitIInv == Init => IInv
<1> SUFFICES ASSUME Init PROVE IInv
  OBVIOUS
<1> USE ConstantFacts DEF Init
<1>1. Typed
  <2>1. Data
    <3>1. mV4l2buf \in [Buffers -> [index : Buffers, sized : BOOLEAN]]
      BY DEF Empty
    <3>. QED BY <3>1 DEF Data
  <2>2. Labels /\ Hands
    BY DEF Labels, Hands, Threads, ApiLabels, WorkerLabels, PreviewLabels,
           PictureLabels, None
  <2>. QED BY <2>1, <2>2 DEF Typed
<1>2. Ordered(todo) /\ Plain(todo) /\ Stopped /\ Returning
  BY DEF Ordered, Plain, Stopped, Next1, Started, Returning
<1>3. Control
  BY DEF Control, Next1, None
<1>4. Quiet /\ Watched /\ WorkerStops
  BY <1>2
     DEF Quiet, Watched, WorkerStops, NoPicture, Next1, Running, Empty, None
<1>. QED BY <1>1, <1>2, <1>3, <1>4 DEF IInv

\* Every step keeps it.
LEMMA NextIInv == IInv /\ [Next]_vars => IInv'
<1> SUFFICES ASSUME IInv, [Next]_vars PROVE IInv'
  OBVIOUS
<1>1. Typed'
  BY TypesKept
<1>2. Ordered(todo)' /\ Stopped' /\ Control'
  BY <1>1, PlanKept
<1>3. Returning' /\ Quiet'
  BY <1>1, ReturningKept, QuietKept
<1>4. Watched' /\ WorkerStops'
  BY <1>1, <1>2, WatchedKept
<1>. QED BY <1>1, <1>2, <1>3, <1>4 DEF IInv

\* So it always holds.
LEMMA Invariance == Spec => []IInv
BY InitIInv, NextIInv, PTL DEF Spec

\* For any number of buffers and calls: a buffer of a preview is always with the
\* driver, queued, or in the hand of a thread that gives it back, whatever is
\* stopped and restarted (V4L2CameraDevice.cpp, releasePreviewFrame).
THEOREM BuffersComeBack == Spec => []BuffersReturn
<1>1. IInv => BuffersReturn
  BY DEF IInv, Returning, Covered, InDriver, InQueue, BuffersReturn
<1>. QED BY <1>1, Invariance, PTL

\* For any number of buffers and calls: as long as no picture is taken, a device
\* that is not started has no capture thread, or one that was told to exit
\* (CameraHardware.cpp and V4L2Camera.cpp, stopDeliveringFrames).
THEOREM WorkerEndsWithDevice == Spec => []WorkerStops
<1>1. IInv => WorkerStops
  BY DEF IInv
<1>. QED BY <1>1, Invariance, PTL
=============================================================================
