-------------------------------- MODULE Audio --------------------------------
(***************************************************************************)
(* The audio HAL: the playback and the record thread of the audio service, *)
(* with one stream each, and the audio policy, which makes and ends calls. *)
(*                                                                         *)
(* Three mutexes are taken in the order device, input, output.  A stream   *)
(* keeps its own while it writes or reads, after it has released that of   *)
(* the device; a change of mode puts both streams into standby.  The echo  *)
(* reference links the two: created by the input, fed by the output.       *)
(* Nobody takes the mutex of a stream without that of the device, so that  *)
(* what is done under the latter is one step once the streams' are free.   *)
(***************************************************************************)
EXTENDS Naturals, FiniteSets

CONSTANTS
  WithoutEarpiece, \* the device's property audio.without.earpiece is "true"
  MaxCalls         \* bound: calls other than to write and to read

ASSUME CallsAssumption == MaxCalls \in Nat
ASSUME DeviceAssumption == WithoutEarpiece \in BOOLEAN

Threads == {"Playback", "Record", "Policy"}
None == "none"
OutDevices == {"SPEAKER", "EARPIECE", "AUX_DIGITAL"}
References == 1 .. 3
NULL == 0

\* what the ADC input source control is set to
NoSource == 0
Mic == 2
LineIn == 7

VARIABLES
  mode, in_call,           \* AUDIO_MODE_IN_CALL or not, and what was done of it
  outDevice,               \* the output among devices
  pa,                      \* the power amplifier is on
  raw_flag,
  active_output, active_input,     \* they point to the stream
  echo_reference,          \* of the device
  out,                     \* the output stream
  in,                      \* the input stream
  outOpen, inOpen,         \* PCM handles that are open
  callRoutes,              \* mic1_up_routing and line_in_routing
  recRoutes,               \* mic1_rec_routing, but for the source
  adcSource,
  adevLock, outLock, inLock,
  pc,
  want,                    \* what the call of the playback thread asks for
  calls,
  leaked                   \* a resampler could not be created

callVars == <<mode, in_call, callRoutes>>
deviceVars == <<outDevice, pa, raw_flag>>
streamVars == <<active_output, active_input, echo_reference, out, in,
                outOpen, inOpen, recRoutes, adcSource, leaked>>
vars == <<callVars, deviceVars, streamVars, adevLock, outLock, inLock, pc, want,
          calls>>

NewOut == [standby |-> TRUE, echo |-> NULL]
NewIn == [standby |-> TRUE, echo |-> NULL, voice |-> FALSE, need |-> FALSE]
Nothing == [op |-> None]

Init ==
  /\ mode = "NORMAL" /\ in_call = FALSE /\ callRoutes = FALSE
  /\ outDevice = "SPEAKER" /\ pa = TRUE /\ raw_flag = FALSE
  /\ active_output = FALSE /\ active_input = FALSE /\ echo_reference = NULL
  /\ out = NewOut /\ in = NewIn /\ outOpen = 0 /\ inOpen = 0
  /\ recRoutes = FALSE /\ adcSource = NoSource /\ leaked = FALSE
  /\ adevLock = None /\ outLock = None /\ inLock = None
  /\ pc = [t \in Threads |-> "idle"] /\ want = Nothing /\ calls = 0
-----------------------------------------------------------------------------
Goto(t, l) == pc' = [pc EXCEPT ![t] = l]
Unlock(lock) == lock' = None

\* the first lock of every call but out_write
Begin(t, l) ==
  /\ pc[t] = "idle" /\ adevLock = None /\ calls < MaxCalls
  /\ calls' = calls + 1
  /\ adevLock' = t /\ Goto(t, l)
  /\ UNCHANGED <<deviceVars, streamVars, outLock, inLock>>

\* do_output_standby
\* mutant: the handle is not closed
Unclosed == outOpen
Closed == outOpen - 1
OutputStandby ==
  IF out.standby THEN UNCHANGED <<out, outOpen, active_output>>
  ELSE /\ out' = NewOut /\ outOpen' = Closed
       /\ active_output' = FALSE

\* put_echo_reference, which takes the reference from the output that plays
PutsReference == in.echo # NULL /\ in.echo = echo_reference
\* mutant: it is left with the output
LeftWithOutput == out
TakenFromOutput == IF active_output /\ out.echo = echo_reference
                   THEN [out EXCEPT !.echo = NULL] ELSE out

\* do_input_standby
InputStandby(stream) ==
  IF in.standby
  THEN /\ in' = stream
       /\ UNCHANGED <<out, inOpen, active_input, echo_reference, recRoutes,
                      adcSource>>
  ELSE /\ in' = [stream EXCEPT !.standby = TRUE, !.echo = NULL]
       /\ inOpen' = inOpen - 1 /\ active_input' = FALSE
       /\ out' = IF PutsReference THEN TakenFromOutput ELSE out
       /\ echo_reference' = IF PutsReference THEN NULL ELSE echo_reference
       /\ recRoutes' = FALSE /\ adcSource' = NoSource
\* mutant: it takes the reference from an output that is written to
InputAlone == inLock = None
\* the locks it waits for
InputReady ==
  /\ inLock = None
  /\ ~in.standby /\ PutsReference /\ active_output => outLock = None

\* a device without an earpiece speaks through the amplifier in its place
Amplified == {"SPEAKER"} \cup IF WithoutEarpiece THEN {"EARPIECE"} ELSE {}
SelectOutput(device) == outDevice' = device /\ pa' = (device \in Amplified)
-----------------------------------------------------------------------------
(* The playback thread.                                                    *)

\* out_write looks at the mode before it has a lock
Write ==
  /\ pc["Playback"] = "idle"
  /\ mode # "IN_CALL" /\ ~raw_flag
  /\ Goto("Playback", "checked")
  /\ UNCHANGED <<callVars, deviceVars, streamVars, adevLock, outLock, inLock,
                 want, calls>>

WriteLock ==
  /\ pc["Playback"] = "checked" /\ adevLock = None
  /\ adevLock' = "Playback" /\ Goto("Playback", "locked")
  /\ UNCHANGED <<callVars, deviceVars, streamVars, outLock, inLock, want, calls>>

\* the input follows the output when it is used for voice communication
MovesInput == active_input /\ in.voice

\* start_output_stream, which refuses in a call or for raw data, and says 0; the
\* property audio.routing may choose the device
StartRefused == mode = "IN_CALL" \/ raw_flag
Routings == {outDevice, "SPEAKER", "AUX_DIGITAL"}
OpenOutput ==
  /\ \E d \in Routings : SelectOutput(d)
  /\ active_output' = TRUE /\ outOpen' = outOpen + 1
  /\ out' = [standby |-> FALSE, echo |-> IF echo_reference # NULL
                                        THEN echo_reference ELSE out.echo]
OpenOutputFails ==
  /\ \E d \in Routings : SelectOutput(d)
  /\ active_output' = FALSE
  /\ UNCHANGED <<outOpen, out>>

WriteStart ==
  /\ pc["Playback"] = "locked" /\ outLock = None
  /\ Unlock(adevLock)
  /\ \/ /\ ~out.standby
        /\ Goto("Playback", "writing") /\ outLock' = "Playback"
        /\ UNCHANGED <<outDevice, pa, active_output, outOpen, out>>
     \/ /\ out.standby /\ StartRefused
        /\ out' = [out EXCEPT !.standby = FALSE]
        /\ Goto("Playback", "crashed") /\ outLock' = "Playback"
        /\ UNCHANGED <<outDevice, pa, active_output, outOpen>>
     \/ /\ out.standby /\ ~StartRefused /\ OpenOutput
        /\ Goto("Playback", IF MovesInput THEN "writingMoved" ELSE "writing")
        /\ outLock' = "Playback"
     \/ /\ out.standby /\ ~StartRefused /\ OpenOutputFails
        /\ Goto("Playback", "idle") /\ UNCHANGED outLock
  /\ UNCHANGED <<callVars, raw_flag, active_input, echo_reference, in, inOpen,
                 recRoutes, adcSource, leaked, inLock, want, calls>>

\* the frames are handed to the echo reference and to the device
\* mutant: the stream is unlocked after the input has been moved
HeldOn == outLock
LetGo == None
Written ==
  /\ pc["Playback"] \in {"writing", "writingMoved"}
  /\ outLock' = IF pc["Playback"] = "writing" THEN None ELSE LetGo
  /\ Goto("Playback", IF pc["Playback"] = "writing" THEN "idle" ELSE "move")
  /\ UNCHANGED <<callVars, deviceVars, streamVars, adevLock, inLock, want, calls>>

MoveLock ==
  /\ pc["Playback"] = "move" /\ adevLock = None
  /\ adevLock' = "Playback" /\ Goto("Playback", "moveInput")
  /\ UNCHANGED <<callVars, deviceVars, streamVars, outLock, inLock, want, calls>>

MoveInput ==
  /\ pc["Playback"] = "moveInput"
  /\ \/ active_input /\ InputReady /\ InputStandby(in)
     \/ /\ ~active_input
        /\ UNCHANGED <<in, out, inOpen, active_input, echo_reference, recRoutes,
                       adcSource>>
  /\ Unlock(adevLock) /\ Unlock(outLock) /\ Goto("Playback", "idle")
  /\ UNCHANGED <<callVars, deviceVars, active_output, outOpen, leaked, inLock,
                 want, calls>>

\* out_standby and out_set_parameters
OutCall ==
  /\ Begin("Playback", "outCall")
  /\ want' \in {[op |-> "standby"]} \cup [op : {"route"}, device : OutDevices]
                 \cup {[op |-> "raw"]}
  /\ UNCHANGED callVars

Digital(d) == d = "AUX_DIGITAL"
OutCalled ==
  /\ pc["Playback"] = "outCall" /\ outLock = None
  /\ want' = Nothing
  /\ \/ /\ want.op = "standby"
        /\ OutputStandby
        /\ Unlock(adevLock) /\ Goto("Playback", "idle")
        /\ UNCHANGED deviceVars
     \/ /\ want.op = "route"
        /\ IF active_output /\ Digital(want.device) # Digital(outDevice)
           THEN OutputStandby ELSE UNCHANGED <<out, outOpen, active_output>>
        /\ SelectOutput(want.device)
        /\ IF want.device # outDevice /\ active_output /\ MovesInput
           THEN Goto("Playback", "moveInput") /\ UNCHANGED adevLock
           ELSE Unlock(adevLock) /\ Goto("Playback", "idle")
        /\ UNCHANGED raw_flag
     \/ /\ want.op = "raw"
        /\ OutputStandby
        /\ raw_flag' = ~raw_flag
        /\ Unlock(adevLock) /\ Goto("Playback", "idle")
        /\ UNCHANGED <<outDevice, pa>>
  /\ UNCHANGED <<callVars, active_input, echo_reference, in, inOpen, recRoutes,
                 adcSource, leaked, outLock, inLock, calls>>

PlaybackStep == WriteLock \/ WriteStart \/ Written \/ MoveLock \/ MoveInput
                  \/ OutCalled
-----------------------------------------------------------------------------
(* The record thread.                                                      *)

Read ==
  /\ pc["Record"] = "idle" /\ adevLock = None
  /\ adevLock' = "Record" /\ Goto("Record", "read")
  /\ UNCHANGED <<callVars, deviceVars, streamVars, outLock, inLock, want, calls>>

\* get_echo_reference, which replaces that of the device, if one can be created
Wanted == in.standby /\ in.need /\ in.echo = NULL
NewReferences ==
  {NULL} \cup IF ~active_output THEN {}
              ELSE {CHOOSE r \in References : r \notin {echo_reference, out.echo}}
\* start_input_stream, as far as the opening of its handle
InputStarted(opened) ==
  IF Wanted
  THEN \E echo \in NewReferences :
         /\ echo_reference' = echo
         /\ out' = IF echo # NULL THEN [out EXCEPT !.echo = echo]
                   ELSE IF echo_reference # NULL THEN TakenFromOutput ELSE out
         /\ in' = [in EXCEPT !.echo = echo, !.standby = ~opened]
  ELSE /\ in' = [in EXCEPT !.standby = ~opened]
       /\ UNCHANGED <<echo_reference, out>>

\* A resampler that cannot be created leaves the stream open, in standby.
ReadStart ==
  /\ pc["Record"] = "read" /\ inLock = None
  /\ Wanted /\ active_output => outLock = None
  /\ Unlock(adevLock)
  /\ \/ /\ ~in.standby
        /\ Goto("Record", "reading") /\ inLock' = "Record"
        /\ UNCHANGED <<out, in, active_input, inOpen, echo_reference, recRoutes,
                       adcSource, leaked>>
     \/ /\ in.standby
        /\ InputStarted(FALSE)
        /\ active_input' = FALSE
        /\ Goto("Record", "idle")
        /\ UNCHANGED <<inOpen, recRoutes, adcSource, leaked, inLock>>
     \/ /\ in.standby
        /\ \E handle \in {"ready", "unsampled"} :
             /\ InputStarted(handle = "ready")
             /\ Goto("Record", IF handle = "ready" THEN "reading" ELSE "idle")
             /\ inLock' = IF handle = "ready" THEN "Record" ELSE None
             /\ leaked' = (leaked \/ handle = "unsampled")
        /\ active_input' = TRUE
        /\ inOpen' = IF inOpen < 2 THEN inOpen + 1 ELSE inOpen
        /\ recRoutes' = TRUE
        /\ adcSource' = IF mode = "IN_CALL" THEN LineIn ELSE Mic
  /\ UNCHANGED <<callVars, deviceVars, active_output, outOpen, outLock, want,
                 calls>>

ReadDone ==
  /\ pc["Record"] = "reading"
  /\ Unlock(inLock) /\ Goto("Record", "idle")
  /\ UNCHANGED <<callVars, deviceVars, streamVars, adevLock, outLock, want, calls>>

\* in_standby, in_set_parameters, in_add_ and in_remove_audio_effect, and the
\* close of the stream and the open of the next (not once the stream was left
\* open in standby: the device would go on to point to it)
InCall ==
  /\ \E l \in {"standby", "source", "echo", "close"} :
       Begin("Record", l) /\ (l = "close" => ~leaked)
  /\ UNCHANGED <<callVars, want>>

InCalled ==
  /\ InputReady
  /\ \/ pc["Record"] = "standby" /\ InputStandby(in)
     \/ pc["Record"] = "source" /\ InputStandby([in EXCEPT !.voice = ~@])
     \/ pc["Record"] = "echo" /\ InputStandby([in EXCEPT !.need = ~@])
     \/ pc["Record"] = "close" /\ InputStandby(NewIn)
  /\ Unlock(adevLock) /\ Goto("Record", "idle")
  /\ UNCHANGED <<callVars, deviceVars, active_output, outOpen, leaked, outLock,
                 inLock, want, calls>>

RecordStep == ReadStart \/ ReadDone \/ InCalled
-----------------------------------------------------------------------------
(* The audio policy: adev_set_mode.                                        *)

SetMode ==
  /\ Begin("Policy", "forceOutput")
  /\ mode' = IF mode = "IN_CALL" THEN "NORMAL" ELSE "IN_CALL"
  /\ UNCHANGED <<in_call, callRoutes, want>>

\* end_call, before the streams are forced into standby
EndCall ==
  /\ pc["Policy"] = "forceOutput" /\ mode # "IN_CALL" /\ in_call
  /\ in_call' = FALSE /\ callRoutes' = FALSE /\ adcSource' = NoSource
  /\ UNCHANGED <<mode, deviceVars, active_output, active_input, echo_reference,
                 out, in, outOpen, inOpen, recRoutes, leaked, adevLock, outLock,
                 inLock, pc, want, calls>>

ForceOutput ==
  /\ pc["Policy"] = "forceOutput" /\ (mode = "IN_CALL" \/ ~in_call)
  /\ active_output => outLock = None
  /\ IF active_output THEN OutputStandby
     ELSE UNCHANGED <<out, outOpen, active_output>>
  /\ Goto("Policy", "forceInput")
  /\ UNCHANGED <<callVars, deviceVars, active_input, echo_reference, in, inOpen,
                 recRoutes, adcSource, leaked, adevLock, outLock, inLock, want,
                 calls>>

\* mutant: the input goes on
NotForced == FALSE
Forced == active_input
ForceInput ==
  /\ pc["Policy"] = "forceInput"
  /\ IF Forced THEN InputReady /\ InputStandby(in)
     ELSE UNCHANGED <<in, out, inOpen, active_input, echo_reference, recRoutes,
                      adcSource>>
  /\ Goto("Policy", "select")
  /\ UNCHANGED <<callVars, deviceVars, active_output, outOpen, leaked, adevLock,
                 outLock, inLock, want, calls>>

\* the rest of select_mode
Select ==
  /\ pc["Policy"] = "select"
  /\ IF mode = "IN_CALL"
     THEN /\ SelectOutput(IF outDevice = "SPEAKER" THEN "EARPIECE" ELSE outDevice)
          /\ callRoutes' = TRUE /\ adcSource' = Mic /\ in_call' = TRUE
     ELSE SelectOutput(outDevice) /\ UNCHANGED <<callRoutes, adcSource, in_call>>
  /\ Unlock(adevLock) /\ Goto("Policy", "idle")
  /\ UNCHANGED <<mode, raw_flag, active_output, active_input, echo_reference,
                 out, in, outOpen, inOpen, recRoutes, leaked, outLock, inLock,
                 want, calls>>

PolicyStep == EndCall \/ ForceOutput \/ ForceInput \/ Select

\* out_write uses a handle that is not there
Crashed == pc["Playback"] = "crashed"
Next == /\ ~Crashed
        /\ \/ Write \/ OutCall \/ PlaybackStep
           \/ Read \/ InCall \/ RecordStep
           \/ SetMode \/ PolicyStep

\* Whoever waits for a mutex gets it in the end: those who hold one release it,
\* and block on the device, for a period of frames, without that of the device.
Fairness == /\ SF_vars(PlaybackStep /\ ~Crashed)
            /\ SF_vars(RecordStep /\ ~Crashed)
            /\ SF_vars(PolicyStep /\ ~Crashed)

Spec == Init /\ [][Next]_vars
FairSpec == Spec /\ Fairness
-----------------------------------------------------------------------------
TypeOK ==
  /\ mode \in {"NORMAL", "IN_CALL"} /\ outDevice \in OutDevices
  /\ {in_call, callRoutes, recRoutes, pa, raw_flag, leaked} \subseteq BOOLEAN
  /\ {active_output, active_input} \subseteq BOOLEAN
  /\ out \in [standby : BOOLEAN, echo : {NULL} \cup References]
  /\ in \in [standby : BOOLEAN, echo : {NULL} \cup References,
             voice : BOOLEAN, need : BOOLEAN]
  /\ echo_reference \in {NULL} \cup References
  /\ adcSource \in {NoSource, Mic, LineIn}
  /\ outOpen \in 0 .. 1 /\ inOpen \in 0 .. 2
  /\ {adevLock, outLock, inLock} \subseteq Threads \cup {None}

\* No stream keeps an echo reference that has been released, by the input, the
\* output, the start of another recording or a change of mode.
EchoLive == {out.echo, in.echo} \subseteq {NULL, echo_reference}

\* Nobody releases the reference that the output feeds, for which it holds no
\* lock but its own.
EchoHeld ==
  [][outLock = "Playback" /\ out.echo # NULL =>
       echo_reference' = echo_reference]_vars

\* Between calls the device points to the streams that run, and those alone have
\* a handle open, as long as no resampler failed.
ActiveRuns == adevLock = None /\ ~Crashed /\ ~leaked =>
  /\ active_output = ~out.standby /\ active_input = ~in.standby
  /\ outOpen = (IF active_output THEN 1 ELSE 0)
  /\ inOpen = (IF active_input THEN 1 ELSE 0)

\* Between calls the routes are those of the mode: a phone call silences the
\* output, a recording in a call is of the line, and outside of the microphone,
\* and the amplifier is on for the devices that need it, whichever of the threads
\* chose the device last: the speaker, and the earpiece where there is none.
RoutesMatch == adevLock = None /\ ~Crashed =>
  /\ in_call = (mode = "IN_CALL") /\ callRoutes = in_call
  /\ in_call => out.standby
  /\ ~in.standby => recRoutes /\ adcSource = IF in_call THEN LineIn ELSE Mic
  /\ pa = (outDevice \in Amplified)

\* Every call returns: three threads never wait for each other in a circle.
CallsReturn == \A t \in Threads : []<>(pc[t] = "idle" \/ Crashed)
=============================================================================
