---------------------------- MODULE Audio_proofs ----------------------------
(***************************************************************************)
(* Proofs about the audio HAL: its types and its safety properties, for    *)
(* any number of calls.                                                    *)
(***************************************************************************)
EXTENDS Audio, TLAPS

OutStreams == [standby : BOOLEAN, echo : {NULL} \cup References]
InStreams == [standby : BOOLEAN, echo : {NULL} \cup References,
              voice : BOOLEAN, need : BOOLEAN]

\* Where each thread can be, and where it has the mutex of the device.
PlaybackPlaces == {"idle", "checked", "locked", "writing", "writingMoved",
                   "move", "moveInput", "outCall", "crashed"}
RecordPlaces == {"idle", "read", "reading", "standby", "source", "echo",
                 "close"}
PolicyPlaces == {"idle", "forceOutput", "forceInput", "select"}
HasDevice == {"locked", "moveInput", "outCall", "read", "standby", "source",
              "echo", "close", "forceOutput", "forceInput", "select"}
Wants == {Nothing, [op |-> "standby"], [op |-> "raw"]}
           \cup [op : {"route"}, device : OutDevices]
Places ==
  /\ pc \in [Threads -> PlaybackPlaces \cup RecordPlaces \cup PolicyPlaces]
  /\ pc["Playback"] \in PlaybackPlaces /\ pc["Record"] \in RecordPlaces
  /\ pc["Policy"] \in PolicyPlaces
  /\ \A t \in Threads : adevLock = t <=> pc[t] \in HasDevice
  /\ {adevLock, outLock, inLock} \subseteq Threads \cup {None}
  /\ want \in Wants

\* The output is known to the device, and has a handle, when it runs.
Outs ==
  /\ active_output => ~out.standby
  /\ outOpen = IF active_output THEN 1 ELSE 0
  /\ ~Crashed /\ ~out.standby => active_output

\* So is the input, unless it was left open.
Ins ==
  /\ ~in.standby => active_input /\ inOpen >= 1
  /\ ~leaked => /\ active_input <=> ~in.standby
                /\ inOpen = IF active_input THEN 1 ELSE 0

\* A reference that a stream has is that of the device; that of the output is
\* taken from it by whoever releases it, since the output is active.
Echo ==
  /\ out.echo # NULL => active_output /\ out.echo = echo_reference
  /\ in.echo # NULL => in.echo = echo_reference

\* The routes follow the mode, which is behind while the policy changes it.
Routes ==
  /\ callRoutes <=> in_call
  /\ pa <=> outDevice \in Amplified
  /\ in_call /\ ~Crashed => out.standby
  /\ pc["Policy"] = "idle" =>
       /\ in_call <=> mode = "IN_CALL"
       /\ ~in.standby =>
            recRoutes /\ adcSource = IF in_call THEN LineIn ELSE Mic
  /\ pc["Policy"] = "forceOutput" /\ mode = "IN_CALL" => ~in_call
  /\ pc["Policy"] \in {"forceInput", "select"} => ~in_call /\ ~active_output
  /\ pc["Policy"] = "select" => in.standby

Types ==
  /\ mode \in {"NORMAL", "IN_CALL"} /\ outDevice \in OutDevices
  /\ {in_call, callRoutes, recRoutes, pa, raw_flag, leaked} \subseteq BOOLEAN
  /\ {active_output, active_input} \subseteq BOOLEAN
  /\ out \in OutStreams /\ in \in InStreams
  /\ echo_reference \in {NULL} \cup References
  /\ adcSource \in {NoSource, Mic, LineIn}
  /\ outOpen \in 0 .. 1 /\ inOpen \in 0 .. 2
Streams == Types /\ Outs /\ Ins /\ Echo
IInv == Places /\ Streams /\ Routes
-----------------------------------------------------------------------------
\* A call that sets the route names an output device.
LEMMA RouteNamed == \A w \in Wants : w.op = "route" => w.device \in OutDevices
<1>1. \A w \in {Nothing, [op |-> "standby"], [op |-> "raw"]} : w.op # "route"
  BY DEF Nothing, None
<1>2. \A w \in [op : {"route"}, device : OutDevices] : w.device \in OutDevices
  OBVIOUS
<1>. QED BY <1>1, <1>2 DEF Wants

\* An output in standby has no handle and no reference, and is not active.
LEMMA OutputStandbyDoes ==
  ASSUME Streams, ~Crashed, OutputStandby
  PROVE  /\ out' \in OutStreams /\ out'.standby /\ out'.echo = NULL
         /\ active_output' = FALSE /\ outOpen' = 0
<1>1. CASE out.standby
  BY <1>1 DEF Streams, Types, Outs, Echo, OutputStandby, OutStreams
<1>2. CASE ~out.standby
  <2>1. out' = NewOut /\ active_output' = FALSE /\ outOpen' = outOpen - 1
    BY <1>2 DEF OutputStandby, Closed
  <2>2. outOpen = 1
    BY <1>2 DEF Streams, Outs
  <2>3. NewOut \in OutStreams /\ NewOut.standby /\ NewOut.echo = NULL
    BY DEF NewOut, OutStreams, NULL
  <2>. QED BY <2>1, <2>2, <2>3
<1>. QED BY <1>1, <1>2

\* An input in standby has released its reference, and taken it from the output.
LEMMA InputStandbyDoes ==
  ASSUME Streams, NEW stream \in InStreams, in.standby => stream.standby,
         stream.echo \in {NULL, in.echo}, InputStandby(stream)
  PROVE  /\ in' \in InStreams /\ in'.standby
         /\ out' \in OutStreams /\ out'.standby = out.standby
         /\ inOpen' \in 0 .. 2 /\ active_input' \in BOOLEAN
         /\ ~leaked => ~active_input' /\ inOpen' = 0
         /\ echo_reference' \in {NULL, echo_reference}
         /\ in'.echo # NULL => in'.echo = echo_reference'
         /\ out'.echo # NULL => active_output /\ out'.echo = echo_reference'
         /\ recRoutes' \in BOOLEAN /\ adcSource' \in {NoSource, adcSource}
<1>1. CASE in.standby
  BY <1>1 DEF Streams, Types, Ins, Echo, InputStandby, InStreams, OutStreams
<1>2. CASE ~in.standby
  <2>1. /\ in' = [stream EXCEPT !.standby = TRUE, !.echo = NULL]
        /\ inOpen' = inOpen - 1 /\ active_input' = FALSE
        /\ recRoutes' = FALSE /\ adcSource' = NoSource
    BY <1>2 DEF InputStandby
  <2>2. in' \in InStreams /\ in'.standby /\ in'.echo = NULL
    BY <2>1 DEF InStreams
  <2>3. inOpen' \in 0 .. 2 /\ (~leaked => inOpen' = 0)
    BY <1>2, <2>1 DEF Streams, Ins, Types
  <2>4. /\ out' \in OutStreams /\ out'.standby = out.standby
        /\ echo_reference' \in {NULL, echo_reference}
        /\ out'.echo # NULL => active_output /\ out'.echo = echo_reference'
    <3>1. CASE PutsReference
      <4>1. echo_reference' = NULL /\ out' = TakenFromOutput
        BY <1>2, <3>1 DEF InputStandby
      <4>. QED
        BY <4>1 DEF TakenFromOutput, Streams, Echo, Types, OutStreams, NULL
    <3>2. CASE ~PutsReference
      <4>1. echo_reference' = echo_reference /\ out' = out
        BY <1>2, <3>2 DEF InputStandby
      <4>. QED BY <4>1 DEF Streams, Echo, Types, OutStreams
    <3>. QED BY <3>1, <3>2
  <2>. QED BY <2>1, <2>2, <2>3, <2>4
<1>. QED BY <1>1, <1>2

\* A start of the input releases a reference of before, and has the new one fed
\* by the output.
LEMMA InputStartedDoes ==
  ASSUME Streams, ~Crashed, NEW opened \in BOOLEAN, InputStarted(opened)
  PROVE  /\ in' \in InStreams /\ in'.standby = ~opened
         /\ out' \in OutStreams /\ out'.standby = out.standby
         /\ echo_reference' \in {NULL} \cup References
         /\ in'.echo # NULL => in'.echo = echo_reference'
         /\ out'.echo # NULL => active_output /\ out'.echo = echo_reference'
<1>1. CASE Wanted
  <2>1. PICK echo \in NewReferences :
           /\ echo_reference' = echo
           /\ out' = IF echo # NULL THEN [out EXCEPT !.echo = echo]
                     ELSE IF echo_reference # NULL THEN TakenFromOutput ELSE out
           /\ in' = [in EXCEPT !.echo = echo, !.standby = ~opened]
    BY <1>1 DEF InputStarted
  <2>2. echo \in {NULL} \cup References /\ (echo # NULL => active_output)
    <3>1. \E r \in References : r \notin {echo_reference, out.echo}
      BY DEF References
    <3>. QED BY <3>1, <2>1 DEF NewReferences
  <2>3. in' \in InStreams /\ in'.standby = ~opened /\ in'.echo = echo
    BY <2>1, <2>2 DEF Streams, Types, InStreams
  <2>4. /\ out' \in OutStreams /\ out'.standby = out.standby
        /\ out'.echo # NULL => active_output /\ out'.echo = echo
    <3>1. CASE echo # NULL
      BY <2>1, <2>2, <3>1 DEF Streams, Types, OutStreams
    <3>2. CASE echo = NULL
      BY <2>1, <2>2, <3>2
         DEF Streams, Types, OutStreams, Echo, TakenFromOutput, NULL
    <3>. QED BY <3>1, <3>2
  <2>. QED BY <2>1, <2>2, <2>3, <2>4
<1>2. CASE ~Wanted
  BY <1>2 DEF InputStarted, Streams, Types, Echo, InStreams, OutStreams
<1>. QED BY <1>1, <1>2

\* While a stream's thread has the mutex of the device, the policy waits.
LEMMA PolicyWaits ==
  ASSUME Places,
         pc["Playback"] \in HasDevice \/ pc["Record"] \in HasDevice
  PROVE  pc["Policy"] = "idle"
BY DEF Places, HasDevice, Threads, PolicyPlaces

\* What is put into standby by in_standby and its kin is the input, at most with
\* another source or effect, or the next one.
LEMMA InCalledStandby ==
  ASSUME Streams, InCalled
  PROVE  \E stream \in InStreams :
           /\ InputStandby(stream)
           /\ in.standby => stream.standby
           /\ stream.echo \in {NULL, in.echo}
<1>1. in \in InStreams
  BY DEF Streams, Types
<1>2. CASE InputStandby(in)
  BY <1>1, <1>2, Zenon
<1>3. CASE InputStandby([in EXCEPT !.voice = ~in.voice])
  <2>1. /\ [in EXCEPT !.voice = ~in.voice] \in InStreams
        /\ [in EXCEPT !.voice = ~in.voice].standby = in.standby
        /\ [in EXCEPT !.voice = ~in.voice].echo = in.echo
    BY <1>1 DEF InStreams
  <2>. QED BY <1>3, <2>1
<1>4. CASE InputStandby([in EXCEPT !.need = ~in.need])
  <2>1. /\ [in EXCEPT !.need = ~in.need] \in InStreams
        /\ [in EXCEPT !.need = ~in.need].standby = in.standby
        /\ [in EXCEPT !.need = ~in.need].echo = in.echo
    BY <1>1 DEF InStreams
  <2>. QED BY <1>4, <2>1
<1>5. CASE InputStandby(NewIn)
  <2>1. NewIn \in InStreams /\ NewIn.standby /\ NewIn.echo = NULL
    BY DEF InStreams, NewIn, NULL
  <2>. QED BY <1>5, <2>1
<1>. QED BY <1>2, <1>3, <1>4, <1>5, Zenon DEF InCalled

LEMMA InCalledStops ==
  ASSUME Streams, InCalled
  PROVE  in'.standby /\ out'.standby = out.standby
<1>1. PICK stream \in InStreams :
         /\ InputStandby(stream)
         /\ in.standby => stream.standby
         /\ stream.echo \in {NULL, in.echo}
  BY InCalledStandby
<1>. QED BY <1>1, InputStandbyDoes

\* One thread at a time has the mutex of the device.
LEMMA PlacesKept ==
  ASSUME Places, [Next]_vars
  PROVE  Places'
<1>1. ASSUME ~Crashed, Write PROVE Places'
  BY <1>1
     DEF Write, Goto, callVars, deviceVars, streamVars, Places, Wants, Nothing,
         PlaybackPlaces, RecordPlaces, PolicyPlaces, HasDevice, Threads, None
<1>2. ASSUME ~Crashed, WriteLock PROVE Places'
  BY <1>2
     DEF WriteLock, Goto, callVars, deviceVars, streamVars, Places, Wants,
         Nothing, PlaybackPlaces, RecordPlaces, PolicyPlaces, HasDevice,
         Threads, None
<1>3. ASSUME ~Crashed, WriteStart PROVE Places'
  BY <1>3
     DEF WriteStart, Unlock, Goto, callVars, deviceVars, streamVars, Places,
         Wants, Nothing, PlaybackPlaces, RecordPlaces, PolicyPlaces, HasDevice,
         Threads, None
<1>4. ASSUME ~Crashed, Written PROVE Places'
  BY <1>4
     DEF Written, LetGo, Goto, callVars, deviceVars, streamVars, Places, Wants,
         Nothing, PlaybackPlaces, RecordPlaces, PolicyPlaces, HasDevice,
         Threads, None
<1>5. ASSUME ~Crashed, MoveLock PROVE Places'
  BY <1>5
     DEF MoveLock, Goto, callVars, deviceVars, streamVars, Places, Wants,
         Nothing, PlaybackPlaces, RecordPlaces, PolicyPlaces, HasDevice,
         Threads, None
<1>6. ASSUME ~Crashed, MoveInput PROVE Places'
  BY <1>6
     DEF MoveInput, Unlock, Goto, callVars, deviceVars, streamVars, Places,
         Wants, Nothing, PlaybackPlaces, RecordPlaces, PolicyPlaces, HasDevice,
         Threads, None
<1>7. ASSUME ~Crashed, OutCall PROVE Places'
  BY <1>7
     DEF OutCall, Begin, Goto, callVars, deviceVars, streamVars, Places, Wants,
         Nothing, PlaybackPlaces, RecordPlaces, PolicyPlaces, HasDevice,
         Threads, None
<1>8. ASSUME ~Crashed, OutCalled PROVE Places'
  BY <1>8
     DEF OutCalled, Unlock, Goto, callVars, deviceVars, streamVars, Places,
         Wants, Nothing, PlaybackPlaces, RecordPlaces, PolicyPlaces, HasDevice,
         Threads, None
<1>9. ASSUME ~Crashed, Read PROVE Places'
  BY <1>9
     DEF Read, Goto, callVars, deviceVars, streamVars, Places, Wants, Nothing,
         PlaybackPlaces, RecordPlaces, PolicyPlaces, HasDevice, Threads, None
<1>10. ASSUME ~Crashed, ReadStart PROVE Places'
  <2>1. /\ pc["Record"] = "read" /\ adevLock' = None
        /\ \/ pc' = [pc EXCEPT !["Record"] = "reading"]
           \/ pc' = [pc EXCEPT !["Record"] = "idle"]
        /\ UNCHANGED <<outLock, want>> /\ inLock' \in {"Record", None, inLock}
    BY <1>10 DEF ReadStart, Unlock, Goto
  <2>. QED
    BY <2>1
       DEF Places, PlaybackPlaces, RecordPlaces, PolicyPlaces, HasDevice,
           Threads, None
<1>11. ASSUME ~Crashed, ReadDone PROVE Places'
  BY <1>11
     DEF ReadDone, Unlock, Goto, callVars, deviceVars, streamVars, Places,
         Wants, Nothing, PlaybackPlaces, RecordPlaces, PolicyPlaces, HasDevice,
         Threads, None
<1>12. ASSUME ~Crashed, InCall PROVE Places'
  BY <1>12
     DEF InCall, Begin, Goto, callVars, deviceVars, streamVars, Places, Wants,
         Nothing, PlaybackPlaces, RecordPlaces, PolicyPlaces, HasDevice,
         Threads, None
<1>13. ASSUME ~Crashed, InCalled PROVE Places'
  BY <1>13
     DEF InCalled, Unlock, Goto, callVars, deviceVars, streamVars, Places,
         Wants, Nothing, PlaybackPlaces, RecordPlaces, PolicyPlaces, HasDevice,
         Threads, None
<1>14. ASSUME ~Crashed, SetMode PROVE Places'
  BY <1>14
     DEF SetMode, Begin, Goto, callVars, deviceVars, streamVars, Places, Wants,
         Nothing, PlaybackPlaces, RecordPlaces, PolicyPlaces, HasDevice,
         Threads, None
<1>15. ASSUME ~Crashed, EndCall PROVE Places'
  BY <1>15
     DEF EndCall, Goto, callVars, deviceVars, streamVars, Places, Wants,
         Nothing, PlaybackPlaces, RecordPlaces, PolicyPlaces, HasDevice,
         Threads, None
<1>16. ASSUME ~Crashed, ForceOutput PROVE Places'
  BY <1>16
     DEF ForceOutput, Goto, callVars, deviceVars, streamVars, Places, Wants,
         Nothing, PlaybackPlaces, RecordPlaces, PolicyPlaces, HasDevice,
         Threads, None
<1>17. ASSUME ~Crashed, ForceInput PROVE Places'
  BY <1>17
     DEF ForceInput, Goto, callVars, deviceVars, streamVars, Places, Wants,
         Nothing, PlaybackPlaces, RecordPlaces, PolicyPlaces, HasDevice,
         Threads, None
<1>18. ASSUME ~Crashed, Select PROVE Places'
  BY <1>18
     DEF Select, SelectOutput, Unlock, Goto, callVars, deviceVars, streamVars,
         Places, Wants, Nothing, PlaybackPlaces, RecordPlaces, PolicyPlaces,
         HasDevice, Threads, None
<1>19. ASSUME UNCHANGED vars PROVE Places'
  BY <1>19
     DEF vars, callVars, deviceVars, streamVars, Places, Wants, Nothing,
         PlaybackPlaces, RecordPlaces, PolicyPlaces, HasDevice, Threads, None
<1>. QED
  BY <1>1, <1>2, <1>3, <1>4, <1>5, <1>6, <1>7, <1>8, <1>9, <1>10, <1>11, <1>12,
     <1>13, <1>14, <1>15, <1>16, <1>17, <1>18, <1>19
     DEF Next, PlaybackStep, RecordStep, PolicyStep

\* The streams are what the device takes them for.
LEMMA StreamsKept ==
  ASSUME Streams, Places, [Next]_vars
  PROVE  Streams'
<1>1. ASSUME ~Crashed, Write PROVE Streams'
  BY <1>1
     DEF Write, Goto, callVars, deviceVars, streamVars, Streams, Types, Outs,
         Ins, Echo, Crashed, OutStreams, InStreams, OutDevices
<1>2. ASSUME ~Crashed, WriteLock PROVE Streams'
  BY <1>2
     DEF WriteLock, Goto, callVars, deviceVars, streamVars, Streams, Types,
         Outs, Ins, Echo, Crashed, OutStreams, InStreams, OutDevices
<1>3. ASSUME ~Crashed, WriteStart PROVE Streams'
  <2>1. /\ UNCHANGED <<callVars, raw_flag, active_input, echo_reference, in,
                      inOpen, recRoutes, adcSource, leaked>>
        /\ pc \in [Threads -> PlaybackPlaces \cup RecordPlaces \cup PolicyPlaces]
    BY <1>3 DEF WriteStart, Places
  <2>2. CASE ~out.standby
    <3>1. UNCHANGED <<outDevice, pa, active_output, outOpen, out>>
      BY <1>3, <2>2 DEF WriteStart
    <3>. QED BY <1>3, <2>1, <2>2, <3>1
                DEF Streams, Types, Outs, Ins, Echo, Crashed, OutStreams,
                    InStreams, OutDevices, callVars
  <2>3. CASE out.standby /\ StartRefused
    <3>1. /\ out' = [out EXCEPT !.standby = FALSE]
          /\ pc' = [pc EXCEPT !["Playback"] = "crashed"]
          /\ UNCHANGED <<outDevice, pa, active_output, outOpen>>
      BY <1>3, <2>3 DEF WriteStart, Goto
    <3>2. Crashed'
      BY <2>1, <3>1 DEF Threads, Crashed
    <3>. QED BY <1>3, <2>1, <2>3, <3>1, <3>2
                DEF Streams, Types, Outs, Ins, Echo, Crashed, OutStreams,
                    InStreams, OutDevices, callVars
  <2>4. CASE out.standby /\ ~StartRefused /\ OpenOutput
    <3>1. /\ active_output' = TRUE /\ outOpen' = outOpen + 1
          /\ out' = [standby |-> FALSE, echo |-> IF echo_reference # NULL
                                                THEN echo_reference ELSE out.echo]
          /\ outDevice' \in OutDevices /\ pa' \in BOOLEAN
      BY <1>3, <2>4
         DEF OpenOutput, Routings, SelectOutput, Streams, Types, OutDevices
    <3>. QED BY <1>3, <2>1, <2>4, <3>1
                DEF Streams, Types, Outs, Ins, Echo, Crashed, OutStreams,
                    InStreams, OutDevices, callVars
  <2>5. CASE out.standby /\ ~StartRefused /\ OpenOutputFails
    <3>1. /\ active_output' = FALSE /\ UNCHANGED <<outOpen, out>>
          /\ outDevice' \in OutDevices /\ pa' \in BOOLEAN
      BY <1>3, <2>5
         DEF OpenOutputFails, Routings, SelectOutput, Streams, Types, OutDevices
    <3>. QED BY <1>3, <2>1, <2>5, <3>1
                DEF Streams, Types, Outs, Ins, Echo, Crashed, OutStreams,
                    InStreams, OutDevices, callVars
  <2>. QED BY <1>3, <2>2, <2>3, <2>4, <2>5 DEF WriteStart
<1>4. ASSUME ~Crashed, Written PROVE Streams'
  BY <1>4
     DEF Written, LetGo, Goto, callVars, deviceVars, streamVars, Streams,
         Types, Outs, Ins, Echo, Crashed, OutStreams, InStreams, OutDevices
<1>5. ASSUME ~Crashed, MoveLock PROVE Streams'
  BY <1>5
     DEF MoveLock, Goto, callVars, deviceVars, streamVars, Streams, Types,
         Outs, Ins, Echo, Crashed, OutStreams, InStreams, OutDevices
<1>6. ASSUME ~Crashed, MoveInput PROVE Streams'
  <2>1. /\ UNCHANGED <<callVars, deviceVars, active_output, outOpen, leaked>>
        /\ pc' = [pc EXCEPT !["Playback"] = "idle"]
    BY <1>6 DEF MoveInput, Goto
  <2>2. CASE InputStandby(in)
    <3>1. in \in InStreams
      BY DEF Streams, Types, InStreams
    <3>. QED
      BY <1>6, <2>1, <2>2, <3>1, InputStandbyDoes
         DEF Streams, Types, Outs, Ins, Echo, Crashed, OutStreams, InStreams,
             OutDevices, callVars, deviceVars
  <2>3. CASE UNCHANGED <<in, out, inOpen, active_input, echo_reference, recRoutes,
                         adcSource>>
    BY <1>6, <2>1, <2>3
       DEF Streams, Types, Outs, Ins, Echo, Crashed, OutStreams, InStreams,
           OutDevices, callVars, deviceVars
  <2>. QED BY <1>6, <2>2, <2>3 DEF MoveInput
<1>7. ASSUME ~Crashed, OutCall PROVE Streams'
  BY <1>7
     DEF OutCall, Begin, Goto, callVars, deviceVars, streamVars, Streams,
         Types, Outs, Ins, Echo, Crashed, OutStreams, InStreams, OutDevices
<1>8. ASSUME ~Crashed, OutCalled PROVE Streams'
  <2>1. /\ UNCHANGED <<callVars, active_input, echo_reference, in, inOpen,
                      recRoutes, adcSource, leaked>>
        /\ OutputStandby \/ UNCHANGED <<out, outOpen, active_output>>
    BY <1>8 DEF OutCalled
  <2>2. /\ outDevice' \in OutDevices
        /\ pa' \in BOOLEAN /\ raw_flag' \in BOOLEAN
    <3>1. CASE want.op = "standby" /\ UNCHANGED deviceVars
      BY <3>1 DEF Streams, Types, deviceVars
    <3>2. CASE want.op = "route" /\ SelectOutput(want.device) /\ UNCHANGED raw_flag
      BY <3>2, RouteNamed DEF SelectOutput, Places, Streams, Types
    <3>3. CASE want.op = "raw" /\ raw_flag' = ~raw_flag /\ UNCHANGED <<outDevice, pa>>
      BY <3>3 DEF Streams, Types
    <3>. QED BY <1>8, <3>1, <3>2, <3>3, Zenon DEF OutCalled
  <2>3. CASE OutputStandby
    <3>1. ~Crashed
      BY <1>8
    <3>2. /\ out' \in OutStreams /\ out'.standby /\ out'.echo = NULL
          /\ active_output' = FALSE /\ outOpen' = 0
      BY <2>3, <3>1, OutputStandbyDoes
    <3>3. Types'
      <4>1. /\ mode' \in {"NORMAL", "IN_CALL"} /\ outDevice' \in OutDevices
            /\ {in_call', callRoutes', recRoutes', pa', raw_flag', leaked'}
                 \subseteq BOOLEAN
        BY <2>1, <2>2, <3>2 DEF Streams, Types, callVars, deviceVars
      <4>2. /\ {active_output', active_input'} \subseteq BOOLEAN
            /\ out' \in OutStreams /\ in' \in InStreams
        BY <2>1, <2>2, <3>2 DEF Streams, Types
      <4>3. /\ echo_reference' \in {NULL} \cup References
            /\ adcSource' \in {NoSource, Mic, LineIn}
            /\ outOpen' \in 0 .. 1 /\ inOpen' \in 0 .. 2
        BY <2>1, <2>2, <3>2 DEF Streams, Types
      <4>. QED BY <4>1, <4>2, <4>3 DEF Types
    <3>4. Outs'
      BY <3>2 DEF Outs
    <3>5. Ins' /\ Echo'
      BY <2>1, <3>2 DEF Streams, Ins, Echo
    <3>. QED BY <3>3, <3>4, <3>5 DEF Streams
  <2>4. CASE UNCHANGED <<out, outOpen, active_output>>
    BY <1>8, <2>1, <2>2, <2>4
       DEF OutCalled, Goto, Streams, Types, Outs, Ins, Echo, Crashed,
           OutStreams, InStreams, OutDevices, callVars
  <2>. QED BY <2>1, <2>3, <2>4
<1>9. ASSUME ~Crashed, Read PROVE Streams'
  BY <1>9
     DEF Read, Goto, callVars, deviceVars, streamVars, Streams, Types, Outs,
         Ins, Echo, Crashed, OutStreams, InStreams, OutDevices
<1>10. ASSUME ~Crashed, ReadStart PROVE Streams'
  <2>1. UNCHANGED <<callVars, deviceVars, active_output, outOpen>>
    BY <1>10 DEF ReadStart
  <2>2. CASE ~in.standby
    <3>1. /\ UNCHANGED <<out, in, active_input, inOpen, echo_reference, recRoutes,
                        adcSource, leaked>>
          /\ pc' = [pc EXCEPT !["Record"] = "reading"]
      BY <1>10, <2>2 DEF ReadStart, Goto
    <3>. QED BY <1>10, <2>1, <3>1
                DEF Streams, Types, Outs, Ins, Echo, Crashed, OutStreams,
                    InStreams, OutDevices, callVars, deviceVars
  <2>3. CASE /\ in.standby /\ InputStarted(FALSE) /\ active_input' = FALSE
             /\ UNCHANGED <<inOpen, recRoutes, adcSource, leaked>>
    BY <1>10, <2>1, <2>3, InputStartedDoes
       DEF Streams, Types, Outs, Ins, Echo, Crashed, OutStreams, InStreams,
           OutDevices, callVars, deviceVars
  <2>4. ASSUME NEW handle \in {"ready", "unsampled"},
               in.standby, InputStarted(handle = "ready"),
               leaked' = (leaked \/ handle = "unsampled"),
               active_input' = TRUE, recRoutes' = TRUE,
               inOpen' = IF inOpen < 2 THEN inOpen + 1 ELSE inOpen,
               adcSource' = IF mode = "IN_CALL" THEN LineIn ELSE Mic
        PROVE  Streams'
    BY <1>10, <2>1, <2>4, InputStartedDoes
       DEF Streams, Types, Outs, Ins, Echo, Crashed, OutStreams, InStreams,
           OutDevices, callVars, deviceVars
  <2>. QED BY <1>10, <2>2, <2>3, <2>4 DEF ReadStart
<1>11. ASSUME ~Crashed, ReadDone PROVE Streams'
  BY <1>11
     DEF ReadDone, Unlock, Goto, callVars, deviceVars, streamVars, Streams,
         Types, Outs, Ins, Echo, Crashed, OutStreams, InStreams, OutDevices
<1>12. ASSUME ~Crashed, InCall PROVE Streams'
  BY <1>12
     DEF InCall, Begin, Goto, callVars, deviceVars, streamVars, Streams, Types,
         Outs, Ins, Echo, Crashed, OutStreams, InStreams, OutDevices
<1>13. ASSUME ~Crashed, InCalled PROVE Streams'
  <2>1. UNCHANGED <<callVars, deviceVars, active_output, outOpen, leaked>>
    BY <1>13 DEF InCalled
  <2>2. PICK stream \in InStreams :
           /\ InputStandby(stream)
           /\ in.standby => stream.standby
           /\ stream.echo \in {NULL, in.echo}
    BY <1>13, InCalledStandby
  <2>. QED
    BY <1>13, <2>1, <2>2, InputStandbyDoes
       DEF Streams, Types, Outs, Ins, Echo, Crashed, OutStreams, InStreams,
           OutDevices, callVars, deviceVars
<1>14. ASSUME ~Crashed, SetMode PROVE Streams'
  BY <1>14
     DEF SetMode, Begin, Goto, callVars, deviceVars, streamVars, Streams,
         Types, Outs, Ins, Echo, Crashed, OutStreams, InStreams, OutDevices
<1>15. ASSUME ~Crashed, EndCall PROVE Streams'
  BY <1>15
     DEF EndCall, Goto, callVars, deviceVars, streamVars, Streams, Types, Outs,
         Ins, Echo, Crashed, OutStreams, InStreams, OutDevices
<1>16. ASSUME ~Crashed, ForceOutput PROVE Streams'
  <2>1. UNCHANGED <<callVars, deviceVars, active_input, echo_reference, in, inOpen,
                   recRoutes, adcSource, leaked>>
    BY <1>16 DEF ForceOutput
  <2>2. CASE active_output
    <3>1. OutputStandby
      BY <1>16, <2>2 DEF ForceOutput
    <3>2. ~Crashed
      BY <1>16
    <3>3. /\ out' \in OutStreams /\ out'.standby /\ out'.echo = NULL
          /\ active_output' = FALSE /\ outOpen' = 0
      BY <3>1, <3>2, OutputStandbyDoes
    <3>4. Types'
      <4>1. /\ mode' \in {"NORMAL", "IN_CALL"} /\ outDevice' \in OutDevices
            /\ {in_call', callRoutes', recRoutes', pa', raw_flag', leaked'}
                 \subseteq BOOLEAN
        BY <2>1, <3>3 DEF Streams, Types, callVars, deviceVars
      <4>2. /\ {active_output', active_input'} \subseteq BOOLEAN
            /\ out' \in OutStreams /\ in' \in InStreams
        BY <2>1, <3>3 DEF Streams, Types
      <4>3. /\ echo_reference' \in {NULL} \cup References
            /\ adcSource' \in {NoSource, Mic, LineIn}
            /\ outOpen' \in 0 .. 1 /\ inOpen' \in 0 .. 2
        BY <2>1, <3>3 DEF Streams, Types
      <4>. QED BY <4>1, <4>2, <4>3 DEF Types
    <3>5. Outs'
      BY <3>3 DEF Outs
    <3>6. Ins' /\ Echo'
      BY <2>1, <3>3 DEF Streams, Ins, Echo
    <3>. QED BY <3>4, <3>5, <3>6 DEF Streams
  <2>3. CASE ~active_output
    BY <1>16, <2>1, <2>3
       DEF ForceOutput, Goto, Streams, Types, Outs, Ins, Echo, Crashed,
           OutStreams, InStreams, OutDevices, callVars, deviceVars
  <2>. QED BY <2>2, <2>3
<1>17. ASSUME ~Crashed, ForceInput PROVE Streams'
  <2>1. /\ UNCHANGED <<callVars, deviceVars, active_output, outOpen, leaked>>
        /\ pc' = [pc EXCEPT !["Policy"] = "select"]
    BY <1>17 DEF ForceInput, Goto
  <2>2. CASE InputStandby(in)
    <3>1. in \in InStreams
      BY DEF Streams, Types, InStreams
    <3>. QED
      BY <1>17, <2>1, <2>2, <3>1, InputStandbyDoes
         DEF Streams, Types, Outs, Ins, Echo, Crashed, OutStreams, InStreams,
             OutDevices, callVars, deviceVars
  <2>3. CASE UNCHANGED <<in, out, inOpen, active_input, echo_reference, recRoutes,
                         adcSource>>
    BY <1>17, <2>1, <2>3
       DEF Streams, Types, Outs, Ins, Echo, Crashed, OutStreams, InStreams,
           OutDevices, callVars, deviceVars
  <2>. QED BY <1>17, <2>2, <2>3 DEF ForceInput
<1>18. ASSUME ~Crashed, Select PROVE Streams'
  <2>1. /\ UNCHANGED <<mode, raw_flag, active_output, active_input, echo_reference,
                      out, in, outOpen, inOpen, recRoutes, leaked>>
        /\ pc' = [pc EXCEPT !["Policy"] = "idle"]
    BY <1>18 DEF Select, Goto
  <2>2. /\ callRoutes' \in BOOLEAN /\ in_call' \in BOOLEAN
        /\ adcSource' \in {NoSource, Mic, LineIn}
    BY <1>18 DEF Select, Streams, Types
  <2>3. \E d \in OutDevices : SelectOutput(d)
    BY <1>18 DEF Select, Streams, Types, OutDevices
  <2>4. outDevice' \in OutDevices /\ pa' \in BOOLEAN
    BY <2>3 DEF SelectOutput
  <2>. QED BY <1>18, <2>1, <2>2, <2>4
              DEF Streams, Types, Outs, Ins, Echo, Crashed, OutStreams,
                  InStreams, OutDevices
<1>19. ASSUME UNCHANGED vars PROVE Streams'
  BY <1>19
     DEF vars, callVars, deviceVars, streamVars, Streams, Types, Outs, Ins,
         Echo, Crashed, OutStreams, InStreams, OutDevices
<1>. QED
  BY <1>1, <1>2, <1>3, <1>4, <1>5, <1>6, <1>7, <1>8, <1>9, <1>10, <1>11, <1>12,
     <1>13, <1>14, <1>15, <1>16, <1>17, <1>18, <1>19
     DEF Next, PlaybackStep, RecordStep, PolicyStep

\* The routes follow the mode.
LEMMA RoutesKept ==
  ASSUME Streams, Places, Routes, [Next]_vars
  PROVE  Routes'
<1>1. ASSUME ~Crashed, Write PROVE Routes'
  BY <1>1
     DEF Write, Goto, callVars, deviceVars, streamVars, Streams, Types, Outs,
         Ins, Routes, Crashed, Threads
<1>2. ASSUME ~Crashed, WriteLock PROVE Routes'
  BY <1>2
     DEF WriteLock, Goto, callVars, deviceVars, streamVars, Streams, Types,
         Outs, Ins, Routes, Crashed, Threads
<1>3. ASSUME ~Crashed, WriteStart PROVE Routes'
  <2>1. /\ pc["Policy"] = "idle" /\ pc'["Policy"] = "idle"
        /\ UNCHANGED <<callVars, in, recRoutes, adcSource>>
    <3>1. pc["Policy"] = "idle"
      BY <1>3, PolicyWaits DEF WriteStart, HasDevice
    <3>. QED BY <1>3, <3>1 DEF WriteStart, Goto, Places, Threads
  <2>2. pa' <=> outDevice' \in Amplified
    <3>1. CASE UNCHANGED <<outDevice, pa>>
      BY <3>1 DEF Routes
    <3>2. CASE \E d \in Routings : SelectOutput(d)
      BY <3>2 DEF SelectOutput
    <3>. QED BY <1>3, <3>1, <3>2, Zenon
                DEF WriteStart, OpenOutput, OpenOutputFails
  <2>3. in_call' /\ ~Crashed' => out'.standby
    <3>1. SUFFICES ASSUME in_call' PROVE Crashed' \/ out'.standby
      OBVIOUS
    <3>2. in_call /\ mode = "IN_CALL" /\ out.standby
      BY <1>3, <2>1, <3>1 DEF Routes, callVars
    <3>3. pc' = [pc EXCEPT !["Playback"] = "crashed"]
      BY <1>3, <3>2 DEF WriteStart, StartRefused, Goto
    <3>. QED BY <3>3 DEF Crashed, Places, Threads
  <2>. QED BY <2>1, <2>2, <2>3 DEF Routes, callVars
<1>4. ASSUME ~Crashed, Written PROVE Routes'
  BY <1>4
     DEF Written, LetGo, Goto, callVars, deviceVars, streamVars, Streams,
         Types, Outs, Ins, Routes, Crashed, Threads
<1>5. ASSUME ~Crashed, MoveLock PROVE Routes'
  BY <1>5
     DEF MoveLock, Goto, callVars, deviceVars, streamVars, Streams, Types,
         Outs, Ins, Routes, Crashed, Threads
<1>6. ASSUME ~Crashed, MoveInput PROVE Routes'
  <2>1. /\ pc["Policy"] = "idle" /\ pc'["Policy"] = "idle"
        /\ UNCHANGED <<callVars, outDevice, pa>>
    <3>1. pc["Policy"] = "idle"
      BY <1>6, PolicyWaits DEF MoveInput, HasDevice
    <3>. QED BY <1>6, <3>1 DEF MoveInput, Goto, Places, Threads, deviceVars
  <2>2. CASE InputStandby(in)
    <3>1. in'.standby /\ out'.standby = out.standby
      BY <2>2, InputStandbyDoes DEF Streams, Types
    <3>. QED BY <1>6, <2>1, <3>1 DEF Routes, callVars
  <2>3. CASE UNCHANGED <<in, out, recRoutes, adcSource>>
    BY <1>6, <2>1, <2>3 DEF Routes, callVars
  <2>. QED BY <1>6, <2>2, <2>3 DEF MoveInput
<1>7. ASSUME ~Crashed, OutCall PROVE Routes'
  BY <1>7
     DEF OutCall, Begin, Goto, callVars, deviceVars, streamVars, Streams,
         Types, Outs, Ins, Routes, Crashed, Threads
<1>8. ASSUME ~Crashed, OutCalled PROVE Routes'
  <2>1. /\ pc["Policy"] = "idle" /\ pc'["Policy"] = "idle"
        /\ UNCHANGED <<callVars, in, recRoutes, adcSource>>
    <3>1. pc["Policy"] = "idle"
      BY <1>8, PolicyWaits DEF OutCalled, HasDevice
    <3>. QED BY <1>8, <3>1 DEF OutCalled, Goto, Places, Threads
  <2>2. pa' <=> outDevice' \in Amplified
    <3>1. CASE UNCHANGED <<outDevice, pa>>
      BY <3>1 DEF Routes
    <3>2. CASE SelectOutput(want.device)
      BY <3>2 DEF SelectOutput
    <3>. QED BY <1>8, <3>1, <3>2, Zenon DEF OutCalled, deviceVars
  <2>3. out'.standby \/ out' = out
    BY <1>8, OutputStandbyDoes DEF OutCalled
  <2>. QED BY <1>8, <2>1, <2>2, <2>3 DEF Routes, callVars
<1>9. ASSUME ~Crashed, Read PROVE Routes'
  BY <1>9
     DEF Read, Goto, callVars, deviceVars, streamVars, Streams, Types, Outs,
         Ins, Routes, Crashed, Threads
<1>10. ASSUME ~Crashed, ReadStart PROVE Routes'
  <2>1. /\ pc["Policy"] = "idle" /\ pc'["Policy"] = "idle"
        /\ UNCHANGED <<callVars, outDevice, pa>>
    <3>1. pc["Policy"] = "idle"
      BY <1>10, PolicyWaits DEF ReadStart, HasDevice
    <3>. QED BY <1>10, <3>1 DEF ReadStart, Goto, Places, Threads, deviceVars
  <2>2. CASE UNCHANGED <<out, in, recRoutes, adcSource>>
    BY <1>10, <2>1, <2>2 DEF Routes, callVars
  <2>3. CASE InputStarted(FALSE)
    <3>1. in'.standby /\ out'.standby = out.standby
      BY <1>10, <2>3, InputStartedDoes
    <3>. QED BY <1>10, <2>1, <3>1 DEF Routes, callVars
  <2>4. ASSUME NEW handle \in {"ready", "unsampled"},
               InputStarted(handle = "ready"), recRoutes' = TRUE,
               adcSource' = IF mode = "IN_CALL" THEN LineIn ELSE Mic
        PROVE  Routes'
    <3>1. out'.standby = out.standby
      BY <1>10, <2>4, InputStartedDoes
    <3>. QED BY <1>10, <2>1, <2>4, <3>1 DEF Routes, callVars
  <2>. QED BY <1>10, <2>2, <2>3, <2>4 DEF ReadStart
<1>11. ASSUME ~Crashed, ReadDone PROVE Routes'
  BY <1>11
     DEF ReadDone, Unlock, Goto, callVars, deviceVars, streamVars, Streams,
         Types, Outs, Ins, Routes, Crashed, Threads
<1>12. ASSUME ~Crashed, InCall PROVE Routes'
  BY <1>12
     DEF InCall, Begin, Goto, callVars, deviceVars, streamVars, Streams, Types,
         Outs, Ins, Routes, Crashed, Threads
<1>13. ASSUME ~Crashed, InCalled PROVE Routes'
  <2>1. /\ pc["Policy"] = "idle" /\ pc'["Policy"] = "idle"
        /\ UNCHANGED <<callVars, outDevice, pa>>
    <3>1. pc["Policy"] = "idle"
      BY <1>13, PolicyWaits DEF InCalled, HasDevice
    <3>. QED BY <1>13, <3>1 DEF InCalled, Goto, Places, Threads, deviceVars
  <2>2. in'.standby /\ out'.standby = out.standby
    BY <1>13, InCalledStops
  <2>. QED BY <1>13, <2>1, <2>2 DEF Routes, callVars
<1>14. ASSUME ~Crashed, SetMode PROVE Routes'
  <2>1. /\ pc["Policy"] = "idle" /\ pc'["Policy"] = "forceOutput"
        /\ mode' = IF mode = "IN_CALL" THEN "NORMAL" ELSE "IN_CALL"
        /\ UNCHANGED <<in_call, callRoutes, deviceVars, out>>
    BY <1>14 DEF SetMode, Begin, Goto, Places, Threads, streamVars
  <2>. QED BY <1>14, <2>1 DEF Routes, deviceVars
<1>15. ASSUME ~Crashed, EndCall PROVE Routes'
  BY <1>15
     DEF EndCall, Goto, callVars, deviceVars, streamVars, Streams, Types, Outs,
         Ins, Routes, Crashed, Threads
<1>16. ASSUME ~Crashed, ForceOutput PROVE Routes'
  BY <1>16
     DEF ForceOutput, OutputStandby, Closed, Goto, callVars, deviceVars,
         streamVars, Streams, Types, Outs, Ins, Routes, Crashed, Threads
<1>17. ASSUME ~Crashed, ForceInput PROVE Routes'
  <2>1. /\ pc["Policy"] = "forceInput" /\ pc'["Policy"] = "select"
        /\ UNCHANGED <<callVars, deviceVars, active_output>>
    BY <1>17 DEF ForceInput, Goto, Places, Threads
  <2>2. in'.standby
    <3>1. CASE active_input
      BY <1>17, <3>1, InputStandbyDoes DEF ForceInput, Forced, Streams, Types
    <3>2. CASE ~active_input
      BY <1>17, <3>2 DEF ForceInput, Forced, Streams, Ins
    <3>. QED BY <3>1, <3>2
  <2>. QED BY <1>17, <2>1, <2>2 DEF Routes, callVars, deviceVars
<1>18. ASSUME ~Crashed, Select PROVE Routes'
  <2>1. /\ pc["Policy"] = "select" /\ pc'["Policy"] = "idle"
        /\ UNCHANGED <<mode, in, out>>
        /\ pa' <=> outDevice' \in Amplified
    BY <1>18 DEF Select, SelectOutput, Goto, Places, Threads
  <2>2. in.standby /\ out.standby /\ ~in_call /\ ~callRoutes
    BY <1>18, <2>1 DEF Routes, Streams, Outs
  <2>3. IF mode = "IN_CALL" THEN callRoutes' = TRUE /\ in_call' = TRUE
        ELSE UNCHANGED <<callRoutes, in_call>>
    BY <1>18 DEF Select
  <2>. QED BY <2>1, <2>2, <2>3 DEF Routes
<1>19. ASSUME UNCHANGED vars PROVE Routes'
  BY <1>19
     DEF vars, callVars, deviceVars, streamVars, Streams, Types, Outs, Ins,
         Routes, Crashed, Threads
<1>. QED
  BY <1>1, <1>2, <1>3, <1>4, <1>5, <1>6, <1>7, <1>8, <1>9, <1>10, <1>11, <1>12,
     <1>13, <1>14, <1>15, <1>16, <1>17, <1>18, <1>19
     DEF Next, PlaybackStep, RecordStep, PolicyStep

-----------------------------------------------------------------------------
THEOREM Invariance == Spec => []IInv
<1>1. Init => IInv
  <2> SUFFICES ASSUME Init PROVE IInv
    OBVIOUS
  <2> USE DEF Init
  <2>1. Places
    BY DEF Places, Wants, PlaybackPlaces, RecordPlaces, PolicyPlaces,
           HasDevice,
           Threads, None
  <2>2. out \in OutStreams /\ in \in InStreams
    BY DEF NewOut, NewIn, OutStreams, InStreams
  <2>3. Types
    <3>1. /\ mode \in {"NORMAL", "IN_CALL"} /\ outDevice \in OutDevices
          /\ {in_call, callRoutes, recRoutes, pa, raw_flag, leaked}
               \subseteq BOOLEAN
      BY DEF OutDevices
    <3>2. {active_output, active_input} \subseteq BOOLEAN
      OBVIOUS
    <3>3. /\ echo_reference \in {NULL} \cup References
          /\ adcSource \in {NoSource, Mic, LineIn}
          /\ outOpen \in 0 .. 1 /\ inOpen \in 0 .. 2
      BY DEF NULL
    <3>. QED BY <2>2, <3>1, <3>2, <3>3 DEF Types
  <2>4. Outs /\ Ins /\ Echo
    BY DEF Outs, Ins, Echo, NewOut, NewIn, Crashed
  <2>5. Routes
    BY DEF Routes, NewOut, NewIn, Threads, Crashed, Amplified
  <2>. QED BY <2>1, <2>3, <2>4, <2>5 DEF IInv, Streams
<1>2. IInv /\ [Next]_vars => IInv'
  BY PlacesKept, StreamsKept, RoutesKept DEF IInv
<1>. QED BY <1>1, <1>2, PTL DEF Spec

\* The audio HAL is well typed, after any number of calls: no stream is opened
\* twice or closed without having been opened, but for a resampler that failed.
THEOREM AudioTypeCorrect == Spec => []TypeOK
<1>1. IInv => TypeOK
  BY DEF IInv, Streams, Places, Types, TypeOK, OutStreams, InStreams
<1>. QED BY <1>1, Invariance, PTL

\* No stream keeps a reference that was released.
THEOREM ReferencesLive == Spec => []EchoLive
<1>1. IInv => EchoLive
  BY DEF IInv, Streams, Echo, EchoLive
<1>. QED BY <1>1, Invariance, PTL

\* None is released under an output that feeds it without the device's mutex.
THEOREM ReferenceHeld == Spec => EchoHeld
<1> DEFINE Held == outLock = "Playback" /\ out.echo # NULL =>
                     echo_reference' = echo_reference
<1>1. IInv /\ Next => Held
  <2> SUFFICES ASSUME IInv, Next, outLock = "Playback", out.echo # NULL
               PROVE  echo_reference' = echo_reference
    OBVIOUS
  <2>1. active_output /\ outLock # None
    BY DEF IInv, Streams, Echo, None
  <2>2. \A stream \in InStreams :
          InputReady /\ InputStandby(stream) => echo_reference' = echo_reference
    BY <2>1 DEF InputReady, InputStandby
  <2>3. ASSUME InCalled PROVE echo_reference' = echo_reference
    <3>1. InputReady
      BY <2>3 DEF InCalled
    <3>. QED BY <2>2, <2>3, <3>1, InCalledStandby DEF IInv
  <2>4. ASSUME MoveInput \/ ForceInput PROVE echo_reference' = echo_reference
    <3>1. in \in InStreams
      BY DEF IInv, Streams, Types
    <3>. QED BY <2>2, <2>4, <3>1, Zenon DEF MoveInput, ForceInput
  <2>5. ASSUME ReadStart PROVE echo_reference' = echo_reference
    <3>1. ~Wanted
      BY <2>1, <2>5 DEF ReadStart
    <3>. QED BY <2>5, <3>1 DEF ReadStart, InputStarted
  <2>. QED
    BY <2>3, <2>4, <2>5
       DEF Next, PlaybackStep, RecordStep, PolicyStep, Write, WriteLock,
           WriteStart, Written, MoveLock, OutCall, OutCalled, Read, ReadDone,
           InCall, SetMode, EndCall, ForceOutput, Select, Begin, streamVars
<1>2. IInv /\ [Next]_vars => [Held]_vars
  BY <1>1
<1>. QED BY <1>2, Invariance, PTL DEF Spec, EchoHeld

\* Between calls the device knows the streams that run, and no other handle is
\* open.
THEOREM StreamsKnown == Spec => []ActiveRuns
<1>1. IInv => ActiveRuns
  BY DEF IInv, Streams, Types, Outs, Ins, ActiveRuns
<1>. QED BY <1>1, Invariance, PTL

\* Between calls the routes are those of the mode.
THEOREM RoutesFollow == Spec => []RoutesMatch
<1>1. IInv => RoutesMatch
  <2> SUFFICES ASSUME IInv, adevLock = None, ~Crashed PROVE RoutesMatch
    BY DEF RoutesMatch
  <2>1. pc["Policy"] = "idle"
    BY DEF IInv, Places, PolicyPlaces, HasDevice, Threads, None
  <2>. QED BY <2>1 DEF IInv, Streams, Types, Routes, RoutesMatch
<1>. QED BY <1>1, Invariance, PTL
=============================================================================
