--------------------------- MODULE UpdateDelivery ---------------------------
(***************************************************************************)
(* What a resumable download of an update promises, without the download   *)
(* tracker, the retries and the open files that ModuleDownload uses to     *)
(* keep the promise.  content says which module version the data in each   *)
(* module's place of the component files belongs to (0: none), target is   *)
(* the version the session under way delivers (0: no session), outcome is  *)
(* what the last session reported.                                         *)
(***************************************************************************)
EXTENDS Naturals

CONSTANTS Slots,      \* the places of all modules in the component files
          Wanted,     \* those the device is to receive
          Versions    \* the module versions the server may offer

VARIABLES content, target, outcome

vars == <<content, target, outcome>>

Data == Versions \cup {0}

Init ==
  /\ content = [s \in Slots |-> 0]
  /\ target = 0
  /\ outcome = "none"

Begin(v) ==
  /\ target = 0
  /\ target' = v
  /\ outcome' = "none"
  /\ UNCHANGED content

\* What a place may hold after a step: what it held, nothing (overwritten,
\* truncated or never synced) or, where the session was writing, its data.
MayHold(s, new) == {content[s], 0} \cup (IF s \in new THEN {target} ELSE {})

Changed(new) ==
  {f \in [Slots -> Data] : \A s \in Slots : f[s] \in MayHold(s, new)}

\* A write that never leaves the memory uncovers what lay beneath it, which
\* may be older data; there is one such write at most.
Broken(new) ==
  {f \in [Slots -> Data] :
     \E last \in Slots : \A s \in Slots \ {last} : f[s] \in MayHold(s, new)}

Write(s) ==
  /\ target # 0
  /\ content' \in Changed({s})
  /\ content'[s] = target
  /\ UNCHANGED <<target, outcome>>

Delivered == \A s \in Wanted : content[s] = target

\* A session ends well only when everything wanted is in its place.
Succeed ==
  /\ target # 0
  /\ Delivered
  /\ outcome' \in {"installed", "complete"}
  /\ target' = 0
  /\ UNCHANGED content

\* A session that breaks off may have delivered some of the data.
Fail ==
  /\ content' \in Broken(Slots)
  /\ target' = 0
  /\ outcome' = "failed"

Crash ==
  /\ content' \in Broken({})
  /\ target' = 0
  /\ outcome' = "none"

Next ==
  \/ \E v \in Versions : Begin(v)
  \/ \E s \in Slots : Write(s)
  \/ Succeed
  \/ Fail
  \/ Crash

Spec == Init /\ [][Next]_vars

TypeOK ==
  /\ content \in [Slots -> Data]
  /\ target \in Data
  /\ outcome \in {"none", "failed", "installed", "complete"}

\* A device that was told the update is there holds one version throughout:
\* never a mixture of an old download and a new one.
OneVersion ==
  outcome \in {"installed", "complete"} =>
    target = 0 /\ \E v \in Versions : \A s \in Wanted : content[s] = v
=============================================================================
