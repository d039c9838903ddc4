----------------------------- MODULE HostLookup -----------------------------
(***************************************************************************)
(* UtvPlatformInternetCommonDNS: the cache of host addresses, the callers  *)
(* that look a host up, and the detached thread each look-up starts and    *)
(* may leave behind when its time is over.                                 *)
(*                                                                         *)
(* The address, the flag and the wait handle through which a thread        *)
(* answers are one set of statics, without a lock: a thread that is late   *)
(* answers whoever asks then.  UtvAbort wakes every wait, these included.  *)
(***************************************************************************)
EXTENDS Naturals, FiniteSets

CONSTANTS
  Callers,         \* threads that open sessions
  Hosts,
  NoHost,
  UTV_WAIT_MAX,
  MaxLookups,      \* bound: resolver threads that are created
  MaxWakes,        \* bound: calls of UtvWakeAllThreads
  MaxRefusals      \* bound: failures of pthread_create

ASSUME LookupAssumption ==
  /\ NoHost \notin Hosts
  /\ UTV_WAIT_MAX \in Nat \ {0}
  /\ MaxLookups \in Nat /\ MaxWakes \in Nat /\ MaxRefusals \in Nat

Entries == 0 .. 1               \* _NUM_DNS_CACHE_ENTRIES
Handles == 0 .. UTV_WAIT_MAX - 1
NoHandle == UTV_WAIT_MAX
Lookups == 1 .. MaxLookups

VARIABLES
  s_DNSCacheEntries,       \* of each entry: a name and the host whose address
                           \* it holds; an address is written as its host
  s_uiAddress, s_bDNSRequestProcessed, s_hWait,
  waits,                   \* of each live handle: its count
  pc, host,                \* of each caller: where it is, what it looks up,
  rStatus,                 \* what its wait returned,
  hWait,                   \* the handle it waits on,
  uiAddress,               \* and the address it is given
  resolver, asked,         \* of each resolver thread: its pc and its host
  lookups, wakes, refusals,
  overlap                  \* some call began when another call or a resolver
                           \* thread was under way

statics == <<s_uiAddress, s_bDNSRequestProcessed, s_hWait>>
callerVars == <<pc, host, rStatus, hWait, uiAddress>>
threadVars == <<resolver, asked, lookups>>
boundVars == <<wakes, refusals, overlap>>
vars == <<s_DNSCacheEntries, statics, waits, callerVars, threadVars, boundVars>>

Free == [name |-> NoHost, address |-> NoHost]

Init ==
  /\ s_DNSCacheEntries = [i \in Entries |-> Free]
  /\ s_uiAddress = NoHost /\ s_bDNSRequestProcessed = FALSE /\ s_hWait = 0
  /\ waits = [h \in {} |-> 0]
  /\ pc = [c \in Callers |-> "idle"] /\ host = [c \in Callers |-> NoHost]
  /\ rStatus = [c \in Callers |-> "UTV_OK"]
  /\ hWait = [c \in Callers |-> NoHandle]
  /\ uiAddress = [c \in Callers |-> NoHost]
  /\ resolver = [n \in Lookups |-> "none"]
  /\ asked = [n \in Lookups |-> NoHost]
  /\ lookups = 0 /\ wakes = 0 /\ refusals = 0 /\ overlap = FALSE
-----------------------------------------------------------------------------
Goto(c, l) == pc' = [pc EXCEPT ![c] = l]
\* the call returns, and its locals are gone
Return(c) == /\ Goto(c, "idle")
             /\ host' = [host EXCEPT ![c] = NoHost]
             /\ rStatus' = [rStatus EXCEPT ![c] = "UTV_OK"]
             /\ hWait' = [hWait EXCEPT ![c] = NoHandle]
             /\ uiAddress' = [uiAddress EXCEPT ![c] = NoHost]
UnderWay == \/ \E c \in Callers : pc[c] # "idle"
            \/ \E n \in Lookups : resolver[n] \notin {"none", "over"}

Live == DOMAIN waits
\* UtvWaitSignal; a handle that is not live is refused
Signalled(S) == [h \in Live |-> IF h \in S THEN waits[h] + 1 ELSE waits[h]]
\* UtvWaitDestroy
\* mutant: it is forgotten
Kept(h) == waits
Destroyed(h) == [g \in Live \ {h} |-> waits[g]]

Hit(h) == {i \in Entries : s_DNSCacheEntries[i].address # NoHost
                             /\ s_DNSCacheEntries[i].name = h}

\* the call, once the cache has been searched in vain
Begin(c) ==
  /\ pc[c] = "idle" /\ lookups < MaxLookups
  /\ overlap' = (overlap \/ UnderWay)
  /\ \E h \in Hosts : Hit(h) = {} /\ host' = [host EXCEPT ![c] = h]
  /\ Goto(c, "init")
  /\ UNCHANGED <<s_DNSCacheEntries, statics, waits, rStatus, hWait, uiAddress,
                 threadVars, wakes, refusals>>

Unused == Handles \ Live
\* UtvWaitInit, whose result is not looked at: a full table leaves s_hWait alone
WaitInit(c) ==
  /\ pc[c] = "init"
  /\ IF Unused = {} THEN UNCHANGED <<s_hWait, waits>>
     ELSE /\ s_hWait' = CHOOSE h \in Unused : \A g \in Unused : h <= g
          /\ waits' = [h \in Live \cup {s_hWait'} |->
                         IF h = s_hWait' THEN 0 ELSE waits[h]]
  /\ Goto(c, "address")
  /\ UNCHANGED <<s_DNSCacheEntries, s_uiAddress, s_bDNSRequestProcessed,
                 host, rStatus, hWait, uiAddress, threadVars, boundVars>>

\* mutant: the last answer stays
LastAnswer == s_uiAddress
NoAnswer == NoHost
ResetAddress(c) ==
  /\ pc[c] = "address"
  /\ s_uiAddress' = NoAnswer
  /\ Goto(c, "processed")
  /\ UNCHANGED <<s_DNSCacheEntries, s_bDNSRequestProcessed, s_hWait, waits,
                 host, rStatus, hWait, uiAddress, threadVars, boundVars>>

ResetProcessed(c) ==
  /\ pc[c] = "processed"
  /\ s_bDNSRequestProcessed' = FALSE
  /\ Goto(c, "create")
  /\ UNCHANGED <<s_DNSCacheEntries, s_uiAddress, s_hWait, waits,
                 host, rStatus, hWait, uiAddress, threadVars, boundVars>>

\* a thread that cannot be created ends the call, and its wait stays
Create(c) ==
  /\ pc[c] = "create"
  /\ \/ /\ lookups < MaxLookups
        /\ lookups' = lookups + 1
        /\ resolver' = [resolver EXCEPT ![lookups'] = "resolving"]
        /\ asked' = [asked EXCEPT ![lookups'] = host[c]]
        /\ hWait' = [hWait EXCEPT ![c] = s_hWait]
        /\ Goto(c, "wait") /\ UNCHANGED <<host, rStatus, uiAddress, refusals>>
     \/ /\ refusals < MaxRefusals \/ lookups = MaxLookups
        /\ refusals' = refusals + 1
        /\ Return(c)
        /\ UNCHANGED threadVars
  /\ UNCHANGED <<s_DNSCacheEntries, statics, waits, wakes, overlap>>

\* UtvWaitTimed, which ends when it is signalled, or after its time
\* mutant: only when it is signalled
NeverExpires(c) == FALSE
Expires(c) == waits[hWait[c]] = 0
WaitTimed(c) ==
  /\ pc[c] = "wait"
  /\ \/ hWait[c] \notin Live
          /\ rStatus' = [rStatus EXCEPT ![c] = "UTV_BAD_WAIT_HANDLE"]
     \/ hWait[c] \in Live /\ waits[hWait[c]] > 0
          /\ rStatus' = [rStatus EXCEPT ![c] = "UTV_OK"]
     \/ hWait[c] \in Live /\ Expires(c)
          /\ rStatus' = [rStatus EXCEPT ![c] = "UTV_TIMEOUT"]
  /\ Goto(c, "destroy")
  /\ UNCHANGED <<s_DNSCacheEntries, statics, waits, host, hWait, uiAddress,
                 threadVars, boundVars>>

WaitDestroy(c) ==
  /\ pc[c] = "destroy"
  /\ waits' = Destroyed(s_hWait)
  /\ IF rStatus[c] = "UTV_BAD_WAIT_HANDLE" THEN Return(c)
     ELSE Goto(c, "check") /\ UNCHANGED <<host, rStatus, hWait, uiAddress>>
  /\ UNCHANGED <<s_DNSCacheEntries, statics, threadVars, boundVars>>

\* without an answer the call returns what the wait did
Check(c) ==
  /\ pc[c] = "check"
  /\ IF ~s_bDNSRequestProcessed THEN Return(c)
     ELSE Goto(c, "answer") /\ UNCHANGED <<host, rStatus, hWait, uiAddress>>
  /\ UNCHANGED <<s_DNSCacheEntries, statics, waits, threadVars, boundVars>>

Answer(c) ==
  /\ pc[c] = "answer"
  /\ IF s_uiAddress = NoHost
     THEN Return(c)
     ELSE /\ uiAddress' = [uiAddress EXCEPT ![c] = s_uiAddress]
          /\ Goto(c, "store") /\ UNCHANGED <<host, rStatus, hWait>>
  /\ UNCHANGED <<s_DNSCacheEntries, statics, waits, threadVars, boundVars>>

\* the first free entry, or else the last
Victim == IF s_DNSCacheEntries[0].address = NoHost THEN 0 ELSE 1
Store(c) ==
  /\ pc[c] = "store"
  /\ s_DNSCacheEntries' = [s_DNSCacheEntries EXCEPT
       ![Victim] = [name |-> host[c], address |-> s_uiAddress]]
  /\ Return(c)
  /\ UNCHANGED <<statics, waits, threadVars, boundVars>>

CallerStep(c) == \/ WaitInit(c) \/ ResetAddress(c) \/ ResetProcessed(c)
                 \/ Create(c) \/ WaitTimed(c) \/ WaitDestroy(c)
                 \/ Check(c) \/ Answer(c) \/ Store(c)
-----------------------------------------------------------------------------
(* getHostByNameThread, which finds an address or not, sooner or later.    *)

Resolved(n) ==
  /\ resolver[n] = "resolving"
  /\ s_uiAddress' \in {asked[n], s_uiAddress}
  /\ resolver' = [resolver EXCEPT ![n] = "flag"]
  /\ UNCHANGED <<s_DNSCacheEntries, s_bDNSRequestProcessed, s_hWait, waits,
                 callerVars, asked, lookups, boundVars>>

Flag(n) ==
  /\ resolver[n] = "flag"
  /\ s_bDNSRequestProcessed' = TRUE
  /\ resolver' = [resolver EXCEPT ![n] = "signal"]
  /\ UNCHANGED <<s_DNSCacheEntries, s_uiAddress, s_hWait, waits, callerVars,
                 asked, lookups, boundVars>>

Signal(n) ==
  /\ resolver[n] = "signal"
  /\ waits' = Signalled({s_hWait})
  /\ resolver' = [resolver EXCEPT ![n] = "over"]
  /\ UNCHANGED <<s_DNSCacheEntries, statics, callerVars, asked, lookups,
                 boundVars>>

\* UtvWakeAllThreads, of an abort
WakeAll ==
  /\ wakes < MaxWakes
  /\ wakes' = wakes + 1
  /\ waits' = Signalled(Live)
  /\ UNCHANGED <<s_DNSCacheEntries, statics, callerVars, threadVars, refusals,
                 overlap>>

Next == \/ \E c \in Callers : Begin(c) \/ CallerStep(c)
        \/ \E n \in Lookups : Resolved(n) \/ Flag(n) \/ Signal(n)
        \/ WakeAll

Spec == Init /\ [][Next]_vars
\* A caller that can run does, and its time passes; a resolver need not answer.
FairSpec == Spec /\ \A c \in Callers : WF_vars(CallerStep(c))
-----------------------------------------------------------------------------
Addresses == Hosts \cup {NoHost}
CallerPcs == {"idle", "init", "address", "processed", "create", "wait",
              "destroy", "check", "answer", "store"}
TypeOK ==
  /\ s_DNSCacheEntries \in
       [Entries -> [name : Addresses, address : Addresses]]
  /\ s_uiAddress \in Addresses /\ s_bDNSRequestProcessed \in BOOLEAN
  /\ s_hWait \in Handles
  /\ Live \subseteq Handles /\ waits \in [Live -> Nat]
  /\ pc \in [Callers -> CallerPcs]
  /\ host \in [Callers -> Addresses] /\ uiAddress \in [Callers -> Addresses]
  /\ rStatus \in [Callers -> {"UTV_OK", "UTV_TIMEOUT", "UTV_BAD_WAIT_HANDLE"}]
  /\ hWait \in [Callers -> Handles \cup {NoHandle}]
  /\ resolver \in
       [Lookups -> {"none", "resolving", "flag", "signal", "over"}]
  /\ asked \in [Lookups -> Addresses]
  /\ lookups \in 0 .. MaxLookups
  /\ wakes \in Nat /\ refusals \in Nat /\ overlap \in BOOLEAN

\* As long as no call began while another call, or the thread of one whose time
\* was over, was under way, every address that is returned or kept is that of
\* the host that was asked for: across hosts that are not found, answers that
\* come between the timeout and its check, and aborts.
OwnAnswer == ~overlap =>
  /\ \A c \in Callers : uiAddress[c] \in {NoHost, host[c]}
  /\ \A i \in Entries :
       s_DNSCacheEntries[i].name = s_DNSCacheEntries[i].address

\* Calls that do not overlap leave no wait behind but those of the threads that
\* could not be created: the table of four waits serves the whole process.
HandlesReturn == ~overlap /\ ~UnderWay => Cardinality(Live) <= refusals

\* Every call returns, whatever the resolver threads do.
LookupEnds == \A c \in Callers : []<>(pc[c] = "idle")

\* "if s_bDNSRequestProcessed is (still) false, it really can't be anything other
\* than UTV_TIMEOUT == rStatus": a call without an answer says so.
NoAnswerIsTimeout == \A c \in Callers :
  pc[c] = "check" /\ ~s_bDNSRequestProcessed => rStatus[c] = "UTV_TIMEOUT"
=============================================================================
