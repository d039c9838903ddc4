------------------------- MODULE UpdateOffer_proofs -------------------------
(***************************************************************************)
(* Proofs about the offers, for image tables of any size: types, and the   *)
(* three safety properties that the run checks on the table of the code.   *)
(***************************************************************************)
EXTENDS UpdateOffer, WellFoundedInduction, TLAPS

\* Who holds the access mutex.
Exclusion ==
  /\ s_AccessMutex = "supervisor" <=> pc \in {"query", "lines", "line"}
  /\ \A m \in Modes : AtWork(m) <=> s_AccessMutex = m
  /\ worker[FILE] # "download"

\* What a call will report or launch, and of which kind the schedule is: of that
\* the supervisor knows of, but between a scan and its report.
Kinds ==
  /\ pc \in {INTERNET, "query"} =>
       after = INTERNET \/ (after = "launch" /\ currentDeliveryMode = INTERNET)
  /\ pc \in {FILE, "lines", "line"} =>
       after = FILE \/ (after = "launch" /\ currentDeliveryMode = FILE)
  /\ pc = "scanned" => after \in Modes \cup {"launch"}
  /\ pc = "launch" \/ after = "launch" => currentDeliveryMode \in Modes
  /\ \/ g_sSchedule.mode = currentDeliveryMode
     \/ /\ pc = "scanned" /\ after \in Modes /\ scheduled
        /\ g_sSchedule.mode = after

\* The image that the schedule says is open is; a scan of the network starts
\* from no offer, a file that is looked at from an empty schedule; and an offer
\* of the network with store 0 open has its image, but while it is downloaded.
Held ==
  /\ pc \in {INTERNET, "query"} => ~scheduled
  /\ pc = "line" => g_sSchedule.uiNumUpdates = 0
  /\ g_sSchedule.open => /\ g_sSchedule.hImage \in Entries
                         /\ image[g_sSchedule.hImage] = g_sSchedule.mode
                         /\ g_sSchedule.mode \in Modes
  /\ (/\ scheduled /\ g_sSchedule.uiNumUpdates = 1
      /\ g_sSchedule.mode = INTERNET /\ store0
      /\ worker[INTERNET] # "download") => g_sSchedule.open

IInv == TypeOK /\ Exclusion /\ Kinds /\ Held
-----------------------------------------------------------------------------
\* What None is not.
LEMMA Names ==
  /\ None \notin Entries /\ None \notin Modes
  /\ None # "internet" /\ None # "file"
  /\ None # "supervisor" /\ None # "launch"
BY OfferAssumption DEF Modes, INTERNET, FILE

\* The lowest unused entry of the image table is one.
LEMMA FirstUnused == Unused # {} => First \in Entries /\ image[First] = Free
<1>1. SUFFICES ASSUME Unused # {} PROVE First \in Unused
  BY DEF Unused
<1>2. Unused \in SUBSET Nat
  BY OfferAssumption DEF Unused
<1>3. PICK m \in Unused : \A k \in Unused : ~(<<k, m>> \in OpToRel(<, Nat))
  BY <1>1, <1>2, NatLessThanWellFounded, WFMin, Zenon
<1>4. \A k \in Unused : ~(k < m)
  BY <1>2, <1>3 DEF OpToRel
<1>5. \A k \in Unused : m <= k
  BY <1>2, <1>4
<1>. QED BY <1>5 DEF First

\* The specification is well typed.
LEMMA TypesKept ==
  ASSUME TypeOK, Exclusion, Kinds, [Next]_vars
  PROVE  TypeOK'
<1> USE Names DEF Modes, INTERNET, FILE, Free
<1>1. CASE OTAUpdateAvailable
  BY <1>1
     DEF OTAUpdateAvailable, Withdraw, CloseOffered, dirVars, offerVars,
         callVars, workVars, TypeOK, Pcs
<1>2. CASE MediaUpdateAvailable
  BY <1>2
     DEF MediaUpdateAvailable, dirVars, offerVars, callVars, workVars, TypeOK,
         Pcs
<1>3. CASE DownloadScheduledUpdate
  BY <1>3
     DEF DownloadScheduledUpdate, NeedsScan, Withdraw, CloseOffered, dirVars,
         offerVars, callVars, workVars, TypeOK, Pcs
<1>4. CASE Shutdown
  BY <1>4 DEF Shutdown, dirVars, offerVars, callVars, workVars, TypeOK, Pcs
<1>5. CASE ScanLock
  BY <1>5
     DEF ScanLock, AccessFree, NoUpdates, dirVars, offerVars, callVars,
         workVars, TypeOK, Pcs
<1>6. CASE NoDownload
  BY <1>6
     DEF NoDownload, Withdraw, CloseOffered, ScanOver, Unlock, dirVars,
         offerVars, callVars, workVars, TypeOK, Pcs
<1>7. CASE ScanFails
  BY <1>7
     DEF ScanFails, ScanOver, Unlock, dirVars, offerVars, callVars, workVars,
         TypeOK, Pcs
<1>8. CASE InternetFound
  BY <1>8, FirstUnused
     DEF InternetFound, Offer, ScanOver, Unlock, dirVars, offerVars, callVars,
         workVars, TypeOK, Pcs
<1>9. CASE InternetUnfit
  BY <1>9, FirstUnused
     DEF InternetUnfit, ScanOver, Unlock, dirVars, offerVars, callVars,
         workVars, TypeOK, Pcs
<1>10. CASE InternetUnopened
  BY <1>10
     DEF InternetUnopened, dirVars, offerVars, callVars, workVars, TypeOK, Pcs
<1>11. CASE NoMoreFiles
  BY <1>11
     DEF NoMoreFiles, ScanOver, Unlock, dirVars, offerVars, callVars, workVars,
         TypeOK, Pcs
<1>12. CASE NextFile
  BY <1>12
     DEF NextFile, NoUpdates, dirVars, offerVars, callVars, workVars, TypeOK,
         Pcs
<1>13. CASE FileAbsent
  BY <1>13
     DEF FileAbsent, Withdraw, CloseOffered, dirVars, offerVars, callVars,
         workVars, TypeOK, Pcs
<1>14. CASE FileIncompatible
  BY <1>14
     DEF FileIncompatible, dirVars, offerVars, callVars, workVars, TypeOK, Pcs
<1>15. CASE FileFound
  BY <1>15, FirstUnused
     DEF FileFound, Offer, ScanOver, Unlock, dirVars, offerVars, callVars,
         workVars, TypeOK, Pcs
<1>16. CASE FileWithout
  <2>1. First \in Entries /\ pc = "line"
    BY <1>16, FirstUnused DEF FileWithout
  <2>2. /\ image' \in [Entries -> Modes \cup {Free}]
        /\ g_sSchedule' \in [uiNumUpdates : 0..1, mode : Modes \cup {None},
                             hImage : Entries \cup {None}, open : BOOLEAN]
    BY <1>16 DEF FileWithout, CloseOffered, TypeOK
  <2>. QED
    BY <1>16, <2>2 DEF FileWithout, ScanOver, Unlock, workVars, TypeOK, Pcs
<1>17. CASE Scanned
  BY <1>17
     DEF Scanned, OfKind, dirVars, offerVars, callVars, workVars, TypeOK, Pcs
<1>18. CASE Launch
  BY <1>18 DEF Launch, dirVars, offerVars, TypeOK, Pcs, Kinds
<1>19. CASE NetRefused
  BY <1>19
     DEF NetRefused, WorkerOver, Unlock, dirVars, offerVars, callVars,
         workVars, TypeOK, Pcs
<1>20. CASE UseOffered
  BY <1>20
     DEF UseOffered, Download, dirVars, offerVars, callVars, workVars, TypeOK,
         Pcs
<1>21. CASE Reopen
  BY <1>21, FirstUnused
     DEF Reopen, Download, ScanOver, Unlock, dirVars, offerVars, callVars,
         workVars, TypeOK, Pcs
<1>22. CASE ReopenFails
  BY <1>22
     DEF ReopenFails, WorkerOver, Unlock, dirVars, offerVars, callVars,
         workVars, TypeOK, Pcs
<1>23. CASE DownloadOver
  BY <1>23
     DEF DownloadOver, WorkerOver, Unlock, CloseStore, dirVars, offerVars,
         callVars, workVars, TypeOK, Pcs
<1>24. CASE InstallOver
  BY <1>24
     DEF InstallOver, WorkerOver, Unlock, dirVars, offerVars, callVars,
         workVars, TypeOK, Pcs
<1>25. ASSUME NEW m \in Modes, WorkerLock(m) PROVE TypeOK'
  BY <1>25
     DEF WorkerLock, AccessFree, dirVars, offerVars, callVars, workVars,
         TypeOK, Pcs
<1>26. CASE UNCHANGED vars
  BY <1>26 DEF vars, dirVars, offerVars, callVars, workVars, TypeOK, Pcs
<1>. QED
  BY <1>1, <1>2, <1>3, <1>4, <1>5, <1>6, <1>7, <1>8, <1>9, <1>10, <1>11, <1>12,
     <1>13, <1>14, <1>15, <1>16, <1>17, <1>18, <1>19, <1>20, <1>21, <1>22,
     <1>23, <1>24, <1>25, <1>26
     DEF Next, Begin, CallStep, WorkerStep

\* Scans and threads exclude each other.
LEMMA ExclusionKept ==
  ASSUME TypeOK, Exclusion, Kinds, [Next]_vars
  PROVE  Exclusion'
<1> USE Names DEF Modes, INTERNET, FILE, Free
<1>1. CASE OTAUpdateAvailable
  BY <1>1
     DEF OTAUpdateAvailable, Withdraw, CloseOffered, dirVars, offerVars,
         callVars, workVars, TypeOK, Exclusion, AtWork
<1>2. CASE MediaUpdateAvailable
  BY <1>2
     DEF MediaUpdateAvailable, dirVars, offerVars, callVars, workVars, TypeOK,
         Exclusion, AtWork
<1>3. CASE DownloadScheduledUpdate
  BY <1>3
     DEF DownloadScheduledUpdate, NeedsScan, Withdraw, CloseOffered, dirVars,
         offerVars, callVars, workVars, TypeOK, Exclusion, AtWork
<1>4. CASE Shutdown
  BY <1>4
     DEF Shutdown, dirVars, offerVars, callVars, workVars, TypeOK, Exclusion,
         AtWork
<1>5. CASE ScanLock
  BY <1>5
     DEF ScanLock, AccessFree, NoUpdates, dirVars, offerVars, callVars,
         workVars, TypeOK, Exclusion, AtWork
<1>6. CASE NoDownload
  BY <1>6
     DEF NoDownload, Withdraw, CloseOffered, ScanOver, Unlock, dirVars,
         offerVars, callVars, workVars, TypeOK, Exclusion, AtWork
<1>7. CASE ScanFails
  BY <1>7
     DEF ScanFails, ScanOver, Unlock, dirVars, offerVars, callVars, workVars,
         TypeOK, Exclusion, AtWork
<1>8. CASE InternetFound
  BY <1>8
     DEF InternetFound, Offer, ScanOver, Unlock, dirVars, offerVars, callVars,
         workVars, TypeOK, Exclusion, AtWork
<1>9. CASE InternetUnfit
  BY <1>9
     DEF InternetUnfit, dirVars, offerVars, callVars, workVars, TypeOK,
         Exclusion, AtWork
<1>10. CASE InternetUnopened
  BY <1>10
     DEF InternetUnopened, dirVars, offerVars, callVars, workVars, TypeOK,
         Exclusion, AtWork
<1>11. CASE NoMoreFiles
  BY <1>11
     DEF NoMoreFiles, ScanOver, Unlock, dirVars, offerVars, callVars, workVars,
         TypeOK, Exclusion, AtWork
<1>12. CASE NextFile
  BY <1>12
     DEF NextFile, NoUpdates, dirVars, offerVars, callVars, workVars, TypeOK,
         Exclusion, AtWork
<1>13. CASE FileAbsent
  BY <1>13
     DEF FileAbsent, Withdraw, CloseOffered, dirVars, offerVars, callVars,
         workVars, TypeOK, Exclusion, AtWork
<1>14. CASE FileIncompatible
  BY <1>14
     DEF FileIncompatible, dirVars, offerVars, callVars, workVars, TypeOK,
         Exclusion, AtWork
<1>15. CASE FileFound
  BY <1>15
     DEF FileFound, Offer, ScanOver, Unlock, dirVars, offerVars, callVars,
         workVars, TypeOK, Exclusion, AtWork
<1>16. CASE FileWithout
  BY <1>16
     DEF FileWithout, CloseOffered, ScanOver, Unlock, dirVars, offerVars,
         callVars, workVars, TypeOK, Exclusion, AtWork
<1>17. CASE Scanned
  BY <1>17
     DEF Scanned, OfKind, dirVars, offerVars, callVars, workVars, TypeOK,
         Exclusion, AtWork
<1>18. CASE Launch
  BY <1>18 DEF Launch, dirVars, offerVars, TypeOK, Exclusion, AtWork, Kinds
<1>19. CASE NetRefused
  BY <1>19
     DEF NetRefused, WorkerOver, Unlock, dirVars, offerVars, callVars,
         workVars, TypeOK, Exclusion, AtWork
<1>20. CASE UseOffered
  BY <1>20
     DEF UseOffered, Download, dirVars, offerVars, callVars, workVars, TypeOK,
         Exclusion, AtWork
<1>21. CASE Reopen
  BY <1>21
     DEF Reopen, Download, dirVars, offerVars, callVars, workVars, TypeOK,
         Exclusion, AtWork
<1>22. CASE ReopenFails
  BY <1>22
     DEF ReopenFails, WorkerOver, Unlock, dirVars, offerVars, callVars,
         workVars, TypeOK, Exclusion, AtWork
<1>23. CASE DownloadOver
  BY <1>23
     DEF DownloadOver, WorkerOver, Unlock, CloseStore, dirVars, offerVars,
         callVars, workVars, TypeOK, Exclusion, AtWork
<1>24. CASE InstallOver
  BY <1>24
     DEF InstallOver, WorkerOver, Unlock, dirVars, offerVars, callVars,
         workVars, TypeOK, Exclusion, AtWork
<1>25. ASSUME NEW m \in Modes, WorkerLock(m) PROVE Exclusion'
  BY <1>25
     DEF WorkerLock, AccessFree, dirVars, offerVars, callVars, workVars,
         TypeOK, Exclusion, AtWork
<1>26. CASE UNCHANGED vars
  BY <1>26
     DEF vars, dirVars, offerVars, callVars, workVars, TypeOK, Exclusion,
         AtWork
<1>. QED
  BY <1>1, <1>2, <1>3, <1>4, <1>5, <1>6, <1>7, <1>8, <1>9, <1>10, <1>11, <1>12,
     <1>13, <1>14, <1>15, <1>16, <1>17, <1>18, <1>19, <1>20, <1>21, <1>22,
     <1>23, <1>24, <1>25, <1>26
     DEF Next, Begin, CallStep, WorkerStep

\* The supervisor knows of which kind its offer is.
LEMMA KindsKept ==
  ASSUME TypeOK, Kinds, [Next]_vars
  PROVE  Kinds'
<1> USE Names DEF Modes, INTERNET, FILE, Free
<1>1. CASE OTAUpdateAvailable
  <2>1. pc = "idle" /\ pc' = "internet" /\ after' = "internet"
    BY <1>1 DEF OTAUpdateAvailable
  <2>2. /\ UNCHANGED currentDeliveryMode
        /\ g_sSchedule'.mode = g_sSchedule.mode
    BY <1>1 DEF OTAUpdateAvailable, Withdraw, CloseOffered, TypeOK
  <2>3. g_sSchedule.mode = currentDeliveryMode
    BY <2>1 DEF Kinds
  <2>. QED BY <2>1, <2>2, <2>3 DEF Kinds
<1>2. CASE MediaUpdateAvailable
  <2>1. pc = "idle" /\ pc' \in {"file", "scanned"} /\ after' = "file"
    BY <1>2 DEF MediaUpdateAvailable
  <2>2. UNCHANGED <<currentDeliveryMode, g_sSchedule>>
    BY <1>2 DEF MediaUpdateAvailable, offerVars
  <2>3. g_sSchedule.mode = currentDeliveryMode
    BY <2>1 DEF Kinds
  <2>. QED BY <2>1, <2>2, <2>3 DEF Kinds
<1>3. CASE DownloadScheduledUpdate
  BY <1>3
     DEF DownloadScheduledUpdate, NeedsScan, Withdraw, CloseOffered, dirVars,
         offerVars, callVars, workVars, TypeOK, Kinds
<1>4. CASE Shutdown
  BY <1>4 DEF Shutdown, dirVars, offerVars, callVars, workVars, TypeOK, Kinds
<1>5. CASE ScanLock
  BY <1>5
     DEF ScanLock, AccessFree, NoUpdates, dirVars, offerVars, callVars,
         workVars, TypeOK, Kinds
<1>6. CASE NoDownload
  BY <1>6
     DEF NoDownload, Withdraw, CloseOffered, ScanOver, Unlock, dirVars,
         offerVars, callVars, workVars, TypeOK, Kinds
<1>7. CASE ScanFails
  BY <1>7
     DEF ScanFails, ScanOver, Unlock, dirVars, offerVars, callVars, workVars,
         TypeOK, Kinds
<1>8. CASE InternetFound
  BY <1>8
     DEF InternetFound, Offer, ScanOver, Unlock, dirVars, offerVars, callVars,
         workVars, TypeOK, Kinds
<1>9. CASE InternetUnfit
  BY <1>9
     DEF InternetUnfit, dirVars, offerVars, callVars, workVars, TypeOK, Kinds
<1>10. CASE InternetUnopened
  BY <1>10
     DEF InternetUnopened, dirVars, offerVars, callVars, workVars, TypeOK,
         Kinds
<1>11. CASE NoMoreFiles
  BY <1>11
     DEF NoMoreFiles, ScanOver, Unlock, dirVars, offerVars, callVars, workVars,
         TypeOK, Kinds
<1>12. CASE NextFile
  BY <1>12
     DEF NextFile, NoUpdates, dirVars, offerVars, callVars, workVars, TypeOK,
         Kinds
<1>13. CASE FileAbsent
  BY <1>13
     DEF FileAbsent, Withdraw, CloseOffered, dirVars, offerVars, callVars,
         workVars, TypeOK, Kinds
<1>14. CASE FileIncompatible
  BY <1>14
     DEF FileIncompatible, dirVars, offerVars, callVars, workVars, TypeOK,
         Kinds
<1>15. CASE FileFound
  BY <1>15
     DEF FileFound, Offer, ScanOver, Unlock, dirVars, offerVars, callVars,
         workVars, TypeOK, Kinds
<1>16. CASE FileWithout
  BY <1>16
     DEF FileWithout, CloseOffered, ScanOver, Unlock, dirVars, offerVars,
         callVars, workVars, TypeOK, Kinds
<1>17. CASE Scanned
  BY <1>17
     DEF Scanned, OfKind, dirVars, offerVars, callVars, workVars, TypeOK, Kinds
<1>18. CASE Launch
  BY <1>18 DEF Launch, dirVars, offerVars, callVars, workVars, TypeOK, Kinds
<1>19. CASE NetRefused
  BY <1>19
     DEF NetRefused, WorkerOver, Unlock, dirVars, offerVars, callVars,
         workVars, TypeOK, Kinds
<1>20. CASE UseOffered
  BY <1>20
     DEF UseOffered, Download, dirVars, offerVars, callVars, workVars, TypeOK,
         Kinds
<1>21. CASE Reopen
  BY <1>21
     DEF Reopen, Download, dirVars, offerVars, callVars, workVars, TypeOK,
         Kinds
<1>22. CASE ReopenFails
  BY <1>22
     DEF ReopenFails, WorkerOver, Unlock, dirVars, offerVars, callVars,
         workVars, TypeOK, Kinds
<1>23. CASE DownloadOver
  BY <1>23
     DEF DownloadOver, WorkerOver, Unlock, CloseStore, dirVars, offerVars,
         callVars, workVars, TypeOK, Kinds
<1>24. CASE InstallOver
  BY <1>24
     DEF InstallOver, WorkerOver, Unlock, dirVars, offerVars, callVars,
         workVars, TypeOK, Kinds
<1>25. ASSUME NEW m \in Modes, WorkerLock(m) PROVE Kinds'
  BY <1>25
     DEF WorkerLock, AccessFree, dirVars, offerVars, callVars, workVars,
         TypeOK, Kinds
<1>26. CASE UNCHANGED vars
  BY <1>26 DEF vars, dirVars, offerVars, callVars, workVars, TypeOK, Kinds
<1>. QED
  BY <1>1, <1>2, <1>3, <1>4, <1>5, <1>6, <1>7, <1>8, <1>9, <1>10, <1>11, <1>12,
     <1>13, <1>14, <1>15, <1>16, <1>17, <1>18, <1>19, <1>20, <1>21, <1>22,
     <1>23, <1>24, <1>25, <1>26
     DEF Next, Begin, CallStep, WorkerStep

\* An offer of the network holds its image as long as store 0 is open.
LEMMA HeldKept ==
  ASSUME TypeOK, Exclusion, Kinds, Held, [Next]_vars
  PROVE  Held'
<1> USE Names DEF Modes, INTERNET, FILE, Free
<1>1. CASE OTAUpdateAvailable
  BY <1>1, FirstUnused
     DEF OTAUpdateAvailable, Withdraw, CloseOffered, dirVars, offerVars,
         callVars, workVars, TypeOK, Exclusion, Held, AtWork
<1>2. CASE MediaUpdateAvailable
  BY <1>2, FirstUnused
     DEF MediaUpdateAvailable, dirVars, offerVars, callVars, workVars, TypeOK,
         Exclusion, Held, AtWork
<1>3. CASE DownloadScheduledUpdate
  BY <1>3, FirstUnused
     DEF DownloadScheduledUpdate, NeedsScan, Withdraw, CloseOffered, dirVars,
         offerVars, callVars, workVars, TypeOK, Exclusion, Held, AtWork
<1>4. CASE Shutdown
  BY <1>4, FirstUnused
     DEF Shutdown, dirVars, offerVars, callVars, workVars, TypeOK, Exclusion,
         Held, AtWork
<1>5. CASE ScanLock
  BY <1>5, FirstUnused
     DEF ScanLock, AccessFree, NoUpdates, dirVars, offerVars, callVars,
         workVars, TypeOK, Exclusion, Held, AtWork
<1>6. CASE NoDownload
  BY <1>6, FirstUnused
     DEF NoDownload, Withdraw, CloseOffered, ScanOver, Unlock, dirVars,
         offerVars, callVars, workVars, TypeOK, Exclusion, Held, AtWork
<1>7. CASE ScanFails
  BY <1>7, FirstUnused
     DEF ScanFails, ScanOver, Unlock, dirVars, offerVars, callVars, workVars,
         TypeOK, Exclusion, Held, AtWork
<1>8. CASE InternetFound
  BY <1>8, FirstUnused
     DEF InternetFound, Offer, ScanOver, Unlock, dirVars, offerVars, callVars,
         workVars, TypeOK, Exclusion, Held, AtWork
<1>9. CASE InternetUnfit
  BY <1>9, FirstUnused
     DEF InternetUnfit, dirVars, offerVars, callVars, workVars, TypeOK,
         Exclusion, Held, AtWork
<1>10. CASE InternetUnopened
  BY <1>10, FirstUnused
     DEF InternetUnopened, dirVars, offerVars, callVars, workVars, TypeOK,
         Exclusion, Held, AtWork
<1>11. CASE NoMoreFiles
  BY <1>11, FirstUnused
     DEF NoMoreFiles, ScanOver, Unlock, dirVars, offerVars, callVars, workVars,
         TypeOK, Exclusion, Held, AtWork
<1>12. CASE NextFile
  BY <1>12, FirstUnused
     DEF NextFile, NoUpdates, dirVars, offerVars, callVars, workVars, TypeOK,
         Exclusion, Held, AtWork
<1>13. CASE FileAbsent
  BY <1>13, FirstUnused
     DEF FileAbsent, Withdraw, CloseOffered, dirVars, offerVars, callVars,
         workVars, TypeOK, Exclusion, Held, AtWork
<1>14. CASE FileIncompatible
  BY <1>14, FirstUnused
     DEF FileIncompatible, dirVars, offerVars, callVars, workVars, TypeOK,
         Exclusion, Held, AtWork
<1>15. CASE FileFound
  BY <1>15, FirstUnused
     DEF FileFound, Offer, ScanOver, Unlock, dirVars, offerVars, callVars,
         workVars, TypeOK, Exclusion, Held, AtWork
<1>16. CASE FileWithout
  BY <1>16, FirstUnused
     DEF FileWithout, CloseOffered, ScanOver, Unlock, dirVars, offerVars,
         callVars, workVars, TypeOK, Exclusion, Held, AtWork
<1>17. CASE Scanned
  BY <1>17, FirstUnused
     DEF Scanned, OfKind, dirVars, offerVars, callVars, workVars, TypeOK,
         Exclusion, Held, AtWork
<1>18. CASE Launch
  BY <1>18 DEF Launch, dirVars, offerVars, TypeOK, Held, Kinds
<1>19. CASE NetRefused
  BY <1>19, FirstUnused
     DEF NetRefused, WorkerOver, Unlock, dirVars, offerVars, callVars,
         workVars, TypeOK, Exclusion, Held, AtWork
<1>20. CASE UseOffered
  BY <1>20, FirstUnused
     DEF UseOffered, Download, dirVars, offerVars, callVars, workVars, TypeOK,
         Exclusion, Held, AtWork
<1>21. CASE Reopen
  BY <1>21, FirstUnused
     DEF Reopen, Download, dirVars, offerVars, callVars, workVars, TypeOK,
         Exclusion, Held, AtWork
<1>22. CASE ReopenFails
  BY <1>22, FirstUnused
     DEF ReopenFails, WorkerOver, Unlock, dirVars, offerVars, callVars,
         workVars, TypeOK, Exclusion, Held, AtWork
<1>23. CASE DownloadOver
  BY <1>23, FirstUnused
     DEF DownloadOver, WorkerOver, Unlock, CloseStore, dirVars, offerVars,
         callVars, workVars, TypeOK, Exclusion, Held, AtWork
<1>24. CASE InstallOver
  BY <1>24, FirstUnused
     DEF InstallOver, WorkerOver, Unlock, dirVars, offerVars, callVars,
         workVars, TypeOK, Exclusion, Held, AtWork
<1>25. ASSUME NEW m \in Modes, WorkerLock(m) PROVE Held'
  BY <1>25
     DEF WorkerLock, AccessFree, dirVars, offerVars, callVars, workVars,
         TypeOK, Exclusion, Held, AtWork
<1>26. CASE UNCHANGED vars
  BY <1>26
     DEF vars, dirVars, offerVars, callVars, workVars, TypeOK, Exclusion, Held,
         AtWork
<1>. QED
  BY <1>1, <1>2, <1>3, <1>4, <1>5, <1>6, <1>7, <1>8, <1>9, <1>10, <1>11, <1>12,
     <1>13, <1>14, <1>15, <1>16, <1>17, <1>18, <1>19, <1>20, <1>21, <1>22,
     <1>23, <1>24, <1>25, <1>26
     DEF Next, Begin, CallStep, WorkerStep

-----------------------------------------------------------------------------
THEOREM Invariance == Spec => []IInv
<1>1. Init => IInv
  <2> SUFFICES ASSUME Init PROVE IInv
    OBVIOUS
  <2> USE Names DEF Init, Modes, INTERNET, FILE, Free
  <2>1. TypeOK
    <3>1. /\ image \in [Entries -> Modes \cup {Free}]
          /\ worker \in [Modes -> {"none", "lock", "work", "download"}]
      OBVIOUS
    <3>2. g_sSchedule \in [uiNumUpdates : 0..1, mode : Modes \cup {None},
                           hImage : Entries \cup {None}, open : BOOLEAN]
      OBVIOUS
    <3>. QED BY <3>1, <3>2 DEF TypeOK, Pcs
  <2>2. Exclusion
    BY DEF Exclusion, AtWork
  <2>3. Kinds
    BY DEF Kinds
  <2>4. Held
    BY DEF Held
  <2>. QED BY <2>1, <2>2, <2>3, <2>4 DEF IInv
<1>2. IInv /\ [Next]_vars => IInv'
  BY TypesKept, ExclusionKept, KindsKept, HeldKept DEF IInv
<1>. QED BY <1>1, <1>2, PTL DEF Spec

\* The model is well typed for image tables of any size.
THEOREM OfferTypeCorrect == Spec => []TypeOK
<1>1. IInv => TypeOK
  BY DEF IInv
<1>. QED BY <1>1, Invariance, PTL

\* Store 0 being open tells UtvDownloadScheduledUpdate the truth about an update
\* found on the network, whatever scans, downloads and shutdowns came before.
THEOREM DirectoryHeldForNet == Spec => []NetDirectoryHeld
<1>1. IInv => NetDirectoryHeld
  BY DEF IInv, Held, NetDirectoryHeld
<1>. QED BY <1>1, Invariance, PTL

\* The supervisor never launches for one kind of update what is of the other.
THEOREM SupervisorKnowsKind == Spec => []ModeMatches
<1>1. IInv => ModeMatches
  BY DEF IInv, Kinds, ModeMatches
<1>. QED BY <1>1, Invariance, PTL

\* While a thread has the access mutex, no step puts another update into the
\* schedule: a scan waits, and what withdraws an offer closes its image at most.
THEOREM UpdateNotReplaced == Spec => OfferStable
<1> DEFINE Kept == g_sSchedule' = [g_sSchedule EXCEPT !.open = g_sSchedule'.open]
           Held1 == (\E m \in Modes : AtWork(m)) => Kept
<1>1. TypeOK /\ Exclusion /\ Next => Held1
  <2> SUFFICES ASSUME TypeOK, Exclusion, Next, NEW m \in Modes, AtWork(m)
      PROVE  Kept
    OBVIOUS
  <2>1. s_AccessMutex = m /\ m # "supervisor" /\ m # None
    BY Names DEF Exclusion, Modes, INTERNET, FILE
  <2>2. pc \notin {"query", "lines", "line"}
    BY <2>1 DEF Exclusion
  <2>3. g_sSchedule = [g_sSchedule EXCEPT !.open = g_sSchedule.open]
    BY DEF TypeOK
  <2>4. CASE Begin
    BY <2>3, <2>4 DEF Begin, OTAUpdateAvailable, MediaUpdateAvailable, TypeOK,
         DownloadScheduledUpdate, Shutdown, Withdraw, CloseOffered, offerVars
  <2>5. CASE CallStep
    BY <2>1, <2>2, <2>3, <2>5
       DEF CallStep, ScanLock, AccessFree, NoDownload, ScanFails, InternetFound,
           InternetUnfit, InternetUnopened, NoMoreFiles, NextFile, FileAbsent,
           FileIncompatible, FileFound, FileWithout, Scanned, Launch, offerVars
  <2>6. CASE WorkerStep
    BY <2>3, <2>6
       DEF WorkerStep, NetRefused, UseOffered, Reopen, ReopenFails, Download,
           DownloadOver, InstallOver, WorkerLock, offerVars, TypeOK
  <2>. QED BY <2>4, <2>5, <2>6 DEF Next
<1>2. IInv /\ [Next]_vars => [Held1]_vars
  BY <1>1 DEF IInv
<1>. QED BY <1>2, Invariance, PTL DEF Spec, OfferStable
=============================================================================
