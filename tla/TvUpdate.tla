------------------------------ MODULE TvUpdate ------------------------------
(***************************************************************************)
(* How a TV updates itself: TvUpdateManager looks at the manifest of the   *)
(* API, downloads and verifies an APK, remembers it, offers it, and hands  *)
(* it to Android's installer.  A check runs when the app is opened, when   *)
(* someone asks for it, after a failure, and in the background.  The app   *)
(* may be stopped at any point: files survive, and of the preferences what *)
(* had reached the disk, which apply() leaves for later.                   *)
(***************************************************************************)
EXTENDS Integers, FiniteSets

CONSTANTS
    MaxVersion, \* version codes are 1..MaxVersion, 0 is none
    Mandatory,  \* the releases the manifest calls mandatory
    Size,       \* bytes of an APK
    MaxTries,   \* MAX_DOWNLOAD_ATTEMPTS
    MaxFaults   \* bound: failing requests, stops of the app, wrong artifacts

ASSUME VersionsAreNumbers == MaxVersion \in Nat /\ MaxVersion > 0
ASSUME MandatoryAreVersions == Mandatory \subseteq 1..MaxVersion
ASSUME BoundsAreNumbers ==
    Size \in Nat \ {0} /\ MaxTries \in Nat \ {0} /\ MaxFaults \in Nat

Versions == 1..MaxVersion

(* A newer release whose manifest does not pass the validation.            *)
Broken == MaxVersion + 1

VARIABLES
    feed,        \* the release the manifest of the API announces
    artifact,    \* the bytes the API serves for a release match its checksum
    installed,   \* the version of the app
    allowed,     \* Android lets the app install packages
    installer,   \* the release Android's installer asks about, 0 if none
    final,       \* the APK file of a release
    part,        \* the partly downloaded APK of a release
    pending,     \* preferences: the prepared release, 0 if none
    dismissed,   \* preferences: the release put off for later, 0 if none
    saved,       \* the two as they are on disk
    lately,      \* preferences: a check succeeded or was tried lately
    screen,      \* what the overlay shows
    launched,    \* the coroutine of a check that has not begun to run
    check,       \* the check that has set checkInFlight
    faults       \* faults so far

files == <<final, part>>
preferences == <<pending, dismissed, saved, lately>>
world == <<feed, artifact, installed, allowed, installer>>
updateVars == <<world, files, preferences, screen, launched, check, faults>>

Triggers == {"FOREGROUND", "MANUAL", "BACKGROUND", "RETRY"}

NoCheck == [at |-> "none", trigger |-> "BACKGROUND", target |-> 0, tries |-> 0]

Asking(trigger) == [at |-> "ask", trigger |-> trigger, target |-> 0, tries |-> 0]

GoingOn(at, v, tries) ==
    [at |-> at, trigger |-> check.trigger, target |-> v, tries |-> tries]

Shows(what, version) == [what |-> what, version |-> version]

Idle == Shows("Idle", 0)

Screens == [what : {"Idle", "Checking", "UpToDate", "Downloading", "Ready",
                    "PermissionRequired", "Installing", "Failed"},
            version : 0..MaxVersion]

(* A check restores a prepared release, asks for the manifest, sends the   *)
(* request of a download, receives the body, has the file in its place.    *)
Checks == [at : {"none", "restore", "ask", "download", "receive", "staged"},
           trigger : Triggers, target : 0..MaxVersion, tries : 0..MaxTries]

Parts == [bytes : 0..Size, good : BOOLEAN]

UpdateTypeOK ==
    /\ feed \in Versions \cup {Broken}
    /\ artifact \in [Versions -> BOOLEAN]
    /\ installed \in Versions
    /\ allowed \in BOOLEAN
    /\ installer \in 0..MaxVersion
    /\ final \in [Versions -> {"none", "good", "bad"}]
    /\ part \in [Versions -> Parts]
    /\ pending \in 0..MaxVersion
    /\ dismissed \in 0..MaxVersion
    /\ saved \in [pending : 0..MaxVersion, dismissed : 0..MaxVersion]
    /\ lately \in BOOLEAN
    /\ screen \in Screens
    /\ launched \subseteq Triggers \ {"BACKGROUND"}
    /\ check \in Checks
    /\ faults \in 0..MaxFaults

-----------------------------------------------------------------------------
(* The parts of a check                                                    *)

Forced(trigger) == trigger # "BACKGROUND"

(* Only the worker checks without publishing to the screen.                *)
Published(new) == screen' = IF Forced(check.trigger) THEN new ELSE screen

Succeeded == lately' = TRUE

EndCheck == check' = NoCheck

(* Seeded error: the record is believed, the file is not looked at.        *)
BugRestorable == pending > installed

(* A release of the present or an older version is not worth keeping.      *)
Restorable == pending > installed /\ final[pending] = "good"

PutOff(v) == v \notin Mandatory /\ dismissed = v

(* clearPreparedUpdate deletes the file and then takes the record out of   *)
(* the preferences in memory, which only the check itself reads; on disk   *)
(* the record stays until SavePreferences, so a stop between the two, or   *)
(* after both, leaves a record without its file.                           *)
Clear ==
    /\ final' = [v \in Versions |-> IF v = pending THEN "none" ELSE final[v]]
    /\ pending' = 0

(* What apply() has queued reaches the disk, all of it at once.            *)
SavePreferences ==
    /\ saved # [pending |-> pending, dismissed |-> dismissed]
    /\ saved' = [pending |-> pending, dismissed |-> dismissed]
    /\ UNCHANGED <<world, files, pending, dismissed, lately, screen, launched, check,
                   faults>>

(* checkForUpdateAndAwait takes the flag, or gives up at once.             *)
BeginLaunched(trigger) ==
    /\ trigger \in launched
    /\ launched' = launched \ {trigger}
    /\ check.at = "none"
    /\ check' = Asking(trigger)
    /\ lately' = TRUE
    /\ screen' = Shows("Checking", 0)
    /\ UNCHANGED <<world, files, pending, dismissed, saved, faults>>

(* Without a record of a prepared release the worker waits after a check:  *)
(* six hours after a success, five minutes after an attempt.               *)
BeginWork ==
    /\ check.at = "none"
    /\ pending # 0 \/ ~lately
    /\ check' = [NoCheck EXCEPT !.at = "restore"]
    /\ lately' = TRUE
    /\ UNCHANGED <<world, files, pending, dismissed, saved, screen, launched, faults>>

(* The worker shows nothing: a release it could offer is enough for it,    *)
(* whatever the manifest says.                                             *)
RestoreFinds ==
    /\ check.at = "restore" /\ Restorable
    /\ IF PutOff(pending)
         THEN check' = Asking("BACKGROUND") /\ UNCHANGED lately
         ELSE Succeeded /\ EndCheck
    /\ UNCHANGED <<world, files, pending, dismissed, saved, screen, launched, faults>>

(* Seeded error: only a record of an old version is cleared.               *)
BugRestoreClears ==
    /\ check.at = "restore" /\ ~Restorable
    /\ IF pending > installed THEN UNCHANGED <<final, pending>> ELSE Clear
    /\ check' = Asking("BACKGROUND")
    /\ UNCHANGED <<world, part, dismissed, saved, lately, screen, launched, faults>>

RestoreClears ==
    /\ check.at = "restore" /\ ~Restorable
    /\ Clear
    /\ check' = Asking("BACKGROUND")
    /\ UNCHANGED <<world, part, dismissed, saved, lately, screen, launched, faults>>

AlreadyRunning(trigger) ==
    /\ trigger \in launched
    /\ launched' = launched \ {trigger}
    /\ check.at # "none"
    /\ UNCHANGED <<world, files, preferences, screen, check, faults>>

(* evaluateTvUpdateManifest on the answer of the API.                      *)
Newer == feed > installed

FindNothing ==
    /\ check.at = "ask" /\ ~Newer
    /\ Clear
    /\ Published(IF check.trigger = "MANUAL" THEN Shows("UpToDate", 0) ELSE Idle)
    /\ Succeeded /\ EndCheck
    /\ UNCHANGED <<world, part, dismissed, saved, launched, faults>>

FindInvalid ==
    /\ check.at = "ask" /\ Newer /\ feed = Broken
    /\ Published(IF check.trigger = "MANUAL" THEN Shows("Failed", 0) ELSE Idle)
    /\ Succeeded /\ EndCheck
    /\ UNCHANGED <<world, files, pending, dismissed, saved, launched, faults>>

(* Seeded error: every trigger offers a release that was put off.          *)
BugRespected(v) == FALSE

(* Only a check someone asked for looks past it.                           *)
Respected(v) == PutOff(v) /\ check.trigger # "MANUAL"

FindPutOff ==
    /\ check.at = "ask" /\ Newer /\ feed # Broken /\ Respected(feed)
    /\ Published(Idle)
    /\ Succeeded /\ EndCheck
    /\ UNCHANGED <<world, files, pending, dismissed, saved, launched, faults>>

(* downloadOrReuse: a file that passes the verification is not fetched     *)
(* again, one that does not is removed.                                    *)
FindUpdate ==
    /\ check.at = "ask" /\ Newer /\ feed # Broken /\ ~Respected(feed)
    /\ Published(Shows("Downloading", feed))
    /\ IF final[feed] = "good"
         THEN /\ check' = GoingOn("staged", feed, 0)
              /\ UNCHANGED final
         ELSE /\ check' = GoingOn("download", feed, 1)
              /\ final' = [final EXCEPT ![feed] = "none"]
    /\ UNCHANGED <<world, part, preferences, launched, faults>>

(* No answer: a forced check falls back on what is prepared.               *)
ManifestFails ==
    /\ check.at = "ask"
    /\ faults < MaxFaults /\ faults' = faults + 1
    /\ IF ~Forced(check.trigger) \/ Restorable THEN UNCHANGED <<final, pending>> ELSE Clear
    /\ Published(
          IF Restorable /\ (PutOff(pending) => check.trigger \in {"MANUAL", "RETRY"})
            THEN Shows("Ready", pending)
            ELSE IF check.trigger = "MANUAL" THEN Shows("Failed", 0) ELSE Idle)
    /\ EndCheck
    /\ UNCHANGED <<world, part, dismissed, saved, lately, launched>>

-----------------------------------------------------------------------------
(* The download                                                            *)

Empty == [bytes |-> 0, good |-> TRUE]

(* The request asks for what is missing in the part.  The answer goes on   *)
(* from there, or is the whole file and the part is dropped.               *)
Answered ==
    /\ check.at = "download"
    /\ check' = GoingOn("receive", check.target, check.tries)
    /\ \/ part[check.target].bytes < Size /\ UNCHANGED part
       \/ part[check.target].bytes > 0 /\ part' = [part EXCEPT ![check.target] = Empty]
    /\ UNCHANGED <<world, final, preferences, screen, launched, faults>>

(* What is appended is what the API serves now.                            *)
Receive ==
    /\ check.at = "receive"
    /\ part[check.target].bytes < Size
    /\ part' = [part EXCEPT ![check.target] =
                   [bytes |-> part[check.target].bytes + 1,
                    good |-> part[check.target].good /\ artifact[check.target]]]
    /\ UNCHANGED <<world, final, preferences, screen, launched, check, faults>>

Received == check.at = "receive" /\ part[check.target].bytes = Size

(* Seeded error: the file is put in its place before it is verified.       *)
BugVerify ==
    /\ Received
    /\ final' = [final EXCEPT ![check.target] =
                    IF part[check.target].good THEN "good" ELSE "bad"]
    /\ check' = GoingOn("staged", check.target, check.tries)
    /\ part' = [part EXCEPT ![check.target] = Empty]
    /\ UNCHANGED <<world, preferences, screen, launched, faults>>

(* Only an attempt that received its body verifies the file.               *)
Verify ==
    /\ Received
    /\ part[check.target].good
    /\ final' = [final EXCEPT ![check.target] = "good"]
    /\ check' = GoingOn("staged", check.target, check.tries)
    /\ part' = [part EXCEPT ![check.target] = Empty]
    /\ UNCHANGED <<world, preferences, screen, launched, faults>>

GiveUp ==
    /\ EndCheck
    /\ Published(Shows("Failed", check.target))
    /\ UNCHANGED <<world, final, preferences, launched>>

RejectPart ==
    /\ Received
    /\ ~part[check.target].good
    /\ part' = [part EXCEPT ![check.target] = Empty]
    /\ GiveUp
    /\ UNCHANGED faults

(* Another attempt, as long as there is one left.                          *)
TryAgain ==
    IF check.tries < MaxTries
      THEN /\ check' = GoingOn("download", check.target, check.tries + 1)
           /\ UNCHANGED <<world, final, preferences, screen, launched>>
      ELSE GiveUp

(* Seeded error: the part is kept although nothing can follow it.          *)
BugRangeRejected ==
    /\ check.at = "download"
    /\ part[check.target].bytes = Size
    /\ TryAgain
    /\ UNCHANGED <<part, faults>>

(* 416: an earlier attempt died between the last byte and the              *)
(* verification.  The complete part is dropped, and the attempt is lost.   *)
RangeRejected ==
    /\ check.at = "download"
    /\ part[check.target].bytes = Size
    /\ part' = [part EXCEPT ![check.target] = Empty]
    /\ TryAgain
    /\ UNCHANGED faults

(* The connection breaks, the API answers 5xx, or the file cannot be put   *)
(* in its place: the next attempt goes on with the part.                   *)
AttemptFails ==
    /\ check.at \in {"download", "receive"}
    /\ faults < MaxFaults /\ faults' = faults + 1
    /\ TryAgain
    /\ UNCHANGED part

(* Any other answer, or too little storage, ends the attempts at once.     *)
DownloadRefused ==
    /\ check.at \in {"download", "receive"}
    /\ faults < MaxFaults /\ faults' = faults + 1
    /\ GiveUp
    /\ UNCHANGED part

(* persistPreparedUpdate, and the offer.                                   *)
Persist ==
    /\ check.at = "staged"
    /\ pending' = check.target
    /\ Published(Shows("Ready", check.target))
    /\ Succeeded /\ EndCheck
    /\ UNCHANGED <<world, files, dismissed, saved, launched, faults>>

-----------------------------------------------------------------------------
(* The remote control                                                      *)

Offered == screen.what \in {"Ready", "PermissionRequired"}

Optional == screen.version \notin Mandatory

(* Bound: one coroutine at a time waits for a thread.                      *)
Launch(trigger) == launched = {} /\ launched' = {trigger}

(* The button is dead while a check is shown.                              *)
AskForUpdates ==
    /\ screen.what \notin {"Checking", "Downloading"}
    /\ Launch("MANUAL")
    /\ UNCHANGED <<world, files, preferences, screen, check, faults>>

Retry ==
    /\ screen.what = "Failed"
    /\ dismissed' = 0
    /\ screen' = Idle
    /\ Launch("RETRY")
    /\ UNCHANGED <<world, files, pending, saved, lately, check, faults>>

Dismiss ==
    /\ Offered \/ screen.what = "Failed"
    /\ Optional
    /\ dismissed' = IF Offered THEN screen.version ELSE dismissed
    /\ screen' = Idle
    /\ UNCHANGED <<world, files, pending, saved, lately, launched, check, faults>>

(* installPreparedUpdate.                                                  *)
Install ==
    /\ Offered
    /\ IF final[screen.version] = "none"
         THEN screen' = Shows("Failed", screen.version) /\ UNCHANGED installer
         ELSE IF ~allowed
           THEN screen' = Shows("PermissionRequired", screen.version) /\ UNCHANGED installer
           ELSE screen' = Shows("Installing", 0) /\ installer' = screen.version
    /\ UNCHANGED <<feed, artifact, installed, allowed, files, preferences, launched, check,
                   faults>>

-----------------------------------------------------------------------------
(* Android and the release owner                                           *)

AllowInstalling ==
    /\ screen.what = "PermissionRequired"
    /\ allowed' = TRUE
    /\ UNCHANGED <<feed, artifact, installed, installer, files, preferences, screen, launched,
                   check, faults>>

(* The process ends; opening the app reads the preferences from the disk   *)
(* and launches a check.                                                   *)
Reopened ==
    /\ screen' = Idle
    /\ launched' = {"FOREGROUND"}
    /\ EndCheck
    /\ pending' = saved.pending
    /\ dismissed' = saved.dismissed
    /\ UNCHANGED <<files, saved, lately>>

StopApp ==
    /\ faults < MaxFaults /\ faults' = faults + 1
    /\ Reopened
    /\ UNCHANGED world

(* Coming back to the app without a new process also launches a check.     *)
ReturnToApp ==
    /\ Launch("FOREGROUND")
    /\ UNCHANGED <<world, files, preferences, screen, check, faults>>

ConfirmInstall ==
    /\ installer # 0
    /\ installed' = installer
    /\ installer' = 0
    /\ Reopened
    /\ UNCHANGED <<feed, artifact, allowed, faults>>

RefuseInstall ==
    /\ installer # 0
    /\ installer' = 0
    /\ Launch("FOREGROUND")
    /\ UNCHANGED <<feed, artifact, installed, allowed, files, preferences, screen, check,
                   faults>>

(* Nobody looks at the times of the checks while one runs.                 *)
TimePasses ==
    /\ check.at = "none" /\ lately
    /\ lately' = FALSE
    /\ UNCHANGED <<world, files, pending, dismissed, saved, screen, launched, check, faults>>

(* The release owner changes the manifest, or uploads an artifact anew.    *)
SetFeed(v) ==
    /\ feed' = v
    /\ UNCHANGED <<artifact, installed, allowed, installer, files, preferences, screen,
                   launched, check, faults>>

UploadWrong(v) ==
    /\ faults < MaxFaults /\ faults' = faults + 1
    /\ artifact' = [artifact EXCEPT ![v] = FALSE]
    /\ UNCHANGED <<feed, installed, allowed, installer, files, preferences, screen, launched,
                   check>>

UploadRight(v) ==
    /\ artifact' = [artifact EXCEPT ![v] = TRUE]
    /\ UNCHANGED <<feed, installed, allowed, installer, files, preferences, screen, launched,
                   check, faults>>

-----------------------------------------------------------------------------

UpdateInit ==
    /\ feed = 1
    /\ artifact = [v \in Versions |-> TRUE]
    /\ installed = 1
    /\ allowed = FALSE
    /\ installer = 0
    /\ final = [v \in Versions |-> "none"]
    /\ part = [v \in Versions |-> Empty]
    /\ pending = 0
    /\ dismissed = 0
    /\ saved = [pending |-> 0, dismissed |-> 0]
    /\ lately = FALSE
    /\ screen = Idle
    /\ launched = {"FOREGROUND"}
    /\ check = NoCheck
    /\ faults = 0

Goes ==
    \/ RestoreFinds \/ RestoreClears
    \/ FindNothing \/ FindInvalid \/ FindPutOff \/ FindUpdate
    \/ Answered \/ Receive \/ RangeRejected \/ Verify \/ RejectPart \/ Persist

UpdateNext ==
    \/ BeginWork \/ SavePreferences
    \/ \E trigger \in launched : BeginLaunched(trigger) \/ AlreadyRunning(trigger)
    \/ Goes
    \/ ManifestFails \/ AttemptFails \/ DownloadRefused
    \/ AskForUpdates \/ Retry \/ Dismiss \/ Install
    \/ AllowInstalling \/ ConfirmInstall \/ RefuseInstall \/ StopApp \/ ReturnToApp
    \/ TimePasses
    \/ \E v \in Versions \cup {Broken} : SetFeed(v)
    \/ \E v \in Versions \ {1} : UploadWrong(v) \/ UploadRight(v)

UpdateSpec == UpdateInit /\ [][UpdateNext]_updateVars

(* Time passes and the worker is run again and again; a check that runs    *)
(* goes on.  Nobody has to open the app or touch the remote control.       *)
FairUpdateSpec ==
    /\ UpdateSpec
    /\ SF_updateVars(TimePasses)
    /\ SF_updateVars(BeginWork)
    /\ SF_updateVars(Goes)

-----------------------------------------------------------------------------
(* Properties                                                              *)

(* Whatever a stop left behind, a record without its file included: what   *)
(* the TV comes to offer is newer than the app, and its verified file is   *)
(* there at that moment.                                                   *)
OfferedIsVerified ==
    [][Offered' /\ screen' # screen =>
          final'[screen'.version] = "good" /\ screen'.version > installed']_updateVars

(* A record that has outlived its file is put right again and again,       *)
(* without anybody touching the TV.                                        *)
RecordIsRepaired == []<>(pending # 0 => final[pending] = "good")

(* Whatever the API served, resumed or replaced, and whenever the app was  *)
(* stopped: Android is only ever asked to install a file that passed the   *)
(* verification, of a version above the installed one.                     *)
OnlyVerifiedInstalled ==
    [][installer' \notin {0, installer} =>
          final[installer'] = "good" /\ installer' > installed]_updateVars

(* A release put off for later is not offered again by itself; only a      *)
(* check someone asked for, also one asked for before, brings it back.     *)
PutOffStaysAway ==
    [][screen'.what = "Ready" /\ screen # screen' /\ PutOff(screen'.version) =>
          check.trigger \in {"MANUAL", "RETRY"}]_updateVars

(* If the manifest goes on announcing a newer release whose artifact is    *)
(* sound, the TV comes to have an update at hand and keeps it, without     *)
(* anybody touching the TV, unless the release was put off.                *)
UpdateGetsPrepared ==
    \A v \in Versions :
        <>[](feed = v /\ artifact[v] /\ ~PutOff(v)) =>
            <>[]((Restorable /\ ~PutOff(pending)) \/ installed >= v)

=============================================================================
