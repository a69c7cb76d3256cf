----------------------------- MODULE UpdateService -----------------------------
(***************************************************************************)
(* The update service of the desktop (desktop/update_service.py), the      *)
(* banner and the overlay its signals drive, and the configuration it      *)
(* keeps the schedule in (desktop/app.py): it finds a release, the user    *)
(* installs, schedules or skips it, a timer fires the schedule, and an     *)
(* installer replaces the program.  All but the download runs on the GUI   *)
(* thread.  The configuration exists three times: the dict the service was *)
(* given, the dict the window saves, which is the same one until the       *)
(* window loads it anew, and the file.  Names that AgentRunner has too      *)
(* begin with Update or update: DesktopProofs extends both.                *)
(***************************************************************************)
EXTENDS Naturals

CONSTANTS MaxVersion,  \* bound: releases published; the program starts as 0
          MaxFaults    \* bound: failing saves and downloads, and crashes

ASSUME UpdateAssumption == MaxVersion \in Nat /\ MaxFaults \in Nat

VARIABLES
    release,     \* what the server announces
    running,     \* the version of the program
    app,         \* the process
    mine,        \* the configuration dict of the service
    window,      \* that of the window
    shared,      \* they are one object
    disk,        \* config.json
    seen,        \* _latest_seen
    last,        \* _last_manifest
    banner,      \* what the banner shows
    overlay,     \* the version the mandatory overlay shows, or 0
    download,    \* the version under way, or 0
    installing,  \* the version whose installer was launched, or 0
    faults,
    planned,     \* history: the version whose schedule the user made and kept, or 0
    consent,     \* history: the versions the user has asked for and not called off
    astray,      \* history: a save failed, or the dicts have parted
    revived      \* history: versions whose schedule a restart found in the file, though
                 \* the service had called it off or replaced it

updateVars == <<release, running, app, mine, window, shared, disk, seen, last, banner,
          overlay, download, installing, faults, planned, consent, astray, revived>>
config == <<mine, window, shared, disk>>
display == <<banner, overlay>>
updateHistory == <<planned, consent, astray, revived>>

Versions == 1..MaxVersion
Manifests == [version : 0..MaxVersion, mandatory : BOOLEAN]
NoManifest == [version |-> 0, mandatory |-> FALSE]

\* A schedule: more than five minutes ahead, less, come due, due for over a day.
Times == {"later", "soon", "due", "past"}
Plans == [version : 0..MaxVersion, when : Times]
NoPlan == [version |-> 0, when |-> "later"]
Configs == [skip : 0..MaxVersion, pending : Plans]

Hidden == [shows |-> "nothing", version |-> 0, mandatory |-> FALSE]
Available(m) == [shows |-> "available", version |-> m.version, mandatory |-> m.mandatory]
Scheduled(p) == [shows |-> "scheduled", version |-> p.version, mandatory |-> FALSE]
Banners == [shows : {"nothing", "available", "scheduled"},
            version : 0..MaxVersion, mandatory : BOOLEAN]

Blank == [skip |-> 0, pending |-> NoPlan]

UpdateInit ==
    /\ release = NoManifest /\ running = 0 /\ app = "off"
    /\ mine = Blank /\ window = Blank /\ disk = Blank /\ shared = TRUE
    /\ seen = 0 /\ last = NoManifest
    /\ banner = Hidden /\ overlay = 0
    /\ download = 0 /\ installing = 0 /\ faults = 0
    /\ planned = 0 /\ consent = {} /\ astray = FALSE /\ revived = {}

Fault == faults < MaxFaults /\ faults' = faults + 1
Up == app \in {"starting", "on"}

------------------------------------------------------------------------------
\* The configuration.

\* The service changes its dict and saves: the window writes its own to the file.
Change(c) ==
    /\ mine' = c /\ shared' = shared
    /\ window' = IF shared THEN c ELSE window
    /\ \/ disk' = window' /\ UNCHANGED <<faults, astray>>
       \/ disk' = disk /\ Fault /\ astray' = TRUE

\* _clear_pending_install, and a mutant of it that saves nothing.
ClearUnsaved ==
    /\ mine' = [mine EXCEPT !.pending = NoPlan]
    /\ window' = IF shared THEN mine' ELSE window
    /\ UNCHANGED <<shared, disk, faults, astray>>

ClearPending ==
    IF mine.pending = NoPlan THEN UNCHANGED <<config, faults, astray>>
    ELSE Change([mine EXCEPT !.pending = NoPlan])

\* _save_config_key of the window loads the file into a dict of its own.
SaveConfigKey ==
    /\ Up
    /\ window' = disk /\ shared' = FALSE /\ astray' = TRUE
    /\ UNCHANGED <<release, running, app, mine, disk, seen, last, display, download,
                   installing, faults, planned, consent, revived>>

\* _save_config, from elsewhere in the window.
SaveConfig ==
    /\ Up
    /\ disk' = window
    /\ UNCHANGED <<release, running, app, mine, window, shared, seen, last, display,
                   download, installing, faults, updateHistory>>

------------------------------------------------------------------------------
\* Finding a release.

Publish ==
    /\ release.version < MaxVersion
    /\ \E m \in BOOLEAN : release' = [version |-> release.version + 1, mandatory |-> m]
    /\ UNCHANGED <<running, app, config, seen, last, display, download, installing,
                   faults, updateHistory>>

\* _check with an answer from the server, then _on_update_available.
Check ==
    /\ Up
    /\ release.version > running
    /\ release.version \notin {mine.skip, seen}
    /\ seen' = release.version /\ last' = release
    /\ IF release.mandatory
       THEN banner' = Hidden /\ overlay' = release.version
       ELSE banner' = Available(release) /\ overlay' = 0
    /\ UNCHANGED <<release, running, app, config, download, installing, faults, updateHistory>>

------------------------------------------------------------------------------
\* Installing.

\* install_now ignores a second trigger while a download is under way.
InstallNow(v) == download' = IF download = 0 THEN v ELSE download

\* The buttons are out of use once the installer is launched.
Offered(v) ==
    /\ Up /\ installing = 0
    /\ (banner.shows # "nothing" /\ v = banner.version) \/ v = overlay

ClickInstall ==
    /\ \E v \in Versions : Offered(v) /\ InstallNow(v) /\ consent' = consent \cup {v}
    /\ UNCHANGED <<release, running, app, config, seen, last, display, installing,
                   faults, planned, astray, revived>>

\* A mutant leaves the schedule alone.
DownloadOkOnly ==
    /\ Up /\ download # 0 /\ download' = 0
    /\ planned' = 0 /\ installing' \in {download, installing}
    /\ UNCHANGED <<release, running, app, config, seen, last, display, faults,
                   consent, astray, revived>>

\* _on_download_ok with the right hash: the schedule is superseded, then the
\* installer is launched, or cannot be.
DownloadOk ==
    /\ Up /\ download # 0 /\ download' = 0
    /\ ClearPending /\ planned' = 0
    /\ installing' \in {download, installing}
    /\ UNCHANGED <<release, running, app, seen, last, display, consent, revived>>

\* The download fails or its hash is wrong.
DownloadFails ==
    /\ Up /\ download # 0 /\ Fault
    /\ download' = 0
    /\ UNCHANGED <<release, running, app, config, seen, last, display, installing, updateHistory>>

\* The installer closes the program, which flushes its configuration.
InstallerRuns ==
    /\ installing # 0
    /\ running' = installing /\ installing' = 0
    /\ disk' = IF Up THEN window ELSE disk
    /\ app' = "off" /\ download' = 0
    /\ UNCHANGED <<release, mine, window, shared, seen, last, display, faults, updateHistory>>

------------------------------------------------------------------------------
\* Scheduling.

\* An earlier schedule is replaced; a download of it goes on.
CalledOff == IF download = planned THEN {} ELSE {planned}

ScheduleInstall ==
    /\ Up /\ installing = 0
    /\ banner.shows = "available" /\ ~banner.mandatory
    /\ \E when \in {"later", "soon"} :
        LET p == [version |-> banner.version, when |-> when]
        IN  Change([mine EXCEPT !.pending = p]) /\ banner' = Scheduled(p)
    /\ planned' = banner.version
    /\ consent' = (consent \ CalledOff) \cup {banner.version}
    /\ UNCHANGED <<release, running, app, seen, last, overlay, download, installing,
                   revived>>

\* A mutant only changes the banner.
CancelShown ==
    /\ Up /\ installing = 0
    /\ banner.shows = "scheduled"
    /\ banner' = IF last = NoManifest THEN Hidden ELSE Available(last)
    /\ planned' = 0 /\ consent' = consent \ CalledOff
    /\ UNCHANGED <<release, running, app, config, seen, last, overlay, download,
                   installing, faults, astray, revived>>

CancelSchedule ==
    /\ Up /\ installing = 0
    /\ banner.shows = "scheduled"
    /\ ClearPending
    /\ banner' = IF last = NoManifest THEN Hidden ELSE Available(last)
    /\ planned' = 0 /\ consent' = consent \ CalledOff
    /\ UNCHANGED <<release, running, app, seen, last, overlay, download, installing,
                   revived>>

\* dismiss_version and the banner's skip button.
DismissVersion ==
    /\ Up /\ installing = 0
    /\ banner.shows = "available" /\ ~banner.mandatory
    /\ IF last.version = banner.version /\ last.mandatory
       THEN UNCHANGED <<config, faults, astray, seen>>
       ELSE Change([mine EXCEPT !.skip = banner.version]) /\ seen' = banner.version
    /\ banner' = Hidden
    /\ UNCHANGED <<release, running, app, last, overlay, download, installing,
                   planned, consent, revived>>

HideBanner ==
    /\ Up /\ banner.shows = "available" /\ ~banner.mandatory
    /\ banner' = Hidden
    /\ UNCHANGED <<release, running, app, config, seen, last, overlay, download,
                   installing, faults, updateHistory>>

\* _poll_schedule: a schedule missed by more than a day is dropped.
DropStranded ==
    /\ app = "on" /\ mine.pending # NoPlan /\ mine.pending.when = "past"
    /\ ClearPending
    /\ planned' = 0
    /\ UNCHANGED <<release, running, app, seen, last, display, download, installing, consent,
                   revived>>

\* A mutant takes the schedule out before the download.
FireAndForget ==
    /\ app = "on" /\ mine.pending # NoPlan /\ mine.pending.when = "due"
    /\ download = 0
    /\ InstallNow(mine.pending.version) /\ ClearPending
    /\ UNCHANGED <<release, running, app, seen, last, display, installing,
                   planned, consent, revived>>

FireSchedule ==
    /\ app = "on" /\ mine.pending # NoPlan /\ mine.pending.when = "due"
    /\ download = 0
    /\ InstallNow(mine.pending.version)
    /\ UNCHANGED <<release, running, app, config, seen, last, display, installing,
                   faults, updateHistory>>

Later(c) ==
    IF c.pending = NoPlan THEN c
    ELSE [c EXCEPT !.pending.when =
            CASE @ = "later" -> "soon" [] @ = "soon" -> "due" [] OTHER -> "past"]

TimePasses ==
    /\ mine' = Later(mine) /\ window' = Later(window) /\ disk' = Later(disk)
    /\ UNCHANGED <<release, running, app, shared, seen, last, display, download,
                   installing, faults, updateHistory>>

------------------------------------------------------------------------------
\* The process.

\* The window loads the configuration and hands its dict to a new service.
StartProgram ==
    /\ app = "off" /\ app' = "starting"
    /\ mine' = disk /\ window' = disk /\ shared' = TRUE /\ disk' = disk
    /\ seen' = 0 /\ last' = NoManifest
    /\ banner' = Hidden /\ overlay' = 0
    /\ revived' = revived \cup ({disk.pending.version} \ {0, mine.pending.version})
    /\ UNCHANGED <<release, running, download, installing, faults, planned, consent,
                   astray>>

\* _emit_existing_schedule, after the first check and before the first poll.
EmitExistingSchedule ==
    /\ app = "starting" /\ app' = "on"
    /\ banner' = IF mine.pending = NoPlan THEN banner ELSE Scheduled(mine.pending)
    /\ UNCHANGED <<release, running, config, seen, last, overlay, download, installing,
                   faults, updateHistory>>

\* closeEvent: flush, begin an install that is imminent, and stop the service,
\* which aborts the download; one that is quick enough is still launched.
Imminent == mine.pending # NoPlan /\ mine.pending.when # "later"

Close ==
    /\ Up /\ app' = "off" /\ download' = 0
    /\ LET v == IF download = 0 /\ Imminent THEN mine.pending.version ELSE download
       IN  \/ UNCHANGED <<mine, window, installing, planned>>
           \/ /\ v # 0 /\ installing' = v /\ planned' = 0
              /\ mine' = [mine EXCEPT !.pending = NoPlan]
              /\ window' = IF shared THEN mine' ELSE window
    /\ disk' = window'
    /\ UNCHANGED <<release, running, shared, seen, last, display, faults, consent,
                   astray, revived>>

Crash ==
    /\ Up /\ Fault
    /\ app' = "off" /\ download' = 0
    /\ UNCHANGED <<release, running, config, seen, last, display, installing, updateHistory>>

UpdateNext ==
    \/ SaveConfigKey \/ SaveConfig \/ Publish \/ Check
    \/ ClickInstall \/ DownloadOk \/ DownloadFails \/ InstallerRuns
    \/ ScheduleInstall \/ CancelSchedule \/ DismissVersion \/ HideBanner
    \/ DropStranded \/ FireSchedule \/ TimePasses
    \/ StartProgram \/ EmitExistingSchedule \/ Close \/ Crash

\* The schedule timer fires, and a download ends.
UpdateFairness == WF_updateVars(FireSchedule) /\ WF_updateVars(DownloadOk)

UpdateSpec == UpdateInit /\ [][UpdateNext]_updateVars /\ UpdateFairness

------------------------------------------------------------------------------
UpdateTypeOK ==
    /\ release \in Manifests /\ running \in 0..MaxVersion
    /\ app \in {"off", "starting", "on"}
    /\ mine \in Configs /\ window \in Configs /\ disk \in Configs
    /\ shared \in BOOLEAN /\ (shared => window = mine)
    /\ seen \in 0..MaxVersion /\ last \in Manifests
    /\ banner \in Banners /\ overlay \in 0..MaxVersion
    /\ download \in 0..MaxVersion /\ installing \in 0..MaxVersion
    /\ faults \in 0..MaxFaults
    /\ planned \in 0..MaxVersion /\ consent \subseteq Versions /\ astray \in BOOLEAN
    /\ revived \subseteq Versions

\* The state keeps its type; the schedule in force is the one the user made and has
\* not called off, across restarts and crashes, and no other comes back, as long as
\* saves succeed and the dicts have not parted.
ScheduleInForce ==
    /\ UpdateTypeOK
    /\ ~astray => (Up => mine.pending.version = planned) /\ revived = {}

\* No installer is launched for a version the user has not asked for, or whose
\* schedule was called off before its download began; also when saves fail and when
\* the dicts have parted, as locking a ticker parts them.  The one exception is a
\* version whose schedule a restart has brought back: the window or a failed save
\* left it in the file, the new service takes it for the user's (ConsentKept).
Consented ==
    [][installing' \notin {0, installing} => installing' \in consent' \cup revived]_updateVars

\* An update never goes back: a schedule is superseded by any other install, in the
\* dict of the service at least.  The exception is the same: an older version goes in
\* only when a restart has brought its schedule back (NeverBack).
NoDowngrade == [][running' < running => running' \in revived]_updateVars

\* A schedule that has come due is carried out, also when a download of it or of
\* another version failed or was under way, unless the user calls it off, makes
\* another one or closes the program, or a day goes by.
DueCarriedOut ==
    \A v \in Versions :
        app = "on" /\ planned = v /\ mine.pending = [version |-> v, when |-> "due"]
            ~> \/ planned # v \/ app # "on"
               \/ mine.pending.version = v /\ mine.pending.when # "due"

\* "The service also owns a pending_install slot in the config so scheduled
\* installs survive app restarts".
SchedulesSurvive == Up => mine.pending.version = planned

\* The two without their exception: a called off schedule stays off, and "Installing
\* now -- any scheduled install is superseded" (update_service.py:403).
ConsentKept == [][installing' \notin {0, installing} => installing' \in consent']_updateVars
NeverBack == [][running' >= running]_updateVars
================================================================================
