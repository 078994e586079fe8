---------------------------- MODULE DesktopShell ----------------------------
(***************************************************************************)
(* The main process of the desktop application: the server that it starts,  *)
(* restarts and stops, and the update that it checks for, downloads and     *)
(* installs.                                                                *)
(*                                                                         *)
(* Time is left out, and with it the backoff of restarts (restartAttempt);  *)
(* of the update state, what a guard or the button of the web client reads. *)
(* A version is the number of releases since the one that runs, 0 is none.  *)
(***************************************************************************)
EXTENDS Naturals, Sequences

CONSTANT Bounds \* bounds to consider of what may happen: records of
                \*   crashes: servers that exit by themselves
                \*   spawns: servers that cannot be started
                \*   requests: checks and downloads that are begun
                \*   errors: checks and downloads that fail
                \*   installs: installations that fail
                \*   releases, quits: new versions, and whether the user quits

Events == {"crashes", "spawns", "requests", "errors", "installs", "releases", "quits"}

ASSUME DesktopAssumption == \A s \in Bounds, k \in Events : s[k] \in Nat

VARIABLES
    bounds,       \* of this behaviour
    used,         \* how much of the bounds is used
    app,          \* "up", "quitting" (app.quit) or "gone"
    isQuitting,
    backend,      \* backendProcess, an index of children or 0
    restartTimer, \* armed or not
    children,     \* every server process: "live", "stopping" (SIGTERM),
                  \* "killed" (SIGKILL) or "gone"
    escalating,   \* the children that stopBackend kills after two seconds
    install,      \* what installDownloadedUpdate does: [step, child]
    update,       \* updateState: [status, available, downloaded, context]
    checking,     \* updateCheckInFlight
    downloading,  \* updateDownloadInFlight
    released      \* (external) the latest version

servers == <<backend, restartTimer, children, escalating>>
updates == <<update, checking, downloading, released>>
desktopVars == <<bounds, used, app, isQuitting, servers, install, updates>>

Use(kind) ==
    /\ used[kind] < bounds[kind]
    /\ used' = [used EXCEPT ![kind] = @ + 1]

Installing(step, child) == [step |-> step, child |-> child]
NoInstall == Installing("none", 0)

\* bootstrap has started the server, configureAutoUpdater has armed its timers.
Bootstrapped ==
    /\ bounds \in Bounds
    /\ used = [k \in Events |-> 0]
    /\ app = "up" /\ isQuitting = FALSE
    /\ backend = 1 /\ children = <<"live">> /\ restartTimer = FALSE /\ escalating = {}
    /\ install = NoInstall
    /\ update = [status |-> "idle", available |-> 0, downloaded |-> 0, context |-> "none"]
    /\ checking = FALSE /\ downloading = FALSE /\ released = 0

-----------------------------------------------------------------------------
(***************************************************************************)
(* The server.                                                              *)
(***************************************************************************)
ChildRuns(child) == children[child] # "gone"
Signal(child, status) == [children EXCEPT ![child] = IF ChildRuns(child) THEN status ELSE @]

\* scheduleBackendRestart: armed is the timer as it stands.
ScheduleRestart(armed) == restartTimer' = (armed \/ ~isQuitting)

(* Mutant of RestartBackend: no timer is armed when the server could not be *)
(* started.                                                                 *)
RestartBackendMutant ==
    /\ app # "gone" /\ restartTimer
    /\ restartTimer' = FALSE
    /\ \/ (isQuitting \/ backend # 0) /\ UNCHANGED <<used, backend, children>>
       \/ /\ ~isQuitting /\ backend = 0
          /\ backend' = Len(children) + 1 /\ children' = Append(children, "live")
          /\ UNCHANGED used
       \/ /\ ~isQuitting /\ backend = 0
          /\ Use("spawns") /\ UNCHANGED <<backend, children>>
    /\ UNCHANGED <<bounds, app, isQuitting, escalating, install, updates>>

\* The restart timer: startBackend.  Its server cannot be started when the
\* entry is missing or, at once, when the process is not created ("error").
RestartBackend ==
    /\ app # "gone" /\ restartTimer
    /\ \/ /\ isQuitting \/ backend # 0
          /\ restartTimer' = FALSE /\ UNCHANGED <<used, backend, children>>
       \/ /\ ~isQuitting /\ backend = 0
          /\ restartTimer' = FALSE
          /\ backend' = Len(children) + 1 /\ children' = Append(children, "live")
          /\ UNCHANGED used
       \/ /\ ~isQuitting /\ backend = 0
          /\ Use("spawns") /\ ScheduleRestart(FALSE) /\ UNCHANGED <<backend, children>>
    /\ UNCHANGED <<bounds, app, isQuitting, escalating, install, updates>>

\* What a child's "exit" does to the rest, forgetting it or not.
ChildExit(child, forgotten) ==
    /\ app # "gone" /\ ChildRuns(child)
    /\ IF children[child] = "live" THEN Use("crashes") ELSE UNCHANGED used
    /\ children' = [children EXCEPT ![child] = "gone"]
    /\ backend' = IF backend = child THEN forgotten ELSE backend
    /\ ScheduleRestart(restartTimer)
    /\ install' = IF install.child = child THEN Installing("ready", 0) ELSE install
    /\ UNCHANGED <<bounds, app, isQuitting, escalating, updates>>

(* Mutant of BackendExit: the child is not forgotten.                       *)
BackendExitMutant(child) == ChildExit(child, child)

\* A child's "exit", for which an installation may wait (onExit).
BackendExit(child) == ChildExit(child, 0)

(* Mutant of StopBackend: the server is forgotten, not stopped.             *)
StopBackendMutant ==
    /\ restartTimer' = FALSE /\ backend' = 0
    /\ UNCHANGED <<children, escalating>>

\* stopBackend: SIGTERM, and a timer to kill.
StopBackend ==
    /\ restartTimer' = FALSE /\ backend' = 0
    /\ children' = IF backend = 0 THEN children ELSE Signal(backend, "stopping")
    /\ escalating' = IF backend = 0 THEN escalating ELSE escalating \cup {backend}

\* That timer, which does not keep the application.
Escalate(child) ==
    /\ app # "gone" /\ child \in escalating
    /\ escalating' = escalating \ {child}
    /\ children' = Signal(child, "killed")
    /\ UNCHANGED <<bounds, used, app, isQuitting, backend, restartTimer, install, updates>>

\* "before-quit", SIGINT and SIGTERM.
Quit ==
    /\ app = "up" /\ Use("quits")
    /\ app' = "quitting" /\ isQuitting' = TRUE
    /\ StopBackend
    /\ UNCHANGED <<bounds, install, updates>>

\* The windows are closed, the process ends.
Leave ==
    /\ app = "quitting" /\ app' = "gone"
    /\ UNCHANGED <<bounds, used, isQuitting, servers, install, updates>>

-----------------------------------------------------------------------------
(***************************************************************************)
(* The update.                                                              *)
(***************************************************************************)
\* (external) A version is published.
Release ==
    /\ Use("releases") /\ released' = released + 1
    /\ UNCHANGED <<bounds, app, isQuitting, servers, install, update, checking, downloading>>

\* checkForUpdates, unless the state of the update forbids it.
BeginCheck(forbidden) ==
    /\ app # "gone" /\ ~isQuitting /\ ~checking
    /\ update.status \notin forbidden
    /\ Use("requests")
    /\ checking' = TRUE
    /\ update' = [update EXCEPT !.status = "checking", !.context = "none"]
    /\ UNCHANGED <<bounds, app, isQuitting, servers, install, downloading, released>>

(* Mutant of Check: a version that waits to be installed is overlooked.     *)
CheckMutant == BeginCheck({"downloading"})

Check == BeginCheck({"downloading", "downloaded"})

\* "update-available" or "update-not-available", or the check fails.
CheckSettles ==
    /\ app # "gone" /\ checking /\ checking' = FALSE
    /\ \/ /\ released # 0
          /\ update' = [status |-> "available", available |-> released,
                        downloaded |-> 0, context |-> "none"]
          /\ UNCHANGED used
       \/ /\ released = 0
          /\ update' = [status |-> "up-to-date", available |-> 0,
                        downloaded |-> 0, context |-> "none"]
          /\ UNCHANGED used
       \/ /\ Use("errors")
          /\ update' = [update EXCEPT !.status = "error", !.context = "check"]
    /\ UNCHANGED <<bounds, app, isQuitting, servers, install, downloading, released>>

\* downloadAvailableUpdate, which a check in flight does not forbid.
Download ==
    /\ app # "gone" /\ ~downloading /\ update.status = "available"
    /\ Use("requests")
    /\ downloading' = TRUE
    /\ update' = [update EXCEPT !.status = "downloading", !.context = "none"]
    /\ UNCHANGED <<bounds, app, isQuitting, servers, install, checking, released>>

\* "update-downloaded", or the download fails.
DownloadSettles ==
    /\ app # "gone" /\ downloading /\ downloading' = FALSE
    /\ \/ /\ update' = [update EXCEPT !.status = "downloaded", !.downloaded = update.available,
                                      !.context = "none"]
          /\ UNCHANGED used
       \/ /\ Use("errors")
          /\ update' = [update EXCEPT !.status = IF update.available # 0 THEN "available" ELSE "error",
                                      !.context = "download"]
    /\ UNCHANGED <<bounds, app, isQuitting, servers, install, checking, released>>

(* Mutant of Install: the server is asked to stop and not waited for.       *)
InstallMutant ==
    /\ app # "gone" /\ ~isQuitting /\ update.status = "downloaded"
    /\ isQuitting' = TRUE
    /\ StopBackend
    /\ install' = Installing("ready", 0)
    /\ UNCHANGED <<bounds, used, app, updates>>

\* installDownloadedUpdate and stopBackendAndWaitForExit.
Install ==
    /\ app # "gone" /\ ~isQuitting /\ update.status = "downloaded"
    /\ isQuitting' = TRUE
    /\ restartTimer' = FALSE /\ backend' = 0
    /\ IF backend = 0
       THEN install' = Installing("ready", 0) /\ UNCHANGED children
       ELSE install' = Installing("stopping", backend) /\ children' = Signal(backend, "stopping")
    /\ UNCHANGED <<bounds, used, app, escalating, updates>>

\* Two seconds later.
ForceKill ==
    /\ app # "gone" /\ install.step = "stopping"
    /\ install' = [install EXCEPT !.step = "killing"]
    /\ children' = Signal(install.child, "killed")
    /\ UNCHANGED <<bounds, used, app, isQuitting, backend, restartTimer, escalating, updates>>

\* Five seconds later.
ExitTimeout ==
    /\ app # "gone" /\ install.step = "killing"
    /\ install' = Installing("ready", 0)
    /\ UNCHANGED <<bounds, used, app, isQuitting, servers, updates>>

\* quitAndInstall takes over, throws, or reports an "error" and returns, when
\* neither a check nor a download is in flight.
QuitAndInstall ==
    /\ app # "gone" /\ install.step = "ready"
    /\ install' = NoInstall
    /\ \/ app' = "gone" /\ UNCHANGED <<used, isQuitting, update>>
       \/ /\ Use("installs") /\ isQuitting' = FALSE
          /\ update' = [update EXCEPT !.status = "downloaded", !.context = "install"]
          /\ UNCHANGED app
       \/ /\ Use("installs")
          /\ update' = [update EXCEPT !.status = "error"]
          /\ UNCHANGED <<app, isQuitting>>
    /\ UNCHANGED <<bounds, servers, checking, downloading, released>>

-----------------------------------------------------------------------------
\* An installation that no longer waits goes on before anything else happens.
DesktopNext ==
    \/ QuitAndInstall
    \/ /\ install.step # "ready"
       /\ \/ RestartBackend \/ Quit \/ Leave
          \/ \E child \in DOMAIN children : BackendExit(child) \/ Escalate(child)
          \/ Release \/ Check \/ CheckSettles \/ Download \/ DownloadSettles
          \/ Install \/ ForceKill \/ ExitTimeout

DesktopSpec == Bootstrapped /\ [][DesktopNext]_desktopVars

\* Timers fire, and continuations run.
DesktopFairSpec ==
    /\ DesktopSpec
    /\ WF_desktopVars(install.step # "ready" /\ RestartBackend)
    /\ WF_desktopVars(install.step # "ready" /\ (ForceKill \/ ExitTimeout))
    /\ WF_desktopVars(QuitAndInstall)

\* resolveDesktopUpdateButtonAction in the web client.
ButtonAction ==
    CASE update.status = "available" -> "download"
      [] update.status = "downloaded" -> "install"
      [] update.status = "error" /\ update.context = "install" /\ update.downloaded # 0 -> "install"
      [] update.status = "error" /\ update.context = "download" /\ update.available # 0 -> "download"
      [] OTHER -> "none"

-----------------------------------------------------------------------------
(***************************************************************************)
(* Properties.                                                              *)
(***************************************************************************)
(* The type of the state; what is remembered as the server runs and was not *)
(* told to stop, no timer to start another is armed beside it, and an       *)
(* installation waits for a server that is no longer remembered.            *)
DesktopTypeOK ==
    /\ app \in {"up", "quitting", "gone"}
    /\ {isQuitting, restartTimer, checking, downloading} \subseteq BOOLEAN
    /\ children \in Seq({"live", "stopping", "killed", "gone"})
    /\ backend \in {0} \cup DOMAIN children /\ escalating \subseteq DOMAIN children
    /\ backend # 0 => children[backend] = "live" /\ ~restartTimer
    /\ install.child # 0 => backend = 0 /\ install.step \in {"stopping", "killing"}
    /\ update.available \in 0..released /\ update.downloaded \in 0..update.available

(* The installer replaces the files of a server that no longer runs, or     *)
(* that was killed and did not exit in time: installDownloadedUpdate waits. *)
InstallerWaits ==
    install.step = "ready" =>
        \A child \in DOMAIN children : children[child] \in {"killed", "gone"}

(* An application that is gone has told every server it started to stop,    *)
(* whatever restarts, crashes and failed installations came before; only an *)
(* installation that fails while it quits makes it forget that it quits.    *)
ServersToldToStop ==
    app = "gone" /\ isQuitting => \A child \in DOMAIN children : children[child] # "live"

(* No server is in the way of the installer or of the end.                  *)
ServersStopped == InstallerWaits /\ ServersToldToStop

(* A version that was downloaded stays ready to install, whatever checks    *)
(* and timers do, until its installation fails.                             *)
DownloadKept == update.downloaded # 0 => ButtonAction = "install" \/ used.installs > 0

(* Unless the application quits or an installation failed, a server that    *)
(* exits is replaced in the end, also when the first attempts fail.         *)
ServerComesBack == []<>(backend # 0 \/ isQuitting \/ app = "gone" \/ used.installs > 0)
=============================================================================
