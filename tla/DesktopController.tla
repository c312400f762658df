------------------------- MODULE DesktopController -------------------------
(***************************************************************************)
(* SingBoxController and the connection buttons of the desktop application *)
(* (windows/lib/src/singbox_controller.dart, app.dart), together with the  *)
(* supervisor processes they start and the Windows proxy they set.         *)
(*                                                                         *)
(* Dart runs one event at a time: a step is the code from one await to the *)
(* next one at which another event matters.  An activation of start() or   *)
(* stop() interleaves there with the exit callbacks of the processes, with *)
(* the supervisors and with the user; all of them share status, _process,  *)
(* the proxy and the configuration file.  Calls to the native side are     *)
(* carried out in the order they are made.  An activation begins when the  *)
(* one before it has returned.                                             *)
(***************************************************************************)
EXTENDS SystemProxy, HongdaService

CONSTANTS MaxAttempts,   \* automatic reconnections in a row (three in the code)
          MaxEvents      \* bound on what happens outside the controller: a process that dies,
                         \* the end of the application, a change of the Windows proxy, a file
                         \* that cannot be deleted

ASSUME DesktopAssumption == MaxAttempts \in Nat /\ MaxEvents \in Nat

VARIABLES
    app,        \* "up", "starting" in OnCreate, "closing" in OnDestroy, "down"
    tun,        \* settings.tunEnabled; without TUN the system proxy is used
    status,     \* CoreStatus of the controller
    proc,       \* _process, 0 for null
    flow,       \* the activation of start() or stop(): where it is, for whom, its process
    cb,         \* the exit callback of every supervisor process
    busy,       \* _connectionActionInProgress
    timer,      \* _autoReconnectTimer is set
    attempts,   \* _autoReconnectAttempts
    config,     \* runtime/config.json exists
    events,     \* what has happened outside
    torn,       \* the application died inside a SetSystemProxy (history variable, see Crash)
    leftover    \* config.json is of a connection during which the application ended, or whose
                \* clean-up failed to delete it (history)

controlVars == <<status, proc, flow, cb, busy, timer, attempts>>
faultVars == <<events, torn, leftover>>
vars == <<proxyVars, userVars, serviceVars, app, tun, controlVars, config, faultVars>>

StartPcs == {"verify", "suspend", "config", "launch", "ready", "ipc"}
OtherPcs == {"idle", "finish", "clean", "resume", "waitExit", "waitKilled", "cleaned",
             "switch", "stop", "stopResume", "stopWait", "stopKilled", "stopped"}

NoFlow == [pc |-> "idle", who |-> "none", p |-> 0]
Active == {"starting", "running", "stopping"}

Init ==
    /\ ProxyInit /\ ServiceInit
    /\ app = "up" /\ tun \in BOOLEAN /\ status = "stopped" /\ proc = 0
    /\ flow = NoFlow /\ cb = [p \in Procs |-> "none"]
    /\ busy = FALSE /\ timer = FALSE /\ attempts = 0 /\ config = FALSE
    /\ events = 0 /\ torn = FALSE /\ leftover = FALSE

\* A new activation begins; start() only while there is a process left to start.
Begin(who, pc) ==
    /\ flow = NoFlow /\ (pc = "verify" => \E p \in Procs : svc[p] = "absent")
    /\ flow' = [pc |-> pc, who |-> who, p |-> 0]

\* A step of the activation from one await to the next.
Move(from, to) ==
    /\ app = "up" /\ flow.pc = from
    /\ flow' = IF to = "idle" THEN NoFlow ELSE [flow EXCEPT !.pc = to]
    /\ UNCHANGED <<app, tun, userVars>>

Go(from, to) == Move(from, to) /\ UNCHANGED faultVars

Calm == UNCHANGED <<status, proc, cb, busy, timer, attempts>>

\* The process has ended and its exit callback, registered first, has run.
ExitSeen(p) == svc[p] = "exited" /\ cb[p] # "due"

\* No call of an exit callback is waiting for the native side.
FirstInLine == \A p \in Procs : cb[p] # "off"

\* One more event from outside.
Event == events < MaxEvents /\ events' = events + 1

\* deleteRuntimeConfig, which swallows the error of a file another program holds.
DeleteConfig ==
    /\ \/ config' = FALSE /\ leftover' = FALSE /\ UNCHANGED events
       \/ config /\ Event /\ leftover' = TRUE /\ UNCHANGED config
    /\ UNCHANGED torn

\* The exit of a supervisor makes its callback due, whoever ended it.
Due == cb' = [p \in Procs |-> IF cb[p] = "armed" /\ svc'[p] = "exited" THEN "due" ELSE cb[p]]

-----------------------------------------------------------------------------
\* _connectOrDisconnect; start() and stop() set the status before their first await.
ConnectOrDisconnect ==
    /\ app = "up" /\ ~busy /\ status \notin {"starting", "stopping"}
    /\ IF status = "running" THEN Begin("button", "stop") /\ status' = "stopping"
                             ELSE Begin("button", "verify") /\ status' = "starting"
    /\ busy' = TRUE /\ timer' = FALSE /\ attempts' = 0
    /\ UNCHANGED <<proxyVars, serviceVars, app, tun, userVars, faultVars, proc, cb, config>>

\* _runAutoReconnect when its timer fires.
AutoReconnect ==
    /\ app = "up" /\ timer /\ timer' = FALSE
    /\ status \notin Active /\ Begin("auto", "verify")
    /\ attempts' = attempts + 1 /\ busy' = TRUE /\ status' = "starting"
    /\ UNCHANGED <<proxyVars, serviceVars, app, tun, userVars, faultVars, proc, cb, config>>

\* _selectNode of a running controller asks the core to switch.
SelectNode ==
    /\ app = "up" /\ ~busy /\ status = "running" /\ Begin("node", "switch")
    /\ UNCHANGED <<proxyVars, serviceVars, app, tun, userVars, faultVars, status, proc, cb, busy,
                   timer, attempts, config>>

\* The switch succeeds, or stop() and then start() reload the core.
Switch ==
    /\ \/ AnyCoreUp /\ Go("switch", "idle") /\ UNCHANGED status
       \/ Go("switch", "stop") /\ status' = "stopping"
    /\ UNCHANGED <<proxyVars, serviceVars, proc, cb, busy, timer, attempts, config>>

\* The TUN switch of the settings, which only a running connection disables: also while
\* start() is between two awaits, which reads the settings at each step.
ChangeTun ==
    /\ app = "up" /\ status # "running" /\ tun' = ~tun
    /\ UNCHANGED <<proxyVars, serviceVars, app, userVars, faultVars, controlVars, config>>

\* The failure dialog of _connectOrDisconnect is dismissed.
Dismiss ==
    /\ app = "up" /\ flow = NoFlow /\ busy /\ busy' = FALSE
    /\ UNCHANGED <<proxyVars, serviceVars, app, tun, userVars, faultVars, status, proc, flow, cb,
                   timer, attempts, config>>

\* If TUN is on once the service is verified and the application is an administrator, the
\* Windows proxy is taken off and suspended.
SuspendProxy ==
    /\ FirstInLine
    /\ \/ tun /\ Go("verify", "suspend") /\ SetOff(AnyCoreUp)
       \/ Go("suspend", "config") /\ Suspend(AnyCoreUp)
    /\ Calm /\ UNCHANGED <<serviceVars, config>>

\* Ports are chosen and runtime/config.json is written.
WriteConfig ==
    /\ app = "up" /\ (flow.pc = "config" \/ (flow.pc = "verify" /\ ~tun))
    /\ flow' = [flow EXCEPT !.pc = "launch"] /\ config' = TRUE /\ leftover' = FALSE
    /\ Calm /\ UNCHANGED <<proxyVars, serviceVars, app, tun, userVars, events, torn>>

\* The service's doctor accepts the file; then Process.start, _process, and the exit
\* callback that is registered at once.
Launch ==
    /\ app = "up" /\ flow.pc = "launch" /\ config
    /\ \E p \in Procs :
          /\ \A q \in Procs : svc[q] = "absent" => p <= q
          /\ Launched(p) /\ proc' = p /\ cb' = [cb EXCEPT ![p] = "armed"]
          /\ flow' = [flow EXCEPT !.pc = "ready", !.p = p]
    /\ UNCHANGED <<proxyVars, userVars, app, tun, status, busy, timer, attempts, config, faultVars>>

\* _waitForServiceReady, the READY line and an API that answers while _process is set;
\* _selectProxyTag over the API, and for TUN _verifyTunRouting.  The two native calls of an
\* exit callback that began before this service was started are done by then.
Ready ==
    /\ Go("ready", "ipc") /\ svc[flow.p] = "ready" /\ proc # 0 /\ AnyCoreUp
    /\ \A p \in Procs : cb[p] \notin {"off", "resume"}
    /\ Calm /\ UNCHANGED <<proxyVars, serviceVars, config>>

\* status = running; the listener of the application clears the reconnection.
Running ==
    /\ status' = "running" /\ attempts' = 0 /\ timer' = FALSE
    /\ busy' = (busy /\ flow.who = "node")

\* _probeIpc: _process answers, and without a further await start() finishes or, if TUN is
\* off now, calls SetSystemProxy(true).
ProbeIpc ==
    /\ proc # 0 /\ svc[proc] = "ready"
    /\ \/ tun /\ Go("ipc", "idle") /\ Running /\ UNCHANGED proxyVars
       \/ ~tun /\ FirstInLine /\ Go("ipc", "finish") /\ SetOn(AnyCoreUp)
          /\ UNCHANGED <<status, attempts, timer, busy>>
    /\ UNCHANGED <<serviceVars, proc, cb, config>>

\* That call is done and its reply, the last await of start(), arrives.
Finish ==
    /\ Go("finish", "idle") /\ ProxyServerWritten /\ Running
    /\ UNCHANGED <<serviceVars, proc, cb, config>>

\* Any other await of start() throws: a failed check, a timeout, an API or IPC error.
StartThrows ==
    /\ \E pc \in StartPcs : Go(pc, "clean")
    /\ Calm /\ UNCHANGED <<proxyVars, serviceVars, config>>

-----------------------------------------------------------------------------
\* A stop line is written to the supervisor's stdin.
SendStop(p) ==
    /\ stdin' = [stdin EXCEPT ![p] = IF @ = "open" THEN "stop" ELSE @]
    /\ UNCHANGED <<svc, core, early>>

\* process.kill(), which terminates the supervisor at once if it still runs.
Kill(p) == IF ServiceAlive(p) THEN ServiceKilled(p) ELSE UNCHANGED serviceVars

\* _cleanupFailedStart: the proxy is restored, whatever _process is then is stopped, by a
\* stop line, after four seconds by kill; then _process is cleared.
CleanProxy ==
    /\ FirstInLine /\ Go("clean", "resume") /\ SetOff(AnyCoreUp)
    /\ Calm /\ UNCHANGED <<serviceVars, config>>

CleanStop ==
    /\ app = "up" /\ flow.pc = "resume" /\ FirstInLine /\ Resume(AnyCoreUp)
    /\ flow' = [flow EXCEPT !.pc = IF proc = 0 THEN "cleaned" ELSE "waitExit", !.p = proc]
    /\ IF proc = 0 THEN UNCHANGED serviceVars ELSE SendStop(proc)
    /\ Calm /\ UNCHANGED <<app, tun, userVars, faultVars, config>>

CleanWait_NoTimeout ==
    /\ Go("waitExit", "cleaned") /\ ExitSeen(flow.p) /\ proc' = 0
    /\ UNCHANGED <<serviceVars, cb, proxyVars, status, busy, timer, attempts, config>>

CleanWait ==
    /\ \/ Go("waitExit", "cleaned") /\ ExitSeen(flow.p) /\ proc' = 0
          /\ UNCHANGED <<serviceVars, cb>>
       \/ Go("waitExit", "waitKilled") /\ Kill(flow.p) /\ Due /\ UNCHANGED proc
       \/ Go("waitKilled", "cleaned") /\ proc' = 0 /\ UNCHANGED <<serviceVars, cb>>
    /\ UNCHANGED <<proxyVars, status, busy, timer, attempts, config>>

Schedule_NoLimit(st) == timer' = (timer \/ st \notin Active)

\* _scheduleAutoReconnect, in the status the controller has then.
Schedule(st) == timer' = (timer \/ (st \notin Active /\ attempts < MaxAttempts))

\* The configuration is deleted and start() rethrows: a dialog for the button, during which
\* it stays busy, another attempt for _runAutoReconnect.
Cleaned ==
    /\ Move("cleaned", "idle") /\ DeleteConfig
    /\ status' = "error"
    /\ busy' = (busy /\ flow.who # "auto")
    /\ IF flow.who = "auto" THEN Schedule("error") ELSE UNCHANGED timer
    /\ UNCHANGED <<proxyVars, serviceVars, proc, cb, attempts>>

-----------------------------------------------------------------------------
\* stop(): the proxy is restored, the process taken and stopped, after seven seconds killed.
StopProxy ==
    /\ FirstInLine /\ Go("stop", "stopResume") /\ SetOff(AnyCoreUp)
    /\ Calm /\ UNCHANGED <<serviceVars, config>>

StopProcess ==
    /\ app = "up" /\ flow.pc = "stopResume" /\ FirstInLine /\ Resume(AnyCoreUp)
    /\ flow' = [flow EXCEPT !.pc = IF proc = 0 THEN "stopped" ELSE "stopWait", !.p = proc]
    /\ proc' = 0
    /\ IF proc = 0 THEN UNCHANGED serviceVars ELSE SendStop(proc)
    /\ UNCHANGED <<app, tun, userVars, faultVars, status, cb, busy, timer, attempts, config>>

StopWait ==
    /\ \/ Go("stopWait", "stopped") /\ ExitSeen(flow.p) /\ UNCHANGED <<serviceVars, cb>>
       \/ Go("stopWait", "stopKilled") /\ Kill(flow.p) /\ Due
       \/ Go("stopKilled", "stopped") /\ UNCHANGED <<serviceVars, cb>>
    /\ UNCHANGED <<proxyVars, status, proc, busy, timer, attempts, config>>

\* The configuration is deleted, the controller is stopped; a reload starts again.
StopDone ==
    /\ Move("stopped", IF flow.who = "node" THEN "verify" ELSE "idle") /\ DeleteConfig
    /\ status' = IF flow.who = "node" THEN "starting" ELSE "stopped"
    /\ busy' = (busy /\ flow.who = "node")
    /\ UNCHANGED <<proxyVars, serviceVars, proc, cb, timer, attempts>>

-----------------------------------------------------------------------------
\* process.exitCode.then: only for the current process, and not while stop() is at work.
ExitFires(p) ==
    /\ app = "up" /\ cb[p] = "due"
    /\ IF proc = p /\ status # "stopping"
       THEN proc' = 0 /\ status' = "error" /\ cb' = [cb EXCEPT ![p] = "off"]
       ELSE cb' = [cb EXCEPT ![p] = "done"] /\ UNCHANGED <<proc, status>>
    /\ UNCHANGED <<proxyVars, serviceVars, app, tun, userVars, faultVars, flow, busy, timer,
                   attempts, config>>

ExitCleans_KeepsConfig(p) ==
    /\ app = "up"
    /\ \/ /\ cb[p] = "off" /\ cb' = [cb EXCEPT ![p] = "resume"] /\ SetOff(AnyCoreUp)
          /\ UNCHANGED timer
       \/ /\ cb[p] = "resume" /\ cb' = [cb EXCEPT ![p] = "done"] /\ Resume(AnyCoreUp)
          /\ Schedule(status)
    /\ UNCHANGED <<serviceVars, app, tun, userVars, faultVars, status, proc, flow, busy, attempts,
                   config>>

\* Its awaits: the proxy is restored, the configuration deleted, a reconnection scheduled.
ExitCleans(p) ==
    /\ app = "up"
    /\ \/ /\ cb[p] = "off" /\ cb' = [cb EXCEPT ![p] = "resume"] /\ SetOff(AnyCoreUp)
          /\ UNCHANGED <<config, faultVars, timer>>
       \/ /\ cb[p] = "resume" /\ cb' = [cb EXCEPT ![p] = "delete"] /\ Resume(AnyCoreUp)
          /\ UNCHANGED <<config, faultVars, timer>>
       \/ /\ cb[p] = "delete" /\ cb' = [cb EXCEPT ![p] = "done"] /\ DeleteConfig
          /\ Schedule(status) /\ UNCHANGED proxyVars
    /\ UNCHANGED <<serviceVars, app, tun, userVars, status, proc, flow, busy, attempts>>

-----------------------------------------------------------------------------
Others == UNCHANGED <<app, tun, status, proc, flow, busy, timer, attempts, config>>

\* The supervisors and their cores run.
ServiceRuns(p) ==
    /\ ServiceStep(p, config) /\ Due
    /\ Others /\ UNCHANGED <<proxyVars, userVars, faultVars>>

\* The second registry write of a SetSystemProxy(false).
NativeCall ==
    /\ app # "down" /\ half = "off" /\ ProxyServerWritten
    /\ Others /\ UNCHANGED <<cb, userVars, serviceVars, faultVars>>

\* A supervisor or a core dies.
ServiceFails(p) ==
    /\ CoreExits(p) \/ ServiceKilled(p)
    /\ Event /\ Due /\ Others /\ UNCHANGED <<proxyVars, userVars, torn, leftover>>

\* The user changes the Windows proxy, or the other local proxy ends.
ProxyEdited ==
    /\ UserChange \/ LocalProxyEnds
    /\ Event /\ Others /\ UNCHANGED <<cb, serviceVars, torn, leftover>>

\* The Dart side is gone: its activation ends, its pipes to the supervisors close; the
\* supervisors in killed were terminated before.  kept: config.json stays.
AppGone(killed, kept) ==
    /\ app' = "down" /\ status' = "stopped" /\ proc' = 0
    /\ flow' = NoFlow /\ cb' = [p \in Procs |-> "none"]
    /\ busy' = FALSE /\ timer' = FALSE /\ attempts' = 0
    /\ StarterGone(killed)
    /\ config' = kept /\ leftover' = kept
    /\ UNCHANGED <<tun, userVars>>

\* torn: the call was SetSystemProxy(true), or it was SetSystemProxy(false) while a setting
\* was still suspended, of a start() during which TUN was switched off.
Crash ==
    /\ app # "down" /\ Event /\ AppGone({}, config) /\ ProxyForget
    /\ torn' = (torn \/ half = "on" \/ (half = "off" /\ tunSnap # NoSnap))

\* OnDestroy: SetSystemProxy(false), SuspendSystemProxyForTun(false), and the engine ends,
\* perhaps before it has come to dispose(), which kills _process and begins to delete the
\* configuration without waiting for it.
Quit ==
    \/ /\ app = "up" /\ Event /\ app' = "closing" /\ SetOff(AnyCoreUp)
       /\ UNCHANGED <<tun, controlVars, config, userVars, serviceVars, torn, leftover>>
    \/ /\ app = "closing" /\ Resume(AnyCoreUp)
       /\ \/ AppGone({}, config)
          \/ \E kept \in {config, FALSE} :
                AppGone({p \in Procs : p = proc /\ ServiceAlive(p)}, kept)
       /\ UNCHANGED <<events, torn>>

\* OnCreate: RecoverStaleSystemProxy, then SuspendSystemProxyForTun(false).
AppStarts ==
    /\ \/ app = "down" /\ app' = "starting" /\ SetOff(AnyCoreUp)
       \/ app = "starting" /\ app' = "up" /\ Resume(AnyCoreUp)
    /\ UNCHANGED <<tun, controlVars, config, userVars, serviceVars, faultVars>>

-----------------------------------------------------------------------------
FlowStep ==
    \/ SuspendProxy \/ WriteConfig \/ Launch \/ Ready \/ ProbeIpc \/ Finish \/ StartThrows
    \/ CleanProxy \/ CleanStop \/ CleanWait \/ Cleaned \/ Switch
    \/ StopProxy \/ StopProcess \/ StopWait \/ StopDone

CallbackStep(p) == ExitFires(p) \/ ExitCleans(p)

Next ==
    \/ ConnectOrDisconnect \/ AutoReconnect \/ SelectNode \/ Dismiss \/ ChangeTun \/ FlowStep
    \/ \E p \in Procs : CallbackStep(p) \/ ServiceRuns(p) \/ ServiceFails(p)
    \/ NativeCall \/ ProxyEdited \/ Crash \/ Quit \/ AppStarts

\* The event loop goes on, the native side answers, and every wait of an activation has a
\* timeout.  Nothing is assumed of the supervisors, of the user or of the timer.
Fairness ==
    /\ WF_vars(FlowStep) /\ WF_vars(NativeCall)
    /\ \A p \in Procs : WF_vars(CallbackStep(p))

Spec == Init /\ [][Next]_vars /\ Fairness

-----------------------------------------------------------------------------
\* Every variable has its type; in particular _scheduleAutoReconnect never lets a row of
\* failed reconnections grow past its limit.
TypeOK ==
    /\ ProxyTypeOK /\ ServiceTypeOK
    /\ app \in {"up", "starting", "closing", "down"} /\ tun \in BOOLEAN
    /\ status \in {"stopped", "starting", "running", "stopping", "error"}
    /\ proc \in Procs \cup {0}
    /\ flow \in [pc : StartPcs \cup OtherPcs, who : {"none", "button", "auto", "node"},
                 p : Procs \cup {0}]
    /\ cb \in [Procs -> {"none", "armed", "due", "off", "resume", "delete", "done"}]
    /\ {busy, timer, config, torn, leftover} \subseteq BOOLEAN
    /\ attempts \in 0 .. MaxAttempts /\ events \in 0 .. MaxEvents

\* No activation and no exit callback is at work.
Quiet ==
    /\ app = "up" /\ half = "no" /\ flow = NoFlow
    /\ \A p \in Procs : cb[p] \in {"none", "armed", "done"}

\* SetSystemProxy and SuspendSystemProxyForTun give back what they took: once the dust has
\* settled and no service runs, programs are sent to the proxy its users last chose, or to
\* none when that was a local proxy that is found dead, and no snapshot is left to overwrite
\* a later choice.  So it is after disconnecting, a failed start, a service that died, even
\* while start() was finishing, a TUN switch moved while start() was at work, and a crash and
\* restart of the application, unless it crashed between the two registry writes of
\* SetSystemProxy(true), or of SetSystemProxy(false) with a suspension underneath (torn).
UserProxyKept ==
    (Quiet /\ proc = 0 /\ ~torn) =>
        /\ snap = NoSnap /\ tunSnap = NoSnap
        /\ \/ Effective(reg) = Effective(user)
           \/ user.server = "local" /\ Effective(reg) = "empty"

\* No core outlives its supervisor, however that ends (stop line, kill, crash, end of the
\* application), except when the supervisor dies between starting the core and
\* attachKillOnCloseJob.
NoOrphanCore == \A p \in Procs : CoreAlive(p) /\ ~ServiceAlive(p) => early[p]

\* runtime/config.json, which holds the credentials of the nodes, exists only during a
\* connection: whichever of stop(), a failed start() and the exit callback comes last deletes
\* it.  It is left behind only when that deletion fails, or when the application ends during
\* the connection; the end of the next connection then deletes it, under the same conditions.
ConfigRemoved == (Quiet /\ proc = 0 /\ config) => leftover

\* Every activation of start() and stop() returns, whatever the supervisor does or fails to
\* do, and although the exit callbacks use the native side too, unless the application ends.
ActivationReturns == flow # NoFlow ~> (flow = NoFlow \/ app # "up")
=============================================================================
