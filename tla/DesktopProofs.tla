--------------------------- MODULE DesktopProofs ---------------------------
(***************************************************************************)
(* Three things the desktop application leaves behind in good order, for   *)
(* any number of supervisor processes, of reconnections and of events from *)
(* outside: no core without its supervisor, no configuration file with the *)
(* credentials of the nodes, and the Windows proxy its users chose.        *)
(***************************************************************************)
EXTENDS DesktopController, TLAPS

\* A core runs only under a supervisor that has started it, or was left behind by one that
\* died before the job held the core.  NoOrphanCore alone is not inductive: it does not say
\* that a supervisor which is still checking has no core.
CoreInv ==
    /\ svc \in [Procs -> {"absent", "checking", "spawned", "ready", "exited"}]
    /\ core \in [Procs -> {"booting", "up", "dead"}]
    /\ early \in [Procs -> BOOLEAN]
    /\ \A p \in Procs : CoreAlive(p) =>
          svc[p] \in {"spawned", "ready"} \/ (svc[p] = "exited" /\ early[p])

Untouched == UNCHANGED <<svc, core, early>>

\* Zenon proves what is not said to need SMT: arithmetic, mostly.
USE ZenonT(30)

\* Steps that leave the supervisors and their cores alone keep it.
LEMMA UntouchedKeeps == CoreInv /\ Untouched => CoreInv'
BY DEF CoreInv, Untouched, CoreAlive

\* Every operation of a supervisor or of its core keeps the invariant.
LEMMA ServiceKeeps ==
    ASSUME CoreInv, NEW p, NEW c,
           \/ Launched(p) \/ ServiceStep(p, c) \/ CoreExits(p) \/ ServiceKilled(p)
    PROVE  CoreInv'
<1> USE DEF CoreInv, CoreAlive, Exits, ServiceAlive
<1>1. CASE Launched(p)
  BY <1>1 DEF Launched
<1>2. CASE Check(p, c)
  BY <1>2, SMT DEF Check
<1>3. CASE Attach(p)
  BY <1>3, SMT DEF Attach
<1>4. CASE CoreUp(p)
  BY <1>4 DEF CoreUp
<1>5. CASE Select(p)
  BY <1>5 DEF Select
<1>6. CASE CoreExits(p)
  BY <1>6 DEF CoreExits
<1>7. CASE ServiceKilled(p)
  <2> USE <1>7 DEF ServiceKilled
  <2>1. /\ svc' = [svc EXCEPT ![p] = "exited"]
        /\ p \in Procs => (CoreAlive(p)' => svc[p] # "ready" /\ CoreAlive(p))
    OBVIOUS
  <2>2. ASSUME NEW q \in Procs, CoreAlive(q)'
        PROVE  (svc[q] \in {"spawned", "ready"} \/ (svc[q] = "exited" /\ early[q]))'
    <3>1. CASE q = p
      <4>1. svc[q] = "spawned" /\ CoreAlive(q)
        BY <2>1, <2>2, <3>1
      <4> QED
        BY <2>1, <3>1, <4>1
    <3> QED
      BY <2>1, <2>2, <3>1
  <2>3. svc' \in [Procs -> {"absent", "checking", "spawned", "ready", "exited"}]
    BY <2>1
  <2>4. core' \in [Procs -> {"booting", "up", "dead"}]
    BY DEF CoreInv
  <2>5. early' \in [Procs -> BOOLEAN]
    OBVIOUS
  <2> QED
    BY <2>2, <2>3, <2>4, <2>5
<1> QED
  BY <1>1, <1>2, <1>3, <1>4, <1>5, <1>6, <1>7 DEF ServiceStep

\* So does the end of the application, whatever supervisors it kills.
LEMMA StarterGoneKeeps == ASSUME CoreInv, NEW killed, StarterGone(killed) PROVE CoreInv'
<1> USE DEF CoreInv, StarterGone
<1>1. svc' \in [Procs -> {"absent", "checking", "spawned", "ready", "exited"}]
  OBVIOUS
<1>2. core' \in [Procs -> {"booting", "up", "dead"}]
  OBVIOUS
<1>3. early' \in [Procs -> BOOLEAN]
  BY DEF CoreAlive
<1>4. ASSUME NEW p \in Procs, CoreAlive(p)'
      PROVE  (svc[p] \in {"spawned", "ready"} \/ (svc[p] = "exited" /\ early[p]))'
  <2>1. CASE p \in killed
    <3>1. svc[p] # "ready" /\ core'[p] = core[p]
      BY <1>4, <2>1 DEF CoreAlive
    <3>2. svc[p] = "spawned" \/ (svc[p] = "exited" /\ early[p])
      BY <1>4, <3>1 DEF CoreAlive
    <3> QED
      BY <1>4, <2>1, <3>1, <3>2 DEF CoreAlive
  <2>2. CASE p \notin killed
    BY <1>4, <2>2 DEF CoreAlive
  <2> QED
    BY <2>1, <2>2
<1> QED
  BY <1>1, <1>2, <1>3, <1>4

\* Every step of the desktop application is, for the supervisors, one of those or nothing.
LEMMA CoreStep == CoreInv /\ [Next]_vars => CoreInv'
<1> SUFFICES ASSUME CoreInv, [Next]_vars PROVE CoreInv'
  OBVIOUS
<1>1. CASE ConnectOrDisconnect \/ AutoReconnect \/ SelectNode \/ Dismiss \/ ChangeTun
  BY <1>1, UntouchedKeeps
  DEF ConnectOrDisconnect, AutoReconnect, SelectNode, Dismiss, ChangeTun, serviceVars, Untouched
<1>2. CASE SuspendProxy \/ WriteConfig \/ Ready \/ ProbeIpc \/ Finish \/ StartThrows \/ Switch
  BY <1>2, UntouchedKeeps
  DEF SuspendProxy, WriteConfig, Ready, ProbeIpc, Finish, StartThrows, Switch, serviceVars,
      Untouched
<1>3. CASE Launch
  <2>1. PICK p \in Procs : Launched(p)
    BY <1>3 DEF Launch
  <2> QED
    BY <2>1, ServiceKeeps
<1>4. CASE CleanProxy \/ CleanStop \/ Cleaned \/ StopProxy \/ StopProcess \/ StopDone
  BY <1>4, UntouchedKeeps
  DEF CleanProxy, CleanStop, Cleaned, StopProxy, StopProcess, StopDone, SendStop, serviceVars,
      Untouched
<1>5. CASE CleanWait \/ StopWait
  <2>1. Untouched \/ ServiceKilled(flow.p)
    BY <1>5 DEF CleanWait, StopWait, Kill, serviceVars, Untouched
  <2> QED
    BY <2>1, UntouchedKeeps, ServiceKeeps
<1>6. ASSUME NEW p \in Procs, CallbackStep(p) \/ ServiceRuns(p) \/ ServiceFails(p)
      PROVE  CoreInv'
  <2>1. CASE CallbackStep(p)
    BY <2>1, UntouchedKeeps DEF CallbackStep, ExitFires, ExitCleans, serviceVars, Untouched
  <2>2. CASE ServiceRuns(p)
    BY <2>2, ServiceKeeps DEF ServiceRuns
  <2>3. CASE ServiceFails(p)
    BY <2>3, ServiceKeeps DEF ServiceFails
  <2> QED
    BY <1>6, <2>1, <2>2, <2>3
<1>7. CASE NativeCall \/ ProxyEdited \/ AppStarts
  BY <1>7, UntouchedKeeps DEF NativeCall, ProxyEdited, AppStarts, serviceVars, Untouched
<1>8. CASE Crash \/ Quit
  <2>1. Untouched \/ \E killed : StarterGone(killed)
    BY <1>8 DEF Crash, Quit, AppGone, serviceVars, Untouched
  <2> QED
    BY <2>1, UntouchedKeeps, StarterGoneKeeps
<1>9. CASE UNCHANGED vars
  BY <1>9, UntouchedKeeps DEF vars, serviceVars, Untouched
<1> QED
  BY <1>1, <1>2, <1>3, <1>4, <1>5, <1>6, <1>7, <1>8, <1>9 DEF Next, FlowStep

\* The kill-on-close job of the service leaves no core behind, whatever the controller, the
\* user and the processes do.
THEOREM NoOrphan == Spec => []NoOrphanCore
<1>1. Init => CoreInv
  BY SMT DEF Init, ServiceInit, CoreInv, CoreAlive
<1>2. CoreInv => NoOrphanCore
  BY DEF CoreInv, NoOrphanCore, ServiceAlive
<1> QED
  BY <1>1, <1>2, CoreStep, PTL DEF Spec

-----------------------------------------------------------------------------
\* The control of the controller: the types of what it goes by, and what is known of _process
\* at each point of an activation.
ControlInv ==
    /\ flow \in [pc : StartPcs \cup OtherPcs, who : {"none", "button", "auto", "node"},
                 p : Procs \cup {0}]
    /\ cb \in [Procs -> {"none", "armed", "due", "off", "resume", "delete", "done"}]
    /\ proc \in Procs \cup {0}
    /\ tun \in BOOLEAN
    /\ flow.pc \in {"verify", "suspend", "config", "launch", "cleaned", "stopWait", "stopKilled",
                    "stopped"} => proc = 0
    /\ flow.pc \in {"idle", "switch"} /\ proc # 0 => status = "running"
    /\ app \in {"down", "starting"} => flow = NoFlow

\* An exit callback has calls to make that restore the proxy, or the file to delete.
Restoring == \E p \in Procs : cb[p] = "off"
Resuming == \E p \in Procs : cb[p] \in {"off", "resume"}
Deleting == \E p \in Procs : cb[p] \in {"off", "resume", "delete"}

\* Somebody is going to delete the configuration: the activation, the exit callback of the
\* current process, or one that has begun.
ConfigInv ==
    config /\ ~leftover =>
        \/ flow.pc \notin {"idle", "switch", "verify", "suspend", "config", "finish"}
        \/ proc # 0 \/ Deleting

\* A setting that serves its users as well as the one they chose.
Good(s) == Effective(s) = Effective(user) \/ (user.server = "local" /\ Effective(s) = "empty")

\* The registry holds settings; nobody but Hongda turns its own proxy on.
ProxyTypes ==
    /\ reg \in Setting /\ user \in Setting /\ ~(user.on /\ user.server = "own")
    /\ snap \in Setting \cup {NoSnap} /\ tunSnap \in Setting \cup {NoSnap}
    /\ held \in Setting \cup {NoSnap} /\ half \in {"no", "on", "off"}

\* A setting that serves them well once SuspendSystemProxyForTun(false) has been called: it
\* is good, or it is as the suspension left it and the suspended one is good.
Fine(s) ==
    IF tunSnap # NoSnap /\ ~s.on /\ s.server = tunSnap.server THEN Good(tunSnap) ELSE Good(s)

\* The setting is fine, or it is Hongda's and the snapshot is fine; also in the middle of a
\* call.
ProxyShape ==
    /\ snap = NoSnap => held = NoSnap /\ half = "no" /\ Fine(reg)
    /\ snap # NoSnap =>
        /\ half = "no" => held \in {NoSnap, snap} /\ (IF OwnProxy THEN Fine(snap) ELSE Fine(reg))
        /\ half = "on" => held = snap /\ Fine(snap) /\ reg.on
        /\ half = "off" => /\ Fine(snap) /\ held # NoSnap /\ Fine(held)
                           /\ reg.on = held.on /\ reg.server = "own"

\* Somebody is going to restore the setting.
OwnControl ==
    /\ app \in {"starting", "closing"} /\ half = "no" => snap = NoSnap
    /\ app = "down" => half = "no"
    /\ half = "on" => app = "up" /\ flow.pc = "finish"
    /\ app = "up" /\ flow.pc = "finish" => half = "on" /\ (proc # 0 \/ Restoring)
    /\ app = "up" /\ half = "no" /\ snap # NoSnap =>
          flow.pc = "stop" \/ (flow.pc \in {"idle", "switch"} /\ proc # 0) \/ Restoring

\* Somebody is going to end the suspension.
TunControl ==
    app = "up" /\ tunSnap # NoSnap =>
        /\ flow.pc \notin {"waitExit", "waitKilled", "cleaned", "stopWait", "stopKilled", "stopped"}
        /\ \/ flow.pc \in {"config", "launch", "ready", "ipc", "clean", "resume", "stop",
                           "stopResume"}
           \/ proc # 0 \/ Resuming

\* An exit callback is about to call SuspendSystemProxyForTun(false).
AtResume == \E p \in Procs : cb[p] = "resume"

\* That call finds no proxy of Hongda's, which would hide the suspended setting from it.
ResumeControl ==
    /\ flow.pc = "ipc" /\ proc # 0 => ~Resuming
    /\ half = "on" => ~AtResume
    /\ half = "no" /\ AtResume => snap = NoSnap

\* All this until the application dies inside a SetSystemProxy.
ProxyInv ==
    torn \/ (ProxyTypes /\ ProxyShape /\ OwnControl /\ TunControl /\ ResumeControl)

-----------------------------------------------------------------------------
\* A step of the activation moves it from one await to another, in a running application.
LEMMA MoveFlow ==
    ASSUME ControlInv, NEW from, NEW to \in StartPcs \cup OtherPcs, Move(from, to)
    PROVE  /\ flow.pc = from /\ flow'.pc = to /\ app = "up" /\ app' = "up" /\ tun' = tun
           /\ flow' \in [pc : StartPcs \cup OtherPcs, who : {"none", "button", "auto", "node"},
                         p : Procs \cup {0}]
BY SMT DEF ControlInv, Move, NoFlow, OtherPcs

\* The same for a step that deletes no file.
LEMMA GoFlow ==
    ASSUME ControlInv, NEW from, NEW to \in StartPcs \cup OtherPcs, Go(from, to)
    PROVE  /\ flow.pc = from /\ flow'.pc = to /\ app = "up" /\ app' = "up" /\ tun' = tun
           /\ flow' \in [pc : StartPcs \cup OtherPcs, who : {"none", "button", "auto", "node"},
                         p : Procs \cup {0}]
           /\ UNCHANGED faultVars
BY MoveFlow DEF Go

\* A new activation begins where none was at work.
LEMMA BeginFlow ==
    ASSUME NEW who \in {"button", "auto", "node"}, NEW pc \in StartPcs \cup OtherPcs, Begin(who, pc)
    PROVE  /\ flow = NoFlow /\ flow.pc = "idle" /\ flow'.pc = pc
           /\ flow' \in [pc : StartPcs \cup OtherPcs, who : {"none", "button", "auto", "node"},
                         p : Procs \cup {0}]
BY DEF Begin, NoFlow

\* The exit of supervisors makes callbacks due, and changes no other.
LEMMA DueKeeps ==
    ASSUME ControlInv, Due
    PROVE  /\ cb' \in [Procs -> {"none", "armed", "due", "off", "resume", "delete", "done"}]
           /\ \A p \in Procs : \A s \in {"off", "resume", "delete"} : cb[p] = s <=> cb'[p] = s
BY DEF ControlInv, Due

\* Every step of the controller keeps what is known of it.
LEMMA ControlStep == ControlInv /\ [Next]_vars => ControlInv'
<1> SUFFICES ASSUME ControlInv, [Next]_vars PROVE ControlInv'
  OBVIOUS
<1> USE ProcsAssumption DEF ControlInv, Calm
<1>1. CASE ConnectOrDisconnect
  <2>1. CASE status = "running"
    BY <1>1, <2>1, BeginFlow, SMT DEF ConnectOrDisconnect, OtherPcs
  <2>2. CASE status # "running"
    BY <1>1, <2>2, BeginFlow DEF ConnectOrDisconnect, StartPcs
  <2> QED
    BY <2>1, <2>2
<1>2. CASE AutoReconnect
  BY <1>2, BeginFlow DEF AutoReconnect, StartPcs, Active
<1>3. CASE SelectNode
  BY <1>3, BeginFlow, SMT DEF SelectNode, OtherPcs
<1>4. CASE Dismiss \/ ChangeTun
  BY <1>4 DEF Dismiss, ChangeTun, controlVars
<1>5. CASE SuspendProxy
  BY <1>5, GoFlow DEF SuspendProxy, StartPcs
<1>6. CASE WriteConfig
  BY <1>6 DEF WriteConfig, StartPcs
<1>7. CASE Launch
  BY <1>7 DEF Launch, StartPcs
<1>8. CASE Ready
  BY <1>8, GoFlow, SMT DEF Ready, StartPcs
<1>9. CASE ProbeIpc
  BY <1>9, GoFlow, SMT DEF ProbeIpc, Running, OtherPcs
<1>10. CASE Finish
  BY <1>10, GoFlow, SMT DEF Finish, Running, OtherPcs
<1>11. CASE StartThrows
  BY <1>11, GoFlow, SMT DEF StartThrows, OtherPcs
<1>12. CASE CleanProxy
  BY <1>12, GoFlow, SMT DEF CleanProxy, OtherPcs
<1>13. CASE CleanStop
  BY <1>13 DEF CleanStop, OtherPcs
<1>14. CASE CleanWait
  <2>1. CASE Go("waitExit", "cleaned") /\ proc' = 0 /\ UNCHANGED cb
    BY <1>14, <2>1, GoFlow DEF CleanWait, OtherPcs
  <2>2. CASE Go("waitExit", "waitKilled") /\ Due /\ UNCHANGED proc
    BY <1>14, <2>2, GoFlow, DueKeeps, SMT DEF CleanWait, OtherPcs
  <2>3. CASE Go("waitKilled", "cleaned") /\ proc' = 0 /\ UNCHANGED cb
    BY <1>14, <2>3, GoFlow DEF CleanWait, OtherPcs
  <2> QED
    BY <1>14, <2>1, <2>2, <2>3 DEF CleanWait
<1>15. CASE Cleaned
  BY <1>15, MoveFlow DEF Cleaned, OtherPcs
<1>16. CASE Switch
  BY <1>16, GoFlow, SMT DEF Switch, OtherPcs
<1>17. CASE StopProxy
  BY <1>17, GoFlow, SMT DEF StopProxy, OtherPcs
<1>18. CASE StopProcess
  BY <1>18 DEF StopProcess, OtherPcs
<1>19. CASE StopWait
  <2>1. CASE Go("stopWait", "stopped") /\ UNCHANGED cb
    BY <1>19, <2>1, GoFlow DEF StopWait, OtherPcs
  <2>2. CASE Go("stopWait", "stopKilled") /\ Due
    BY <1>19, <2>2, GoFlow, DueKeeps, SMT DEF StopWait, OtherPcs
  <2>3. CASE Go("stopKilled", "stopped") /\ UNCHANGED cb
    BY <1>19, <2>3, GoFlow DEF StopWait, OtherPcs
  <2> QED
    BY <1>19, <2>1, <2>2, <2>3 DEF StopWait
<1>20. CASE StopDone
  BY <1>20, MoveFlow, SMT DEF StopDone, StartPcs, OtherPcs
<1>21. ASSUME NEW p \in Procs, CallbackStep(p) PROVE ControlInv'
  BY <1>21, SMT DEF CallbackStep, ExitFires, ExitCleans
<1>22. ASSUME NEW p \in Procs, ServiceRuns(p) \/ ServiceFails(p) PROVE ControlInv'
  BY <1>22, DueKeeps DEF ServiceRuns, ServiceFails, Others
<1>23. CASE NativeCall \/ ProxyEdited
  BY <1>23 DEF NativeCall, ProxyEdited, Others
<1>24. CASE Crash
  BY <1>24 DEF Crash, AppGone, NoFlow, OtherPcs
<1>25. CASE Quit
  <2>1. CASE UNCHANGED <<tun, controlVars>> /\ app = "up" /\ app' = "closing"
    BY <2>1, SMT DEF controlVars
  <2>2. ASSUME NEW killed, NEW kept, AppGone(killed, kept) PROVE ControlInv'
    BY <2>2 DEF AppGone, NoFlow, OtherPcs
  <2> QED
    BY <1>25, <2>1, <2>2 DEF Quit
<1>26. CASE AppStarts
  BY <1>26 DEF AppStarts, controlVars
<1>27. CASE UNCHANGED vars
  BY <1>27, SMT DEF vars, controlVars
<1> QED
  BY <1>1, <1>2, <1>3, <1>4, <1>5, <1>6, <1>7, <1>8, <1>9, <1>10, <1>11, <1>12, <1>13, <1>14,
     <1>15, <1>16, <1>17, <1>18, <1>19, <1>20, <1>21, <1>22, <1>23, <1>24, <1>25, <1>26, <1>27
  DEF Next, FlowStep

\* Whatever is waiting to delete the file keeps waiting through the steps of the others.
LEMMA DeletingKept ==
    ASSUME ControlInv, Deleting, Due \/ UNCHANGED cb
    PROVE  Deleting'
BY DueKeeps DEF Deleting

\* Every step keeps somebody in charge of deleting the configuration.
LEMMA ConfigStep == ControlInv /\ ConfigInv /\ [Next]_vars => ConfigInv'
<1> SUFFICES ASSUME ControlInv, ConfigInv, [Next]_vars PROVE ConfigInv'
  OBVIOUS
<1> USE ProcsAssumption DEF Calm, faultVars
<1>1. CASE ConnectOrDisconnect
  <2>1. CASE status = "running"
    BY <1>1, <2>1, BeginFlow, SMT DEF ConnectOrDisconnect, OtherPcs, ConfigInv
  <2>2. CASE status # "running"
    BY <1>1, <2>2, BeginFlow, DeletingKept DEF ConnectOrDisconnect, StartPcs, ConfigInv
  <2> QED
    BY <2>1, <2>2
<1>2. CASE AutoReconnect
  BY <1>2, BeginFlow, DeletingKept DEF AutoReconnect, StartPcs, Active, ConfigInv
<1>3. CASE SelectNode
  BY <1>3, BeginFlow, DeletingKept DEF SelectNode, OtherPcs, ConfigInv
<1>4. CASE Dismiss \/ ChangeTun
  BY <1>4, DeletingKept DEF Dismiss, ChangeTun, controlVars, ConfigInv
<1>5. CASE SuspendProxy
  BY <1>5, GoFlow, DeletingKept DEF SuspendProxy, StartPcs, ConfigInv
<1>6. CASE WriteConfig
  BY <1>6 DEF WriteConfig, ConfigInv, ControlInv
<1>7. CASE Launch
  BY <1>7, SMT DEF Launch, ConfigInv, ControlInv
<1>8. CASE Ready
  BY <1>8, GoFlow DEF Ready, StartPcs, ConfigInv
<1>9. CASE ProbeIpc
  BY <1>9, GoFlow DEF ProbeIpc, OtherPcs, ConfigInv
<1>10. CASE Finish
  BY <1>10, GoFlow, DeletingKept DEF Finish, OtherPcs, ConfigInv
<1>11. CASE StartThrows
  BY <1>11, GoFlow, SMT DEF StartThrows, OtherPcs, ConfigInv
<1>12. CASE CleanProxy
  BY <1>12, GoFlow, SMT DEF CleanProxy, OtherPcs, ConfigInv
<1>13. CASE CleanStop
  BY <1>13 DEF CleanStop, ConfigInv, ControlInv
<1>14. CASE CleanWait
  BY <1>14, GoFlow, SMT DEF CleanWait, OtherPcs, ConfigInv
<1>15. CASE Cleaned \/ StopDone
  BY <1>15 DEF Cleaned, StopDone, DeleteConfig, ConfigInv
<1>16. CASE Switch
  BY <1>16, GoFlow, DeletingKept DEF Switch, OtherPcs, ConfigInv
<1>17. CASE StopProxy
  BY <1>17, GoFlow, SMT DEF StopProxy, OtherPcs, ConfigInv
<1>18. CASE StopProcess
  BY <1>18 DEF StopProcess, ConfigInv, ControlInv
<1>19. CASE StopWait
  BY <1>19, GoFlow, SMT DEF StopWait, OtherPcs, ConfigInv
<1>20. ASSUME NEW p \in Procs, ExitFires(p) PROVE ConfigInv'
  <2>1. CASE proc = p /\ status # "stopping"
    BY <1>20, <2>1 DEF ExitFires, ConfigInv, ControlInv, Deleting
  <2>2. CASE ~(proc = p /\ status # "stopping")
    <3>1. Deleting => Deleting'
      BY <1>20, <2>2 DEF ExitFires, ControlInv, Deleting
    <3> QED
      BY <1>20, <2>2, <3>1 DEF ExitFires, ConfigInv
  <2> QED
    BY <2>1, <2>2
<1>21. ASSUME NEW p \in Procs, ExitCleans(p) PROVE ConfigInv'
  <2>1. CASE cb[p] = "delete"
    BY <1>21, <2>1 DEF ExitCleans, DeleteConfig, ConfigInv
  <2>2. CASE cb[p] \in {"off", "resume"}
    <3>1. Deleting'
      BY <1>21, <2>2 DEF ExitCleans, ControlInv, Deleting
    <3> QED
      BY <3>1 DEF ConfigInv
  <2> QED
    BY <1>21, <2>1, <2>2 DEF ExitCleans
<1>22. ASSUME NEW p \in Procs, ServiceRuns(p) \/ ServiceFails(p) PROVE ConfigInv'
  BY <1>22, DeletingKept DEF ServiceRuns, ServiceFails, Others, ConfigInv
<1>23. CASE NativeCall \/ ProxyEdited
  BY <1>23, DeletingKept DEF NativeCall, ProxyEdited, Others, ConfigInv
<1>24. CASE Crash
  BY <1>24 DEF Crash, AppGone, ConfigInv
<1>25. CASE Quit
  <2>1. CASE app = "up"
    BY <1>25, <2>1, DeletingKept DEF Quit, controlVars, ConfigInv
  <2>2. CASE app = "closing"
    <3>1. PICK killed, kept : AppGone(killed, kept)
      BY <1>25, <2>2 DEF Quit
    <3> QED
      BY <3>1 DEF AppGone, ConfigInv
  <2> QED
    BY <1>25, <2>1, <2>2 DEF Quit
<1>26. CASE AppStarts
  BY <1>26, DeletingKept DEF AppStarts, controlVars, ConfigInv
<1>27. CASE UNCHANGED vars
  BY <1>27, DeletingKept DEF vars, controlVars, ConfigInv
<1> QED
  BY <1>1, <1>2, <1>3, <1>4, <1>5, <1>6, <1>7, <1>8, <1>9, <1>10, <1>11, <1>12, <1>13, <1>14,
     <1>15, <1>16, <1>17, <1>18, <1>19, <1>20, <1>21, <1>22, <1>23, <1>24, <1>25, <1>26, <1>27
  DEF Next, FlowStep, CallbackStep

\* runtime/config.json exists only during a connection, unless its deletion failed or the
\* application ended during one: whichever of stop(), the failed start() and the exit callback
\* comes last deletes it.
THEOREM ConfigDeleted == Spec => []ConfigRemoved
<1>1. Init => ControlInv /\ ConfigInv
  BY SMT DEF Init, ControlInv, ConfigInv, NoFlow, OtherPcs
<1>2. ControlInv /\ ConfigInv => ConfigRemoved
  BY SMT DEF ConfigInv, ConfigRemoved, Quiet, NoFlow, Deleting
<1> QED
  BY <1>1, <1>2, ControlStep, ConfigStep, PTL DEF Spec

-----------------------------------------------------------------------------
\* Only a process that was started has an exit callback.
CallbackInv == \A p \in Procs : svc[p] = "absent" => cb[p] = "none"

\* No operation of a supervisor takes back that it was started.
LEMMA StaysLaunched ==
    ASSUME CoreInv, NEW p, NEW c, ServiceStep(p, c) \/ CoreExits(p) \/ ServiceKilled(p)
    PROVE  \A q \in Procs : svc'[q] = "absent" => svc[q] = "absent"
BY SMT DEF CoreInv, ServiceStep, Check, Attach, CoreUp, Select, CoreExits, ServiceKilled, Exits

\* Nor do the callbacks that become due with it.
LEMMA CallbackDue ==
    ASSUME CallbackInv, Due, \A q \in Procs : svc'[q] = "absent" => svc[q] = "absent"
    PROVE  CallbackInv'
BY DEF CallbackInv, Due

\* Every step gives callbacks to started processes only.
LEMMA CallbackStepKeeps == CoreInv /\ ControlInv /\ CallbackInv /\ [Next]_vars => CallbackInv'
<1> SUFFICES ASSUME CoreInv, ControlInv, CallbackInv, [Next]_vars PROVE CallbackInv'
  OBVIOUS
<1>1. CASE ConnectOrDisconnect \/ AutoReconnect \/ SelectNode \/ Dismiss \/ ChangeTun
  BY <1>1 DEF ConnectOrDisconnect, AutoReconnect, SelectNode, Dismiss, ChangeTun, controlVars,
              serviceVars, CallbackInv
<1>2. CASE SuspendProxy \/ WriteConfig \/ Ready \/ ProbeIpc \/ Finish \/ StartThrows \/ Switch
  BY <1>2 DEF SuspendProxy, WriteConfig, Ready, ProbeIpc, Finish, StartThrows, Switch, Calm,
              serviceVars, CallbackInv
<1>3. CASE Launch
  <2>1. PICK p \in Procs : Launched(p) /\ cb' = [cb EXCEPT ![p] = "armed"]
    BY <1>3 DEF Launch
  <2> QED
    BY <2>1, SMT DEF Launched, CallbackInv, CoreInv, ControlInv
<1>4. CASE CleanProxy \/ CleanStop \/ Cleaned \/ StopProxy \/ StopProcess \/ StopDone
  BY <1>4 DEF CleanProxy, CleanStop, Cleaned, StopProxy, StopProcess, StopDone, SendStop, Calm,
              serviceVars, CallbackInv
<1>5. CASE CleanWait \/ StopWait
  <2>1. UNCHANGED <<svc, cb>> \/ ((UNCHANGED svc \/ ServiceKilled(flow.p)) /\ Due)
    BY <1>5 DEF CleanWait, StopWait, Kill, serviceVars
  <2> QED
    BY <2>1, StaysLaunched, CallbackDue DEF CallbackInv
<1>6. ASSUME NEW p \in Procs, CallbackStep(p) \/ ServiceRuns(p) \/ ServiceFails(p)
      PROVE  CallbackInv'
  <2>1. CASE CallbackStep(p)
    <3>1. svc' = svc /\ cb[p] # "none" /\ \E s : cb' = [cb EXCEPT ![p] = s]
      BY <2>1 DEF CallbackStep, ExitFires, ExitCleans, serviceVars
    <3> QED
      BY <3>1 DEF CallbackInv, ControlInv
  <2>2. CASE ServiceRuns(p)
    BY <2>2, StaysLaunched, CallbackDue DEF ServiceRuns
  <2>3. CASE ServiceFails(p)
    BY <2>3, StaysLaunched, CallbackDue DEF ServiceFails
  <2> QED
    BY <1>6, <2>1, <2>2, <2>3
<1>7. CASE NativeCall \/ ProxyEdited \/ AppStarts
  BY <1>7 DEF NativeCall, ProxyEdited, AppStarts, serviceVars, controlVars, CallbackInv
<1>8. CASE Crash \/ Quit
  BY <1>8 DEF Crash, Quit, AppGone, serviceVars, controlVars, CallbackInv
<1>9. CASE UNCHANGED vars
  BY <1>9 DEF vars, serviceVars, controlVars, CallbackInv
<1> QED
  BY <1>1, <1>2, <1>3, <1>4, <1>5, <1>6, <1>7, <1>8, <1>9 DEF Next, FlowStep

-----------------------------------------------------------------------------
\* CanRestoreEnabledProxy changes no server, and turns off nothing but a dead local proxy.
LEMMA RestorableGood ==
    ASSUME ProxyTypes, NEW s \in Setting, NEW up, Good(s)
    PROVE  /\ Restorable(s, up) \in Setting /\ Restorable(s, up) # NoSnap
           /\ Restorable(s, up).server = s.server /\ Good(Restorable(s, up))
<1>1. CanRestore(s, up) \in BOOLEAN
  BY DEF CanRestore
<1>2. Restorable(s, up) \in Setting /\ Restorable(s, up).server = s.server
      /\ Restorable(s, up).on = CanRestore(s, up)
  BY <1>1 DEF Restorable, Setting
<1>3. Restorable(s, up) # NoSnap
  BY <1>2, SMT DEF NoSnap, Setting, Servers
<1>4. Good(Restorable(s, up))
  <2>1. CASE CanRestore(s, up)
    BY <1>2, <2>1 DEF CanRestore, Good, Effective
  <2>2. CASE ~CanRestore(s, up)
    <3>1. ~s.on \/ s.server \in {"local", "own"}
      BY <2>2 DEF CanRestore
    <3>2. Effective(s) # "own"
      BY DEF Good, Effective, ProxyTypes
    <3>3. Effective(s) = "empty" \/ Effective(s) = "local"
      BY <3>1, <3>2 DEF Effective
    <3>4. Effective(Restorable(s, up)) = "empty"
      BY <1>2, <2>2 DEF Effective
    <3>5. Effective(user) = "local" => user.server = "local"
      BY DEF Effective
    <3> QED
      BY <3>3, <3>4, <3>5 DEF Good
  <2> QED
    BY <2>1, <2>2
<1> QED
  BY <1>2, <1>3, <1>4

\* A snapshot is a setting.
LEMMA SnapshotSetting == ASSUME NEW s \in Setting \cup {NoSnap}, s # NoSnap PROVE s \in Setting
OBVIOUS

\* A setting is made of a switch and a server.
LEMMA SettingMade ==
    ASSUME NEW b \in BOOLEAN, NEW v \in Servers
    PROVE  /\ [on |-> b, server |-> v] \in Setting
           /\ [on |-> b, server |-> v].on = b /\ [on |-> b, server |-> v].server = v
BY DEF Setting

\* The same while a setting is suspended: a dead local proxy that is turned off may then look
\* like the suspended one, which is no worse.
LEMMA RestorableFine ==
    ASSUME ProxyTypes, NEW s \in Setting, NEW up, Fine(s)
    PROVE  /\ Restorable(s, up) \in Setting /\ Restorable(s, up) # NoSnap
           /\ Restorable(s, up).server = s.server /\ Fine(Restorable(s, up))
<1>1. CanRestore(s, up) \in BOOLEAN
  BY DEF CanRestore
<1>2. /\ Restorable(s, up) \in Setting /\ Restorable(s, up) # NoSnap
      /\ Restorable(s, up).server = s.server /\ Restorable(s, up).on = CanRestore(s, up)
  BY <1>1 DEF Restorable, Setting, NoSnap, Servers
<1>3. CASE tunSnap # NoSnap /\ ~s.on /\ s.server = tunSnap.server
  <2>1. ~Restorable(s, up).on
    BY <1>2, <1>3 DEF CanRestore
  <2> QED
    BY <1>2, <1>3, <2>1 DEF Fine
<1>4. CASE ~(tunSnap # NoSnap /\ ~s.on /\ s.server = tunSnap.server)
  <2>1. Good(s) /\ Good(Restorable(s, up))
    BY <1>4, RestorableGood DEF Fine
  <2>2. ASSUME tunSnap # NoSnap, ~Restorable(s, up).on, s.server = tunSnap.server
        PROVE  Good(tunSnap)
    <3>1. s.on /\ s.server \in {"local", "own"}
      BY <1>2, <1>4, <2>2 DEF CanRestore
    <3>2. Effective(user) = "local" /\ s.server = "local"
      BY <2>1, <3>1 DEF Good, Effective, ProxyTypes
    <3>3. user.server = "local"
      BY <3>2 DEF Effective
    <3> QED
      BY <2>2, <3>2, <3>3 DEF Good, Effective
  <2> QED
    BY <1>2, <2>1, <2>2 DEF Fine
<1> QED
  BY <1>2, <1>3, <1>4

\* What is known of the setting and its snapshots stays true while nobody touches them.
LEMMA ShapeFrame ==
    ASSUME UNCHANGED <<proxyVars, user>>
    PROVE  (ProxyTypes => ProxyTypes') /\ (ProxyShape => ProxyShape')
BY DEF proxyVars, ProxyTypes, ProxyShape, Fine, Good, Effective, OwnProxy

\* SetSystemProxy(true), where no snapshot is held.
LEMMA SetOnKeeps ==
    ASSUME ProxyTypes, ProxyShape, snap = NoSnap, NEW up, SetOn(up), UNCHANGED user
    PROVE  ProxyTypes' /\ ProxyShape'
<1>1. held = NoSnap /\ half = "no" /\ Fine(reg) /\ reg \in Setting
  BY DEF ProxyShape, ProxyTypes
<1>2. held' = Restorable(reg, up) /\ snap' = held' /\ half' = "on" /\ tunSnap' = tunSnap
  BY <1>1 DEF SetOn
<1>3. reg' \in Setting /\ reg'.on
  BY <1>1 DEF SetOn, Setting
<1>4. held' \in Setting /\ held' # NoSnap /\ Fine(held')
  BY <1>1, <1>2, RestorableFine
<1>5. Fine(held)' /\ Fine(snap)'
  BY <1>2, <1>4 DEF Fine, Good
<1> QED
  BY <1>2, <1>3, <1>4, <1>5 DEF ProxyTypes, ProxyShape

\* SetSystemProxy(false): it begins to restore the snapshot, or there is none any more.
LEMMA SetOffKeeps ==
    ASSUME ProxyTypes, ProxyShape, NEW up, SetOff(up), UNCHANGED user
    PROVE  ProxyTypes' /\ ProxyShape' /\ half = "no" /\ (half' = "off" \/ snap' = NoSnap)
<1>1. half = "no" /\ tunSnap' = tunSnap /\ reg \in Setting
  BY DEF SetOff, ProxyTypes
<1>2. Snapshot = snap
  BY <1>1 DEF ProxyShape, Snapshot
<1>3. CASE snap # NoSnap /\ OwnProxy
  <2>1. Fine(snap) /\ snap \in Setting
    BY <1>1, <1>3, SnapshotSetting DEF ProxyShape, ProxyTypes
  <2>2. half' = "off" /\ held' = Restorable(snap, up) /\ snap' = snap
        /\ reg' = [reg EXCEPT !.on = held'.on]
    BY <1>2, <1>3 DEF SetOff
  <2>3. held' \in Setting /\ held' # NoSnap /\ Fine(held')
    BY <2>1, <2>2, RestorableFine
  <2>4. reg.server = "own"
    BY <1>3 DEF OwnProxy, Effective
  <2>5. reg' \in Setting /\ reg'.on = held'.on /\ reg'.server = "own"
    BY <1>1, <2>2, <2>3, <2>4 DEF Setting
  <2>6. Fine(held)' /\ Fine(snap)'
    BY <1>1, <2>1, <2>2, <2>3 DEF Fine, Good
  <2> QED
    BY <1>1, <1>3, <2>1, <2>2, <2>3, <2>5, <2>6 DEF ProxyTypes, ProxyShape
<1>4. CASE ~(snap # NoSnap /\ OwnProxy)
  <2>1. held' = NoSnap /\ snap' = NoSnap /\ reg' = reg /\ half' = half
    BY <1>2, <1>4 DEF SetOff
  <2>2. Fine(reg)
    BY <1>1, <1>4 DEF ProxyShape
  <2>3. Fine(reg)'
    BY <1>1, <2>1, <2>2 DEF Fine, Good
  <2> QED
    BY <1>1, <2>1, <2>3 DEF ProxyTypes, ProxyShape
<1> QED
  BY <1>3, <1>4

\* The second registry write of either call.
LEMMA WrittenKeeps ==
    ASSUME ProxyTypes, ProxyShape, ProxyServerWritten, UNCHANGED user
    PROVE  /\ ProxyTypes' /\ ProxyShape' /\ half' = "no"
           /\ half = "off" => snap' = NoSnap
<1>1. snap # NoSnap /\ half \in {"on", "off"} /\ held \in Setting \cup {NoSnap} /\ reg \in Setting
      /\ half' = "no" /\ tunSnap' = tunSnap
  BY DEF ProxyShape, ProxyServerWritten, ProxyTypes
<1>2. CASE half = "on"
  <2>1. held = snap /\ Fine(snap) /\ reg.on
    BY <1>1, <1>2 DEF ProxyShape
  <2>2. reg' = [reg EXCEPT !.server = "own"] /\ held' = held /\ snap' = snap
    BY <1>2 DEF ProxyServerWritten
  <2>3. reg' \in Setting /\ OwnProxy' /\ Fine(snap)'
    BY <1>1, <2>1, <2>2 DEF Setting, Servers, OwnProxy, Effective, Fine, Good
  <2> QED
    BY <1>1, <1>2, <2>1, <2>2, <2>3 DEF ProxyTypes, ProxyShape
<1>3. CASE half = "off"
  <2>1. held # NoSnap /\ Fine(held) /\ reg.on = held.on
    BY <1>1, <1>3 DEF ProxyShape
  <2>2. held \in Setting
    BY <1>1, <2>1
  <2>3. reg' = [reg EXCEPT !.server = held.server] /\ held' = NoSnap /\ snap' = NoSnap
    BY <1>3 DEF ProxyServerWritten
  <2>4. reg' \in Setting /\ reg'.on = held.on /\ reg'.server = held.server
    BY <1>1, <2>1, <2>2, <2>3 DEF Setting
  <2>5. Fine(reg)'
    BY <1>1, <2>1, <2>4 DEF Fine, Good, Effective
  <2> QED
    BY <1>1, <2>3, <2>4, <2>5 DEF ProxyTypes, ProxyShape
<1> QED
  BY <1>1, <1>2, <1>3

\* The process ends, also inside SetSystemProxy(false), but not inside SetSystemProxy(true).
LEMMA ForgetKeeps ==
    ASSUME ProxyTypes, ProxyShape, ProxyForget, half # "on", half = "off" => tunSnap = NoSnap,
           UNCHANGED user
    PROVE  ProxyTypes' /\ ProxyShape'
<1>1. held' = NoSnap /\ half' = "no" /\ reg' = reg /\ snap' = snap /\ tunSnap' = tunSnap
  BY DEF ProxyForget
<1>2. snap = NoSnap => Fine(reg)
  BY DEF ProxyShape
<1>3. snap # NoSnap => (IF OwnProxy THEN Fine(snap) ELSE Fine(reg))
  <2>1. CASE half = "off" /\ snap # NoSnap
    <3>1. Fine(snap) /\ Fine(held) /\ reg.on = held.on /\ reg.server = "own"
      BY <2>1 DEF ProxyShape
    <3>2. ~OwnProxy => Fine(reg)
      BY <2>1, <3>1 DEF OwnProxy, Effective, Fine, Good
    <3> QED
      BY <3>1, <3>2
  <2> QED
    BY <2>1 DEF ProxyShape, ProxyTypes
<1>4. /\ (snap = NoSnap => Fine(reg))'
      /\ (snap # NoSnap => (IF OwnProxy THEN Fine(snap) ELSE Fine(reg)))'
  BY <1>1, <1>2, <1>3 DEF Fine, Good, OwnProxy, Effective
<1> QED
  BY <1>1, <1>4 DEF ProxyTypes, ProxyShape

\* The user or another program writes the setting.
LEMMA UserChangeKeeps ==
    ASSUME ProxyTypes, ProxyShape, UserChange
    PROVE  ProxyTypes' /\ ProxyShape'
<1>1. half = "no" /\ snap' = snap /\ tunSnap' = tunSnap /\ held' = held /\ half' = half
  BY DEF UserChange
<1>2. PICK u \in {[on |-> TRUE, server |-> "remote"], [on |-> FALSE, server |-> reg.server]} :
          /\ tunSnap # NoSnap => u # [on |-> FALSE, server |-> tunSnap.server]
          /\ reg' = u /\ user' = u
  BY DEF UserChange
<1>3. u \in Setting /\ ~(u.on /\ u.server = "own")
  <2>1. reg.server \in Servers
    BY DEF ProxyTypes, Setting
  <2>2. CASE u = [on |-> TRUE, server |-> "remote"]
    BY <2>2, SettingMade DEF Servers
  <2>3. CASE u = [on |-> FALSE, server |-> reg.server]
    BY <2>1, <2>3, SettingMade
  <2> QED
    BY <1>2, <2>2, <2>3
<1>4. tunSnap # NoSnap => u.on \/ u.server # tunSnap.server
  BY <1>2, SMT
<1>5. Good(reg)' /\ ~OwnProxy'
  BY <1>2, <1>3 DEF Good, OwnProxy, Effective
<1>6. Fine(reg)'
  BY <1>1, <1>2, <1>4, <1>5 DEF Fine
<1> QED
  BY <1>1, <1>2, <1>3, <1>5, <1>6 DEF ProxyTypes, ProxyShape

\* SuspendSystemProxyForTun(true), where no proxy of Hongda's is set.
LEMMA SuspendKeeps ==
    ASSUME ProxyTypes, ProxyShape, snap = NoSnap, NEW up, Suspend(up), UNCHANGED user
    PROVE  ProxyTypes' /\ ProxyShape'
<1>1. reg \in Setting /\ UNCHANGED <<snap, held, half>>
  BY DEF Suspend, ProxyTypes
<1>2. CASE tunSnap = NoSnap /\ reg.on
  <2>1. tunSnap' = Restorable(reg, up) /\ reg' = [reg EXCEPT !.on = FALSE] /\ Good(reg)
    BY <1>2 DEF Suspend, ProxyShape, Fine
  <2>2. tunSnap' \in Setting /\ tunSnap' # NoSnap /\ tunSnap'.server = reg.server /\ Good(tunSnap')
    BY <1>1, <2>1, RestorableGood
  <2>3. reg' \in Setting /\ reg'.on = FALSE /\ reg'.server = reg.server
    BY <1>1, <2>1 DEF Setting
  <2>4. Fine(reg)'
    BY <2>2, <2>3 DEF Fine, Good
  <2> QED
    BY <1>1, <2>2, <2>3, <2>4 DEF ProxyTypes, ProxyShape
<1>3. CASE ~(tunSnap = NoSnap /\ reg.on)
  BY <1>1, <1>3, ShapeFrame DEF Suspend, proxyVars
<1> QED
  BY <1>2, <1>3

\* SuspendSystemProxyForTun(false), where no proxy of Hongda's is set: the setting is good.
LEMMA ResumeKeeps ==
    ASSUME ProxyTypes, ProxyShape, snap = NoSnap, NEW up, Resume(up), UNCHANGED user
    PROVE  ProxyTypes' /\ ProxyShape' /\ tunSnap' = NoSnap /\ UNCHANGED <<snap, half>>
<1>1. UNCHANGED <<snap, held, half>> /\ tunSnap' = NoSnap
  BY DEF Resume
<1>2. reg' \in Setting /\ Good(reg')
  <2>1. CASE tunSnap # NoSnap /\ ~reg.on /\ reg.server = tunSnap.server
    <3>1. reg' = Restorable(tunSnap, up) /\ Good(tunSnap)
      BY <2>1 DEF Resume, ProxyShape, Fine
    <3>2. tunSnap \in Setting
      BY <2>1 DEF ProxyTypes
    <3> QED
      BY <3>1, <3>2, RestorableGood
  <2>2. CASE ~(tunSnap # NoSnap /\ ~reg.on /\ reg.server = tunSnap.server)
    BY <2>2 DEF Resume, ProxyShape, ProxyTypes, Fine
  <2> QED
    BY <2>1, <2>2
<1>3. Fine(reg)'
  BY <1>1, <1>2 DEF Fine, Good
<1> QED
  BY <1>1, <1>2, <1>3 DEF ProxyTypes, ProxyShape

\* No call changes the other's snapshot.
LEMMA SnapsApart ==
    /\ \A up : SetOn(up) \/ SetOff(up) => UNCHANGED tunSnap
    /\ ProxyServerWritten => UNCHANGED tunSnap
    /\ \A up : Suspend(up) => UNCHANGED <<snap, half>> /\ half = "no"
BY DEF SetOn, SetOff, ProxyServerWritten, Suspend

-----------------------------------------------------------------------------
\* Exit callbacks at work stay at work through the steps of the others.
LEMMA CallbacksKept ==
    ASSUME ControlInv, Due \/ UNCHANGED cb
    PROVE  (Restoring <=> Restoring') /\ (Resuming <=> Resuming') /\ (AtResume <=> AtResume')
BY DueKeeps DEF Restoring, Resuming, AtResume

Controls == OwnControl /\ TunControl /\ ResumeControl

\* Every step keeps the setting, or the snapshot behind it, fine, and somebody in charge of
\* restoring it; unless it is a crash inside a SetSystemProxy that cannot be recovered from.
LEMMA ProxyNext ==
    ASSUME ControlInv, CallbackInv, ProxyTypes, ProxyShape, Controls, Next,
           Crash => half # "on" /\ (half = "off" => tunSnap = NoSnap)
    PROVE  ProxyTypes' /\ ProxyShape' /\ Controls'
<1> USE ProcsAssumption DEF Calm, userVars
<1>1. CASE ConnectOrDisconnect
  <2>1. ProxyTypes' /\ ProxyShape' /\ UNCHANGED <<app, cb, proc, snap, tunSnap, half>>
    BY <1>1, ShapeFrame DEF ConnectOrDisconnect, proxyVars
  <2>2. CASE status = "running"
    <3>1. flow'.pc = "stop" /\ flow.pc = "idle"
      BY <1>1, <2>2, BeginFlow DEF ConnectOrDisconnect, OtherPcs
    <3> QED
      BY <2>1, <3>1, CallbacksKept DEF Controls, OwnControl, TunControl, ResumeControl
  <2>3. CASE status # "running"
    <3>1. flow'.pc = "verify" /\ flow.pc = "idle"
      BY <1>1, <2>3, BeginFlow DEF ConnectOrDisconnect, StartPcs
    <3>2. proc = 0
      BY <2>3, <3>1 DEF ControlInv
    <3> QED
      BY <2>1, <3>1, <3>2, CallbacksKept DEF Controls, OwnControl, TunControl, ResumeControl
  <2> QED
    BY <2>2, <2>3
<1>2. CASE AutoReconnect
  <2>1. ProxyTypes' /\ ProxyShape' /\ UNCHANGED <<app, cb, proc, snap, tunSnap, half>>
    BY <1>2, ShapeFrame DEF AutoReconnect, proxyVars
  <2>2. flow'.pc = "verify" /\ flow.pc = "idle"
    BY <1>2, BeginFlow DEF AutoReconnect, StartPcs
  <2>3. proc = 0
    BY <1>2, <2>2 DEF AutoReconnect, Active, ControlInv
  <2> QED
    BY <2>1, <2>2, <2>3, CallbacksKept DEF Controls, OwnControl, TunControl, ResumeControl
<1>3. CASE SelectNode
  <2>1. ProxyTypes' /\ ProxyShape' /\ UNCHANGED <<app, cb, proc, snap, tunSnap, half>>
    BY <1>3, ShapeFrame DEF SelectNode, proxyVars
  <2>2. flow'.pc = "switch" /\ flow.pc = "idle"
    BY <1>3, BeginFlow DEF SelectNode, OtherPcs
  <2> QED
    BY <2>1, <2>2, CallbacksKept DEF Controls, OwnControl, TunControl, ResumeControl
<1>4. CASE Dismiss \/ ChangeTun \/ NativeCall \/ ProxyEdited
  <2>1. UNCHANGED <<app, flow, proc, cb>>
    BY <1>4 DEF Dismiss, ChangeTun, controlVars, NativeCall, ProxyEdited, Others
  <2>2. CASE Dismiss \/ ChangeTun \/ LocalProxyEnds
    <3>1. ProxyTypes' /\ ProxyShape' /\ UNCHANGED <<snap, tunSnap, half>>
      BY <2>2, ShapeFrame DEF Dismiss, ChangeTun, LocalProxyEnds, proxyVars
    <3> QED
      BY <2>1, <3>1, CallbacksKept, SMT DEF Controls, OwnControl, TunControl, ResumeControl
  <2>3. CASE NativeCall
    <3>1. /\ ProxyTypes' /\ ProxyShape' /\ half = "off" /\ half' = "no" /\ snap' = NoSnap
          /\ UNCHANGED tunSnap
      BY <2>3, WrittenKeeps, SnapsApart DEF NativeCall
    <3> QED
      BY <2>1, <3>1, CallbacksKept DEF Controls, OwnControl, TunControl, ResumeControl
  <2>4. CASE UserChange
    <3>1. ProxyTypes' /\ ProxyShape' /\ UNCHANGED <<snap, tunSnap, half>>
      BY <2>4, UserChangeKeeps DEF UserChange
    <3> QED
      BY <2>1, <3>1, CallbacksKept, SMT DEF Controls, OwnControl, TunControl, ResumeControl
  <2> QED
    BY <1>4, <2>2, <2>3, <2>4 DEF ProxyEdited
<1>5. CASE SuspendProxy
  <2>1. UNCHANGED <<app, cb, proc, user>> /\ app = "up" /\ ~Restoring
    BY <1>5 DEF SuspendProxy, Go, Move, FirstInLine, Restoring
  <2>2. CASE Go("verify", "suspend") /\ SetOff(AnyCoreUp)
    <3>1. flow.pc = "verify" /\ flow'.pc = "suspend"
      BY <2>2, GoFlow DEF StartPcs
    <3>2. /\ ProxyTypes' /\ ProxyShape' /\ half' # "on" /\ (half' = "off" \/ snap' = NoSnap)
          /\ half = "no" /\ UNCHANGED tunSnap
      BY <2>1, <2>2, SetOffKeeps, SnapsApart DEF SetOff
    <3> QED
      BY <2>1, <3>1, <3>2, CallbacksKept
      DEF Controls, OwnControl, TunControl, ResumeControl, ProxyTypes
  <2>3. CASE Go("suspend", "config") /\ Suspend(AnyCoreUp)
    <3>1. flow.pc = "suspend" /\ flow'.pc = "config"
      BY <2>3, GoFlow DEF StartPcs
    <3>2. half = "no" /\ UNCHANGED <<snap, half>> /\ snap = NoSnap
      BY <2>1, <2>3, <3>1, SnapsApart DEF Controls, OwnControl
    <3>3. ProxyTypes' /\ ProxyShape'
      BY <2>1, <2>3, <3>2, SuspendKeeps
    <3> QED
      BY <2>1, <3>1, <3>2, <3>3, CallbacksKept DEF Controls, OwnControl, TunControl, ResumeControl
  <2> QED
    BY <1>5, <2>2, <2>3 DEF SuspendProxy
<1>6. CASE WriteConfig
  <2>1. flow.pc \in {"config", "verify"} /\ flow'.pc = "launch" /\ UNCHANGED <<app, proc, cb>>
    BY <1>6 DEF WriteConfig, ControlInv
  <2>2. ProxyTypes' /\ ProxyShape' /\ UNCHANGED <<snap, tunSnap, half>>
    BY <1>6, ShapeFrame DEF WriteConfig, proxyVars
  <2> QED
    BY <2>1, <2>2, CallbacksKept DEF Controls, OwnControl, TunControl, ResumeControl
<1>7. CASE Launch
  <2>1. flow.pc = "launch" /\ flow'.pc = "ready" /\ UNCHANGED app
    BY <1>7 DEF Launch, ControlInv
  <2>2. ProxyTypes' /\ ProxyShape' /\ UNCHANGED <<snap, tunSnap, half>>
    BY <1>7, ShapeFrame DEF Launch, proxyVars
  <2>3. (Restoring => Restoring') /\ (AtResume' => AtResume)
    <3>1. PICK p \in Procs : Launched(p) /\ cb' = [cb EXCEPT ![p] = "armed"]
      BY <1>7 DEF Launch
    <3>2. cb[p] # "off"
      BY <3>1 DEF Launched, CallbackInv
    <3> QED
      BY <3>1, <3>2 DEF Restoring, AtResume, ControlInv
  <2> QED
    BY <2>1, <2>2, <2>3 DEF Controls, OwnControl, TunControl, ResumeControl
<1>8. CASE Ready
  <2>1. flow.pc = "ready" /\ flow'.pc = "ipc" /\ UNCHANGED <<app, cb, proc>>
    BY <1>8, GoFlow DEF Ready, StartPcs
  <2>2. ProxyTypes' /\ ProxyShape' /\ UNCHANGED <<snap, tunSnap, half>>
    BY <1>8, ShapeFrame DEF Ready, Go, Move, proxyVars
  <2>3. ~Resuming
    BY <1>8 DEF Ready, Resuming
  <2> QED
    BY <2>1, <2>2, <2>3, CallbacksKept DEF Controls, OwnControl, TunControl, ResumeControl
<1>9. CASE ProbeIpc
  <2>1. flow.pc = "ipc" /\ proc # 0 /\ app = "up" /\ UNCHANGED <<app, cb, proc, user>>
    BY <1>9 DEF ProbeIpc, Go, Move
  <2>2. ~Resuming /\ ~Restoring /\ ~AtResume
    BY <2>1 DEF Controls, ResumeControl, Resuming, Restoring, AtResume
  <2>3. half = "no" => snap = NoSnap
    BY <2>1, <2>2 DEF Controls, OwnControl
  <2>4. CASE Go("ipc", "idle") /\ UNCHANGED proxyVars
    <3>1. flow'.pc = "idle" /\ ProxyTypes' /\ ProxyShape' /\ UNCHANGED <<snap, tunSnap, half>>
      BY <2>1, <2>4, GoFlow, ShapeFrame DEF OtherPcs, proxyVars
    <3> QED
      BY <2>1, <2>2, <2>3, <3>1, CallbacksKept
      DEF Controls, OwnControl, TunControl, ResumeControl
  <2>5. CASE Go("ipc", "finish") /\ SetOn(AnyCoreUp)
    <3>1. flow'.pc = "finish" /\ half' = "on" /\ UNCHANGED tunSnap
      BY <2>5, GoFlow, SnapsApart DEF OtherPcs, SetOn
    <3>2. ProxyTypes' /\ ProxyShape'
      BY <2>1, <2>3, <2>5, SetOnKeeps DEF SetOn
    <3> QED
      BY <2>1, <2>2, <3>1, <3>2, CallbacksKept
      DEF Controls, OwnControl, TunControl, ResumeControl
  <2> QED
    BY <1>9, <2>4, <2>5 DEF ProbeIpc
<1>10. CASE Finish
  <2>1. /\ flow.pc = "finish" /\ flow'.pc = "idle" /\ app = "up"
        /\ UNCHANGED <<app, cb, proc, user>>
    BY <1>10, GoFlow DEF Finish, OtherPcs, Go, Move
  <2>2. ProxyTypes' /\ ProxyShape' /\ half' = "no" /\ UNCHANGED tunSnap
    BY <1>10, <2>1, WrittenKeeps, SnapsApart DEF Finish
  <2> QED
    BY <2>1, <2>2, CallbacksKept DEF Controls, OwnControl, TunControl, ResumeControl
<1>11. CASE StartThrows
  <2>1. PICK pc \in StartPcs : Go(pc, "clean")
    BY <1>11 DEF StartThrows
  <2>2. flow.pc \in StartPcs /\ flow'.pc = "clean" /\ app = "up"
    BY <2>1, GoFlow DEF OtherPcs
  <2>3. /\ ProxyTypes' /\ ProxyShape' /\ UNCHANGED <<snap, tunSnap, half>>
        /\ UNCHANGED <<app, cb, proc>>
    BY <1>11, <2>1, ShapeFrame DEF StartThrows, Go, Move, proxyVars
  <2> QED
    BY <2>2, <2>3, CallbacksKept DEF Controls, OwnControl, TunControl, ResumeControl, StartPcs
<1>12. CASE CleanProxy \/ StopProxy
  <2>1. /\ flow.pc \in {"clean", "stop"} /\ flow'.pc \in {"resume", "stopResume"} /\ app = "up"
        /\ UNCHANGED <<app, cb, proc, user>>
    BY <1>12, GoFlow DEF CleanProxy, StopProxy, OtherPcs, Go, Move
  <2>2. /\ ProxyTypes' /\ ProxyShape' /\ half = "no" /\ half' # "on"
        /\ half' = "off" \/ snap' = NoSnap
        /\ UNCHANGED tunSnap
    BY <1>12, <2>1, SetOffKeeps, SnapsApart DEF CleanProxy, StopProxy, SetOff
  <2> QED
    BY <2>1, <2>2, CallbacksKept
    DEF Controls, OwnControl, TunControl, ResumeControl, ProxyTypes
<1>13. CASE CleanStop \/ StopProcess
  <2>1. /\ flow.pc \in {"resume", "stopResume"} /\ app = "up" /\ UNCHANGED <<app, cb, user>>
        /\ flow'.pc \in {"cleaned", "waitExit", "stopped", "stopWait"}
    BY <1>13 DEF CleanStop, StopProcess, ControlInv
  <2>2. ~Restoring /\ half = "no" /\ Resume(AnyCoreUp)
    BY <1>13 DEF CleanStop, StopProcess, FirstInLine, Restoring, Resume
  <2>3. snap = NoSnap
    BY <2>1, <2>2 DEF Controls, OwnControl
  <2>4. ProxyTypes' /\ ProxyShape' /\ tunSnap' = NoSnap /\ UNCHANGED <<snap, half>>
    BY <2>1, <2>2, <2>3, ResumeKeeps
  <2> QED
    BY <2>1, <2>2, <2>3, <2>4, CallbacksKept DEF Controls, OwnControl, TunControl, ResumeControl
<1>14. CASE CleanWait \/ StopWait
  <2>1. /\ flow.pc \in {"waitExit", "waitKilled", "stopWait", "stopKilled"}
        /\ flow'.pc \in {"waitKilled", "cleaned", "stopKilled", "stopped"}
        /\ app = "up" /\ UNCHANGED <<app, proxyVars, user>> /\ (Due \/ UNCHANGED cb)
    BY <1>14, GoFlow DEF CleanWait, StopWait, OtherPcs, Go, Move
  <2>2. ProxyTypes' /\ ProxyShape' /\ UNCHANGED <<snap, tunSnap, half>>
    BY <2>1, ShapeFrame DEF proxyVars
  <2> QED
    BY <2>1, <2>2, CallbacksKept DEF Controls, OwnControl, TunControl, ResumeControl
<1>15. CASE Cleaned \/ StopDone
  <2>1. /\ flow.pc \in {"cleaned", "stopped"} /\ flow'.pc \in {"idle", "verify"}
        /\ app = "up" /\ UNCHANGED <<app, proxyVars, user, cb, proc>>
    BY <1>15, MoveFlow DEF Cleaned, StopDone, StartPcs, OtherPcs, Move
  <2>2. ProxyTypes' /\ ProxyShape' /\ UNCHANGED <<snap, tunSnap, half>>
    BY <2>1, ShapeFrame DEF proxyVars
  <2> QED
    BY <2>1, <2>2, CallbacksKept DEF Controls, OwnControl, TunControl, ResumeControl
<1>16. CASE Switch
  <2>1. /\ flow.pc = "switch" /\ flow'.pc \in {"idle", "stop"}
        /\ app = "up" /\ UNCHANGED <<app, proxyVars, user, cb, proc>>
    BY <1>16, GoFlow DEF Switch, OtherPcs, Go, Move
  <2>2. ProxyTypes' /\ ProxyShape' /\ UNCHANGED <<snap, tunSnap, half>>
    BY <2>1, ShapeFrame DEF proxyVars
  <2> QED
    BY <2>1, <2>2, CallbacksKept DEF Controls, OwnControl, TunControl, ResumeControl
<1>17. ASSUME NEW p \in Procs, ExitFires(p) PROVE ProxyTypes' /\ ProxyShape' /\ Controls'
  <2>1. app = "up" /\ UNCHANGED <<app, flow, proxyVars, user>>
    BY <1>17 DEF ExitFires
  <2>2. ProxyTypes' /\ ProxyShape' /\ UNCHANGED <<snap, tunSnap, half>>
    BY <2>1, ShapeFrame DEF proxyVars
  <2>3. CASE proc = p /\ status # "stopping"
    <3>1. Restoring' /\ Resuming' /\ proc' = 0 /\ (AtResume' => AtResume)
      BY <1>17, <2>3 DEF ExitFires, Restoring, Resuming, AtResume, ControlInv
    <3> QED
      BY <2>1, <2>2, <3>1 DEF Controls, OwnControl, TunControl, ResumeControl
  <2>4. CASE ~(proc = p /\ status # "stopping")
    <3>1. /\ proc' = proc /\ (Restoring => Restoring') /\ (Resuming <=> Resuming')
          /\ AtResume' => AtResume
      BY <1>17, <2>4, SMT DEF ExitFires, Restoring, Resuming, AtResume, ControlInv
    <3> QED
      BY <2>1, <2>2, <3>1 DEF Controls, OwnControl, TunControl, ResumeControl
  <2> QED
    BY <2>3, <2>4
<1>18. ASSUME NEW p \in Procs, ExitCleans(p) PROVE ProxyTypes' /\ ProxyShape' /\ Controls'
  <2>1. app = "up" /\ UNCHANGED <<app, flow, proc, user>>
    BY <1>18 DEF ExitCleans
  <2>2. CASE cb[p] = "off"
    <3>1. /\ ProxyTypes' /\ ProxyShape' /\ half = "no" /\ half' # "on"
          /\ half' = "off" \/ snap' = NoSnap
          /\ UNCHANGED tunSnap
      BY <1>18, <2>1, <2>2, SetOffKeeps, SnapsApart DEF ExitCleans, SetOff
    <3>2. Resuming /\ Resuming'
      BY <1>18, <2>2 DEF ExitCleans, Resuming, ControlInv
    <3> QED
      BY <2>1, <3>1, <3>2 DEF Controls, OwnControl, TunControl, ResumeControl, ProxyTypes
  <2>3. CASE cb[p] = "resume"
    <3>1. AtResume /\ half = "no" /\ Resume(AnyCoreUp)
      BY <1>18, <2>3 DEF ExitCleans, AtResume, Resume
    <3>2. snap = NoSnap
      BY <3>1 DEF Controls, ResumeControl
    <3>3. ProxyTypes' /\ ProxyShape' /\ tunSnap' = NoSnap /\ UNCHANGED <<snap, half>>
      BY <2>1, <3>1, <3>2, ResumeKeeps
    <3>4. Resuming
      BY <2>3 DEF Resuming
    <3> QED
      BY <2>1, <3>1, <3>2, <3>3, <3>4 DEF Controls, OwnControl, TunControl, ResumeControl
  <2>4. CASE cb[p] = "delete"
    <3>1. ProxyTypes' /\ ProxyShape' /\ UNCHANGED <<snap, tunSnap, half>>
      BY <1>18, <2>1, <2>4, ShapeFrame DEF ExitCleans, proxyVars
    <3>2. /\ (Restoring => Restoring') /\ (Resuming <=> Resuming')
          /\ AtResume' => AtResume
      BY <1>18, <2>4 DEF ExitCleans, Restoring, Resuming, AtResume, ControlInv
    <3> QED
      BY <2>1, <3>1, <3>2 DEF Controls, OwnControl, TunControl, ResumeControl
  <2> QED
    BY <1>18, <2>2, <2>3, <2>4 DEF ExitCleans
<1>19. ASSUME NEW p \in Procs, ServiceRuns(p) \/ ServiceFails(p)
       PROVE  ProxyTypes' /\ ProxyShape' /\ Controls'
  <2>1. UNCHANGED <<app, flow, proc, proxyVars, user>> /\ Due
    BY <1>19 DEF ServiceRuns, ServiceFails, Others
  <2>2. ProxyTypes' /\ ProxyShape' /\ UNCHANGED <<snap, tunSnap, half>>
    BY <2>1, ShapeFrame DEF proxyVars
  <2> QED
    BY <2>1, <2>2, CallbacksKept, SMT DEF Controls, OwnControl, TunControl, ResumeControl
<1>20. CASE Crash
  <2>1. app' = "down" /\ half' = "no" /\ ProxyForget /\ UNCHANGED user
    BY <1>20 DEF Crash, AppGone, ProxyForget
  <2>2. ~AtResume' /\ ~Resuming'
    BY <1>20 DEF Crash, AppGone, AtResume, Resuming
  <2> QED
    BY <1>20, <2>1, <2>2, ForgetKeeps DEF Controls, OwnControl, TunControl, ResumeControl
<1>21. CASE Quit
  <2>1. CASE app = "up"
    <3>1. app' = "closing" /\ SetOff(AnyCoreUp) /\ UNCHANGED <<user, flow, proc, cb>>
      BY <1>21, <2>1 DEF Quit, controlVars
    <3>2. ProxyTypes' /\ ProxyShape' /\ half' # "on" /\ (half' = "off" \/ snap' = NoSnap)
      BY <3>1, SetOffKeeps DEF SetOff
    <3> QED
      BY <3>1, <3>2, CallbacksKept DEF Controls, OwnControl, TunControl, ResumeControl
  <2>2. CASE app = "closing"
    <3>1. app' = "down" /\ Resume(AnyCoreUp) /\ UNCHANGED user /\ half = "no"
      BY <1>21, <2>2 DEF Quit, AppGone, Resume
    <3>2. snap = NoSnap
      BY <2>2, <3>1 DEF Controls, OwnControl
    <3>3. ProxyTypes' /\ ProxyShape' /\ UNCHANGED <<snap, half>>
      BY <3>1, <3>2, ResumeKeeps
    <3>4. ~AtResume' /\ ~Resuming'
      BY <1>21, <2>2 DEF Quit, AppGone, AtResume, Resuming
    <3> QED
      BY <3>1, <3>3, <3>4 DEF Controls, OwnControl, TunControl, ResumeControl
  <2> QED
    BY <1>21, <2>1, <2>2 DEF Quit
<1>22. CASE AppStarts
  <2>1. UNCHANGED <<flow, user, cb, proc>> /\ flow.pc = "idle"
    BY <1>22, SMT DEF AppStarts, controlVars, ControlInv, NoFlow
  <2>2. CASE app = "down"
    <3>1. /\ app' = "starting" /\ ProxyTypes' /\ ProxyShape' /\ half' # "on"
          /\ half' = "off" \/ snap' = NoSnap
      BY <1>22, <2>2, SetOffKeeps DEF AppStarts, SetOff
    <3> QED
      BY <2>1, <3>1, CallbacksKept DEF Controls, OwnControl, TunControl, ResumeControl
  <2>3. CASE app = "starting"
    <3>1. app' = "up" /\ Resume(AnyCoreUp) /\ half = "no"
      BY <1>22, <2>3 DEF AppStarts, Resume
    <3>2. snap = NoSnap
      BY <2>3, <3>1 DEF Controls, OwnControl
    <3>3. ProxyTypes' /\ ProxyShape' /\ tunSnap' = NoSnap /\ UNCHANGED <<snap, half>>
      BY <2>1, <3>1, <3>2, ResumeKeeps
    <3> QED
      BY <2>1, <3>1, <3>2, <3>3, CallbacksKept DEF Controls, OwnControl, TunControl, ResumeControl
  <2> QED
    BY <1>22, <2>2, <2>3 DEF AppStarts
<1> QED
  BY <1>1, <1>2, <1>3, <1>4, <1>5, <1>6, <1>7, <1>8, <1>9, <1>10, <1>11, <1>12, <1>13, <1>14,
     <1>15, <1>16, <1>17, <1>18, <1>19, <1>20, <1>21, <1>22
  DEF Next, FlowStep, CallbackStep

-----------------------------------------------------------------------------
\* torn, once set, stays set, and every crash that cannot be recovered from sets it.
LEMMA TornKept ==
    ASSUME [Next]_vars, ~torn'
    PROVE  ~torn /\ (Crash => half # "on" /\ (half = "off" => tunSnap = NoSnap))
<1> USE DEF faultVars
<1>1. CASE Crash
  BY <1>1 DEF Crash
<1>2. CASE ~Crash
  <2>1. torn' = torn
    BY <1>2 DEF Next, FlowStep, CallbackStep, ConnectOrDisconnect, AutoReconnect, SelectNode,
       Dismiss, ChangeTun, SuspendProxy, WriteConfig, Launch, Ready, ProbeIpc, Finish,
       StartThrows, CleanProxy, CleanStop, CleanWait, Cleaned, Switch, StopProxy, StopProcess,
       StopWait, StopDone, Go, DeleteConfig, ExitFires, ExitCleans, ServiceRuns, ServiceFails,
       NativeCall, ProxyEdited, Quit, AppStarts, vars
  <2> QED
    BY <1>2, <2>1
<1> QED
  BY <1>1, <1>2

\* Every step keeps what is known of the Windows proxy.
LEMMA ProxyStep == ControlInv /\ CallbackInv /\ ProxyInv /\ [Next]_vars => ProxyInv'
<1> SUFFICES ASSUME ControlInv, CallbackInv, ProxyInv, [Next]_vars, ~torn' PROVE ProxyInv'
  BY DEF ProxyInv
<1>1. ~torn /\ (Crash => half # "on" /\ (half = "off" => tunSnap = NoSnap))
  BY TornKept
<1>2. ProxyTypes /\ ProxyShape /\ Controls
  BY <1>1 DEF ProxyInv, Controls
<1>3. CASE UNCHANGED vars
  <2>1. UNCHANGED <<proxyVars, user, app, flow, cb, proc>>
    BY <1>3 DEF vars, userVars, controlVars
  <2>2. ProxyTypes' /\ ProxyShape'
    BY <1>2, <2>1, ShapeFrame
  <2> QED
    BY <1>2, <2>1, <2>2, CallbacksKept
    DEF ProxyInv, Controls, OwnControl, TunControl, ResumeControl, proxyVars
<1>4. CASE Next
  BY <1>1, <1>2, <1>4, ProxyNext DEF ProxyInv, Controls
<1> QED
  BY <1>3, <1>4

\* SetSystemProxy and SuspendSystemProxyForTun give back what they took, for any number of
\* processes and events, however activations, exit callbacks, crashes and edits interleave.
THEOREM UserProxyIsKept == Spec => []UserProxyKept
<1>1. Init => CoreInv /\ ControlInv /\ CallbackInv /\ ProxyInv
  <2> SUFFICES ASSUME Init PROVE CoreInv /\ ControlInv /\ CallbackInv /\ ProxyInv
    OBVIOUS
  <2>1. CoreInv /\ ControlInv /\ CallbackInv
    BY DEF Init, ServiceInit, CoreInv, CoreAlive, ControlInv, CallbackInv, NoFlow, OtherPcs
  <2>2. reg = user /\ reg \in Setting /\ reg.server \in {"remote", "local"}
    BY SettingMade DEF Init, ProxyInit, Servers
  <2>3. tunSnap = NoSnap /\ Fine(reg)
    BY <2>2 DEF Init, ProxyInit, Fine, Good
  <2>4. ~Resuming /\ ~AtResume
    BY DEF Init, Resuming, AtResume
  <2> QED
    BY <2>1, <2>2, <2>3, <2>4 DEF Init, ProxyInit, ProxyInv, ProxyTypes, ProxyShape, OwnControl,
                                  TunControl, ResumeControl, NoFlow
<1>2. ProxyInv => UserProxyKept
  <2> SUFFICES ASSUME ProxyInv, Quiet, proc = 0, ~torn
               PROVE  snap = NoSnap /\ tunSnap = NoSnap /\ Good(reg)
    BY DEF UserProxyKept, Good
  <2>1. ~Restoring /\ ~Resuming /\ app = "up" /\ half = "no" /\ flow.pc = "idle"
    BY DEF Quiet, Restoring, Resuming, NoFlow
  <2>2. snap = NoSnap /\ tunSnap = NoSnap
    BY <2>1 DEF ProxyInv, OwnControl, TunControl
  <2> QED
    BY <2>2 DEF ProxyInv, ProxyShape, Fine
<1> QED
  BY <1>1, <1>2, CoreStep, ControlStep, CallbackStepKeeps, ProxyStep, PTL DEF Spec

-----------------------------------------------------------------------------
Apps == {"up", "starting", "closing", "down"}
Statuses == {"stopped", "starting", "running", "stopping", "error"}

\* A reconnection is only planned while the row of attempts may grow.
RetryInv ==
    /\ timer \in BOOLEAN /\ attempts \in 0 .. MaxAttempts
    /\ timer => attempts < MaxAttempts

\* The types of the rest of the controller's state.
StatusInv ==
    /\ app \in Apps /\ status \in Statuses
    /\ busy \in BOOLEAN /\ config \in BOOLEAN /\ torn \in BOOLEAN /\ leftover \in BOOLEAN
    /\ events \in 0 .. MaxEvents

StdinInv == stdin \in [Procs -> {"open", "stop", "closed"}]

\* The registry holds settings also when the application has died inside a call; a call that
\* restores one holds it until it is written.
KindInv ==
    /\ reg \in Setting /\ user \in Setting /\ localUp \in BOOLEAN
    /\ snap \in Setting \cup {NoSnap} /\ tunSnap \in Setting \cup {NoSnap}
    /\ held \in Setting \cup {NoSnap} /\ half \in {"no", "on", "off"}
    /\ half = "off" => held \in Setting

\* Only a timer that may be set starts an attempt: every step keeps the row bounded.
LEMMA RetryStep == RetryInv /\ [Next]_vars => RetryInv'
<1> SUFFICES ASSUME RetryInv, [Next]_vars PROVE RetryInv'
  OBVIOUS
<1>1. ASSUME UNCHANGED <<timer, attempts>> PROVE RetryInv'
  BY <1>1 DEF RetryInv
<1>2. ASSUME timer' = FALSE, attempts' = 0 PROVE RetryInv'
  <2>1. 0 \in 0 .. MaxAttempts
    BY DesktopAssumption, SMT
  <2> QED
    BY <1>2, <2>1 DEF RetryInv
<1>3. ASSUME NEW st, Schedule(st), UNCHANGED attempts PROVE RetryInv'
  <2>1. (attempts < MaxAttempts) \in BOOLEAN
    BY SMT
  <2> QED
    BY <1>3, <2>1 DEF RetryInv, Schedule
<1>4. CASE ConnectOrDisconnect \/ Crash
  BY <1>2, <1>4 DEF ConnectOrDisconnect, Crash, AppGone
<1>5. CASE AutoReconnect
  <2>1. attempts + 1 \in 0 .. MaxAttempts
    BY <1>5, DesktopAssumption, SMT DEF RetryInv, AutoReconnect
  <2> QED
    BY <1>5, <2>1 DEF RetryInv, AutoReconnect
<1>6. CASE SelectNode \/ Dismiss \/ ChangeTun \/ SuspendProxy \/ WriteConfig \/ Launch \/ Ready
  BY <1>1, <1>6 DEF SelectNode, Dismiss, ChangeTun, SuspendProxy, WriteConfig, Launch, Ready, Calm,
                    controlVars
<1>7. CASE ProbeIpc \/ Finish
  BY <1>1, <1>2, <1>7 DEF ProbeIpc, Finish, Running
<1>8. CASE \/ StartThrows \/ CleanProxy \/ CleanStop \/ CleanWait \/ Switch \/ StopProxy
           \/ StopProcess \/ StopWait \/ StopDone
  BY <1>1, <1>8 DEF StartThrows, CleanProxy, CleanStop, CleanWait, Switch, StopProxy, StopProcess,
                    StopWait, StopDone, Calm
<1>9. CASE Cleaned
  BY <1>1, <1>3, <1>9 DEF Cleaned
<1>10. ASSUME NEW p \in Procs, CallbackStep(p) PROVE RetryInv'
  BY <1>1, <1>3, <1>10 DEF CallbackStep, ExitFires, ExitCleans
<1>11. ASSUME NEW p \in Procs, ServiceRuns(p) \/ ServiceFails(p) PROVE RetryInv'
  BY <1>1, <1>11 DEF ServiceRuns, ServiceFails, Others
<1>12. CASE NativeCall \/ ProxyEdited \/ AppStarts
  BY <1>1, <1>12 DEF NativeCall, ProxyEdited, AppStarts, Others, controlVars
<1>13. CASE Quit
  BY <1>1, <1>2, <1>13 DEF Quit, AppGone, controlVars
<1>14. CASE UNCHANGED vars
  BY <1>1, <1>14 DEF vars, controlVars
<1> QED
  BY <1>4, <1>5, <1>6, <1>7, <1>8, <1>9, <1>10, <1>11, <1>12, <1>13, <1>14 DEF Next, FlowStep

\* Every step keeps the types of the controller's state.
LEMMA StatusStep == StatusInv /\ [Next]_vars => StatusInv'
<1> SUFFICES ASSUME StatusInv, [Next]_vars PROVE StatusInv'
  OBVIOUS
<1> USE DEF StatusInv, faultVars
<1>1. ASSUME UNCHANGED <<app, events, torn, leftover>>, status' \in Statuses, busy' \in BOOLEAN,
             config' \in BOOLEAN
      PROVE  StatusInv'
  BY <1>1
<1>2. ASSUME Event PROVE events' \in 0 .. MaxEvents
  BY <1>2, DesktopAssumption, SMT DEF Event
<1>2a. ASSUME DeleteConfig, UNCHANGED app, status' \in Statuses, busy' \in BOOLEAN
      PROVE  StatusInv'
  BY <1>2a, <1>2 DEF DeleteConfig
<1>3. CASE ConnectOrDisconnect \/ AutoReconnect \/ SelectNode \/ Dismiss \/ ChangeTun
  BY <1>1, <1>3 DEF ConnectOrDisconnect, AutoReconnect, SelectNode, Dismiss, ChangeTun, controlVars,
                    Statuses
<1>4. CASE \/ SuspendProxy \/ Launch \/ Ready \/ StartThrows \/ CleanProxy \/ CleanStop \/ CleanWait
           \/ StopProxy \/ StopProcess \/ StopWait
  BY <1>1, <1>4 DEF SuspendProxy, Launch, Ready, StartThrows, CleanProxy, CleanStop, CleanWait,
                    StopProxy, StopProcess, StopWait, Go, Move, Calm
<1>5. CASE WriteConfig
  BY <1>5 DEF WriteConfig, Calm
<1>6. CASE ProbeIpc \/ Finish
  <2>1. (busy /\ flow.who = "node") \in BOOLEAN
    OBVIOUS
  <2> QED
    BY <1>1, <1>6, <2>1 DEF ProbeIpc, Finish, Running, Go, Move, Statuses
<1>7. CASE Cleaned \/ Switch \/ StopDone
  <2>1. (busy /\ flow.who # "auto") \in BOOLEAN /\ (busy /\ flow.who = "node") \in BOOLEAN
    OBVIOUS
  <2>2. CASE Switch
    BY <1>1, <2>1, <2>2 DEF Switch, Go, Move, Statuses
  <2>3. CASE Cleaned \/ StopDone
    BY <1>2a, <2>1, <2>3 DEF Cleaned, StopDone, Move, Statuses
  <2> QED
    BY <1>7, <2>2, <2>3
<1>8. ASSUME NEW p \in Procs, CallbackStep(p) PROVE StatusInv'
  <2>1. CASE ExitFires(p)
    BY <1>1, <2>1 DEF ExitFires, Statuses
  <2>2. CASE ExitCleans(p)
    BY <1>2a, <1>1, <2>2 DEF ExitCleans, Statuses
  <2> QED
    BY <1>8, <2>1, <2>2 DEF CallbackStep
<1>9. ASSUME NEW p \in Procs, ServiceRuns(p) \/ ServiceFails(p) PROVE StatusInv'
  BY <1>1, <1>2, <1>9 DEF ServiceRuns, ServiceFails, Others
<1>10. CASE NativeCall \/ ProxyEdited
  BY <1>1, <1>2, <1>10 DEF NativeCall, ProxyEdited, Others
<1>11. CASE Crash
  <2>1. torn' \in BOOLEAN
    BY <1>11 DEF Crash
  <2> QED
    BY <1>2, <1>11, <2>1 DEF Crash, AppGone, Apps, Statuses
<1>12. CASE Quit
  BY <1>2, <1>12 DEF Quit, AppGone, controlVars, Apps, Statuses
<1>13. CASE AppStarts
  BY <1>13 DEF AppStarts, controlVars, Apps
<1>14. CASE UNCHANGED vars
  BY <1>14 DEF vars, controlVars
<1> QED
  BY <1>3, <1>4, <1>5, <1>6, <1>7, <1>8, <1>9, <1>10, <1>11, <1>12, <1>13, <1>14 DEF Next, FlowStep

\* Every step keeps the type of the supervisors' standard input.
LEMMA StdinStep == StdinInv /\ [Next]_vars => StdinInv'
<1> SUFFICES ASSUME StdinInv, [Next]_vars PROVE StdinInv'
  OBVIOUS
<1> USE DEF StdinInv
<1>1. ASSUME UNCHANGED serviceVars PROVE StdinInv'
  BY <1>1 DEF serviceVars
<1>2. ASSUME NEW p, NEW c, \/ Launched(p) \/ ServiceStep(p, c) \/ CoreExits(p) \/ ServiceKilled(p)
                           \/ SendStop(p)
      PROVE  StdinInv'
  <2>1. CASE UNCHANGED stdin
    BY <2>1
  <2>2. CASE stdin' = [stdin EXCEPT ![p] = "closed"]
    BY <2>2
  <2>3. CASE SendStop(p)
    BY <2>3 DEF SendStop
  <2> QED
    BY <1>2, <2>1, <2>2, <2>3 DEF Launched, ServiceStep, Check, Attach, CoreUp, Select, CoreExits,
                                  ServiceKilled, Exits
<1>3. CASE ConnectOrDisconnect \/ AutoReconnect \/ SelectNode \/ Dismiss \/ ChangeTun
  BY <1>1, <1>3 DEF ConnectOrDisconnect, AutoReconnect, SelectNode, Dismiss, ChangeTun
<1>4. CASE \/ SuspendProxy \/ WriteConfig \/ Ready \/ ProbeIpc \/ Finish \/ StartThrows \/ Switch
           \/ CleanProxy \/ Cleaned \/ StopProxy \/ StopDone
  BY <1>1, <1>4 DEF SuspendProxy, WriteConfig, Ready, ProbeIpc, Finish, StartThrows, Switch,
                    CleanProxy, Cleaned, StopProxy, StopDone
<1>5. CASE Launch
  BY <1>2, <1>5 DEF Launch
<1>6. CASE CleanStop \/ StopProcess
  BY <1>1, <1>2, <1>6 DEF CleanStop, StopProcess
<1>7. CASE CleanWait \/ StopWait
  BY <1>1, <1>2, <1>7 DEF CleanWait, StopWait, Kill
<1>8. ASSUME NEW p \in Procs, CallbackStep(p) \/ ServiceRuns(p) \/ ServiceFails(p) PROVE StdinInv'
  <2>1. CASE CallbackStep(p)
    BY <1>1, <2>1 DEF CallbackStep, ExitFires, ExitCleans
  <2>2. CASE ServiceRuns(p) \/ ServiceFails(p)
    BY <1>2, <2>2 DEF ServiceRuns, ServiceFails
  <2> QED
    BY <1>8, <2>1, <2>2
<1>9. CASE NativeCall \/ ProxyEdited \/ AppStarts
  BY <1>1, <1>9 DEF NativeCall, ProxyEdited, AppStarts
<1>10. ASSUME NEW killed, NEW kept, AppGone(killed, kept) PROVE StdinInv'
  BY <1>10 DEF AppGone, StarterGone
<1>11. CASE Crash \/ Quit
  BY <1>1, <1>10, <1>11 DEF Crash, Quit
<1>12. CASE UNCHANGED vars
  BY <1>1, <1>12 DEF vars
<1> QED
  BY <1>3, <1>4, <1>5, <1>6, <1>7, <1>8, <1>9, <1>11, <1>12 DEF Next, FlowStep

\* A switch, a server or a restorable form of a setting that is replaced leaves a setting.
LEMMA SettingEdited ==
    ASSUME NEW s \in Setting
    PROVE  /\ \A b \in BOOLEAN : [s EXCEPT !.on = b] \in Setting
           /\ \A v \in Servers : [s EXCEPT !.server = v] \in Setting
           /\ \A up : Restorable(s, up) \in Setting
           /\ s.on \in BOOLEAN /\ s.server \in Servers
<1>1. \A up : CanRestore(s, up) \in BOOLEAN
  BY DEF CanRestore
<1>2. /\ \A b \in BOOLEAN : [s EXCEPT !.on = b] \in Setting
      /\ \A v \in Servers : [s EXCEPT !.server = v] \in Setting
      /\ s.on \in BOOLEAN /\ s.server \in Servers
  BY DEF Setting
<1> QED
  BY <1>1, <1>2 DEF Restorable

\* Every call of the native side and every change by the users leaves settings.
LEMMA KindCalls ==
    ASSUME KindInv
    PROVE  /\ \A up : SetOn(up) /\ UNCHANGED userVars => KindInv'
           /\ \A up : SetOff(up) /\ UNCHANGED userVars => KindInv'
           /\ \A up : Suspend(up) /\ UNCHANGED userVars => KindInv'
           /\ \A up : Resume(up) /\ UNCHANGED userVars => KindInv'
           /\ ProxyServerWritten /\ UNCHANGED userVars => KindInv'
           /\ ProxyForget /\ UNCHANGED userVars => KindInv'
           /\ UserChange \/ LocalProxyEnds => KindInv'
<1> USE DEF userVars
<1>2a. "own" \in Servers /\ "remote" \in Servers /\ TRUE \in BOOLEAN /\ FALSE \in BOOLEAN
  BY DEF Servers
<1>1. ASSUME NEW up, SetOn(up), UNCHANGED userVars PROVE KindInv'
  <2>1. Restorable(reg, up) \in Setting /\ [reg EXCEPT !.on = TRUE] \in Setting
    BY <1>2a, SettingEdited DEF KindInv
  <2>2. CASE held = NoSnap
    BY <1>1, <2>1, <2>2 DEF SetOn, KindInv
  <2>3. CASE held # NoSnap
    BY <1>1, <2>1, <2>3 DEF SetOn, KindInv
  <2> QED
    BY <2>2, <2>3
<1>2. ASSUME NEW up, SetOff(up), UNCHANGED userVars PROVE KindInv'
  <2>1. CASE Snapshot # NoSnap /\ OwnProxy
    <3>1. Snapshot \in Setting
      BY <2>1 DEF Snapshot, KindInv
    <3> DEFINE r == Restorable(Snapshot, up)
    <3>2. r \in Setting /\ r.on \in BOOLEAN
      BY <3>1, SettingEdited
    <3>3. [reg EXCEPT !.on = r.on] \in Setting
      BY <3>2, SettingEdited DEF KindInv
    <3>4. half' = "off" /\ held' = r /\ reg' = [reg EXCEPT !.on = r.on] /\ UNCHANGED <<snap, tunSnap>>
      BY <1>2, <2>1 DEF SetOff
    <3> HIDE DEF r
    <3> QED
      BY <1>2, <3>2, <3>3, <3>4 DEF KindInv
  <2>2. CASE ~(Snapshot # NoSnap /\ OwnProxy)
    <3>1. held' = NoSnap /\ snap' = NoSnap /\ UNCHANGED <<reg, half, tunSnap>> /\ half = "no"
      BY <1>2, <2>2 DEF SetOff
    <3> QED
      BY <1>2, <3>1 DEF KindInv
  <2> QED
    BY <2>1, <2>2
<1>3. ASSUME NEW up, Suspend(up), UNCHANGED userVars PROVE KindInv'
  <2>1. Restorable(reg, up) \in Setting /\ [reg EXCEPT !.on = FALSE] \in Setting
    BY <1>2a, SettingEdited DEF KindInv
  <2>2. reg' \in Setting /\ tunSnap' \in Setting \cup {NoSnap}
    BY <1>3, <2>1 DEF Suspend, KindInv
  <2> QED
    BY <1>3, <2>2 DEF Suspend, KindInv
<1>4. ASSUME NEW up, Resume(up), UNCHANGED userVars PROVE KindInv'
  <2>1. tunSnap # NoSnap => Restorable(tunSnap, up) \in Setting
    BY SettingEdited DEF KindInv
  <2>2. reg' \in Setting
    BY <1>4, <2>1 DEF Resume, KindInv
  <2> QED
    BY <1>4, <2>2 DEF Resume, KindInv
<1>5. ASSUME ProxyServerWritten, UNCHANGED userVars PROVE KindInv'
  <2>1. (IF half = "on" THEN "own" ELSE held.server) \in Servers
    <3>1. half = "on" \/ held \in Setting
      BY <1>5 DEF ProxyServerWritten, KindInv
    <3> QED
      BY <1>2a, <3>1, SettingEdited
  <2>2. reg' \in Setting
    BY <1>5, <2>1, SettingEdited DEF ProxyServerWritten, KindInv
  <2> QED
    BY <1>5, <2>2 DEF ProxyServerWritten, KindInv
<1>6. ASSUME ProxyForget, UNCHANGED userVars PROVE KindInv'
  BY <1>6 DEF ProxyForget, KindInv
<1>7. ASSUME UserChange \/ LocalProxyEnds PROVE KindInv'
  <2>1. CASE UserChange
    <3>1. [on |-> TRUE, server |-> "remote"] \in Setting
      BY <1>2a, SettingMade
    <3>2. [on |-> FALSE, server |-> reg.server] \in Setting
      BY <1>2a, SettingEdited, SettingMade DEF KindInv
    <3>3. reg' \in Setting /\ user' = reg'
      BY <2>1, <3>1, <3>2 DEF UserChange
    <3> QED
      BY <2>1, <3>3 DEF UserChange, KindInv
  <2>2. CASE LocalProxyEnds
    BY <2>2 DEF LocalProxyEnds, KindInv, proxyVars
  <2> QED
    BY <1>7, <2>1, <2>2
<1> QED
  BY <1>1, <1>2, <1>3, <1>4, <1>5, <1>6, <1>7

\* Every step of the desktop application is, for the Windows proxy, one of those or nothing.
LEMMA KindStep == KindInv /\ [Next]_vars => KindInv'
<1> SUFFICES ASSUME KindInv, [Next]_vars PROVE KindInv'
  OBVIOUS
<1>1. ASSUME UNCHANGED <<proxyVars, userVars>> PROVE KindInv'
  BY <1>1 DEF KindInv, proxyVars, userVars
<1>2. CASE ConnectOrDisconnect \/ AutoReconnect \/ SelectNode \/ Dismiss \/ ChangeTun
  BY <1>1, <1>2 DEF ConnectOrDisconnect, AutoReconnect, SelectNode, Dismiss, ChangeTun
<1>3. CASE \/ WriteConfig \/ Launch \/ Ready \/ StartThrows \/ CleanWait \/ Cleaned \/ Switch
           \/ StopWait \/ StopDone
  BY <1>1, <1>3 DEF WriteConfig, Launch, Ready, StartThrows, CleanWait, Cleaned, Switch, StopWait,
                    StopDone, Go, Move
<1>4. CASE SuspendProxy \/ CleanProxy \/ CleanStop \/ StopProxy \/ StopProcess
  BY <1>4, KindCalls DEF SuspendProxy, CleanProxy, CleanStop, StopProxy, StopProcess, Go, Move
<1>5. CASE ProbeIpc \/ Finish
  BY <1>1, <1>5, KindCalls DEF ProbeIpc, Finish, Go, Move
<1>6. ASSUME NEW p \in Procs, CallbackStep(p) PROVE KindInv'
  BY <1>1, <1>6, KindCalls DEF CallbackStep, ExitFires, ExitCleans
<1>7. ASSUME NEW p \in Procs, ServiceRuns(p) \/ ServiceFails(p) PROVE KindInv'
  BY <1>1, <1>7 DEF ServiceRuns, ServiceFails
<1>8. CASE NativeCall \/ ProxyEdited
  BY <1>8, KindCalls DEF NativeCall, ProxyEdited
<1>9. CASE Crash \/ Quit \/ AppStarts
  BY <1>9, KindCalls DEF Crash, Quit, AppStarts, AppGone
<1>10. CASE UNCHANGED vars
  BY <1>1, <1>10 DEF vars
<1> QED
  BY <1>2, <1>3, <1>4, <1>5, <1>6, <1>7, <1>8, <1>9, <1>10 DEF Next, FlowStep

\* Every variable has its type; above all, _scheduleAutoReconnect never lets a row of failed
\* reconnections grow past its limit, whoever else starts, stops or sees a process exit.
THEOREM TypeCorrect == Spec => []TypeOK
<1>1. Init => CoreInv /\ ControlInv
  <2> SUFFICES ASSUME Init PROVE CoreInv /\ ControlInv
    OBVIOUS
  <2>1. CoreInv
    BY DEF Init, ServiceInit, CoreInv, CoreAlive
  <2>2. ControlInv
    BY DEF Init, ControlInv, NoFlow, OtherPcs
  <2> QED
    BY <2>1, <2>2
<1>2. Init => RetryInv /\ StatusInv
  <2>1. 0 \in 0 .. MaxAttempts /\ 0 \in 0 .. MaxEvents
    BY DesktopAssumption, SMT
  <2> QED
    BY <2>1 DEF Init, RetryInv, StatusInv, Apps, Statuses
<1>3. Init => StdinInv /\ KindInv
  <2> SUFFICES ASSUME Init PROVE StdinInv /\ KindInv
    OBVIOUS
  <2>1. reg \in Setting /\ user = reg
    BY SettingMade DEF Init, ProxyInit, Servers
  <2> QED
    BY <2>1 DEF Init, ServiceInit, ProxyInit, StdinInv, KindInv
<1>4. CoreInv /\ ControlInv /\ RetryInv /\ StatusInv /\ StdinInv /\ KindInv => TypeOK
  <2>1. CoreInv /\ StdinInv => ServiceTypeOK
    BY DEF CoreInv, StdinInv, ServiceTypeOK
  <2>2. KindInv => ProxyTypeOK
    BY DEF KindInv, ProxyTypeOK
  <2> QED
    BY <2>1, <2>2 DEF TypeOK, ControlInv, RetryInv, StatusInv, Apps, Statuses
<1> QED
  BY <1>1, <1>2, <1>3, <1>4, CoreStep, ControlStep, RetryStep, StatusStep, StdinStep, KindStep, PTL
  DEF Spec

=============================================================================
