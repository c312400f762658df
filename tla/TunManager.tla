----------------------------- MODULE TunManager -----------------------------
(***************************************************************************)
(* windowsManager (tunnel/manager_windows.go): the stages of Start, of     *)
(* which any may fail, and of Close, which runs once and takes the routes  *)
(* away first.  The adapter is external: its routes end with it, and with  *)
(* the process; its address survives a process that was killed.            *)
(***************************************************************************)
VARIABLES
    tunPc,     \* the stage of Start or of Close
    monitor,   \* the monitors run, direct sockets are pinned to the physical adapter
    device,    \* the Wintun device is open
    stack,     \* the gVisor stack exists
    routes,    \* the routes of the whole system lead into the device
    stale      \* an address of a killed session is still on the adapter

tunVars == <<tunPc, monitor, device, stack, routes, stale>>
StartStages == {"monitors", "device", "stack", "routes"}
CloseStages == {"closeRoutes", "closeDevice", "closeStack", "closeMonitors"}

TunTypeOK ==
    /\ tunPc \in StartStages \cup CloseStages \cup {"off", "up", "closed"}
    /\ {monitor, device, stack, routes, stale} \subseteq BOOLEAN

\* No manager was created.
TunIdle ==
    tunPc = "off" /\ monitor = FALSE /\ device = FALSE /\ stack = FALSE /\ routes = FALSE

Stage(from, to) == tunPc = from /\ tunPc' = to

TunBegin == Stage("off", "monitors") /\ UNCHANGED <<monitor, device, stack, routes, stale>>

\* The monitors, SetDirectInterface and the options with the resolved endpoints.
StartMonitors ==
    Stage("monitors", "device") /\ monitor' = TRUE /\ UNCHANGED <<device, stack, routes, stale>>

CreateDevice_NoRetry ==
    /\ Stage("device", IF stale THEN "closeRoutes" ELSE "stack")
    /\ device' = ~stale /\ UNCHANGED <<monitor, stack, routes, stale>>

\* tun.New; for a stale address cleanupStaleTUNAddresses and a second try.  When that fails
\* too, the stage does.
CreateDevice ==
    /\ Stage("device", "stack") /\ device' = TRUE /\ stale' = FALSE
    /\ UNCHANGED <<monitor, stack, routes>>

\* tun.NewStack and the start of the stack.
StartStack ==
    Stage("stack", "routes") /\ stack' = TRUE /\ UNCHANGED <<monitor, device, routes, stale>>

\* device.Start installs the routes.
InstallRoutes ==
    Stage("routes", "up") /\ routes' = TRUE /\ UNCHANGED <<monitor, device, stack, stale>>

\* A stage fails, the last one possibly with some routes installed, and Start calls Close.
StageFails ==
    /\ tunPc \in StartStages /\ tunPc' = "closeRoutes"
    /\ routes' \in {FALSE, tunPc = "routes"}
    /\ monitor' \in {monitor, tunPc = "monitors" \/ monitor}
    /\ stack' \in {stack, tunPc = "stack" \/ stack}
    /\ UNCHANGED <<device, stale>>

\* Close: removeRoutes, whose netsh may fail for any of the routes; then the device, which
\* takes the rest of them along (external: an error of device.Close, which is only returned,
\* is taken to leave no adapter); the stack; the monitors.
CloseRoutes ==
    /\ Stage("closeRoutes", "closeDevice") /\ (routes' = FALSE \/ UNCHANGED routes)
    /\ UNCHANGED <<monitor, device, stack, stale>>

CloseDevice ==
    /\ Stage("closeDevice", "closeStack") /\ device' = FALSE /\ routes' = FALSE
    /\ UNCHANGED <<monitor, stack, stale>>

CloseStack ==
    Stage("closeStack", "closeMonitors") /\ stack' = FALSE /\ UNCHANGED <<monitor, device, routes, stale>>

CloseMonitors ==
    Stage("closeMonitors", "closed") /\ monitor' = FALSE /\ UNCHANGED <<device, stack, routes, stale>>

\* Close of a manager that is up.
TunClose == Stage("up", "closeRoutes") /\ UNCHANGED <<monitor, device, stack, routes, stale>>

TunStep ==
    \/ StartMonitors \/ CreateDevice \/ StartStack \/ InstallRoutes
    \/ CloseRoutes \/ CloseDevice \/ CloseStack \/ CloseMonitors

\* The process ends, in order or not.
TunEnd ==
    /\ tunPc' = "off" /\ monitor' = FALSE /\ device' = FALSE /\ stack' = FALSE /\ routes' = FALSE
    /\ stale' = (stale \/ device)

=============================================================================
