---------------------------- MODULE SystemProxy ----------------------------
(***************************************************************************)
(* The Windows proxy setting as the desktop application manages it         *)
(* (runner/flutter_window.cpp): SetSystemProxy, SuspendSystemProxyForTun   *)
(* and RecoverStaleSystemProxy, with their recovery snapshots in the       *)
(* registry, the copy in the process, and everybody else who may change    *)
(* the setting or stop listening meanwhile.                                *)
(*                                                                         *)
(* A setting is the switch and the server; the bypass list is written and  *)
(* compared together with the server.  "own" is Hongda's 127.0.0.1:<port>, *)
(* "local" another program's loopback proxy, "remote" a corporate one.     *)
(***************************************************************************)
EXTENDS Integers

VARIABLES
    reg,       \* the Internet Settings key: [on, server]
    snap,      \* kProxyRecoveryKey: the setting before Hongda's own, or NoSnap
    tunSnap,   \* kTunProxyRecoveryKey: the setting suspended for the TUN, or NoSnap
    held,      \* g_proxy_managed and g_proxy_previous_*, or NoSnap
    half,      \* a SetSystemProxy that has written ProxyEnable and not yet ProxyServer
    localUp,   \* the other local proxy program is listening
    user       \* the setting its users last chose (history variable)

proxyVars == <<reg, snap, tunSnap, held, half>>
userVars == <<localUp, user>>

Servers == {"empty", "remote", "local", "own"}
Setting == [on : BOOLEAN, server : Servers]
NoSnap == [on |-> FALSE, server |-> "nothing"]

\* What programs that follow the setting connect to.
Effective(s) == IF s.on THEN s.server ELSE "empty"

OwnProxy == Effective(reg) = "own"

ProxyTypeOK ==
    /\ reg \in Setting /\ user \in Setting /\ localUp \in BOOLEAN
    /\ {snap, tunSnap, held} \subseteq Setting \cup {NoSnap}
    /\ half \in {"no", "on", "off"}

\* A proxy is in use; without one there is less to restore (UserChange turns it off too).
ProxyInit ==
    /\ reg \in {[on |-> TRUE, server |-> "remote"], [on |-> TRUE, server |-> "local"]}
    /\ user = reg
    /\ snap = NoSnap /\ tunSnap = NoSnap /\ held = NoSnap /\ half = "no"
    /\ localUp = TRUE

\* CanRestoreEnabledProxy: a loopback proxy only while somebody listens on its port.
CanRestore(s, ownUp) ==
    s.on /\ (s.server = "local" => localUp) /\ (s.server = "own" => ownUp)

Restorable(s, ownUp) == [s EXCEPT !.on = CanRestore(s, ownUp)]

-----------------------------------------------------------------------------
\* SetSystemProxy(true): snapshot unless one is held, then ProxyEnable, then ProxyServer.
SetOn(ownUp) ==
    /\ half = "no" /\ half' = "on"
    /\ held' = IF held = NoSnap THEN Restorable(reg, ownUp) ELSE held
    /\ snap' = IF held = NoSnap THEN held' ELSE snap
    /\ reg' = [reg EXCEPT !.on = TRUE]
    /\ UNCHANGED tunSnap

Snapshot_MemoryOnly == held

\* The snapshot SetSystemProxy(false) and RecoverStaleSystemProxy go by.
Snapshot == IF held # NoSnap THEN held ELSE snap

\* SetSystemProxy(false): a setting that is no longer Hongda's is kept and the snapshot
\* dropped; otherwise ProxyEnable is restored, then ProxyServer.
SetOff(ownUp) ==
    /\ half = "no"
    /\ IF Snapshot # NoSnap /\ OwnProxy
       THEN /\ half' = "off"
            /\ held' = Restorable(Snapshot, ownUp)
            /\ reg' = [reg EXCEPT !.on = held'.on]
            /\ UNCHANGED snap
       ELSE held' = NoSnap /\ snap' = NoSnap /\ UNCHANGED <<reg, half>>
    /\ UNCHANGED tunSnap

\* The rest of either call.
ProxyServerWritten ==
    /\ half # "no" /\ half' = "no"
    /\ reg' = [reg EXCEPT !.server = IF half = "on" THEN "own" ELSE held.server]
    /\ held' = IF half = "on" THEN held ELSE NoSnap
    /\ snap' = IF half = "on" THEN snap ELSE NoSnap
    /\ UNCHANGED tunSnap

\* SuspendSystemProxyForTun(true): the switch is cleared, the server stays.
Suspend(ownUp) ==
    /\ half = "no"
    /\ IF tunSnap = NoSnap /\ reg.on
       THEN tunSnap' = Restorable(reg, ownUp) /\ reg' = [reg EXCEPT !.on = FALSE]
       ELSE UNCHANGED <<tunSnap, reg>>
    /\ UNCHANGED <<snap, held, half>>

\* SuspendSystemProxyForTun(false): restored unless the setting was edited meanwhile.
Resume(ownUp) ==
    /\ half = "no"
    /\ tunSnap' = NoSnap
    /\ reg' = IF tunSnap # NoSnap /\ ~reg.on /\ reg.server = tunSnap.server
              THEN Restorable(tunSnap, ownUp) ELSE reg
    /\ UNCHANGED <<snap, held, half>>

\* The process ends: what it held in memory is gone, an unfinished call stays unfinished.
ProxyForget == held' = NoSnap /\ half' = "no" /\ UNCHANGED <<reg, snap, tunSnap>>

-----------------------------------------------------------------------------
\* The user or another program writes the setting.  Turning a suspended proxy on and off
\* again restores exactly the suspended values, which nobody can tell apart from no edit.
\* Nobody writes between the two registry writes of one call, a few microseconds apart.
UserChange ==
    /\ half = "no"
    /\ \E u \in {[on |-> TRUE, server |-> "remote"], [on |-> FALSE, server |-> reg.server]} :
          /\ u # reg
          /\ tunSnap # NoSnap => u # [on |-> FALSE, server |-> tunSnap.server]
          /\ reg' = u /\ user' = u
    /\ UNCHANGED <<snap, tunSnap, held, half, localUp>>

\* The other local proxy program ends.
LocalProxyEnds ==
    /\ user.server = "local" /\ localUp /\ localUp' = FALSE
    /\ UNCHANGED <<proxyVars, user>>
=============================================================================
