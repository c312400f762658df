----------------------------- MODULE CoreRuntime -----------------------------
(***************************************************************************)
(* The life of a HongdaCore process (core/runtime.go, main.go): the rule   *)
(* sets are prepared, then the listeners, the API and the TUN device are   *)
(* brought up, and Close takes them down; meanwhile the writer of the DNS  *)
(* cache and the periodic URL test run.  Any operation may fail and the    *)
(* process may be killed at any time; a new one finds the files and the    *)
(* adapter as they were left.  "check" only builds, prepares and closes.   *)
(***************************************************************************)
EXTENDS RuleSets, DnsPersistence, TunManager

CONSTANTS Listeners,   \* configured mixed inbounds
          MaxRuns,     \* bound on the processes started
          MaxFaults    \* bound on killed processes and failed operations

ASSUME RuntimeAssumption == Listeners \in Nat /\ MaxRuns \in Nat /\ MaxFaults \in Nat

VARIABLES
    main,       \* where the main goroutine is
    mode,       \* the command, "run" or "check"
    tun,        \* a TUN inbound is configured
    prepared,   \* Runtime.prepared
    inbounds,   \* listeners that are open
    api,        \* the control API listens
    refresh,    \* the goroutine of the URL test group
    cancel,     \* refreshCancel was called
    err,        \* Start or PrepareRuleSets has failed
    cause,      \* an operation failed in this process (history variable)
    runs,       \* processes so far
    faults      \* killed processes and failed operations so far

mainVars == <<prepared, inbounds, api, refresh, cancel, err>>
boundVars == <<cause, runs, faults>>
vars == <<cache, setVars, dnsVars, tunVars, main, mode, tun, mainVars, boundVars>>

Init ==
    /\ cache \in [Sets -> {"none", "stale", "fresh"}] /\ RuleSetsIdle
    /\ file = Corrupt /\ stores = 0 /\ DnsIdle
    /\ TunIdle /\ stale = FALSE
    /\ main = "down" /\ mode = "run" /\ tun \in BOOLEAN /\ prepared = FALSE /\ inbounds = 0
    /\ api = FALSE /\ refresh = "none" /\ cancel = FALSE /\ err = FALSE
    /\ cause = FALSE /\ runs = 0 /\ faults = 0

Goes(from, to) == main = from /\ main' = to /\ UNCHANGED <<mode, tun>>

\* An operation of the system fails.
Fault == faults < MaxFaults /\ faults' = faults + 1 /\ cause' = TRUE /\ UNCHANGED runs

-----------------------------------------------------------------------------
\* Build and the start of PrepareRuleSets.
Launch ==
    /\ main = "down" /\ runs < MaxRuns /\ runs' = runs + 1 /\ main' = "prepare"
    /\ mode' \in {"run", "check"}
    /\ PrepareBegin /\ EnableDNSPersistence
    /\ UNCHANGED <<tun, tunVars, mainVars, cause, faults>>

Loads(s) ==
    /\ main # "down" /\ LoaderStep(s)
    /\ UNCHANGED <<dnsVars, tunVars, main, mode, tun, mainVars, boundVars>>

StoreFails(s) ==
    /\ Downloaded(s, FALSE) /\ Fault
    /\ UNCHANGED <<dnsVars, tunVars, main, mode, tun, mainVars>>

\* Only Start limits the preparation in time.
PrepareExpires ==
    /\ main = "prepare" /\ mode = "run" /\ Expire
    /\ UNCHANGED <<dnsVars, tunVars, main, mode, tun, mainVars, boundVars>>

\* The results are received; then the sets are installed or the first error returned.
Prepare ==
    /\ \/ main = "prepare" /\ (\E s \in Sets : Collect(s))
          /\ UNCHANGED <<main, mode, tun, prepared, err>>
       \/ /\ got = Sets /\ prepared' = (blame = NoSet) /\ err' = (blame # NoSet)
          /\ Goes("prepare", IF blame # NoSet THEN "stopped"
                             ELSE IF mode = "check" THEN "close" ELSE "listen")
          /\ UNCHANGED <<cache, setVars>>
    /\ UNCHANGED <<dnsVars, tunVars, inbounds, api, refresh, cancel, boundVars>>

\* The next inbound listens, and after the last one the API.
Listen ==
    /\ \/ inbounds < Listeners /\ Goes("listen", "listen") /\ inbounds' = inbounds + 1
          /\ UNCHANGED api
       \/ inbounds = Listeners /\ Goes("listen", IF tun THEN "tun" ELSE "running") /\ api' = TRUE
          /\ UNCHANGED inbounds
    /\ refresh' = IF main' = "running" THEN "probing" ELSE refresh
    /\ UNCHANGED <<cache, setVars, dnsVars, tunVars, prepared, cancel, err, boundVars>>

\* One of them cannot: those before it are closed.
ListenFails ==
    /\ Goes("listen", "stopped") /\ Fault /\ inbounds' = 0 /\ err' = TRUE
    /\ UNCHANGED <<cache, setVars, dnsVars, tunVars, prepared, api, refresh, cancel>>

\* The TUN manager starts: then the URL test does; or it has failed and closed itself, and
\* closeStarted follows.
StartTun ==
    /\ \/ TunBegin /\ Goes("tun", "tun") /\ UNCHANGED <<refresh, err>>
       \/ /\ tunPc = "up" /\ Goes("tun", "running") /\ refresh' = "probing"
          /\ UNCHANGED <<tunVars, err>>
       \/ /\ tunPc = "closed" /\ Goes("tun", "closeTun") /\ err' = TRUE
          /\ UNCHANGED <<tunVars, refresh>>
    /\ UNCHANGED <<cache, setVars, dnsVars, prepared, inbounds, api, cancel, boundVars>>

TunRuns ==
    /\ TunStep /\ UNCHANGED <<cache, setVars, dnsVars, main, mode, tun, mainVars, boundVars>>

TunFails ==
    /\ StageFails /\ Fault
    /\ UNCHANGED <<cache, setVars, dnsVars, main, mode, tun, mainVars>>

-----------------------------------------------------------------------------
\* The goroutine of startGroupRefresh: a test, bounded by its context, and the ticker or the
\* cancellation; when both are ready the select may take the tick, but the next one is at
\* least ten seconds away.
RefreshGroup ==
    /\ \/ refresh = "probing" /\ refresh' = "waiting"
       \/ refresh = "waiting" /\ ~cancel /\ refresh' = "probing"
       \/ refresh = "waiting" /\ cancel /\ refresh' \in {"none", "late"}
       \/ refresh = "late" /\ refresh' = "none"
    /\ UNCHANGED <<cache, setVars, dnsVars, tunVars, main, mode, tun, prepared, inbounds, api,
                   cancel, err, boundVars>>

\* Close, on a signal or at the end of a check: the URL test is cancelled and awaited.
Close ==
    /\ \/ Goes("running", "close") /\ cancel' = TRUE
       \/ refresh = "none" /\ Goes("close", "closeTun") /\ UNCHANGED cancel
    /\ UNCHANGED <<cache, setVars, dnsVars, tunVars, prepared, inbounds, api, refresh, err,
                   boundVars>>

CloseStarted_InboundsFirst ==
    /\ \/ /\ tunPc = "up" /\ main = "closeTun" /\ TunClose /\ inbounds' = 0
          /\ UNCHANGED <<main, mode, tun, api>>
       \/ tunPc \in {"off", "closed"} /\ Goes("closeTun", "closeApi")
          /\ UNCHANGED <<tunVars, api, inbounds>>
       \/ Goes("closeApi", "closeInbounds") /\ api' = FALSE /\ UNCHANGED <<tunVars, inbounds>>
       \/ Goes("closeInbounds", IF err THEN "stopped" ELSE "closeRouter") /\ inbounds' = 0
          /\ UNCHANGED <<tunVars, api>>
    /\ UNCHANGED <<cache, setVars, dnsVars, prepared, refresh, cancel, err, boundVars>>

\* closeStarted: the TUN device, the API, the inbounds; a failed Start returns then.
CloseStarted ==
    /\ \/ /\ main = "closeTun" /\ TunClose /\ UNCHANGED <<main, mode, tun, api, inbounds>>
       \/ tunPc \in {"off", "closed"} /\ Goes("closeTun", "closeApi")
          /\ UNCHANGED <<tunVars, api, inbounds>>
       \/ Goes("closeApi", "closeInbounds") /\ api' = FALSE /\ UNCHANGED <<tunVars, inbounds>>
       \/ Goes("closeInbounds", IF err THEN "stopped" ELSE "closeRouter") /\ inbounds' = 0
          /\ UNCHANGED <<tunVars, api>>
    /\ UNCHANGED <<cache, setVars, dnsVars, prepared, refresh, cancel, err, boundVars>>

\* Router.Close: the writer is told to stop and awaited.
CloseRouter ==
    /\ \/ Goes("closeRouter", "closeWait") /\ CloseStop
       \/ writer = "done" /\ Goes("closeWait", "stopped") /\ UNCHANGED dnsVars
    /\ UNCHANGED <<cache, setVars, tunVars, mainVars, boundVars>>

-----------------------------------------------------------------------------
\* A client's query is answered and stored: while the core serves, and by a handler that
\* Close does not wait for.
Answer ==
    /\ main # "down" /\ mode = "run" /\ prepared /\ (main = "listen" => inbounds > 0) /\ StoreAnswer
    /\ UNCHANGED <<cache, setVars, tunVars, main, mode, tun, mainVars, boundVars>>

Persists ==
    /\ WriterStep
    /\ UNCHANGED <<cache, setVars, tunVars, main, mode, tun, mainVars, boundVars>>

PersistFails ==
    /\ SaveFails /\ Fault
    /\ UNCHANGED <<cache, setVars, tunVars, main, mode, tun, mainVars>>

\* The process ends: what it had in memory and its sockets are gone.
ProcessEnds ==
    /\ main' = "down" /\ RuleSetsEnd /\ DnsEnd /\ TunEnd
    /\ prepared' = FALSE /\ inbounds' = 0 /\ api' = FALSE /\ refresh' = "none"
    /\ cancel' = FALSE /\ err' = FALSE /\ cause' = FALSE
    /\ UNCHANGED <<cache, mode, tun, runs>>

Exit == main = "stopped" /\ ProcessEnds /\ UNCHANGED faults

Killed == main \notin {"down", "stopped"} /\ faults < MaxFaults /\ faults' = faults + 1 /\ ProcessEnds

\* Between two processes a cache file may come of age.
Ages ==
    /\ main = "down"
    /\ \E s \in Sets : cache[s] = "fresh" /\ cache' = [cache EXCEPT ![s] = "stale"]
    /\ UNCHANGED <<setVars, dnsVars, tunVars, main, mode, tun, mainVars, boundVars>>

MainStep ==
    \/ Prepare \/ Listen \/ StartTun \/ CloseStarted \/ CloseRouter
    \/ main # "running" /\ Close

Next ==
    \/ Launch \/ Prepare \/ Listen \/ StartTun \/ Close \/ CloseStarted \/ CloseRouter
    \/ \E s \in Sets : Loads(s) \/ StoreFails(s)
    \/ PrepareExpires \/ ListenFails \/ TunRuns \/ TunFails \/ RefreshGroup
    \/ Answer \/ Persists \/ PersistFails \/ Exit \/ Killed \/ Ages

\* Goroutines that can run do: each system call and each download returns, by its own timeout
\* if nothing else.  Nothing is assumed of signals, clients or failures.
Fairness ==
    /\ WF_vars(MainStep) /\ WF_vars(TunRuns) /\ WF_vars(RefreshGroup) /\ WF_vars(Persists)
    /\ \A s \in Sets : WF_vars(Loads(s))

Spec == Init /\ [][Next]_vars /\ Fairness
-----------------------------------------------------------------------------
\* Every variable has its type, so there are never more downloads at work than slots.
TypeOK ==
    /\ RuleSetsTypeOK /\ DnsTypeOK /\ TunTypeOK
    /\ main \in {"down", "prepare", "listen", "tun", "running", "close", "closeTun", "closeApi",
                 "closeInbounds", "closeRouter", "closeWait", "stopped"}
    /\ mode \in {"run", "check"} /\ inbounds \in 0 .. Listeners
    /\ {tun, prepared, api, cancel, err, cause} \subseteq BOOLEAN
    /\ refresh \in {"none", "probing", "waiting", "late"}
    /\ runs \in 0 .. MaxRuns /\ faults \in 0 .. MaxFaults

\* Windows is never left half connected: routes lead into the TUN device only while the rule
\* sets are prepared, direct sockets are pinned, the stack, the API and all inbounds are up,
\* on the way up and on the way down; and when Start has failed or Close has returned,
\* nothing is left open.
NotHalfConnected ==
    /\ routes => prepared /\ monitor /\ device /\ stack /\ api /\ inbounds = Listeners
    /\ main = "stopped" =>
          ~routes /\ ~device /\ ~stack /\ ~monitor /\ ~api /\ inbounds = 0 /\ refresh = "none"

\* A start fails for a reason of its own: the rule set it blames is a required one without a
\* usable cache or one whose cache could not be written, never one that was merely cancelled
\* because of another; what came later was an operation that failed in this process, never
\* what a killed one left behind.
FailureHasCause ==
    /\ blame # NoSet =>
          \/ out[blame] = "missing" /\ cache[blame] = "none" /\ blame \notin Optional
          \/ out[blame] = "unsaved" /\ cause
          \/ out[blame] = "ctx" /\ ctx = "expired"
    /\ main = "stopped" /\ err /\ prepared => cause

\* Answers are not lost between the DNS cache in memory and the file: while the writer is not
\* at work, either the flag is set or a restart would load exactly what memory holds; and an
\* orderly Close has saved all that was stored before it, unless the last save failed.
DnsCacheSaved ==
    /\ writer \in {"idle", "done"} => dirty \/ Loaded(file) = mem
    /\ main = "stopped" /\ ~err => writer = "done" /\ (failed \/ Loaded(file) >= atStop)

\* Start and Close return: no goroutine waits for ever for a download slot, a result, the URL
\* test or the writer of the DNS cache.
Returns == main \notin {"down", "running", "stopped"} ~> main \in {"down", "running", "stopped"}
=============================================================================
