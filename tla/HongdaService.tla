--------------------------- MODULE HongdaService ---------------------------
(***************************************************************************)
(* HongdaService.exe run (windows/service/main.go): one supervisor process *)
(* per connection, and the core it starts.  The supervisor checks the      *)
(* configuration, starts the core, puts it into a kill-on-close job,       *)
(* prints READY and then waits for the core to exit, for a stop line, for  *)
(* the end of its stdin or for a signal.                                   *)
(***************************************************************************)
EXTENDS Integers

CONSTANT Procs   \* the supervisor processes that may be started, 1 .. n

ASSUME ProcsAssumption == Procs \subseteq Nat \ {0}

VARIABLES
    svc,      \* where each supervisor is; "ready" once its core is in the job
    core,     \* its core process
    stdin,    \* "open", "stop" once a stop line was written, "closed" at the end of the pipe
    early     \* the core was left behind between its start and the job (history variable)

serviceVars == <<svc, core, stdin, early>>

ServiceTypeOK ==
    /\ svc \in [Procs -> {"absent", "checking", "spawned", "ready", "exited"}]
    /\ core \in [Procs -> {"booting", "up", "dead"}]
    /\ stdin \in [Procs -> {"open", "stop", "closed"}]
    /\ early \in [Procs -> BOOLEAN]

ServiceInit ==
    /\ svc = [p \in Procs |-> "absent"] /\ core = [p \in Procs |-> "dead"]
    /\ stdin = [p \in Procs |-> "open"] /\ early = [p \in Procs |-> FALSE]

CoreAlive(p) == core[p] \in {"booting", "up"}
AnyCoreUp == \E p \in Procs : core[p] = "up"
ServiceAlive(p) == svc[p] \notin {"absent", "exited"}

\* Another program starts the supervisor.
Launched(p) ==
    /\ svc[p] = "absent" /\ svc' = [svc EXCEPT ![p] = "checking"]
    /\ UNCHANGED <<core, stdin, early>>

\* The supervisor returns, with its core in the given state.
Exits(p, coreState) ==
    /\ svc' = [svc EXCEPT ![p] = "exited"] /\ core' = [core EXCEPT ![p] = coreState]
    /\ stdin' = [stdin EXCEPT ![p] = "closed"]

\* ensureRuntime and runCheck, with the core's own check of the configuration.
Check(p, config) ==
    /\ svc[p] = "checking"
    /\ \/ /\ config /\ svc' = [svc EXCEPT ![p] = "spawned"]
          /\ core' = [core EXCEPT ![p] = "booting"] /\ UNCHANGED stdin
       \/ Exits(p, "dead")
    /\ UNCHANGED early

\* attachKillOnCloseJob, or Kill and Wait when it fails; then READY.
Attach(p) ==
    /\ svc[p] = "spawned"
    /\ \/ svc' = [svc EXCEPT ![p] = "ready"] /\ UNCHANGED <<core, stdin>>
       \/ Exits(p, "dead")
    /\ UNCHANGED early

\* The core finishes Start: its inbound and its API listen.
CoreUp(p) ==
    /\ core[p] = "booting" /\ core' = [core EXCEPT ![p] = "up"]
    /\ UNCHANGED <<svc, stdin, early>>

\* The core exits by itself: its Start failed, or it crashed.
CoreExits(p) ==
    /\ CoreAlive(p) /\ core' = [core EXCEPT ![p] = "dead"]
    /\ early' = [early EXCEPT ![p] = FALSE]
    /\ UNCHANGED <<svc, stdin>>

\* The select of runService: the core has exited; or a stop is requested, the core is killed
\* and after at most three seconds the supervisor returns, which closes the job.
Select(p) ==
    /\ svc[p] = "ready" /\ (core[p] = "dead" \/ stdin[p] # "open")
    /\ Exits(p, "dead") /\ UNCHANGED early

ServiceKilled_NoJob(p) == ServiceAlive(p) /\ Exits(p, core[p]) /\ UNCHANGED early

\* The supervisor dies or is terminated: the job takes the core with it, if it is in it.
ServiceKilled(p) ==
    /\ ServiceAlive(p) /\ Exits(p, IF svc[p] = "ready" THEN "dead" ELSE core[p])
    /\ early' = [early EXCEPT ![p] = svc[p] = "spawned" /\ CoreAlive(p)]

\* The program that started the supervisors ends, which closes their stdin; those in killed
\* it has terminated, as in ServiceKilled.
StarterGone(killed) ==
    /\ svc' = [p \in Procs |-> IF p \in killed THEN "exited" ELSE svc[p]]
    /\ core' = [p \in Procs |-> IF p \in killed /\ svc[p] = "ready" THEN "dead" ELSE core[p]]
    /\ stdin' = [p \in Procs |-> IF svc[p] = "absent" THEN "open" ELSE "closed"]
    /\ early' = [p \in Procs |-> early[p] \/ (p \in killed /\ svc[p] = "spawned" /\ CoreAlive(p))]

ServiceStep(p, config) ==
    Check(p, config) \/ Attach(p) \/ CoreUp(p) \/ Select(p)
=============================================================================
