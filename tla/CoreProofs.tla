----------------------------- MODULE CoreProofs -----------------------------
(***************************************************************************)
(* The safety properties of CoreRuntime, for any rule sets, slots,         *)
(* sources, listeners, processes and faults.  The invariant is split into  *)
(* conjuncts about the DNS cache, the TUN stages, the main goroutine, the  *)
(* rule sets' results and the causes of failures, so that each is kept by  *)
(* the actions that touch its variables and untouched by the others.       *)
(* The last part is about what the main goroutine waits for.               *)
(***************************************************************************)
EXTENDS CoreRuntime, FiniteSetTheorems, TLAPS

Closing == {"closeApi", "closeInbounds", "closeRouter", "closeWait", "stopped"}

\* The saved cache: a save under way writes what memory holds or finds the flag set again;
\* contents only grow; the save for the stop channel covers what memory held then.
DnsInv ==
    /\ stores \in Nat /\ mem \in Nat \cup {-1} /\ snap \in Nat \cup {-1}
    /\ atStop \in Nat \cup {-1} /\ file \in Nat \cup {-1, -2}
    /\ mem <= stores /\ snap <= stores /\ file <= stores
    /\ stop => atStop <= mem
    /\ writer \in {"write", "remove", "rename"} =>
          (dirty \/ snap = mem) /\ (final => stop /\ atStop <= snap)
    /\ writer \in {"idle", "done"} => dirty \/ Loaded(file) = mem
    /\ writer = "done" => stop /\ (failed \/ Loaded(file) >= atStop)
    /\ main = "down" => ~dirty /\ writer = "none"
    /\ main \notin {"closeWait", "stopped"} => ~stop
    /\ main = "closeWait" => stop
    /\ main = "stopped" /\ ~err => writer = "done"

\* What is open at every stage of the TUN manager.
StageInv ==
    /\ monitor \in BOOLEAN /\ device \in BOOLEAN /\ stack \in BOOLEAN /\ routes \in BOOLEAN
    /\ tunPc \in {"off", "closed", "monitors"} => ~monitor /\ ~device /\ ~stack /\ ~routes
    /\ tunPc \in {"device", "stack"} => monitor /\ ~stack /\ ~routes
    /\ tunPc = "device" => ~device
    /\ tunPc = "stack" => device
    /\ tunPc = "routes" => monitor /\ device /\ stack /\ ~routes
    /\ tunPc = "up" => monitor /\ device /\ stack
    /\ routes => monitor /\ device /\ stack
    /\ tunPc = "closeStack" => ~device /\ ~routes
    /\ tunPc = "closeMonitors" => ~device /\ ~routes /\ ~stack
    /\ tunPc \in StartStages \cup CloseStages \cup {"off", "up", "closed"}

\* What is open at every point of the main goroutine.
MainInv ==
    /\ tunPc \notin {"off", "closed"} =>
          /\ main \in {"tun", "running", "close", "closeTun"}
          /\ prepared /\ api /\ inbounds = Listeners
    /\ main \in {"tun", "running"} => prepared /\ api /\ inbounds = Listeners
    /\ main = "listen" => prepared
    /\ main \in {"down", "prepare", "listen"} => ~api /\ tunPc = "off"
    /\ main \in {"down", "prepare"} => inbounds = 0
    /\ main \in {"closeInbounds", "closeRouter", "closeWait", "stopped"} => ~api
    /\ main \in {"closeRouter", "closeWait", "stopped"} => inbounds = 0
    /\ main \in Closing => tunPc \in {"off", "closed"}
    /\ main \notin {"running", "close"} => refresh = "none"

\* Why a result is an error.
ResultInv ==
    /\ out \in [Sets -> {"none", "set", "missing", "unsaved", "ctx"}]
    /\ load \in [Sets -> {"none", "slot", "load", "done"}]
    /\ cache \in [Sets -> {"none", "stale", "fresh"}]
    /\ blame \in Sets \cup {NoSet} /\ ctx \in {"live", "cancelled", "expired"}
    /\ \A s \in Sets : load[s] # "done" => out[s] = "none"
    /\ \A s \in Sets : out[s] = "ctx" => ctx # "live"
    /\ \A s \in Sets : out[s] = "missing" => cache[s] = "none" /\ s \notin Optional
    /\ \A s \in Sets : out[s] = "unsaved" => cause
    /\ ctx = "cancelled" => blame # NoSet
    /\ blame # NoSet => out[blame] \in Errors /\ (out[blame] = "ctx" => ctx = "expired")
    /\ main = "down" => \A s \in Sets : out[s] = "none" /\ load[s] = "none"

\* Why a start has failed.
CauseInv ==
    /\ main \in {"down", "prepare", "listen"} => ~err
    /\ main \in {"down", "prepare"} => ~prepared
    /\ tunPc \in CloseStages \cup {"closed"} /\ main = "tun" => cause
    /\ err /\ prepared => cause

Loading == {s \in Sets : load[s] = "load"}

\* A slot is in use for every goroutine that loads, and for no other.
SlotInv ==
    /\ at \in [Sets -> [src : 1 .. Sources, try : 1 .. Attempts]] /\ got \subseteq Sets
    /\ slots \in 0 .. Slots /\ slots = Cardinality(Loading)

Places == {"down", "prepare", "listen", "tun", "running", "close", "closeTun", "closeApi",
           "closeInbounds", "closeRouter", "closeWait", "stopped"}
Commands == {"run", "check"}
Refreshing == {"none", "probing", "waiting", "late"}

\* The types of what only the main goroutine and the bounds are about.
ControlInv ==
    /\ main \in Places /\ mode \in Commands /\ inbounds \in 0 .. Listeners
    /\ tun \in BOOLEAN /\ prepared \in BOOLEAN /\ api \in BOOLEAN /\ cancel \in BOOLEAN
    /\ err \in BOOLEAN /\ cause \in BOOLEAN /\ stale \in BOOLEAN
    /\ refresh \in Refreshing
    /\ runs \in 0 .. MaxRuns /\ faults \in 0 .. MaxFaults

-----------------------------------------------------------------------------
\* Zenon proves what is not said to need SMT: arithmetic, mostly.
USE ZenonT(30)

\* Steps that leave the DNS cache alone: at most the main goroutine moves on.
LEMMA DnsUntouched ==
    ASSUME DnsInv, UNCHANGED dnsVars,
           \/ main' = main /\ err' = err
           \/ /\ main \notin {"closeWait", "stopped"}
              /\ \/ main' \notin {"down", "closeWait", "stopped"}
                 \/ main' = "stopped" /\ err'
    PROVE  DnsInv'
BY SMT DEF DnsInv, dnsVars, Loaded

\* Every step keeps what is known of the DNS cache.
LEMMA DnsStep == DnsInv /\ [Next]_vars => DnsInv'
<1> SUFFICES ASSUME DnsInv, [Next]_vars PROVE DnsInv'
  OBVIOUS
<1>1. CASE Launch
  BY <1>1, SMT DEF Launch, EnableDNSPersistence, DnsInv, Loaded, Empty, Corrupt, mainVars
<1>2. CASE Prepare
  BY <1>2, DnsUntouched DEF Prepare, Goes
<1>3. CASE Listen \/ ListenFails \/ StartTun \/ Close
  BY <1>3, DnsUntouched DEF Listen, ListenFails, StartTun, Close, Goes
<1>4. CASE CloseStarted
  BY <1>4, DnsUntouched DEF CloseStarted, Goes
<1>5. CASE \E s \in Sets : Loads(s) \/ StoreFails(s)
  BY <1>5, DnsUntouched DEF Loads, StoreFails, mainVars
<1>6. CASE PrepareExpires \/ TunRuns \/ TunFails \/ RefreshGroup \/ Ages
  BY <1>6, DnsUntouched DEF PrepareExpires, TunRuns, TunFails, RefreshGroup, Ages, mainVars
<1>7. CASE CloseRouter
  <2>1. CASE CloseStop /\ main = "closeRouter" /\ main' = "closeWait"
    BY <2>1, SMT DEF CloseStop, DnsInv, Loaded, Empty, Corrupt
  <2>2. CASE writer = "done" /\ main' = "stopped" /\ UNCHANGED dnsVars
    BY <2>2 DEF dnsVars, DnsInv, Loaded
  <2> QED
    BY <1>7, <2>1, <2>2 DEF CloseRouter, Goes
<1>8. CASE Answer
  <2>1. main # "down" /\ UNCHANGED <<main, err>>
    BY <1>8 DEF Answer, mainVars
  <2> QED
    BY <1>8, <2>1, SMT DEF Answer, StoreAnswer, DnsInv, Loaded, Empty, Corrupt
<1>9. CASE Persists
  <2>1. UNCHANGED <<main, err>>
    BY <1>9 DEF Persists, mainVars
  <2>2. CASE Snapshot
    BY <2>1, <2>2, SMT DEF Snapshot, Saved, DnsInv, Loaded, Empty, Corrupt
  <2>3. CASE WriteTemporary \/ RemoveOld
    BY <2>1, <2>3, SMT DEF WriteTemporary, RemoveOld, DnsInv, Loaded, Empty, Corrupt
  <2>4. CASE RenameNew
    BY <2>1, <2>4, SMT DEF RenameNew, Saved, DnsInv, Loaded, Empty, Corrupt
  <2> QED
    BY <1>9, <2>2, <2>3, <2>4 DEF Persists, WriterStep
<1>10. CASE PersistFails
  BY <1>10, SMT DEF PersistFails, SaveFails, Saved, DnsInv, Loaded, Empty, Corrupt, mainVars
<1>11. CASE Exit \/ Killed
  BY <1>11, SMT DEF Exit, Killed, ProcessEnds, DnsEnd, DnsInv, Loaded, Empty, Corrupt
<1>12. CASE UNCHANGED vars
  BY <1>12, DnsUntouched DEF vars, mainVars
<1> QED
  BY <1>1, <1>2, <1>3, <1>4, <1>5, <1>6, <1>7, <1>8, <1>9, <1>10, <1>11, <1>12 DEF Next

\* No answer is lost between memory and the file, and an orderly Close saves the rest.
THEOREM CacheSaved == Spec => []DnsCacheSaved
<1>1. Init => DnsInv
  BY StoresAssumption, SMT DEF Init, DnsIdle, DnsInv, Loaded, Empty, Corrupt
<1>2. DnsInv => DnsCacheSaved
  BY DEF DnsInv, DnsCacheSaved
<1> QED
  BY <1>1, <1>2, DnsStep, PTL DEF Spec

-----------------------------------------------------------------------------
\* Every step keeps what is known of the stages of the TUN manager.
LEMMA StageStep == StageInv /\ [Next]_vars => StageInv'
<1> SUFFICES ASSUME StageInv, [Next]_vars PROVE StageInv'
  OBVIOUS
<1> USE DEF StageInv, StartStages, CloseStages
<1>1. CASE UNCHANGED tunVars
  BY <1>1 DEF tunVars
<1>2. CASE TunBegin \/ TunClose
  BY <1>2, SMT DEF TunBegin, TunClose, Stage
<1>3. CASE StartMonitors \/ CreateDevice \/ StartStack \/ InstallRoutes
  <2>1. CASE StartMonitors
    BY <2>1 DEF StartMonitors, Stage
  <2>2. CASE CreateDevice
    BY <2>2 DEF CreateDevice, Stage
  <2>3. CASE StartStack
    BY <2>3 DEF StartStack, Stage
  <2>4. CASE InstallRoutes
    BY <2>4 DEF InstallRoutes, Stage
  <2> QED
    BY <1>3, <2>1, <2>2, <2>3, <2>4
<1>4. CASE CloseRoutes \/ CloseDevice \/ CloseStack \/ CloseMonitors
  <2>1. CASE CloseRoutes
    <3>1. tunPc' = "closeDevice" /\ UNCHANGED <<monitor, device, stack>>
      BY <2>1 DEF CloseRoutes, Stage
    <3>2. CASE routes' = FALSE
      BY <3>1, <3>2
    <3>3. CASE UNCHANGED routes
      BY <3>1, <3>3
    <3> QED
      BY <2>1, <3>2, <3>3 DEF CloseRoutes
  <2>2. CASE CloseDevice
    BY <2>2 DEF CloseDevice, Stage
  <2>3. CASE CloseStack
    BY <2>3 DEF CloseStack, Stage
  <2>4. CASE CloseMonitors
    BY <2>4 DEF CloseMonitors, Stage
  <2> QED
    BY <1>4, <2>1, <2>2, <2>3, <2>4
<1>5. CASE StageFails
  BY <1>5 DEF StageFails
<1>6. CASE TunEnd
  BY <1>6 DEF TunEnd
<1>7. CASE Launch \/ Prepare \/ Listen \/ ListenFails \/ Close \/ CloseRouter
  BY <1>1, <1>7 DEF Launch, Prepare, Listen, ListenFails, Close, CloseRouter
<1>8. CASE \E s \in Sets : Loads(s) \/ StoreFails(s)
  BY <1>1, <1>8 DEF Loads, StoreFails
<1>9. CASE PrepareExpires \/ RefreshGroup \/ Answer \/ Persists \/ PersistFails \/ Ages
  BY <1>1, <1>9 DEF PrepareExpires, RefreshGroup, Answer, Persists, PersistFails, Ages
<1>10. CASE StartTun \/ CloseStarted
  BY <1>1, <1>2, <1>10 DEF StartTun, CloseStarted
<1>11. CASE TunRuns \/ TunFails
  BY <1>3, <1>4, <1>5, <1>11 DEF TunRuns, TunStep, TunFails
<1>12. CASE Exit \/ Killed
  BY <1>6, <1>12 DEF Exit, Killed, ProcessEnds
<1>13. CASE UNCHANGED vars
  BY <1>1, <1>13 DEF vars
<1> QED
  BY <1>7, <1>8, <1>9, <1>10, <1>11, <1>12, <1>13 DEF Next

\* Every step keeps what is known of the main goroutine.
LEMMA MainStepKeeps == MainInv /\ [Next]_vars => MainInv'
<1> SUFFICES ASSUME MainInv, [Next]_vars PROVE MainInv'
  OBVIOUS
<1> USE DEF MainInv, Closing
<1>1. CASE UNCHANGED <<main, prepared, inbounds, api, refresh, tunPc>>
  BY <1>1
<1>2. CASE Launch
  BY <1>2 DEF Launch, mainVars, tunVars
<1>3. CASE Prepare
  BY <1>3 DEF Prepare, Goes, tunVars
<1>4. CASE Listen
  BY <1>4, SMT DEF Listen, Goes, tunVars
<1>5. CASE ListenFails
  BY <1>5 DEF ListenFails, Goes, tunVars
<1>6. CASE StartTun
  BY <1>6 DEF StartTun, Goes, tunVars, TunBegin, Stage
<1>7. CASE TunRuns \/ TunFails
  <2>1. UNCHANGED <<main, prepared, inbounds, api, refresh>> /\ tunPc \notin {"off", "closed", "up"}
    BY <1>7 DEF TunRuns, TunFails, mainVars, TunStep, Stage, StartMonitors, CreateDevice,
                StartStack, InstallRoutes, CloseRoutes, CloseDevice, CloseStack, CloseMonitors,
                StageFails, StartStages
  <2> QED
    BY <2>1
<1>8. CASE RefreshGroup
  BY <1>8 DEF RefreshGroup, tunVars
<1>9. CASE Close
  BY <1>9 DEF Close, Goes, tunVars
<1>10. CASE CloseStarted
  BY <1>10, SMT DEF CloseStarted, Goes, tunVars, TunClose, Stage
<1>11. CASE CloseRouter
  BY <1>11 DEF CloseRouter, Goes, mainVars, tunVars
<1>12. CASE \E s \in Sets : Loads(s) \/ StoreFails(s)
  BY <1>1, <1>12 DEF Loads, StoreFails, mainVars, tunVars
<1>13. CASE PrepareExpires \/ Answer \/ Persists \/ PersistFails \/ Ages
  BY <1>1, <1>13 DEF PrepareExpires, Answer, Persists, PersistFails, Ages, mainVars, tunVars
<1>14. CASE Exit \/ Killed
  BY <1>14 DEF Exit, Killed, ProcessEnds, TunEnd
<1>15. CASE UNCHANGED vars
  BY <1>1, <1>15 DEF vars, mainVars, tunVars
<1> QED
  BY <1>2, <1>3, <1>4, <1>5, <1>6, <1>7, <1>8, <1>9, <1>10, <1>11, <1>12, <1>13, <1>14, <1>15
  DEF Next

\* Routes exist only while everything behind them is up, and nothing stays open afterwards.
THEOREM HalfConnected == Spec => []NotHalfConnected
<1>1. Init => StageInv /\ MainInv
  BY DEF Init, TunIdle, StageInv, MainInv, Closing, StartStages, CloseStages
<1>2. StageInv /\ MainInv => NotHalfConnected
  BY DEF StageInv, MainInv, NotHalfConnected, Closing
<1> QED
  BY <1>1, <1>2, StageStep, MainStepKeeps, PTL DEF Spec

-----------------------------------------------------------------------------
\* Every step keeps what is known of the results.
LEMMA ResultStep == ResultInv /\ [Next]_vars => ResultInv'
<1> SUFFICES ASSUME ResultInv, [Next]_vars PROVE ResultInv'
  OBVIOUS
<1> USE RuleSetsAssumption DEF ResultInv, Errors
<1>1. ASSUME UNCHANGED <<cache, setVars>>, cause => cause', main' = "down" => main = "down"
      PROVE  ResultInv'
  BY <1>1 DEF setVars
<1>2. CASE Launch
  BY <1>2 DEF Launch, PrepareBegin
<1>3. CASE Prepare
  <2>1. UNCHANGED cause /\ (main' = "down" => main = "down")
    BY <1>3 DEF Prepare, Goes, boundVars
  <2>2. ASSUME NEW s \in Sets, Collect(s), main' # "down" PROVE ResultInv'
    <3>1. UNCHANGED <<cache, load, out>>
      BY <2>2 DEF Collect
    <3>2. CASE out[s] \in Errors /\ blame = NoSet
      BY <2>1, <2>2, <3>1, <3>2, SMT DEF Collect
    <3>3. CASE ~(out[s] \in Errors /\ blame = NoSet)
      BY <2>1, <2>2, <3>1, <3>3, SMT DEF Collect
    <3> QED
      BY <3>2, <3>3
  <2> QED
    BY <1>1, <1>3, <2>1, <2>2 DEF Prepare
<1>4. CASE Listen \/ ListenFails \/ StartTun \/ Close \/ CloseStarted \/ CloseRouter
  BY <1>1, <1>4 DEF Listen, ListenFails, StartTun, Close, CloseStarted, CloseRouter, Goes, Fault,
                    boundVars
<1>5. CASE TunRuns \/ TunFails \/ RefreshGroup \/ Answer \/ Persists \/ PersistFails
  BY <1>1, <1>5 DEF TunRuns, TunFails, RefreshGroup, Answer, Persists, PersistFails, Fault,
                    boundVars
<1>6. ASSUME NEW s \in Sets, Loads(s) PROVE ResultInv'
  <2>1. UNCHANGED <<main, cause>> /\ LoaderStep(s) /\ main # "down"
    BY <1>6 DEF Loads, boundVars
  <2>2. CASE TakeSlot(s)
    BY <2>1, <2>2, SMT DEF TakeSlot
  <2>3. CASE UseCache(s)
    BY <2>1, <2>3 DEF UseCache, Sends
  <2>4. CASE DownloadFails(s)
    BY <2>1, <2>4, SMT DEF DownloadFails, NextSource, Sends
  <2>5. CASE Downloaded(s, TRUE)
    BY <2>1, <2>5, SMT DEF Downloaded, Sends
  <2> QED
    BY <2>1, <2>2, <2>3, <2>4, <2>5 DEF LoaderStep
<1>7. ASSUME NEW s \in Sets, StoreFails(s) PROVE ResultInv'
  BY <1>7 DEF StoreFails, Downloaded, Sends, Fault
<1>8. CASE PrepareExpires
  BY <1>8 DEF PrepareExpires, Expire, boundVars
<1>9. CASE Exit \/ Killed
  BY <1>9, SMT DEF Exit, Killed, ProcessEnds, RuleSetsEnd
<1>10. CASE Ages
  BY <1>10 DEF Ages, boundVars, setVars
<1>11. CASE UNCHANGED vars
  BY <1>1, <1>11 DEF vars, boundVars
<1> QED
  BY <1>2, <1>3, <1>4, <1>5, <1>6, <1>7, <1>8, <1>9, <1>10, <1>11 DEF Next

\* Every step keeps what is known of the causes of failures.
LEMMA CauseStep == CauseInv /\ MainInv /\ [Next]_vars => CauseInv'
<1> SUFFICES ASSUME CauseInv, MainInv, [Next]_vars PROVE CauseInv'
  OBVIOUS
<1> USE DEF CauseInv, CloseStages
<1>1. CASE UNCHANGED <<main, prepared, err, tunPc>> /\ (cause => cause')
  BY <1>1
<1>2. CASE Launch
  BY <1>2 DEF Launch, mainVars, tunVars
<1>3. CASE Prepare
  <2>1. CASE UNCHANGED <<main, prepared, err>>
    BY <1>1, <1>3, <2>1 DEF Prepare, boundVars, tunVars
  <2>2. CASE prepared' = (blame = NoSet) /\ err' = (blame # NoSet) /\ main' # "tun"
             /\ main' \notin {"down", "prepare"} /\ (main' = "listen" => blame = NoSet)
    BY <2>2
  <2> QED
    BY <1>3, <2>1, <2>2 DEF Prepare, Goes
<1>4. CASE Listen
  BY <1>4 DEF Listen, Goes, boundVars, tunVars, MainInv
<1>5. CASE ListenFails
  BY <1>5 DEF ListenFails, Fault, Goes, tunVars
<1>6. CASE StartTun
  BY <1>6, SMT DEF StartTun, Goes, boundVars, tunVars, TunBegin, Stage
<1>7. CASE TunRuns
  <2>1. /\ UNCHANGED <<main, prepared, err, cause>>
        /\ tunPc' \in CloseStages \cup {"closed"} => tunPc \in CloseStages
    BY <1>7 DEF TunRuns, mainVars, boundVars, TunStep, Stage, StartMonitors, CreateDevice,
                StartStack, InstallRoutes, CloseRoutes, CloseDevice, CloseStack, CloseMonitors
  <2> QED
    BY <2>1
<1>8. CASE TunFails
  BY <1>8 DEF TunFails, Fault, mainVars
<1>9. CASE Close \/ CloseStarted \/ CloseRouter
  <2>1. UNCHANGED <<prepared, err, cause>> /\ main' \notin {"down", "prepare", "listen", "tun"}
    BY <1>9 DEF Close, CloseStarted, CloseRouter, Goes, mainVars, boundVars
  <2> QED
    BY <2>1
<1>10. ASSUME NEW s \in Sets, Loads(s) \/ StoreFails(s) PROVE CauseInv'
  BY <1>1, <1>10 DEF Loads, StoreFails, Fault, mainVars, boundVars, tunVars
<1>11. CASE PrepareExpires \/ RefreshGroup \/ Answer \/ Persists \/ PersistFails \/ Ages
  BY <1>1, <1>11 DEF PrepareExpires, RefreshGroup, Answer, Persists, PersistFails, Ages, Fault,
                     mainVars, boundVars, tunVars
<1>12. CASE Exit \/ Killed
  BY <1>12 DEF Exit, Killed, ProcessEnds, TunEnd
<1>13. CASE UNCHANGED vars
  BY <1>1, <1>13 DEF vars, mainVars, boundVars, tunVars
<1> QED
  BY <1>2, <1>3, <1>4, <1>5, <1>6, <1>7, <1>8, <1>9, <1>10, <1>11, <1>12, <1>13 DEF Next

\* A start fails for a reason of its own, for any rule sets and any faults before it.
THEOREM OwnCause == Spec => []FailureHasCause
<1>1. Init => ResultInv
  BY SMT DEF Init, RuleSetsIdle, ResultInv
<1>2. Init => CauseInv /\ MainInv
  BY DEF Init, TunIdle, CauseInv, MainInv, Closing, CloseStages
<1>3. ResultInv /\ CauseInv => FailureHasCause
  BY DEF ResultInv, CauseInv, FailureHasCause, Errors
<1> QED
  BY <1>1, <1>2, <1>3, ResultStep, CauseStep, MainStepKeeps, PTL DEF Spec

-----------------------------------------------------------------------------
\* The goroutines that load, when one begins or returns.
LEMMA LoadingChanges ==
    ASSUME load \in [Sets -> {"none", "slot", "load", "done"}], NEW s \in Sets, NEW x,
           load' = [load EXCEPT ![s] = x]
    PROVE  /\ IsFiniteSet(Loading) /\ Cardinality(Loading) \in Nat
           /\ x = "load" /\ load[s] # "load" => Cardinality(Loading') = Cardinality(Loading) + 1
           /\ x # "load" /\ load[s] = "load" =>
                 Cardinality(Loading') = Cardinality(Loading) - 1 /\ Cardinality(Loading) # 0
           /\ x # "load" /\ load[s] # "load" => Loading' = Loading
<1>1. IsFiniteSet(Loading) /\ Cardinality(Loading) \in Nat
  <2>1. Loading \subseteq Sets /\ IsFiniteSet(Sets)
    BY RuleSetsAssumption DEF Loading
  <2> QED
    BY <2>1, FS_Subset, FS_CardinalityType
<1>2. \A t \in Sets : load'[t] = IF t = s THEN x ELSE load[t]
  OBVIOUS
<1>3. ASSUME x = "load", load[s] # "load" PROVE Cardinality(Loading') = Cardinality(Loading) + 1
  <2>1. Loading' = Loading \cup {s} /\ s \notin Loading
    BY <1>2, <1>3 DEF Loading
  <2> QED
    BY <1>1, <2>1, FS_AddElement
<1>4. ASSUME x # "load", load[s] = "load"
      PROVE  Cardinality(Loading') = Cardinality(Loading) - 1 /\ Cardinality(Loading) # 0
  <2>1. Loading' = Loading \ {s} /\ s \in Loading
    BY <1>2, <1>4 DEF Loading
  <2> QED
    BY <1>1, <2>1, FS_RemoveElement, FS_EmptySet
<1>5. ASSUME x # "load", load[s] # "load" PROVE Loading' = Loading
  BY <1>2, <1>5 DEF Loading
<1> QED
  BY <1>1, <1>3, <1>4, <1>5

\* A result gives back the slot its goroutine took.
LEMMA SlotReturned ==
    ASSUME ResultInv, SlotInv, NEW s \in Sets, load[s] = "load", NEW result, Sends(s, result),
           UNCHANGED got
    PROVE  SlotInv'
<1>1. load' = [load EXCEPT ![s] = "done"] /\ slots' = slots - 1
      /\ at' = [at EXCEPT ![s] = [src |-> 1, try |-> 1]]
  BY DEF Sends
<1>2. Cardinality(Loading') = Cardinality(Loading) - 1 /\ Cardinality(Loading) # 0
  <2>1. load \in [Sets -> {"none", "slot", "load", "done"}] /\ "done" # "load"
    BY DEF ResultInv
  <2> QED
    BY <1>1, <2>1, LoadingChanges
<1>3. slots' \in 0 .. Slots /\ slots' = Cardinality(Loading')
  BY <1>1, <1>2, RuleSetsAssumption, SMTT(30) DEF SlotInv
<1>4. at' \in [Sets -> [src : 1 .. Sources, try : 1 .. Attempts]]
  BY <1>1, RuleSetsAssumption, SMT DEF SlotInv, Attempts
<1> QED
  BY <1>3, <1>4 DEF SlotInv

\* Every step keeps the slots counted.
LEMMA SlotStep == ResultInv /\ SlotInv /\ [Next]_vars => SlotInv'
<1> SUFFICES ASSUME ResultInv, SlotInv, [Next]_vars PROVE SlotInv'
  OBVIOUS
<1>0. load \in [Sets -> {"none", "slot", "load", "done"}] /\ "done" # "load"
  BY DEF ResultInv
<1>1. ASSUME UNCHANGED <<load, at, slots, got>> PROVE SlotInv'
  BY <1>1 DEF SlotInv, Loading
<1>2. ASSUME \A s \in Sets : load[s] # "load" /\ load'[s] # "load", slots' \in {slots, 0},
             at' \in [Sets -> [src : 1 .. Sources, try : 1 .. Attempts]], got' \subseteq Sets
      PROVE  SlotInv'
  <2>1. Loading = {} /\ Loading' = {}
    BY <1>2 DEF Loading
  <2>2. slots = 0 /\ 0 = Cardinality(Loading')
    BY <2>1, FS_EmptySet DEF SlotInv
  <2>3. slots' = 0 /\ 0 \in 0 .. Slots
    BY <1>2, <2>2 DEF SlotInv
  <2> QED
    BY <1>2, <2>2, <2>3 DEF SlotInv
<1>3. CASE Launch
  <2>1. load' = [s \in Sets |-> "slot"] /\ UNCHANGED <<at, slots, got>> /\ main = "down"
    BY <1>3 DEF Launch, PrepareBegin
  <2>2. \A s \in Sets : load[s] # "load" /\ load'[s] # "load"
    BY <2>1 DEF ResultInv
  <2> QED
    BY <1>2, <2>1, <2>2 DEF SlotInv
<1>4. CASE Prepare
  <2>1. ASSUME NEW s \in Sets, Collect(s) PROVE SlotInv'
    BY <2>1 DEF Collect, SlotInv, Loading
  <2> QED
    BY <1>1, <1>4, <2>1 DEF Prepare, setVars
<1>5. CASE \/ Listen \/ ListenFails \/ StartTun \/ Close \/ CloseStarted \/ CloseRouter \/ TunRuns
           \/ TunFails \/ RefreshGroup \/ Answer \/ Persists \/ PersistFails \/ Ages
  BY <1>1, <1>5 DEF Listen, ListenFails, StartTun, Close, CloseStarted, CloseRouter, TunRuns,
                    TunFails, RefreshGroup, Answer, Persists, PersistFails, Ages, setVars
<1>6. ASSUME NEW s \in Sets, Loads(s) PROVE SlotInv'
  <2>1. LoaderStep(s)
    BY <1>6 DEF Loads
  <2>2. CASE TakeSlot(s)
    <3>1. UNCHANGED <<at, got>> /\ load[s] # "load"
      BY <2>2 DEF TakeSlot
    <3>2. CASE load' = [load EXCEPT ![s] = "done"] /\ UNCHANGED slots
      <4>1. Loading' = Loading
        BY <1>0, <3>1, <3>2, LoadingChanges
      <4> QED
        BY <3>1, <3>2, <4>1 DEF SlotInv
    <3>3. CASE slots < Slots /\ slots' = slots + 1 /\ load' = [load EXCEPT ![s] = "load"]
      <4>1. Cardinality(Loading') = Cardinality(Loading) + 1
        BY <1>0, <3>1, <3>3, LoadingChanges
      <4>2. slots' \in 0 .. Slots /\ slots' = Cardinality(Loading')
        BY <3>3, <4>1, RuleSetsAssumption, SMT DEF SlotInv
      <4> QED
        BY <3>1, <4>2 DEF SlotInv
    <3> QED
      BY <2>2, <3>2, <3>3 DEF TakeSlot
  <2>3. CASE UseCache(s)
    BY <2>3, SlotReturned DEF UseCache
  <2>4. CASE DownloadFails(s)
    <3>1. UNCHANGED got /\ load[s] = "load"
      BY <2>4 DEF DownloadFails
    <3>2. ASSUME NEW v \in [src : 1 .. Sources, try : 1 .. Attempts], at' = [at EXCEPT ![s] = v],
                 UNCHANGED <<load, slots>>
          PROVE  SlotInv'
      BY <3>1, <3>2 DEF SlotInv, Loading
    <3>3. at[s].src \in 1 .. Sources /\ at[s].try \in 1 .. Attempts
      BY SMT DEF SlotInv
    <3>4. CASE at[s].try < Attempts /\ at' = [at EXCEPT ![s].try = @ + 1] /\ UNCHANGED <<load, slots>>
      <4>1. [at[s] EXCEPT !.try = @ + 1] \in [src : 1 .. Sources, try : 1 .. Attempts]
        BY <3>4, SMT DEF SlotInv, Attempts
      <4>2. at' = [at EXCEPT ![s] = [at[s] EXCEPT !.try = @ + 1]]
        BY <3>4
      <4> QED
        BY <3>2, <3>4, <4>1, <4>2
    <3>5. CASE NextSource(s)
      <4>1. CASE at[s].src < Sources
        <5>1. [src |-> at[s].src + 1, try |-> 1] \in [src : 1 .. Sources, try : 1 .. Attempts]
          BY <3>3, <4>1, RuleSetsAssumption, SMT DEF Attempts
        <5>2. at' = [at EXCEPT ![s] = [src |-> at[s].src + 1, try |-> 1]] /\ UNCHANGED <<load, slots>>
          BY <3>5, <4>1 DEF NextSource
        <5> QED
          BY <3>2, <5>1, <5>2
      <4>2. CASE ~(at[s].src < Sources)
        BY <3>1, <3>5, <4>2, SlotReturned DEF NextSource
      <4> QED
        BY <4>1, <4>2
    <3> QED
      BY <2>4, <3>4, <3>5 DEF DownloadFails
  <2>5. CASE Downloaded(s, TRUE)
    BY <2>5, SlotReturned DEF Downloaded
  <2> QED
    BY <2>1, <2>2, <2>3, <2>4, <2>5 DEF LoaderStep
<1>7. ASSUME NEW s \in Sets, StoreFails(s) PROVE SlotInv'
  BY <1>7, SlotReturned DEF StoreFails, Downloaded
<1>8. CASE PrepareExpires
  BY <1>1, <1>8 DEF PrepareExpires, Expire
<1>9. CASE Exit \/ Killed
  <2>1. RuleSetsEnd
    BY <1>9 DEF Exit, Killed, ProcessEnds
  <2>2. Loading' = {} /\ slots' = 0 /\ got' = {}
    BY <2>1 DEF RuleSetsEnd, Loading
  <2>3. at' \in [Sets -> [src : 1 .. Sources, try : 1 .. Attempts]] /\ 0 \in 0 .. Slots
    BY <2>1, RuleSetsAssumption, SMT DEF RuleSetsEnd, Attempts
  <2> QED
    BY <2>2, <2>3, FS_EmptySet DEF SlotInv
<1>10. CASE UNCHANGED vars
  BY <1>1, <1>10 DEF vars, setVars
<1> QED
  BY <1>3, <1>4, <1>5, <1>6, <1>7, <1>8, <1>9, <1>10 DEF Next

\* A new process has no results and no slots in use.
LEMMA InitSlots == Init => ResultInv /\ SlotInv
<1> SUFFICES ASSUME Init PROVE ResultInv /\ SlotInv
  OBVIOUS
<1>1. ResultInv
  BY SMT DEF Init, RuleSetsIdle, ResultInv
<1>2. Loading = {} /\ slots = 0 /\ got = {}
  BY DEF Init, RuleSetsIdle, Loading
<1>3. at \in [Sets -> [src : 1 .. Sources, try : 1 .. Attempts]] /\ 0 \in 0 .. Slots
  BY RuleSetsAssumption, SMT DEF Init, RuleSetsIdle, Attempts
<1> QED
  BY <1>1, <1>2, <1>3, FS_EmptySet DEF SlotInv

\* Every step keeps the types of the DNS cache.
LEMMA DnsTypeStep == DnsTypeOK /\ [Next]_vars => DnsTypeOK'
<1> SUFFICES ASSUME DnsTypeOK, [Next]_vars PROVE DnsTypeOK'
  OBVIOUS
<1> USE DEF DnsTypeOK, Contents
<1>1. ASSUME UNCHANGED dnsVars PROVE DnsTypeOK'
  BY <1>1 DEF dnsVars
<1>2. CASE Launch
  BY <1>2 DEF Launch, EnableDNSPersistence, Loaded
<1>3. CASE \/ Prepare \/ Listen \/ ListenFails \/ StartTun \/ Close \/ CloseStarted
           \/ PrepareExpires \/ TunRuns \/ TunFails \/ RefreshGroup \/ Ages
  BY <1>1, <1>3 DEF Prepare, Listen, ListenFails, StartTun, Close, CloseStarted, PrepareExpires,
                    TunRuns, TunFails, RefreshGroup, Ages
<1>4. CASE \E s \in Sets : Loads(s) \/ StoreFails(s)
  BY <1>1, <1>4 DEF Loads, StoreFails
<1>5. CASE CloseRouter
  <2>1. CASE CloseStop
    BY <2>1 DEF CloseStop
  <2> QED
    BY <1>1, <1>5, <2>1 DEF CloseRouter
<1>6. CASE Answer
  <2>1. stores + 1 \in 0 .. MaxStores
    BY <1>6, StoresAssumption, SMT DEF Answer, StoreAnswer
  <2> QED
    BY <1>6, <2>1 DEF Answer, StoreAnswer
<1>7. CASE Persists
  <2>1. CASE Snapshot
    BY <2>1 DEF Snapshot, Saved
  <2>2. CASE WriteTemporary \/ RemoveOld \/ RenameNew
    BY <2>2 DEF WriteTemporary, RemoveOld, RenameNew, Saved
  <2> QED
    BY <1>7, <2>1, <2>2 DEF Persists, WriterStep
<1>8. CASE PersistFails
  BY <1>8 DEF PersistFails, SaveFails, Saved
<1>9. CASE Exit \/ Killed
  BY <1>9 DEF Exit, Killed, ProcessEnds, DnsEnd
<1>10. CASE UNCHANGED vars
  BY <1>1, <1>10 DEF vars
<1> QED
  BY <1>2, <1>3, <1>4, <1>5, <1>6, <1>7, <1>8, <1>9, <1>10 DEF Next

\* Every step keeps the types of the main goroutine's variables and the bounds.
LEMMA ControlStep == ControlInv /\ StageInv /\ [Next]_vars => ControlInv'
<1> SUFFICES ASSUME ControlInv, StageInv, [Next]_vars PROVE ControlInv'
  OBVIOUS
<1>1. device \in BOOLEAN
  BY DEF StageInv
<1> USE DEF ControlInv
<1>2. 0 \in 0 .. Listeners
  BY RuntimeAssumption, SMT
<1>3. ASSUME UNCHANGED <<main, mode, tun, mainVars, boundVars, stale>> PROVE ControlInv'
  BY <1>3 DEF mainVars, boundVars
<1>4. ASSUME Fault PROVE cause' \in BOOLEAN /\ runs' \in 0 .. MaxRuns /\ faults' \in 0 .. MaxFaults
  <2>1. faults + 1 \in 0 .. MaxFaults
    BY <1>4, RuntimeAssumption, SMT DEF Fault
  <2> QED
    BY <1>4, <2>1 DEF Fault
<1>5. CASE Launch
  <2>1. runs + 1 \in 0 .. MaxRuns
    BY <1>5, RuntimeAssumption, SMT DEF Launch
  <2> QED
    BY <1>5, <2>1 DEF Launch, mainVars, tunVars, Places, Commands
<1>6. CASE Prepare
  <2>1. (blame = NoSet) \in BOOLEAN /\ (blame # NoSet) \in BOOLEAN
    OBVIOUS
  <2> QED
    BY <1>6, <2>1 DEF Prepare, Goes, boundVars, tunVars, Places
<1>7. CASE Listen
  <2>1. inbounds < Listeners => inbounds + 1 \in 0 .. Listeners
    BY RuntimeAssumption, SMT
  <2> QED
    BY <1>7, <2>1 DEF Listen, Goes, boundVars, tunVars, Places, Refreshing
<1>8. CASE ListenFails
  BY <1>2, <1>4, <1>8 DEF ListenFails, Goes, tunVars, Places
<1>9. CASE StartTun
  BY <1>9 DEF StartTun, Goes, boundVars, tunVars, TunBegin, Places, Refreshing
<1>10. CASE TunRuns
  <2>1. stale' \in {stale, FALSE}
    BY <1>10 DEF TunRuns, TunStep, StartMonitors, CreateDevice, StartStack, InstallRoutes,
                 CloseRoutes, CloseDevice, CloseStack, CloseMonitors
  <2> QED
    BY <1>10, <2>1 DEF TunRuns, mainVars, boundVars
<1>11. CASE TunFails
  BY <1>4, <1>11 DEF TunFails, StageFails, mainVars
<1>12. CASE RefreshGroup
  BY <1>12 DEF RefreshGroup, boundVars, tunVars, Refreshing
<1>13. CASE Close
  BY <1>13 DEF Close, Goes, boundVars, tunVars, Places
<1>14. CASE CloseStarted
  BY <1>2, <1>14 DEF CloseStarted, Goes, boundVars, tunVars, TunClose, Places
<1>15. CASE CloseRouter
  BY <1>15 DEF CloseRouter, Goes, mainVars, boundVars, tunVars, Places
<1>16. ASSUME NEW s \in Sets, Loads(s) \/ StoreFails(s) PROVE ControlInv'
  BY <1>3, <1>4, <1>16 DEF Loads, StoreFails, mainVars, tunVars
<1>17. CASE PersistFails
  BY <1>4, <1>17 DEF PersistFails, mainVars, tunVars
<1>18. CASE PrepareExpires \/ Answer \/ Persists \/ Ages
  BY <1>3, <1>18 DEF PrepareExpires, Answer, Persists, Ages, tunVars
<1>19. CASE Exit \/ Killed
  <2>1. (stale \/ device) \in BOOLEAN
    BY <1>1
  <2>2. faults < MaxFaults => faults + 1 \in 0 .. MaxFaults
    BY RuntimeAssumption, SMT
  <2> QED
    BY <1>2, <1>19, <2>1, <2>2 DEF Exit, Killed, ProcessEnds, TunEnd, Places, Refreshing
<1>20. CASE UNCHANGED vars
  BY <1>3, <1>20 DEF vars, tunVars
<1> QED
  BY <1>5, <1>6, <1>7, <1>8, <1>9, <1>10, <1>11, <1>12, <1>13, <1>14, <1>15, <1>16, <1>17, <1>18,
     <1>19, <1>20 DEF Next

\* Every variable has its type; above all, PrepareRuleSets never has more than Slots downloads
\* at work, because a goroutine gives back exactly the slot it took.
THEOREM TypeCorrect == Spec => []TypeOK
<1>1. Init => ResultInv /\ SlotInv
  BY InitSlots
<1>2. Init => StageInv
  BY DEF Init, TunIdle, StageInv, StartStages, CloseStages
<1>3. Init => DnsTypeOK /\ ControlInv
  <2>1. 0 \in 0 .. MaxStores /\ 0 \in 0 .. Listeners /\ 0 \in 0 .. MaxRuns /\ 0 \in 0 .. MaxFaults
    BY StoresAssumption, RuntimeAssumption, SMT
  <2> QED
    BY <2>1 DEF Init, DnsIdle, DnsTypeOK, Contents, ControlInv, Places, Commands, Refreshing
<1>4. ResultInv /\ SlotInv /\ StageInv /\ DnsTypeOK /\ ControlInv => TypeOK
  <2>1. ResultInv /\ SlotInv => RuleSetsTypeOK
    BY DEF ResultInv, SlotInv, RuleSetsTypeOK, Errors
  <2>2. StageInv /\ ControlInv => TunTypeOK
    BY DEF StageInv, ControlInv, TunTypeOK
  <2> QED
    BY <2>1, <2>2 DEF TypeOK, ControlInv, Places, Commands, Refreshing
<1> QED
  BY <1>1, <1>2, <1>3, <1>4, ResultStep, SlotStep, StageStep, DnsTypeStep, ControlStep, PTL DEF Spec

-----------------------------------------------------------------------------
\* A process has its goroutines: one for every rule set, which has sent its result when it is
\* done, and the writer of the DNS cache; and Close waits for the URL test only after having
\* cancelled it.
WaitInv ==
    /\ main # "down" => writer # "none" /\ (\A s \in Sets : load[s] # "none")
    /\ \A s \in Sets : load[s] = "done" => out[s] # "none"
    /\ main = "close" => cancel \/ refresh = "none"

\* Whatever the main goroutine waits for, somebody is there who can bring it about: while it
\* prepares, the results are complete, or one can be received, or a goroutine loads, or one
\* can leave the select for its slot; the URL test it waits for was cancelled; the writer it
\* waits for runs and was told to stop.
WaitsForSomebody ==
    /\ main = "prepare" /\ got # Sets =>
          \E s \in Sets : \/ out[s] # "none" /\ s \notin got
                          \/ load[s] = "load"
                          \/ load[s] = "slot" /\ (slots < Slots \/ ctx # "live")
    /\ main = "close" => cancel \/ refresh = "none"
    /\ main = "closeWait" => stop /\ writer # "none"

\* A goroutine that sends leaves its result.
LEMMA Sent ==
    ASSUME ResultInv, WaitInv, NEW s \in Sets, NEW result, Sends(s, result), result # "none"
    PROVE  \A t \in Sets : /\ load'[t] # "none" \/ load[t] = "none"
                           /\ load'[t] = "done" => out'[t] # "none"
BY SMT DEF Sends, ResultInv, WaitInv

\* Every step keeps the goroutines.
LEMMA WaitStep == ResultInv /\ MainInv /\ WaitInv /\ [Next]_vars => WaitInv'
<1> SUFFICES ASSUME ResultInv, MainInv, WaitInv, [Next]_vars PROVE WaitInv'
  OBVIOUS
<1>1. ASSUME UNCHANGED <<load, out, writer>>, main' # "down" => main # "down",
             main' = "close" => cancel' \/ refresh' = "none"
      PROVE  WaitInv'
  BY <1>1 DEF WaitInv
<1>2. CASE Launch
  <2>1. load' = [s \in Sets |-> "slot"] /\ writer' = "idle" /\ main' = "prepare"
    BY <1>2 DEF Launch, PrepareBegin, EnableDNSPersistence
  <2> QED
    BY <2>1 DEF WaitInv
<1>3. CASE Prepare
  <2>1. UNCHANGED <<load, out, writer, refresh>> /\ main = "prepare"
    BY <1>3 DEF Prepare, Collect, Goes, setVars, dnsVars
  <2> QED
    BY <1>1, <2>1 DEF MainInv
<1>4. CASE \/ Listen \/ ListenFails \/ StartTun \/ Close \/ CloseStarted
  <2>1. UNCHANGED <<load, out, writer>> /\ main # "down"
    BY <1>4 DEF Listen, ListenFails, StartTun, Close, CloseStarted, Goes, setVars, dnsVars
  <2>2. main' = "close" => cancel' \/ refresh' = "none"
    BY <1>4 DEF Listen, ListenFails, StartTun, Close, CloseStarted, Goes
  <2> QED
    BY <1>1, <2>1, <2>2
<1>5. CASE CloseRouter
  BY <1>1, <1>5 DEF CloseRouter, CloseStop, Goes, setVars, dnsVars
<1>6. CASE RefreshGroup
  <2>1. UNCHANGED <<load, out, writer, main, cancel>> /\ refresh # "none"
    BY <1>6 DEF RefreshGroup, setVars, dnsVars
  <2> QED
    BY <1>1, <2>1 DEF WaitInv
<1>7. CASE TunRuns \/ TunFails \/ Answer \/ Ages \/ UNCHANGED vars
  <2>1. UNCHANGED <<load, out, writer, main, cancel, refresh>>
    BY <1>7 DEF TunRuns, TunFails, Answer, StoreAnswer, Ages, vars, setVars, dnsVars, mainVars
  <2> QED
    BY <1>1, <2>1 DEF WaitInv
<1>8. CASE PrepareExpires
  <2>1. UNCHANGED <<load, out, writer, main, cancel, refresh>>
    BY <1>8 DEF PrepareExpires, Expire, dnsVars, mainVars
  <2> QED
    BY <1>1, <2>1 DEF WaitInv
<1>9. CASE Persists \/ PersistFails
  <2>1. UNCHANGED <<load, out, main, cancel, refresh>>
    BY <1>9 DEF Persists, PersistFails, setVars, mainVars
  <2>2. writer' # "none"
    BY <1>9 DEF Persists, PersistFails, WriterStep, SaveFails, Snapshot, WriteTemporary,
                RemoveOld, RenameNew, Saved
  <2> QED
    BY <2>1, <2>2 DEF WaitInv
<1>10. ASSUME NEW s \in Sets, Loads(s) \/ StoreFails(s) PROVE WaitInv'
  <2>1. UNCHANGED <<main, writer, cancel, refresh>>
    BY <1>10 DEF Loads, StoreFails, dnsVars, mainVars
  <2>2. ASSUME \A t \in Sets : /\ load'[t] # "none" \/ load[t] = "none"
                               /\ load'[t] = "done" => out'[t] # "none"
        PROVE  WaitInv'
    BY <2>1, <2>2 DEF WaitInv
  <2>3. CASE TakeSlot(s)
    <3>1. \A t \in Sets : /\ load'[t] # "none" \/ load[t] = "none"
                          /\ load'[t] = "done" => out'[t] # "none"
      BY <2>3, SMT DEF TakeSlot, ResultInv, WaitInv
    <3> QED
      BY <2>2, <3>1
  <2>4. CASE UNCHANGED <<load, out>>
    BY <2>2, <2>4 DEF WaitInv
  <2>5. ASSUME NEW result, Sends(s, result), result # "none" PROVE WaitInv'
    BY <1>10, <2>2, <2>5, Sent
  <2>6. CASE DownloadFails(s)
    BY <2>4, <2>5, <2>6 DEF DownloadFails, NextSource
  <2>7. CASE UseCache(s) \/ Downloaded(s, TRUE) \/ Downloaded(s, FALSE)
    BY <2>5, <2>7 DEF UseCache, Downloaded
  <2> QED
    BY <1>10, <2>3, <2>6, <2>7 DEF Loads, StoreFails, LoaderStep
<1>11. CASE Exit \/ Killed
  BY <1>11 DEF Exit, Killed, ProcessEnds, RuleSetsEnd, WaitInv
<1> QED
  BY <1>2, <1>3, <1>4, <1>5, <1>6, <1>7, <1>8, <1>9, <1>10, <1>11 DEF Next

\* The safety half of Returns, for any number of rule sets and slots: Start and Close never
\* come to wait for something that nobody is left to do.
THEOREM NobodyWaitsInVain == Spec => []WaitsForSomebody
<1>1. Init => ResultInv /\ SlotInv
  BY InitSlots
<1>2. Init => DnsInv
  BY StoresAssumption, SMT DEF Init, DnsIdle, DnsInv, Loaded, Empty, Corrupt
<1>3. Init => MainInv /\ WaitInv
  BY DEF Init, TunIdle, RuleSetsIdle, MainInv, Closing, WaitInv
<1>4. ASSUME ResultInv, SlotInv, DnsInv, WaitInv PROVE WaitsForSomebody
  <2>1. ASSUME main = "prepare", got # Sets
        PROVE  \E s \in Sets : \/ out[s] # "none" /\ s \notin got
                               \/ load[s] = "load"
                               \/ load[s] = "slot" /\ (slots < Slots \/ ctx # "live")
    <3>1. PICK t \in Sets : t \notin got
      BY <1>4, <2>1 DEF SlotInv
    <3>2. load[t] \in {"slot", "load", "done"}
      BY <1>4, <2>1, <3>1 DEF ResultInv, WaitInv
    <3>3. CASE load[t] = "done"
      BY <1>4, <3>1, <3>3 DEF WaitInv
    <3>4. CASE load[t] = "slot" /\ ~(slots < Slots)
      <4>1. slots # 0
        BY <1>4, <3>4, RuleSetsAssumption, SMT DEF SlotInv
      <4>2. Loading # {}
        BY <1>4, <4>1, FS_EmptySet DEF SlotInv
      <4> QED
        BY <4>2 DEF Loading
    <3> QED
      BY <3>1, <3>2, <3>3, <3>4
  <2> QED
    BY <1>4, <2>1 DEF WaitsForSomebody, WaitInv, DnsInv
<1> QED
  BY <1>1, <1>2, <1>3, <1>4, ResultStep, SlotStep, DnsStep, MainStepKeeps, WaitStep, PTL DEF Spec

=============================================================================
