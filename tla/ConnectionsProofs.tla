-------------------------- MODULE ConnectionsProofs --------------------------
(***************************************************************************)
(* The registry of stream connections and the end of a stream, for any     *)
(* handlers and any number of connections, polls and DELETEs.              *)
(*                                                                         *)
(* That the registry is exact depends on the identity of its rows: a       *)
(* handler has an ID exactly while it is in pipe, and no two handlers have *)
(* the same one, so a handler's Remove takes its own row off the list and  *)
(* nobody else's.  ClosedIsReleased is what the end of a closed stream     *)
(* does not need fairness for.                                             *)
(***************************************************************************)
EXTENDS Connections, FiniteSetTheorems, SequenceTheorems, TLAPS

InPipe(h) == pc[h] \in {"pipe", "remove"}

(* The IDs of the handlers are theirs alone, and the list is theirs.       *)
RowInv ==
    /\ next \in Nat
    /\ pc \in [Handler -> {"idle", "dial", "pipe", "remove"}]
    /\ id \in [Handler -> 0..next]
    /\ \A h \in Handler : InPipe(h) <=> id[h] # 0
    /\ \A g, h \in Handler : id[g] = id[h] /\ id[g] # 0 => g = h
    /\ RegistryExact

(* The state of the copy loops and of the sockets.                         *)
StreamInv ==
    /\ copy \in [Handler -> [Direction -> CopyState]]
    /\ closed \in [Handler -> BOOLEAN]

Rows == <<next, pc, id, items>>

Dialing == {h \in Handler : pc[h] = "dial"}
Piping == {h \in Handler : InPipe(h)}

(* Every dial under way can still register, and every registered row has   *)
(* had one event, two once it is closed.                                   *)
CountInv ==
    /\ revision \in Nat
    /\ IsFiniteSet(Dialing) /\ next + Cardinality(Dialing) <= MaxConns
    /\ IsFiniteSet(Piping) /\ revision + Cardinality(Piping) = 2 * next

(* The rows, the history and the log's cursor never pass the counters.     *)
EventInv ==
    /\ rev \in [ConnID -> 0..revision]
    /\ history \in Seq(1..next) /\ Len(history) <= HistoryCap
    /\ cursor \in 0..revision
    /\ reported \subseteq 1..next /\ targets \subseteq 1..next

(* The control plane and what a handler knows of its two connections.      *)
ControlInv ==
    /\ deletes \in 0..MaxDeletes /\ spawned \in 0..deletes
    /\ polls \in 0..MaxPolls
    /\ client \in [Handler -> ClientConn]
    /\ shut \in [Handler -> SUBSET Side]

IInv == RowInv /\ StreamInv /\ CountInv /\ EventInv /\ ControlInv

\* Zenon proves what is not said to need SMT: arithmetic, mostly.
USE ZenonT(30)

(* Steps that leave the rows and their owners alone keep them exact.       *)
LEMMA RowsKeep == RowInv /\ UNCHANGED Rows => RowInv'
BY SMT DEF RowInv, Rows, InPipe, RegistryExact

(* So do steps that change neither, but where a handler is outside pipe,   *)
(* or inside it.                                                           *)
LEMMA StageKeeps ==
    ASSUME RowInv, NEW h \in Handler, NEW stage \in {"idle", "dial", "pipe", "remove"},
           pc' = [pc EXCEPT ![h] = stage], UNCHANGED <<next, id, items>>,
           InPipe(h) <=> stage \in {"pipe", "remove"}
    PROVE  RowInv'
<1>1. \A g \in Handler : InPipe(g)' <=> InPipe(g)
    BY DEF RowInv, InPipe
<1>2. {g \in Handler : pc[g] \in {"pipe", "remove"}}' = {g \in Handler : pc[g] \in {"pipe", "remove"}}
    BY <1>1 DEF InPipe
<1>3. RegistryExact'
    BY <1>2 DEF RowInv, RegistryExact
<1> QED
    BY <1>1, <1>3 DEF RowInv

(* AddDetailed: the ID is new.                                             *)
LEMMA AddKeeps == ASSUME RowInv, NEW h \in Handler, AddDetailed(h) PROVE RowInv'
<1> USE DEF RowInv
<1>1. /\ pc[h] = "dial" /\ next' = next + 1 /\ items' = items \cup {next + 1}
      /\ id' = [id EXCEPT ![h] = next + 1] /\ pc' = [pc EXCEPT ![h] = "pipe"]
    BY DEF AddDetailed
<1>2. next' \in Nat /\ id' \in [Handler -> 0..next']
    BY <1>1, SMT
<1>3. \A g \in Handler : InPipe(g)' <=> id'[g] # 0
    BY <1>1, SMT DEF InPipe
<1>4. \A f, g \in Handler : id'[f] = id'[g] /\ id'[f] # 0 => f = g
    BY <1>1, SMT
<1>5. RegistryExact'
    <2>1. {g \in Handler : InPipe(g)'} = {g \in Handler : InPipe(g)} \cup {h}
        BY <1>1, SMT DEF InPipe
    <2>2. \A g \in Handler : InPipe(g) => g # h /\ id'[g] = id[g]
        BY <1>1 DEF InPipe
    <2>3. items = {id[g] : g \in {f \in Handler : InPipe(f)}}
        BY DEF RegistryExact, InPipe
    <2>4. items' = {id'[g] : g \in {f \in Handler : InPipe(f)'}}
        BY <1>1, <2>1, <2>2, <2>3, SMT
    <2> QED
        BY <2>4 DEF RegistryExact, InPipe
<1> QED
    BY <1>1, <1>2, <1>3, <1>4, <1>5

(* Remove takes the handler's own row.                                     *)
LEMMA RemoveKeeps == ASSUME RowInv, NEW h \in Handler, Remove(h) PROVE RowInv'
<1> USE DEF RowInv
<1>1. /\ pc[h] = "remove" /\ next' = next /\ items' = items \ {id[h]}
      /\ id' = [id EXCEPT ![h] = 0] /\ pc' = [pc EXCEPT ![h] = "idle"]
    BY DEF Remove
<1>2. \A g \in Handler : InPipe(g)' <=> id'[g] # 0
    BY <1>1 DEF InPipe
<1>3. RegistryExact'
    <2>1. \A g \in Handler : InPipe(g)' <=> InPipe(g) /\ g # h
        BY <1>1 DEF InPipe
    <2>2. \A g \in Handler : InPipe(g) /\ g # h => id'[g] = id[g] /\ id[g] # id[h]
        BY <1>1 DEF InPipe
    <2>3. items = {id[g] : g \in {f \in Handler : InPipe(f)}}
        BY DEF RegistryExact, InPipe
    <2>4. items' = {id'[g] : g \in {f \in Handler : InPipe(f)'}}
        BY <1>1, <2>1, <2>2, <2>3, SMT
    <2> QED
        BY <2>4 DEF RegistryExact, InPipe
<1> QED
    BY <1>1, <1>2, <1>3, SMT

(* Every step of a handler, of the control plane and of the log keeps the  *)
(* rows exact.                                                             *)
LEMMA RowStep == RowInv /\ [Next]_vars => RowInv'
<1> SUFFICES ASSUME RowInv, [Next]_vars PROVE RowInv'
    OBVIOUS
<1> USE DEF registry, flow
<1>1. ASSUME NEW h \in Handler, HandlerStep(h) PROVE RowInv'
    <2>1. CASE Dial(h)
        BY <2>1, StageKeeps DEF Dial, InPipe
    <2>2. CASE Abandon(h)
        BY <2>2, StageKeeps DEF Abandon, InPipe
    <2>3. CASE AddDetailed(h)
        BY <2>3, AddKeeps
    <2>4. CASE PipeDone(h)
        BY <2>4, StageKeeps DEF PipeDone, InPipe
    <2>5. CASE Remove(h)
        BY <2>5, RemoveKeeps
    <2>6. ASSUME NEW d \in Direction, CopyEOF(h, d) \/ CopyFailed(h, d) PROVE RowInv'
        BY <2>6, RowsKeep DEF CopyEOF, CopyFailed, Rows
    <2> QED
        BY <1>1, <2>1, <2>2, <2>3, <2>4, <2>5, <2>6 DEF HandlerStep
<1>2. CASE DeleteConnections \/ CloseAll
    BY <1>2, RowsKeep DEF DeleteConnections, CloseAll, Rows
<1>3. ASSUME NEW i \in ConnID, CloseTarget(i) PROVE RowInv'
    BY <1>3, RowsKeep DEF CloseTarget, Rows
<1>4. CASE PollLog
    BY <1>4, RowsKeep DEF PollLog, Rows
<1>5. CASE ClearHistory
    BY <1>5, RowsKeep DEF ClearHistory, Rows
<1>6. CASE Finished \/ UNCHANGED vars
    BY <1>6, RowsKeep DEF Finished, vars, Rows
<1> QED
    BY <1>1, <1>2, <1>3, <1>4, <1>5, <1>6 DEF Next

(* The registered IDs have been given out.                                 *)
LEMMA RowsNumbered == RowInv => items \subseteq 1..next
<1> SUFFICES ASSUME RowInv PROVE items \subseteq 1..next
    OBVIOUS
<1>1. \A h \in Handler : InPipe(h) => id[h] \in 1..next
    <2>1. next \in Nat /\ \A h \in Handler : InPipe(h) => id[h] # 0 /\ id[h] \in 0..next
        BY DEF RowInv
    <2> QED
        BY <2>1, SMT
<1>2. items = {id[g] : g \in {f \in Handler : InPipe(f)}}
    BY DEF RowInv, RegistryExact, InPipe
<1> QED
    BY <1>1, <1>2

(* The registry lists exactly the connections whose handler is in pipe, so *)
(* that a DELETE can reach all of them, whatever closes or fails meanwhile.*)
THEOREM RegistryExactHolds == Spec => []RegistryExact
<1>1. Init => RowInv
    BY SMT DEF Init, RowInv, InPipe, RegistryExact
<1>2. RowInv => RegistryExact
    BY DEF RowInv
<1> QED
    BY <1>1, <1>2, RowStep, PTL DEF Spec

-----------------------------------------------------------------------------
(* Counting the handlers.                                                  *)

(* Steps that leave the handlers' stages and the counters alone.           *)
LEMMA CountKeeps == CountInv /\ UNCHANGED <<next, pc, revision>> => CountInv'
BY DEF CountInv, Dialing, Piping, InPipe

(* A dial is counted from its start to its end, a row from AddDetailed to  *)
(* Remove.                                                                 *)
LEMMA CountHandler ==
    ASSUME RowInv, CountInv, NEW h \in Handler, HandlerStep(h)
    PROVE  CountInv'
<1> USE DEF InPipe
<1>0. /\ MaxConns \in Nat /\ next \in Nat /\ revision \in Nat
      /\ pc \in [Handler -> {"idle", "dial", "pipe", "remove"}]
      /\ IsFiniteSet(Dialing) /\ next + Cardinality(Dialing) <= MaxConns
      /\ IsFiniteSet(Piping) /\ revision + Cardinality(Piping) = 2 * next
      /\ Cardinality(Dialing) \in Nat /\ Cardinality(Piping) \in Nat
    BY ConnectionsAssumption, FS_CardinalityType DEF RowInv, CountInv
<1>1. CASE Dial(h)
    <2>1. pc[h] = "idle" /\ pc' = [pc EXCEPT ![h] = "dial"]
          /\ next' = next /\ revision' = revision
          /\ next + Cardinality(Dialing) < MaxConns
        BY <1>1 DEF Dial, registry, Dialing
    <2>2. Dialing' = Dialing \cup {h} /\ h \notin Dialing /\ Piping' = Piping
        BY <1>0, <2>1 DEF Dialing, Piping
    <2>3. IsFiniteSet(Dialing') /\ Cardinality(Dialing') = Cardinality(Dialing) + 1
        BY <1>0, <2>2, FS_AddElement
    <2> QED
        BY <1>0, <2>1, <2>2, <2>3, SMT DEF CountInv
<1>2. CASE Abandon(h)
    <2>1. pc[h] = "dial" /\ pc' = [pc EXCEPT ![h] = "idle"]
          /\ next' = next /\ revision' = revision
        BY <1>2 DEF Abandon, registry
    <2>2. Dialing' = Dialing \ {h} /\ h \in Dialing /\ Piping' = Piping
        BY <1>0, <2>1 DEF Dialing, Piping
    <2>3. IsFiniteSet(Dialing') /\ Cardinality(Dialing') = Cardinality(Dialing) - 1
        BY <1>0, <2>2, FS_RemoveElement
    <2> QED
        BY <1>0, <2>1, <2>2, <2>3, SMT DEF CountInv
<1>3. CASE AddDetailed(h)
    <2>1. pc[h] = "dial" /\ pc' = [pc EXCEPT ![h] = "pipe"]
          /\ next' = next + 1 /\ revision' = revision + 1
        BY <1>3 DEF AddDetailed
    <2>2. Dialing' = Dialing \ {h} /\ h \in Dialing
          /\ Piping' = Piping \cup {h} /\ h \notin Piping
        BY <1>0, <2>1 DEF Dialing, Piping
    <2>3. IsFiniteSet(Dialing') /\ Cardinality(Dialing') = Cardinality(Dialing) - 1
        BY <1>0, <2>2, FS_RemoveElement
    <2>4. IsFiniteSet(Piping') /\ Cardinality(Piping') = Cardinality(Piping) + 1
        BY <1>0, <2>2, FS_AddElement
    <2> QED
        BY <1>0, <2>1, <2>3, <2>4, SMT DEF CountInv
<1>4. CASE PipeDone(h)
    <2>1. pc[h] = "pipe" /\ pc' = [pc EXCEPT ![h] = "remove"]
          /\ next' = next /\ revision' = revision
        BY <1>4 DEF PipeDone, registry
    <2>2. Dialing' = Dialing /\ Piping' = Piping
        BY <1>0, <2>1 DEF Dialing, Piping
    <2> QED
        BY <1>0, <2>1, <2>2 DEF CountInv
<1>5. CASE Remove(h)
    <2>1. pc[h] = "remove" /\ pc' = [pc EXCEPT ![h] = "idle"]
          /\ next' = next /\ revision' = revision + 1
        BY <1>5 DEF Remove
    <2>2. Piping' = Piping \ {h} /\ h \in Piping /\ Dialing' = Dialing
        BY <1>0, <2>1 DEF Dialing, Piping
    <2>3. IsFiniteSet(Piping') /\ Cardinality(Piping') = Cardinality(Piping) - 1
        BY <1>0, <2>2, FS_RemoveElement
    <2> QED
        BY <1>0, <2>1, <2>2, <2>3, SMT DEF CountInv
<1>6. ASSUME NEW d \in Direction, CopyEOF(h, d) \/ CopyFailed(h, d) PROVE CountInv'
    BY <1>6, CountKeeps DEF CopyEOF, CopyFailed, registry
<1> QED
    BY <1>1, <1>2, <1>3, <1>4, <1>5, <1>6 DEF HandlerStep

(* Every step keeps the counts.                                            *)
LEMMA CountStep == RowInv /\ CountInv /\ [Next]_vars => CountInv'
<1> SUFFICES ASSUME RowInv, CountInv, [Next]_vars PROVE CountInv'
    OBVIOUS
<1> USE DEF registry, flow
<1>1. ASSUME NEW h \in Handler, HandlerStep(h) PROVE CountInv'
    BY <1>1, CountHandler
<1>2. CASE DeleteConnections \/ CloseAll
    BY <1>2, CountKeeps DEF DeleteConnections, CloseAll
<1>3. ASSUME NEW i \in ConnID, CloseTarget(i) PROVE CountInv'
    BY <1>3, CountKeeps DEF CloseTarget
<1>4. CASE PollLog \/ ClearHistory
    BY <1>4, CountKeeps DEF PollLog, ClearHistory
<1>5. CASE Finished \/ UNCHANGED vars
    BY <1>5, CountKeeps DEF Finished, vars
<1> QED
    BY <1>1, <1>2, <1>3, <1>4, <1>5 DEF Next

-----------------------------------------------------------------------------
(* The history and the log.                                                *)

(* Newest keeps the end of a history, at most n rows of it.                *)
LEMMA NewestProperties ==
    ASSUME NEW S, NEW s \in Seq(S), NEW n \in Nat
    PROVE  /\ Newest(s, n) \in Seq(S)
           /\ Len(Newest(s, n)) <= n
           /\ \A k \in DOMAIN Newest(s, n) : \E j \in DOMAIN s : Newest(s, n)[k] = s[j]
<1> DEFINE first == IF Len(s) > n THEN Len(s) - n + 1 ELSE 1
<1>1. /\ Len(s) \in Nat /\ first \in 1..(Len(s) + 1) /\ Len(s) - first + 1 <= n
      /\ \A i \in first..Len(s) : s[i] \in S
      /\ DOMAIN s = 1..Len(s)
    BY SMT
<1>2. Newest(s, n) = SubSeq(s, first, Len(s))
    BY DEF Newest
<1> HIDE DEF first
<1>3. /\ SubSeq(s, first, Len(s)) \in Seq(S)
      /\ Len(SubSeq(s, first, Len(s))) = IF first <= Len(s) THEN Len(s) - first + 1 ELSE 0
      /\ \A i \in 1..(Len(s) - first + 1) : SubSeq(s, first, Len(s))[i] = s[first + i - 1]
    <2>1. first \in Int /\ Len(s) \in Int
        BY <1>1, SMT
    <2> QED
        BY <1>1, <2>1, SubSeqProperties, SMTT(30)
<1>4. DOMAIN Newest(s, n) = 1..(Len(s) - first + 1)
    BY <1>1, <1>2, <1>3, SMT
<1>5. \A i \in 1..(Len(s) - first + 1) : first + i - 1 \in 1..Len(s)
    BY <1>1, SMT
<1>6. Len(Newest(s, n)) <= n
    BY <1>1, <1>2, <1>3, SMT
<1> QED
    BY <1>1, <1>2, <1>3, <1>4, <1>5, <1>6

(* What Remove makes of the history: rows it had, and the new one.         *)
LEMMA HistoryAfter ==
    ASSUME NEW S, history \in Seq(S), NEW i \in S,
           history' = Newest(Append(history, i), HistoryCap)
    PROVE  /\ history' \in Seq(S) /\ Len(history') <= HistoryCap
           /\ Range(history') \subseteq Range(history) \cup {i}
<1>1. HistoryCap \in Nat
    BY ConnectionsAssumption
<1>2. /\ Append(history, i) \in Seq(S) /\ DOMAIN history = 1..Len(history)
      /\ DOMAIN Append(history, i) = 1..(Len(history) + 1)
      /\ \A k \in 1..(Len(history) + 1) :
            Append(history, i)[k] = IF k = Len(history) + 1 THEN i ELSE history[k]
      /\ Len(history) \in Nat
    BY SMT
<1>3. \A k \in 1..(Len(history) + 1) : k # Len(history) + 1 => k \in 1..Len(history)
    BY <1>2, SMT
<1>4. \A k \in DOMAIN Append(history, i) :
        Append(history, i)[k] \in Range(history) \cup {i}
    BY <1>2, <1>3 DEF Range
<1>5. /\ history' \in Seq(S) /\ Len(history') <= HistoryCap
      /\ \A k \in DOMAIN history' :
            \E j \in DOMAIN Append(history, i) : history'[k] = Append(history, i)[j]
    <2> DEFINE longer == Append(history, i)
    <2>1. longer \in Seq(S)
        BY <1>2
    <2> HIDE DEF longer
    <2>2. /\ Newest(longer, HistoryCap) \in Seq(S)
          /\ Len(Newest(longer, HistoryCap)) <= HistoryCap
          /\ \A k \in DOMAIN Newest(longer, HistoryCap) :
                \E j \in DOMAIN longer : Newest(longer, HistoryCap)[k] = longer[j]
        BY <1>1, <2>1, NewestProperties, SMT
    <2>3. history' = Newest(longer, HistoryCap)
        BY DEF longer
    <2> QED
        BY <2>2, <2>3 DEF longer
<1> QED
    BY <1>4, <1>5, SMT DEF Range

(* The facts about the counters that the history's proofs use.             *)
LEMMA EventFacts ==
    ASSUME RowInv, CountInv, EventInv
    PROVE  /\ next \in Nat /\ revision \in Nat /\ cursor \in Nat
           /\ cursor <= revision /\ MaxConns \in Nat /\ next <= MaxConns
           /\ Range(history) \subseteq 1..next /\ Range(history) \subseteq ConnID
           /\ \A i \in ConnID : rev[i] \in Nat /\ rev[i] <= revision
           /\ Len(history) \in Nat /\ DOMAIN history = 1..Len(history)
           /\ \A h \in Handler : pc[h] = "dial" => next + 1 \in ConnID
           /\ \A h \in Handler : pc[h] = "remove" => id[h] \in 1..next
<1>1. /\ next \in Nat /\ revision \in Nat /\ MaxConns \in Nat
      /\ IsFiniteSet(Dialing) /\ Cardinality(Dialing) \in Nat
      /\ next + Cardinality(Dialing) <= MaxConns
    BY ConnectionsAssumption, FS_CardinalityType DEF RowInv, CountInv
<1>2. /\ cursor \in Nat /\ cursor <= revision /\ next <= MaxConns
      /\ \A i \in ConnID : rev[i] \in Nat /\ rev[i] <= revision
    BY <1>1, SMT DEF EventInv
<1>3. /\ Len(history) \in Nat /\ DOMAIN history = 1..Len(history)
      /\ Range(history) \subseteq 1..next
    <2>1. /\ Len(history) \in Nat /\ DOMAIN history = 1..Len(history)
          /\ \A k \in 1..Len(history) : history[k] \in 1..next
        <3>1. history \in Seq(1..next)
            BY DEF EventInv
        <3> QED
            BY <1>1, <3>1, SMT
    <2> QED
        BY <2>1 DEF Range
<1>4. 1..next \subseteq ConnID
    BY <1>1, <1>2, SMT DEF ConnID
<1>5. ASSUME NEW h \in Handler, pc[h] = "dial" PROVE next + 1 \in ConnID
    <2>1. Dialing # {}
        BY <1>5 DEF Dialing
    <2>2. Cardinality(Dialing) # 0
        BY <1>1, <2>1, FS_EmptySet
    <2> QED
        BY <1>1, <2>2, SMT DEF ConnID
<1>6. ASSUME NEW h \in Handler, pc[h] = "remove" PROVE id[h] \in 1..next
    <2>1. id[h] # 0 /\ id[h] \in 0..next
        BY <1>6 DEF RowInv, InPipe
    <2> QED
        BY <1>1, <2>1, SMT
<1> QED
    BY <1>1, <1>2, <1>3, <1>4, <1>5, <1>6

(* A poll with room for every waiting row reports all of them.             *)
LEMMA PollReports ==
    ASSUME RowInv, CountInv, EventInv, PollLog, Cardinality(Waiting) <= Limit
    PROVE  \A i \in Range(history) : rev[i] > cursor => i \in reported'
<1> SUFFICES ASSUME NEW k \in DOMAIN history, rev[history[k]] > cursor
             PROVE  history[k] \in reported'
    BY DEF Range
<1>1. Limit \in Nat
    BY ConnectionsAssumption, SMT
<1>2. IsFiniteSet(Waiting)
    <2>1. DOMAIN history = 1..Len(history) /\ Len(history) \in Nat
        BY EventFacts
    <2>2. IsFiniteSet(1..Len(history))
        BY <2>1, FS_Interval, SMT
    <2> QED
        BY <2>1, <2>2, FS_Subset DEF Waiting
<1> DEFINE later == {i \in Waiting : i > k}
<1>3. k \in Waiting /\ later \subseteq Waiting /\ k \notin later
    BY EventFacts, SMT DEF Waiting
<1>4. IsFiniteSet(later) /\ Cardinality(later) <= Cardinality(Waiting)
      /\ Cardinality(later) # Cardinality(Waiting)
    BY <1>2, <1>3, FS_Subset
<1>5. Cardinality(later) < Limit
    BY <1>1, <1>2, <1>4, FS_CardinalityType, SMT
<1>6. history[k] \in ClosedSince(cursor, Limit)
    BY <1>3, <1>5 DEF ClosedSince, Waiting
<1> QED
    BY <1>6 DEF PollLog

(* What the events are about.                                              *)
Events == <<next, revision, rev, history, cursor, reported>>

(* Steps that leave the events alone keep what is known of them.           *)
LEMMA EventKeeps ==
    EventInv /\ UNCHANGED Events /\ targets' \subseteq 1..next => EventInv'
BY DEF EventInv, Events

(* Every step keeps the rows, the history and the cursor within the        *)
(* counters.                                                               *)
LEMMA EventStep == RowInv /\ CountInv /\ EventInv /\ [Next]_vars => EventInv'
<1> SUFFICES ASSUME RowInv, CountInv, EventInv, [Next]_vars PROVE EventInv'
    OBVIOUS
<1>0. /\ next \in Nat /\ revision \in Nat /\ cursor \in 0..revision
      /\ rev \in [ConnID -> 0..revision]
      /\ history \in Seq(1..next) /\ Len(history) <= HistoryCap
      /\ reported \subseteq 1..next /\ targets \subseteq 1..next
    BY EventFacts DEF EventInv
<1>1. ASSUME NEW h \in Handler, HandlerStep(h) PROVE EventInv'
    <2>1. CASE Dial(h) \/ Abandon(h) \/ PipeDone(h)
        BY <1>0, <2>1, EventKeeps DEF Dial, Abandon, PipeDone, registry, controls, log, Events
    <2>2. CASE AddDetailed(h)
        <3>1. /\ next' = next + 1 /\ revision' = revision + 1
              /\ rev' = [rev EXCEPT ![next + 1] = revision + 1]
              /\ UNCHANGED <<history, cursor, reported, targets>>
            BY <2>2 DEF AddDetailed, controls, log
        <3>2. history' \in Seq(1..next')
            <4>1. \A k \in 1..Len(history) : history[k] \in 1..(next + 1)
                BY <1>0, SMT
            <4> QED
                BY <1>0, <3>1, <4>1, SMT
        <3>3. rev' \in [ConnID -> 0..revision']
            <4>1. 0..revision \subseteq 0..revision' /\ revision + 1 \in 0..revision'
                BY <1>0, <3>1, SMT
            <4> QED
                BY <1>0, <3>1, <4>1
        <3>4. cursor' \in 0..revision' /\ 1..next \subseteq 1..next'
            BY <1>0, <3>1, SMT
        <3> QED
            BY <1>0, <3>1, <3>2, <3>3, <3>4 DEF EventInv
    <2>3. CASE Remove(h)
        <3>1. /\ pc[h] = "remove" /\ revision' = revision + 1
              /\ rev' = [rev EXCEPT ![id[h]] = revision + 1]
              /\ history' = Newest(Append(history, id[h]), HistoryCap)
              /\ UNCHANGED <<next, cursor, reported, targets>>
            BY <2>3 DEF Remove, controls, log
        <3>2. id[h] \in 1..next
            BY <3>1, EventFacts
        <3>3. history' \in Seq(1..next') /\ Len(history') <= HistoryCap
            BY <1>0, <3>1, <3>2, HistoryAfter
        <3>4. rev' \in [ConnID -> 0..revision'] /\ cursor' \in 0..revision'
            <4>1. 0..revision \subseteq 0..revision' /\ revision + 1 \in 0..revision'
                BY <1>0, <3>1, SMT
            <4> QED
                BY <1>0, <3>1, <4>1
        <3> QED
            BY <1>0, <3>1, <3>3, <3>4 DEF EventInv
    <2>4. ASSUME NEW d \in Direction, CopyEOF(h, d) \/ CopyFailed(h, d) PROVE EventInv'
        BY <1>0, <2>4, EventKeeps DEF CopyEOF, CopyFailed, registry, controls, log, Events
    <2> QED
        BY <1>1, <2>1, <2>2, <2>3, <2>4 DEF HandlerStep
<1>2. CASE DeleteConnections
    BY <1>0, <1>2, EventKeeps DEF DeleteConnections, registry, log, Events
<1>3. CASE CloseAll
    <2>1. items \subseteq 1..next
        BY RowsNumbered
    <2> QED
        BY <1>0, <1>3, <2>1, EventKeeps DEF CloseAll, registry, log, Events
<1>4. ASSUME NEW i \in ConnID, CloseTarget(i) PROVE EventInv'
    BY <1>0, <1>4, EventKeeps DEF CloseTarget, registry, log, Events
<1>5. CASE PollLog
    <2>1. UNCHANGED registry /\ UNCHANGED controls /\ cursor' = revision
          /\ reported' = reported \cup ClosedSince(cursor, Limit)
        BY <1>5 DEF PollLog
    <2>2. ClosedSince(cursor, Limit) \subseteq Range(history)
        BY DEF ClosedSince, Range
    <2>3. reported' \subseteq 1..next
        BY <1>0, <2>1, <2>2, EventFacts
    <2>4. cursor' \in 0..revision
        BY <1>0, <2>1, SMT
    <2> QED
        BY <1>0, <2>1, <2>3, <2>4 DEF EventInv, registry, controls
<1>6. CASE ClearHistory
    <2>1. history' = <<>> /\ UNCHANGED <<next, revision, rev, cursor, reported, targets>>
        BY <1>6 DEF ClearHistory, controls
    <2>2. history' \in Seq(1..next) /\ Len(history') <= HistoryCap
        BY <2>1, ConnectionsAssumption, SMT
    <2> QED
        BY <1>0, <2>1, <2>2 DEF EventInv
<1>7. CASE Finished \/ UNCHANGED vars
    BY <1>0, <1>7, EventKeeps DEF Finished, vars, registry, controls, log, Events
<1> QED
    BY <1>1, <1>2, <1>3, <1>4, <1>5, <1>6, <1>7 DEF Next

(* What a step may do to a row of the history behind the log's back.  A    *)
(* row closed after the cursor is passed by it only in a poll, and every   *)
(* other row keeps its revision.                                           *)
LEMMA RowsOfHistory ==
    ASSUME RowInv, CountInv, EventInv, [Next]_vars, ~PollLog,
           NEW i \in Range(history)', rev'[i] <= cursor'
    PROVE  i \in Range(history) /\ rev[i] = rev'[i] /\ UNCHANGED <<cursor, reported>>
<1> DEFINE Same == i \in Range(history) /\ rev[i] = rev'[i] /\ UNCHANGED <<cursor, reported>>
<1>0. /\ next \in Nat /\ revision \in Nat /\ cursor \in Nat /\ cursor <= revision
      /\ Range(history) \subseteq 1..next /\ rev \in [ConnID -> 0..revision]
      /\ 1..next \subseteq ConnID
    BY EventFacts, SMT DEF EventInv, ConnID
<1> SUFFICES Same
    OBVIOUS
<1>1. ASSUME UNCHANGED <<history, rev, cursor, reported>> PROVE Same
    BY <1>1 DEF Range
<1> HIDE DEF Same
<1>2. ASSUME NEW h \in Handler, HandlerStep(h) PROVE Same
    <2>1. CASE Dial(h) \/ Abandon(h) \/ PipeDone(h)
        BY <1>1, <2>1 DEF Dial, Abandon, PipeDone, registry, log
    <2>2. CASE AddDetailed(h)
        <3>1. rev' = [rev EXCEPT ![next + 1] = revision + 1]
              /\ UNCHANGED <<history, cursor, reported>>
            BY <2>2 DEF AddDetailed, log
        <3>2. i \in Range(history) /\ i # next + 1
            <4>1. i \in Range(history)
                BY <3>1 DEF Range
            <4> QED
                BY <1>0, <4>1, SMT
        <3> QED
            BY <1>0, <3>1, <3>2 DEF Same
    <2>3. CASE Remove(h)
        <3>1. /\ pc[h] = "remove" /\ rev' = [rev EXCEPT ![id[h]] = revision + 1]
              /\ history' = Newest(Append(history, id[h]), HistoryCap)
              /\ UNCHANGED <<cursor, reported>>
            BY <2>3 DEF Remove, log
        <3>2. id[h] \in 1..next
            BY <3>1, EventFacts
        <3>3. i \in Range(history) \cup {id[h]}
            BY <3>1, <3>2, HistoryAfter DEF EventInv, Range
        <3>4. i # id[h]
            BY <1>0, <3>1, <3>2, SMT
        <3> QED
            BY <1>0, <3>1, <3>3, <3>4 DEF Same
    <2>4. ASSUME NEW d \in Direction, CopyEOF(h, d) \/ CopyFailed(h, d) PROVE Same
        BY <1>1, <2>4 DEF CopyEOF, CopyFailed, registry, log
    <2> QED
        BY <1>2, <2>1, <2>2, <2>3, <2>4 DEF HandlerStep
<1>3. CASE DeleteConnections \/ CloseAll
    BY <1>1, <1>3 DEF DeleteConnections, CloseAll, registry, log
<1>4. ASSUME NEW t \in ConnID, CloseTarget(t) PROVE Same
    BY <1>1, <1>4 DEF CloseTarget, registry, log
<1>5. CASE ClearHistory
    <2>1. Range(history)' = {}
        BY <1>5, SMT DEF ClearHistory, Range
    <2> QED
        BY <2>1
<1>6. CASE Finished \/ UNCHANGED vars
    BY <1>1, <1>6 DEF Finished, vars, registry, log
<1> QED
    BY <1>2, <1>3, <1>4, <1>5, <1>6 DEF Next

(* The rows waiting for the log are finitely many.                         *)
LEMMA WaitingFits ==
    ASSUME RowInv, CountInv, EventInv
    PROVE  IsFiniteSet(Waiting) /\ Cardinality(Waiting) <= HistoryCap
<1>1. /\ Len(history) \in Nat /\ DOMAIN history = 1..Len(history)
      /\ Len(history) <= HistoryCap /\ HistoryCap \in Nat
    BY EventFacts, ConnectionsAssumption DEF EventInv
<1>2. IsFiniteSet(1..Len(history)) /\ Cardinality(1..Len(history)) = Len(history)
    <2>1. 1 \in Int /\ Len(history) \in Int
        BY <1>1, SMT
    <2>2. /\ IsFiniteSet(1..Len(history))
          /\ Cardinality(1..Len(history)) = IF 1 > Len(history) THEN 0 ELSE Len(history) - 1 + 1
        BY <2>1, FS_Interval
    <2> QED
        BY <1>1, <2>2, SMT
<1>3. IsFiniteSet(Waiting) /\ Cardinality(Waiting) <= Cardinality(1..Len(history))
    BY <1>1, <1>2, FS_Subset DEF Waiting
<1>4. Cardinality(Waiting) \in Nat
    BY <1>3, FS_CardinalityType
<1> QED
    BY <1>1, <1>2, <1>3, <1>4, SMT

(* The rows, their counts and the events hold in the initial state.        *)
LEMMA EventInit == Init => RowInv /\ CountInv /\ EventInv
<1> SUFFICES ASSUME Init PROVE RowInv /\ CountInv /\ EventInv
    OBVIOUS
<1>1. RowInv
    BY SMT DEF Init, RowInv, InPipe, RegistryExact
<1>2. Dialing = {} /\ Piping = {}
    BY DEF Init, Dialing, Piping, InPipe
<1>3. CountInv
    <2>1. revision = 0 /\ next = 0 /\ MaxConns \in Nat
        BY ConnectionsAssumption DEF Init
    <2> QED
        BY <1>2, <2>1, FS_EmptySet, SMT DEF CountInv
<1>4. EventInv
    <2>1. /\ rev = [j \in ConnID |-> 0] /\ history = <<>> /\ revision = 0
          /\ cursor = 0 /\ reported = {} /\ targets = {} /\ next = 0
          /\ HistoryCap \in Nat
        BY ConnectionsAssumption DEF Init
    <2> QED
        BY <2>1, SMT DEF EventInv
<1> QED
    BY <1>1, <1>3, <1>4

(* The rows, their counts and the events hold in every reachable state.    *)
LEMMA Invariance == Spec => [](RowInv /\ CountInv /\ EventInv)
BY EventInit, RowStep, CountStep, EventStep, PTL DEF Spec

(* However the closing of rows, the polls and the clearing of the history  *)
(* interleave, and whatever the limit (the desktop asks for 250 rows of    *)
(* the 1000), only a poll that finds more closed rows waiting than it asks *)
(* for takes a row out of the log's reach.                                 *)
THEOREM LostOnlyToLimitHolds == Spec => LostOnlyToLimit
<1> DEFINE Step == \/ Missed' \subseteq Missed
                   \/ cursor' > cursor /\ Cardinality(Waiting) > Limit
<1>1. ASSUME RowInv, CountInv, EventInv, [Next]_vars,
             NEW i \in Range(history)', rev'[i] <= cursor', i \notin reported',
             i \notin Missed
      PROVE  cursor' > cursor /\ Cardinality(Waiting) > Limit
    <2>1. PollLog
        <3> SUFFICES ASSUME ~PollLog PROVE FALSE
            OBVIOUS
        <3>1. i \in Range(history) /\ rev[i] = rev'[i] /\ UNCHANGED <<cursor, reported>>
            BY <1>1, RowsOfHistory
        <3> QED
            BY <1>1, <3>1 DEF Missed
    <2>2. UNCHANGED <<history, rev>> /\ reported \subseteq reported' /\ cursor' = revision
        BY <2>1 DEF PollLog, registry
    <2>3. i \in Range(history)
        BY <2>2 DEF Range
    <2>4. ~(rev[i] <= cursor)
        BY <1>1, <2>2, <2>3 DEF Missed
    <2>5. rev[i] > cursor /\ cursor' > cursor
        <3>1. rev[i] \in Nat /\ cursor \in Nat /\ revision \in Nat
            BY <1>1, <2>3, EventFacts DEF EventInv
        <3> QED
            BY <1>1, <2>2, <2>4, <3>1, SMT
    <2>6. ~(Cardinality(Waiting) <= Limit)
        BY <1>1, <2>1, <2>3, <2>5, PollReports
    <2>7. Cardinality(Waiting) \in Nat /\ Limit \in Nat
        BY <1>1, WaitingFits, FS_CardinalityType, ConnectionsAssumption, SMT
    <2> QED
        BY <2>5, <2>6, <2>7, SMT
<1>2. ASSUME RowInv, CountInv, EventInv, [Next]_vars PROVE Step
    <2> SUFFICES ASSUME NEW i \in Missed', i \notin Missed PROVE Step
        OBVIOUS
    <2>1. i \in Range(history)' /\ rev'[i] <= cursor' /\ i \notin reported'
        BY DEF Missed
    <2> QED
        BY <1>1, <1>2, <2>1
<1>3. RowInv /\ CountInv /\ EventInv /\ [Next]_vars => [Step]_vars
    BY <1>2
<1> QED
    BY <1>3, Invariance, PTL DEF Spec, LostOnlyToLimit

-----------------------------------------------------------------------------
(* The copy loops and the sockets keep their types.                        *)
LEMMA StreamStep == StreamInv /\ [Next]_vars => StreamInv'
<1> SUFFICES ASSUME StreamInv, [Next]_vars PROVE StreamInv'
    OBVIOUS
<1> USE DEF StreamInv, CopyState, flow
<1>1. ASSUME UNCHANGED <<copy, closed>> PROVE StreamInv'
    BY <1>1
<1>2. ASSUME NEW h \in Handler, HandlerStep(h) PROVE StreamInv'
    <2>1. CASE Dial(h) \/ Abandon(h)
        BY <1>1, <2>1 DEF Dial, Abandon
    <2>2. CASE AddDetailed(h)
        BY <2>2 DEF AddDetailed
    <2>3. CASE PipeDone(h)
        BY <2>3 DEF PipeDone
    <2>4. CASE Remove(h)
        BY <2>4 DEF Remove, Quiet
    <2>5. ASSUME NEW d \in Direction, CopyEOF(h, d) PROVE StreamInv'
        BY <2>5 DEF CopyEOF
    <2>6. ASSUME NEW d \in Direction, CopyFailed(h, d) PROVE StreamInv'
        BY <2>6 DEF CopyFailed
    <2> QED
        BY <1>2, <2>1, <2>2, <2>3, <2>4, <2>5, <2>6 DEF HandlerStep
<1>3. CASE DeleteConnections \/ CloseAll
    BY <1>1, <1>3 DEF DeleteConnections, CloseAll
<1>4. ASSUME NEW i \in ConnID, CloseTarget(i) PROVE StreamInv'
    BY <1>4 DEF CloseTarget
<1>5. CASE PollLog
    BY <1>1, <1>5 DEF PollLog
<1>6. CASE ClearHistory
    BY <1>1, <1>6 DEF ClearHistory
<1>7. CASE Finished \/ UNCHANGED vars
    BY <1>1, <1>7 DEF Finished, vars
<1> QED
    BY <1>2, <1>3, <1>4, <1>5, <1>6, <1>7 DEF Next

(* What may close the sockets of a handler: a DELETE that selected its     *)
(* connection, a copy that failed, or the end of both.                     *)
MayClose(h) ==
    \/ id[h] \in targets
    \/ \E d \in Direction : copy'[h][d] = "failed"
    \/ \A d \in Direction : copy[h][d] = "eof"

(* No step closes them for another reason.                                 *)
LEMMA CloseReason ==
    ASSUME StreamInv, [Next]_vars, NEW h \in Handler, ~closed[h], closed'[h]
    PROVE  MayClose(h)
<1> USE DEF StreamInv, MayClose, flow
<1>0. closed' # closed
    OBVIOUS
<1>1. ASSUME NEW g \in Handler, HandlerStep(g) PROVE MayClose(h)
    <2>1. CASE Dial(g) \/ Abandon(g) \/ AddDetailed(g)
        BY <1>0, <2>1 DEF Dial, Abandon, AddDetailed
    <2>2. CASE PipeDone(g)
        <3>1. g = h
            BY <2>2 DEF PipeDone
        <3>2. \A d \in Direction : copy[h][d] \in {"eof", "failed"} /\ copy' = copy
            BY <2>2, <3>1 DEF PipeDone
        <3> QED
            BY <3>2
    <2>3. CASE Remove(g)
        BY <2>3 DEF Remove
    <2>4. ASSUME NEW d \in Direction, CopyEOF(g, d) PROVE MayClose(h)
        BY <1>0, <2>4 DEF CopyEOF
    <2>5. ASSUME NEW d \in Direction, CopyFailed(g, d) PROVE MayClose(h)
        <3>1. g = h
            BY <2>5 DEF CopyFailed
        <3>2. copy'[h][d] = "failed"
            BY <2>5, <3>1 DEF CopyFailed
        <3> QED
            BY <3>2
    <2> QED
        BY <1>1, <2>1, <2>2, <2>3, <2>4, <2>5 DEF HandlerStep
<1>2. ASSUME NEW i \in ConnID, CloseTarget(i) PROVE MayClose(h)
    BY <1>2 DEF CloseTarget
<1>3. CASE DeleteConnections \/ CloseAll
    BY <1>0, <1>3 DEF DeleteConnections, CloseAll
<1>4. CASE PollLog
    BY <1>0, <1>4 DEF PollLog
<1>5. CASE ClearHistory
    BY <1>0, <1>5 DEF ClearHistory
<1>6. CASE Finished \/ UNCHANGED vars
    BY <1>0, <1>6 DEF Finished, vars
<1> QED
    BY <1>1, <1>2, <1>3, <1>4, <1>5, <1>6 DEF Next

(* A clean end of one direction never cuts the other one.                  *)
THEOREM HalfOpenSurvivesHolds == Spec => HalfOpenSurvives
<1>1. Init => StreamInv
    BY SMT DEF Init, StreamInv, Quiet, CopyState
<1>2. StreamInv /\ [Next]_vars =>
        [\A h \in Handler : ~closed[h] /\ closed'[h] =>
           \/ id[h] \in targets
           \/ \E d \in Direction : copy'[h][d] = "failed"
           \/ \A d \in Direction : copy[h][d] = "eof"]_vars
    BY CloseReason DEF MayClose
<1> QED
    BY <1>1, <1>2, StreamStep, PTL DEF Spec, HalfOpenSurvives
-----------------------------------------------------------------------------
(* The safety half of DeleteInterrupts and FailureReleases.                *)

(* The copy loops of a handler that are still at work.                     *)
Copying(h) == {d \in Direction : copy[h][d] = "copy"}

(* A handler's sockets and copy loops, by where the handler is; a failed   *)
(* loop has closed the sockets.                                            *)
ShapeInv ==
    \A h \in Handler :
        /\ ~InPipe(h) => ~closed[h] /\ \A d \in Direction : copy[h][d] = "idle"
        /\ pc[h] = "pipe" => \A d \in Direction : copy[h][d] # "idle"
        /\ pc[h] = "remove" => closed[h] /\ Copying(h) = {}
        /\ \A d \in Direction : copy[h][d] = "failed" => closed[h]

(* What a step may do to the connection of handler h.                      *)
Untouched(h) ==
    /\ pc'[h] = pc[h] /\ closed'[h] = closed[h]
    /\ \A d \in Direction : copy'[h][d] = copy[h][d]

(* A closed connection stays closed, and its loops stopped, until Remove.  *)
Unwinds(h) ==
    \/ pc[h] = "remove" /\ pc'[h] = "idle"
    \/ /\ pc[h] = "remove" => pc'[h] = "remove"
       /\ closed'[h] /\ Copying(h)' \subseteq Copying(h)

(* Every step keeps the shape and unwinds what is closed.                  *)
LEMMA ShapeStep ==
    ASSUME RowInv, StreamInv, ShapeInv, [Next]_vars
    PROVE  ShapeInv' /\ \A h \in Handler : closed[h] => Unwinds(h)
<1> DEFINE Keeps(h) ==
             /\ ~InPipe(h)' => ~closed'[h] /\ \A d \in Direction : copy'[h][d] = "idle"
             /\ pc'[h] = "pipe" => \A d \in Direction : copy'[h][d] # "idle"
             /\ pc'[h] = "remove" => closed'[h] /\ Copying(h)' = {}
             /\ \A d \in Direction : copy'[h][d] = "failed" => closed'[h]
             /\ closed[h] => Unwinds(h)
<1>0. ASSUME \A h \in Handler : Keeps(h)
      PROVE  ShapeInv' /\ \A h \in Handler : closed[h] => Unwinds(h)
    BY <1>0 DEF ShapeInv
<1>1. ASSUME NEW h \in Handler, Untouched(h) PROVE Keeps(h)
    BY <1>1 DEF ShapeInv, Untouched, Unwinds, Copying, InPipe
<1>2. ASSUME NEW h \in Handler, HandlerStep(h), NEW g \in Handler, g # h
      PROVE  Untouched(g)
    BY <1>2 DEF HandlerStep, Dial, Abandon, AddDetailed, PipeDone, Remove,
                CopyEOF, CopyFailed, RowInv, StreamInv, Untouched
<1>3. ASSUME NEW h \in Handler, HandlerStep(h) PROVE Keeps(h)
    <2>1. CASE Dial(h) \/ Abandon(h)
        <3>1. /\ ~InPipe(h) /\ pc'[h] \in {"idle", "dial"}
              /\ copy' = copy /\ closed' = closed
            BY <2>1 DEF Dial, Abandon, RowInv, InPipe
        <3>2. ~closed[h] /\ \A d \in Direction : copy[h][d] = "idle"
            BY <3>1 DEF ShapeInv
        <3> QED
            BY <3>1, <3>2 DEF InPipe
    <2>2. CASE AddDetailed(h)
        BY <2>2 DEF AddDetailed, ShapeInv, RowInv, StreamInv, InPipe
    <2>3. CASE PipeDone(h)
        BY <2>3 DEF PipeDone, ShapeInv, RowInv, StreamInv, InPipe, Copying, Unwinds
    <2>4. CASE Remove(h)
        BY <2>4 DEF Remove, ShapeInv, RowInv, StreamInv, InPipe, Quiet, Unwinds
    <2>5. ASSUME NEW d \in Direction, CopyEOF(h, d) \/ CopyFailed(h, d) PROVE Keeps(h)
        <3>0. copy[h][d] = "copy" /\ pc' = pc
            BY <2>5 DEF CopyEOF, CopyFailed
        <3>1. pc[h] = "pipe"
            <4>1. InPipe(h)
                BY <3>0 DEF ShapeInv
            <4>2. pc[h] # "remove"
                BY <3>0 DEF ShapeInv, Copying
            <4> QED
                BY <4>1, <4>2 DEF InPipe
        <3>2. /\ copy'[h][d] \in {"eof", "failed"}
              /\ \A e \in Direction : e # d => copy'[h][e] = copy[h][e]
              /\ closed[h] => closed'[h]
              /\ copy'[h][d] = "failed" => closed'[h]
            <4>1. CASE CopyEOF(h, d)
                BY <4>1, SMT DEF CopyEOF, StreamInv
            <4>2. CASE CopyFailed(h, d)
                BY <4>2, SMT DEF CopyFailed, StreamInv
            <4> QED
                BY <2>5, <4>1, <4>2
        <3> QED
            BY <3>0, <3>1, <3>2 DEF ShapeInv, InPipe, Copying, Unwinds
    <2> QED
        BY <1>3, <2>1, <2>2, <2>3, <2>4, <2>5 DEF HandlerStep
<1>4. ASSUME NEW h \in Handler, HandlerStep(h), NEW g \in Handler PROVE Keeps(g)
    BY <1>1, <1>2, <1>3, <1>4
<1>5. ASSUME NEW i \in ConnID, CloseTarget(i), NEW h \in Handler PROVE Keeps(h)
    <2>1. /\ pc' = pc /\ copy' = copy
          /\ closed'[h] <=> (closed[h] \/ id[h] = i)
        BY <1>5 DEF CloseTarget, StreamInv
    <2>2. i # 0
        BY ConnectionsAssumption, SMT DEF ConnID
    <2>3. ~InPipe(h) => ~closed'[h]
        BY <2>1, <2>2 DEF RowInv, ShapeInv
    <2> QED
        BY <2>1, <2>3 DEF ShapeInv, InPipe, Copying, Unwinds
<1>6. ASSUME UNCHANGED flow, NEW h \in Handler PROVE Keeps(h)
    BY <1>1, <1>6 DEF flow, Untouched
<1>7. \/ \E h \in Handler : HandlerStep(h)
      \/ \E i \in ConnID : CloseTarget(i)
      \/ UNCHANGED flow
    BY DEF Next, DeleteConnections, CloseAll, PollLog, ClearHistory,
           Finished, vars
<1> HIDE DEF Keeps
<1> QED
    BY <1>0, <1>4, <1>5, <1>6, <1>7

(* What a DELETE has selected and a failed copy loop leave to fairness is  *)
(* only that enabled steps are taken.  The sockets of a failed connection  *)
(* are closed; a closed connection's handler has a loop to wait for, which *)
(* the closed sockets end, or can go on to Remove; and no step reopens it, *)
(* restarts a loop or takes its handler back.  An ID that leaves the       *)
(* targets of a DELETE names no open connection.                           *)
THEOREM ClosedIsReleased ==
    Spec => /\ [](\A h \in Handler :
                    /\ (\E d \in Direction : copy[h][d] = "failed") => closed[h]
                    /\ closed[h] =>
                         \/ pc[h] = "remove"
                         \/ pc[h] = "pipe" /\ Copying(h) # {}
                         \/ /\ pc[h] = "pipe"
                            /\ \A d \in Direction : copy[h][d] \in {"eof", "failed"})
            /\ [][\A h \in Handler :
                    /\ closed[h] => Unwinds(h)
                    /\ id[h] \in targets \ targets' => closed'[h]]_vars
<1> DEFINE Released(h) ==
             /\ (\E d \in Direction : copy[h][d] = "failed") => closed[h]
             /\ closed[h] =>
                  \/ pc[h] = "remove"
                  \/ pc[h] = "pipe" /\ Copying(h) # {}
                  \/ /\ pc[h] = "pipe"
                     /\ \A d \in Direction : copy[h][d] \in {"eof", "failed"}
           Step(h) ==
             /\ closed[h] => Unwinds(h)
             /\ id[h] \in targets \ targets' => closed'[h]
<1>1. Init => StreamInv /\ ShapeInv
    <2> SUFFICES ASSUME Init PROVE StreamInv /\ ShapeInv
        OBVIOUS
    <2>1. StreamInv
        BY SMT DEF Init, StreamInv, Quiet, CopyState
    <2>2. \A h \in Handler : /\ pc[h] = "idle" /\ ~closed[h]
                             /\ \A d \in Direction : copy[h][d] = "idle"
        BY DEF Init, Quiet
    <2> QED
        BY <2>1, <2>2 DEF ShapeInv, InPipe
<1>2. ASSUME RowInv, StreamInv, ShapeInv, NEW h \in Handler PROVE Released(h)
    <2>1. pc[h] \in {"idle", "dial", "pipe", "remove"} /\ copy[h] \in [Direction -> CopyState]
        BY <1>2 DEF RowInv, StreamInv
    <2> QED
        BY <1>2, <2>1 DEF ShapeInv, InPipe, Copying, CopyState
<1>3. ASSUME StreamInv, [Next]_vars, NEW h \in Handler,
             id[h] \in targets \ targets'
      PROVE  closed'[h]
    <2>1. PICK i \in ConnID : CloseTarget(i)
        BY <1>3 DEF Next, HandlerStep, Dial, Abandon, AddDetailed, PipeDone, Remove,
                    CopyEOF, CopyFailed, DeleteConnections, CloseAll,
                    PollLog, ClearHistory, Finished, vars, controls
    <2>2. id[h] = i
        BY <1>3, <2>1 DEF CloseTarget
    <2> QED
        BY <1>3, <2>1, <2>2 DEF CloseTarget
<1>4. RowInv /\ StreamInv /\ ShapeInv => \A h \in Handler : Released(h)
    BY <1>2
<1>5. RowInv /\ StreamInv /\ ShapeInv /\ [Next]_vars =>
        ShapeInv' /\ [\A h \in Handler : Step(h)]_vars
    BY <1>3, ShapeStep
<1> QED
    BY <1>1, <1>4, <1>5, StreamStep, Invariance, PTL DEF Spec

-----------------------------------------------------------------------------
(* The write halves: a handler outside pipe has shut none.                 *)
ShutInv ==
    /\ shut \in [Handler -> SUBSET Side]
    /\ \A h \in Handler :
           /\ ~InPipe(h) => shut[h] = {}
           /\ \A d \in Direction : copy[h][d] = "copy" => Sink(d) \notin shut[h]

(* What is known of the write halves of one handler.                       *)
Whole(h) ==
    /\ ~InPipe(h) => shut[h] = {}
    /\ \A d \in Direction : copy[h][d] = "copy" => Sink(d) \notin shut[h]

(* Every step keeps the write half of a running loop open.                 *)
LEMMA ShutStep ==
    ASSUME RowInv, StreamInv, ShapeInv, ShutInv, [Next]_vars PROVE ShutInv'
<1>0. ASSUME shut' \in [Handler -> SUBSET Side], \A h \in Handler : Whole(h)' PROVE ShutInv'
    BY <1>0 DEF ShutInv, Whole
<1>1. ASSUME UNCHANGED <<pc, copy, shut>> PROVE ShutInv'
    BY <1>1 DEF ShutInv, InPipe
<1>2. ASSUME NEW h \in Handler, HandlerStep(h) PROVE ShutInv'
    <2>1. ASSUME NEW g \in Handler, g # h PROVE shut'[g] = shut[g] /\ Untouched(g)
        BY <1>2, <2>1 DEF HandlerStep, Dial, Abandon, AddDetailed, PipeDone, Remove,
              CopyEOF, CopyFailed, closeWrite, RowInv, StreamInv, ShutInv, Untouched
    <2>2. \A g \in Handler : g # h => Whole(g)'
        BY <2>1 DEF Untouched, Whole, ShutInv, InPipe
    <2>3. ASSUME shut' \in [Handler -> SUBSET Side], Whole(h)' PROVE ShutInv'
        BY <1>0, <2>2, <2>3
    <2>4. CASE Dial(h) \/ Abandon(h)
        <3>1. ~InPipe(h) /\ shut' = shut /\ copy' = copy
            BY <2>4 DEF Dial, Abandon, InPipe
        <3> QED
            BY <2>3, <3>1 DEF Whole, ShutInv
    <2>5. CASE AddDetailed(h)
        <3>1. shut' = shut /\ shut[h] = {}
            BY <2>5 DEF AddDetailed, ShutInv, InPipe
        <3> QED
            BY <2>3, <3>1 DEF Whole, ShutInv
    <2>6. CASE PipeDone(h)
        <3>1. InPipe(h)' /\ shut' = shut /\ copy' = copy
            BY <2>6 DEF PipeDone, InPipe, RowInv
        <3> QED
            BY <2>3, <3>1 DEF Whole, ShutInv
    <2>7. CASE Remove(h)
        <3>1. shut' \in [Handler -> SUBSET Side] /\ shut'[h] = {}
            BY <2>7 DEF Remove, ShutInv
        <3> QED
            BY <2>3, <3>1 DEF Whole
    <2>8. ASSUME NEW d \in Direction, CopyEOF(h, d) \/ CopyFailed(h, d) PROVE ShutInv'
        <3>1. /\ copy[h][d] = "copy" /\ pc' = pc /\ closeWrite(h, Sink(d))
              /\ copy'[h][d] # "copy"
              /\ \A e \in Direction : e # d => copy'[h][e] = copy[h][e]
            <4>1. CASE CopyEOF(h, d)
                BY <4>1, SMT DEF CopyEOF, StreamInv
            <4>2. CASE CopyFailed(h, d)
                BY <4>2, SMT DEF CopyFailed, StreamInv
            <4> QED
                BY <2>8, <4>1, <4>2
        <3>2. /\ Sink(d) \in Side
              /\ \A e \in Direction : e # d => Sink(e) # Sink(d)
            BY DEF Sink, Side, Direction
        <3>3. shut' \in [Handler -> SUBSET Side] /\ shut'[h] \subseteq shut[h] \cup {Sink(d)}
            BY <3>1, <3>2 DEF closeWrite, ShutInv
        <3>4. InPipe(h)'
            BY <3>1 DEF ShapeInv, InPipe
        <3> QED
            BY <2>3, <3>1, <3>2, <3>3, <3>4 DEF Whole, ShutInv
    <2> QED
        BY <1>2, <2>4, <2>5, <2>6, <2>7, <2>8 DEF HandlerStep
<1>3. ASSUME NEW i \in ConnID, CloseTarget(i) PROVE ShutInv'
    BY <1>1, <1>3 DEF CloseTarget
<1>4. CASE UNCHANGED flow
    BY <1>1, <1>4 DEF flow
<1> QED
    BY <1>2, <1>3, <1>4 DEF Next, DeleteConnections, CloseAll, PollLog, ClearHistory,
                            Finished, vars

(* A half-close never truncates the other direction, whatever the types of *)
(* the clients' connections.                                               *)
THEOREM NoTruncationHolds == Spec => []NoTruncation
<1>1. Init => StreamInv /\ ShapeInv /\ ShutInv
    <2> SUFFICES ASSUME Init PROVE StreamInv /\ ShapeInv /\ ShutInv
        OBVIOUS
    <2>1. StreamInv
        BY SMT DEF Init, StreamInv, Quiet, CopyState
    <2>2. /\ \A h \in Handler : /\ pc[h] = "idle" /\ ~closed[h] /\ shut[h] = {}
                                /\ \A d \in Direction : copy[h][d] = "idle"
          /\ shut \in [Handler -> SUBSET Side]
        BY DEF Init, Quiet
    <2> QED
        BY <2>1, <2>2 DEF ShapeInv, ShutInv, InPipe
<1>2. RowInv /\ StreamInv /\ ShapeInv /\ ShutInv /\ [Next]_vars => ShapeInv' /\ ShutInv'
    BY ShapeStep, ShutStep
<1>3. ShutInv => NoTruncation
    BY DEF ShutInv, NoTruncation, Sink, Direction
<1> QED
    BY <1>1, <1>2, <1>3, StreamStep, Invariance, PTL DEF Spec

-----------------------------------------------------------------------------
(* The types.                                                              *)

(* Every step keeps the types of the control plane and of the handlers'    *)
(* connections.                                                            *)
LEMMA ControlStep == ControlInv /\ [Next]_vars => ControlInv'
<1> SUFFICES ASSUME ControlInv, [Next]_vars PROVE ControlInv'
    OBVIOUS
<1> DEFINE Held == <<deletes, spawned, client, shut>>
<1>0. MaxDeletes \in Nat /\ MaxPolls \in Nat
    BY ConnectionsAssumption
<1> USE DEF ControlInv
<1>1. ASSUME UNCHANGED Held, polls' = polls PROVE ControlInv'
    BY <1>1
<1> USE DEF controls, log, flow
<1>2. ASSUME NEW h \in Handler, HandlerStep(h) PROVE ControlInv'
    <2>0. UNCHANGED <<deletes, spawned, polls>>
        BY <1>2 DEF HandlerStep, Dial, Abandon, AddDetailed, PipeDone, Remove, CopyEOF, CopyFailed
    <2>1. CASE Dial(h)
        BY <2>0, <2>1 DEF Dial
    <2>2. CASE Abandon(h)
        BY <1>0, <2>0, <2>2 DEF Abandon
    <2>3. CASE AddDetailed(h) \/ PipeDone(h)
        BY <1>1, <2>3 DEF AddDetailed, PipeDone
    <2>4. CASE Remove(h)
        BY <1>0, <2>0, <2>4 DEF Remove
    <2>5. ASSUME NEW d \in Direction, CopyEOF(h, d) \/ CopyFailed(h, d) PROVE ControlInv'
        <3>1. client' = client /\ closeWrite(h, Sink(d))
            BY <2>5 DEF CopyEOF, CopyFailed
        <3>2. Sink(d) \in Side
            BY DEF Sink, Side
        <3>3. shut' \in [Handler -> SUBSET Side]
            BY <3>1, <3>2 DEF closeWrite
        <3> QED
            BY <2>0, <3>1, <3>3
    <2> QED
        BY <1>2, <2>1, <2>2, <2>3, <2>4, <2>5 DEF HandlerStep
<1>4. CASE DeleteConnections
    <2>1. deletes' \in 0..MaxDeletes /\ spawned' \in 0..deletes'
        BY <1>0, <1>4, SMT DEF DeleteConnections
    <2> QED
        BY <1>4, <2>1 DEF DeleteConnections
<1>5. CASE CloseAll
    <2>1. spawned' \in 0..deletes'
        BY <1>0, <1>5, SMT DEF CloseAll
    <2> QED
        BY <1>5, <2>1 DEF CloseAll
<1>6. ASSUME NEW i \in ConnID, CloseTarget(i) PROVE ControlInv'
    BY <1>1, <1>6 DEF CloseTarget
<1>7. CASE PollLog \/ ClearHistory
    <2>1. polls' \in 0..MaxPolls
        BY <1>0, <1>7, SMT DEF PollLog, ClearHistory
    <2> QED
        BY <1>7, <2>1 DEF PollLog, ClearHistory
<1>8. CASE Finished \/ UNCHANGED vars
    BY <1>1, <1>8 DEF Finished, vars
<1> QED
    BY <1>2, <1>4, <1>5, <1>6, <1>7, <1>8 DEF Next

(* Every variable stays in its range.  The bound on the event counter      *)
(* needs the counts (a registered row has one event and a closed one two), *)
(* and that on the IDs needs that a dial under way has one reserved.       *)
THEOREM TypeOKHolds == Spec => []TypeOK
<1>1. Init => StreamInv /\ ControlInv
    <2> SUFFICES ASSUME Init PROVE StreamInv /\ ControlInv
        OBVIOUS
    <2>1. StreamInv
        BY SMT DEF Init, StreamInv, Quiet, CopyState
    <2>2. (CHOOSE t \in ClientConn : TRUE) \in ClientConn
        BY ConnectionsAssumption
    <2>3. client \in [Handler -> ClientConn] /\ shut \in [Handler -> SUBSET Side]
        BY <2>2, ConnectionsAssumption DEF Init
    <2>4. deletes \in 0..MaxDeletes /\ spawned \in 0..deletes
          /\ polls \in 0..MaxPolls
        BY ConnectionsAssumption, SMT DEF Init
    <2> QED
        BY <2>1, <2>3, <2>4 DEF Init, ControlInv
<1>2. IInv => TypeOK
    <2> SUFFICES ASSUME IInv PROVE TypeOK
        OBVIOUS
    <2> USE DEF IInv
    <2>1. items \subseteq 1..next
        BY RowsNumbered
    <2>2. next \in 0..MaxConns /\ revision \in 0..2*MaxConns
        <3>1. /\ next \in Nat /\ MaxConns \in Nat /\ next <= MaxConns
              /\ revision \in Nat /\ revision + Cardinality(Piping) = 2 * next
              /\ Cardinality(Piping) \in Nat
            BY EventFacts, FS_CardinalityType DEF CountInv
        <3> QED
            BY <3>1, SMT
    <2>3. history \in Seq(ConnID)
        <3>1. /\ \A k \in 1..Len(history) : history[k] \in ConnID
              /\ Len(history) \in Nat /\ history = [k \in 1..Len(history) |-> history[k]]
            <4>1. history \in Seq(1..next) /\ next \in Nat
                BY DEF EventInv, RowInv
            <4>2. /\ DOMAIN history = 1..Len(history) /\ Len(history) \in Nat
                  /\ Range(history) \subseteq ConnID
                BY EventFacts
            <4> QED
                BY <4>1, <4>2, SMT DEF Range
        <3> QED
            BY <3>1, SMT
    <2>4. spawned \in 0..MaxDeletes
        BY ConnectionsAssumption, SMT DEF ControlInv
    <2> QED
        BY <2>1, <2>2, <2>3, <2>4 DEF TypeOK, RowInv, StreamInv, EventInv, ControlInv
<1>3. IInv /\ [Next]_vars => IInv'
    BY RowStep, StreamStep, CountStep, EventStep, ControlStep DEF IInv
<1> QED
    BY <1>1, <1>2, <1>3, EventInit, PTL DEF Spec, IInv
=============================================================================
