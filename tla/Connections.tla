---------------------------- MODULE Connections ----------------------------
(***************************************************************************)
(* Stream connections, their registry and the control plane's DELETE.      *)
(*                                                                         *)
(* An inbound handler (SOCKS5, HTTP CONNECT or TUN TCP) dials its target,  *)
(* registers the pair of sockets in telemetry.Connections and pumps bytes  *)
(* with two io.Copy goroutines (route/router.go).  On DELETE /connections  *)
(* the controller closes in the background every connection registered     *)
(* when the background goroutine takes the registry's lock                 *)
(* (api/controller.go).  The desktop's connection log polls the registry   *)
(* with an event cursor.                                                   *)
(*                                                                         *)
(* Bytes are not modelled: what matters of a stream is which copy loops    *)
(* run and whether the sockets have been closed.  The peers are free: they *)
(* may end or break a stream at any time, and may also do nothing.  Which  *)
(* node a stream is dialed through makes no difference here: DELETE closes *)
(* the streams of every node (the selector is in DnsExchange).             *)
(***************************************************************************)
EXTENDS Integers, Sequences, FiniteSets, Functions

CONSTANTS
    Handler,      \* inbound goroutines, each serving one client at a time
    ClientConn,   \* dynamic types of the client side handed to Pipe
    HistoryCap,   \* closed rows the registry keeps (1000)
    Limit,        \* the rows the connection log asks for (the desktop: 250)
    MaxConns,     \* bound: connections registered
    MaxDeletes,   \* bound: DELETE /connections
    MaxPolls      \* bound: GET and DELETE /connection-log

ASSUME ConnectionsAssumption ==
    /\ HistoryCap \in Nat \ {0}
    /\ Limit \in 1..HistoryCap
    /\ {MaxConns, MaxDeletes, MaxPolls} \subseteq Nat
    /\ ClientConn \subseteq {"bufferedConn", "sniffedConn", "tunConn"}
    /\ ClientConn # {}

VARIABLES
    items,      \* Connections.items: the registered IDs
    history,    \* Connections.history: closed IDs, oldest first
    revision,   \* Connections.revision, the event counter
    rev,        \* Connection.Revision of every ID
    next,       \* Connections.next
    spawned,    \* CloseAll goroutines that have not taken the lock yet
    targets,    \* snapshot entries CloseAll has still to close
    deletes, polls,
    cursor,     \* the connection log's event cursor
    reported,   \* IDs whose closed row the log has received
    pc,         \* where each handler is
    id,         \* its registry ID
    client,     \* type of its client connection
    copy,       \* the two copy goroutines
    closed,     \* the connection's closer has run
    shut        \* the sides whose write half closeWrite has shut

registry == <<items, history, revision, rev, next>>
controls == <<spawned, targets, deletes>>
log == <<cursor, reported, polls>>
flow == <<pc, id, client, copy, closed, shut>>
vars == <<registry, controls, log, flow>>

ConnID == 1..MaxConns
Direction == {"up", "down"}
Side == {"client", "upstream"}
CopyState == {"idle", "copy", "eof", "failed"}

(* The side a copy loop writes to.                                         *)
Sink_Source(d) == IF d = "up" THEN "client" ELSE "upstream"

Sink(d) == IF d = "up" THEN "upstream" ELSE "client"

Quiet == [d \in Direction |-> "idle"]

Init ==
    /\ items = {} /\ history = <<>> /\ revision = 0 /\ next = 0
    /\ rev = [i \in ConnID |-> 0]
    /\ spawned = 0 /\ targets = {} /\ deletes = 0 /\ polls = 0
    /\ cursor = 0 /\ reported = {}
    /\ pc = [h \in Handler |-> "idle"]
    /\ id = [h \in Handler |-> 0]
    /\ client \in [Handler -> {CHOOSE t \in ClientConn : TRUE}]
    /\ copy = [h \in Handler |-> Quiet]
    /\ closed = [h \in Handler |-> FALSE]
    /\ shut = [h \in Handler |-> {}]

-----------------------------------------------------------------------------
(* The handler.                                                            *)

(* dialRouted routes and dials the target; the connection is registered    *)
(* only when the dial and the handler's answer to its client are done.     *)
Dial(h) ==
    /\ pc[h] = "idle"
    /\ next + Cardinality({g \in Handler : pc[g] = "dial"}) < MaxConns
    /\ \E t \in ClientConn : client' = [client EXCEPT ![h] = t]
    /\ pc' = [pc EXCEPT ![h] = "dial"]
    /\ UNCHANGED <<registry, controls, log, id, copy, closed, shut>>

(* The dial failed, or the handler could not answer its client: both ends  *)
(* are closed by the handler's own deferred calls, nothing was registered. *)
Abandon(h) ==
    /\ pc[h] = "dial"
    /\ pc' = [pc EXCEPT ![h] = "idle"]
    /\ UNCHANGED <<registry, controls, log, id, client, copy, closed, shut>>

(* The dial succeeded: pipe registers the connection (AddDetailed) and     *)
(* starts the two copy goroutines.                                         *)
AddDetailed(h) ==
    /\ pc[h] = "dial"
    /\ next' = next + 1
    /\ revision' = revision + 1
    /\ rev' = [rev EXCEPT ![next + 1] = revision + 1]
    /\ items' = items \cup {next + 1}
    /\ id' = [id EXCEPT ![h] = next + 1]
    /\ pc' = [pc EXCEPT ![h] = "pipe"]
    /\ copy' = [copy EXCEPT ![h] = [d \in Direction |-> "copy"]]
    /\ UNCHANGED <<history, controls, log, client, closed, shut>>

(* The dynamic types with a CloseWrite method.  bufferedConn, sniffedConn  *)
(* and routedConnection embed the net.Conn interface, which has none.      *)
HalfClosers == {"tunConn"}

ConnType(h, s) == IF s = "client" THEN client[h] ELSE "routedConnection"

(* closeWrite: a no-op on a connection that cannot half-close.             *)
closeWrite(h, s) ==
    shut' = [shut EXCEPT ![h] =
                IF ConnType(h, s) \in HalfClosers THEN @ \cup {s} ELSE @]

(* io.Copy returned nil: its source ended the stream cleanly.              *)
CopyEOF_ClosesBoth(h, d) ==
    /\ copy[h][d] = "copy" /\ ~closed[h]
    /\ copy' = [copy EXCEPT ![h][d] = "eof"]
    /\ closed' = [closed EXCEPT ![h] = TRUE]
    /\ closeWrite(h, Sink(d))
    /\ UNCHANGED <<registry, controls, log, pc, id, client>>

CopyEOF(h, d) ==
    /\ copy[h][d] = "copy" /\ ~closed[h]
    /\ copy' = [copy EXCEPT ![h][d] = "eof"]
    /\ closeWrite(h, Sink(d))
    /\ UNCHANGED <<registry, controls, log, pc, id, client, closed>>

(* io.Copy returned an error: the read or the write failed because a peer  *)
(* reset its connection or the sockets were closed.  conn.Close() closes   *)
(* both sockets and so unblocks the other direction.                       *)
CopyFailed_Ignored(h, d) ==
    /\ copy[h][d] = "copy"
    /\ copy' = [copy EXCEPT ![h][d] = "failed"]
    /\ closeWrite(h, Sink(d))
    /\ UNCHANGED <<registry, controls, log, pc, id, client, closed>>

CopyFailed(h, d) ==
    /\ copy[h][d] = "copy"
    /\ copy' = [copy EXCEPT ![h][d] = "failed"]
    /\ closed' = [closed EXCEPT ![h] = TRUE]
    /\ closeWrite(h, Sink(d))
    /\ UNCHANGED <<registry, controls, log, pc, id, client>>

(* pipe has received from done twice and closes the connection.            *)
PipeDone(h) ==
    /\ pc[h] = "pipe"
    /\ \A d \in Direction : copy[h][d] \in {"eof", "failed"}
    /\ pc' = [pc EXCEPT ![h] = "remove"]
    /\ closed' = [closed EXCEPT ![h] = TRUE]
    /\ UNCHANGED <<registry, controls, log, id, client, copy, shut>>

(* The newest n entries of a history.                                      *)
Newest(s, n) == SubSeq(s, IF Len(s) > n THEN Len(s) - n + 1 ELSE 1, Len(s))

(* pipe's deferred Remove: the row moves to the history under a revision   *)
(* of its own.  The handler is then free for another client.               *)
Remove_KeepsRevision(h) ==
    /\ pc[h] = "remove"
    /\ items' = items \ {id[h]}
    /\ history' = Newest(Append(history, id[h]), HistoryCap)
    /\ revision' = revision + 1
    /\ pc' = [pc EXCEPT ![h] = "idle"]
    /\ id' = [id EXCEPT ![h] = 0]
    /\ copy' = [copy EXCEPT ![h] = Quiet]
    /\ closed' = [closed EXCEPT ![h] = FALSE]
    /\ shut' = [shut EXCEPT ![h] = {}]
    /\ UNCHANGED <<rev, next, controls, log, client>>

Remove(h) ==
    /\ pc[h] = "remove"
    /\ items' = items \ {id[h]}
    /\ revision' = revision + 1
    /\ rev' = [rev EXCEPT ![id[h]] = revision + 1]
    /\ history' = Newest(Append(history, id[h]), HistoryCap)
    /\ pc' = [pc EXCEPT ![h] = "idle"]
    /\ id' = [id EXCEPT ![h] = 0]
    /\ copy' = [copy EXCEPT ![h] = Quiet]
    /\ closed' = [closed EXCEPT ![h] = FALSE]
    /\ shut' = [shut EXCEPT ![h] = {}]
    /\ UNCHANGED <<next, controls, log, client>>

-----------------------------------------------------------------------------
(* The control plane.                                                      *)

(* DELETE /connections answers at once and leaves CloseAll to a goroutine. *)
DeleteConnections ==
    /\ deletes < MaxDeletes
    /\ deletes' = deletes + 1
    /\ spawned' = spawned + 1
    /\ UNCHANGED <<registry, targets, log, flow>>

(* CloseAll snapshots the registry under its lock.                         *)
CloseAll_ClearsList ==
    /\ spawned > 0
    /\ spawned' = spawned - 1
    /\ items' = {}
    /\ UNCHANGED <<history, revision, rev, next, targets, deletes, log, flow>>

CloseAll ==
    /\ spawned > 0
    /\ spawned' = spawned - 1
    /\ targets' = targets \cup items
    /\ UNCHANGED <<registry, deletes, log, flow>>

(* ... and then calls the closer of each entry, which runs once.           *)
CloseTarget_Skips(i) ==
    /\ i \in targets
    /\ targets' = targets \ {i}
    /\ UNCHANGED <<registry, spawned, deletes, log, flow>>

CloseTarget(i) ==
    /\ i \in targets
    /\ targets' = targets \ {i}
    /\ closed' = [h \in Handler |-> closed[h] \/ id[h] = i]
    /\ UNCHANGED <<registry, spawned, deletes, log, pc, id, client, copy, shut>>

-----------------------------------------------------------------------------
(* The connection log.                                                     *)

(* HistorySnapshotSince: walking back from the newest row, the first limit *)
(* closed rows whose revision is past the cursor.                          *)
ClosedSince(after, limit) ==
    LET past == {k \in DOMAIN history : rev[history[k]] > after}
    IN  {history[k] : k \in {j \in past :
                                Cardinality({i \in past : i > j}) < limit}}

(* GET /connection-log?after=cursor&limit=Limit.                           *)
PollLog ==
    /\ polls < MaxPolls
    /\ polls' = polls + 1
    /\ cursor' = revision
    /\ reported' = reported \cup ClosedSince(cursor, Limit)
    /\ UNCHANGED <<registry, controls, flow>>

(* DELETE /connection-log.                                                 *)
ClearHistory ==
    /\ polls < MaxPolls /\ history # <<>>
    /\ polls' = polls + 1
    /\ history' = <<>>
    /\ UNCHANGED <<items, revision, rev, next, controls, cursor, reported, flow>>

-----------------------------------------------------------------------------
Finished ==
    /\ \A h \in Handler : pc[h] = "idle"
    /\ next = MaxConns
    /\ UNCHANGED vars

HandlerStep(h) ==
    \/ Dial(h) \/ Abandon(h) \/ AddDetailed(h)
    \/ PipeDone(h) \/ Remove(h)
    \/ \E d \in Direction : CopyEOF(h, d) \/ CopyFailed(h, d)

Next ==
    \/ \E h \in Handler : HandlerStep(h)
    \/ DeleteConnections \/ CloseAll
    \/ \E i \in ConnID : CloseTarget(i)
    \/ PollLog \/ ClearHistory
    \/ Finished

Spec == Init /\ [][Next]_vars

(* A copy loop over closed sockets returns, pipe continues when both loops *)
(* have returned, and the background goroutine of a DELETE runs.  Nothing  *)
(* is assumed of the peers, of a dial or of a copy loop whose sockets are  *)
(* open: it may be blocked in a write for ever.                            *)
FairSpec ==
    /\ Spec
    /\ \A h \in Handler :
           /\ WF_vars(closed[h] /\ \E d \in Direction : CopyFailed(h, d))
           /\ WF_vars(PipeDone(h) \/ Remove(h))
    /\ WF_vars(CloseAll)
    /\ WF_vars(\E i \in ConnID : CloseTarget(i))

-----------------------------------------------------------------------------
(* Properties.                                                             *)

(* Every variable is in its range: IDs are fresh, revisions and the cursor *)
(* never pass the registry's event counter, the history never outgrows its *)
(* cap (telemetry/traffic.go).                                             *)
TypeOK ==
    /\ items \subseteq 1..next /\ targets \subseteq 1..next
    /\ next \in 0..MaxConns /\ revision \in 0..2*MaxConns
    /\ rev \in [ConnID -> 0..revision]
    /\ history \in Seq(ConnID) /\ Len(history) <= HistoryCap
    /\ cursor \in 0..revision /\ reported \subseteq 1..next
    /\ spawned \in 0..MaxDeletes /\ deletes \in 0..MaxDeletes
    /\ polls \in 0..MaxPolls
    /\ pc \in [Handler -> {"idle", "dial", "pipe", "remove"}]
    /\ id \in [Handler -> 0..next] /\ client \in [Handler -> ClientConn]
    /\ copy \in [Handler -> [Direction -> CopyState]]
    /\ closed \in [Handler -> BOOLEAN] /\ shut \in [Handler -> SUBSET Side]

(* The registry holds exactly the connections whose handler is in pipe, so *)
(* that DELETE /connections can reach every stream that carries traffic    *)
(* and no row outlives its handler (pipe's AddDetailed and deferred        *)
(* Remove; CloseAll closes sockets and leaves the rows to their handlers). *)
RegistryExact ==
    items = {id[h] : h \in {g \in Handler : pc[g] \in {"pipe", "remove"}}}

(* The rows waiting for the log: closed after its cursor.                  *)
Waiting == {k \in DOMAIN history : rev[history[k]] > cursor}

(* The closed rows the log will not be given any more: its cursor has      *)
(* passed them, so that no poll returns them.                              *)
Missed == {i \in Range(history) : rev[i] <= cursor /\ i \notin reported}

(* The only way to miss a closed row is a poll that finds more of them     *)
(* waiting than it asks for: a row closed between two polls, cleared       *)
(* histories and a full history all leave the others within the reader's   *)
(* reach (the revision Remove gives a row, HistorySnapshotSince's cursor). *)
LostOnlyToLimit ==
    [][\/ Missed' \subseteq Missed
       \/ cursor' > cursor /\ Cardinality(Waiting) > Limit]_vars

(* The connection log is complete: a closed row that its cursor has passed *)
(* has been reported to it.  The desktop asks for 250 of the 1000 rows the *)
(* registry keeps, and the cursor HistorySnapshotSince returns passes the  *)
(* rows beyond the limit too.                                              *)
LogComplete == Missed = {}

(* A clean end of one direction never cuts the other one: the sockets are  *)
(* closed only because a copy failed, because both have finished, or       *)
(* because a DELETE selected the connection (the two goroutines of pipe).  *)
HalfOpenSurvives ==
    [][\A h \in Handler : ~closed[h] /\ closed'[h] =>
           \/ id[h] \in targets
           \/ \E d \in Direction : copy'[h][d] = "failed"
           \/ \A d \in Direction : copy[h][d] = "eof"]_vars

(* DELETE /connections interrupts every stream it found: its sockets are   *)
(* closed, both copy loops return and the row leaves the registry.         *)
DeleteInterrupts ==
    \A i \in ConnID : i \in targets ~> i \notin items

(* A failed direction takes the whole connection down: the other copy loop *)
(* cannot keep the handler, its sockets and its row alive for ever.        *)
FailureReleases ==
    \A h \in Handler :
        (\E d \in Direction : copy[h][d] = "failed") ~> pc[h] = "idle"

(* The write half of a connection is shut only when the loop that writes   *)
(* to it has ended: a half-close after one direction's end of data never   *)
(* truncates the other (the sides closeWrite is called with in pipe).      *)
NoTruncation ==
    \A h \in Handler :
        /\ copy[h]["up"] = "copy" => "upstream" \notin shut[h]
        /\ copy[h]["down"] = "copy" => "client" \notin shut[h]
=============================================================================
