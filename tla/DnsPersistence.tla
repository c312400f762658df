--------------------------- MODULE DnsPersistence ---------------------------
(***************************************************************************)
(* The DNS cache on disk (route/dns_persistence.go): loaded when the       *)
(* router is built, saved by a goroutine every five seconds when the cache *)
(* in memory has changed, and a last time when the router is closed.       *)
(*                                                                         *)
(* The contents of the cache are numbered by the answers stored in it.     *)
(***************************************************************************)
EXTENDS Integers

CONSTANT MaxStores   \* bound on the answers stored

ASSUME StoresAssumption == MaxStores \in Nat

VARIABLES
    stores,   \* answers stored so far, in all runs of the core
    mem,      \* the contents of the cache in memory
    dirty,    \* dnsPersistDirty
    writer,   \* where the goroutine is
    final,    \* it was the stop channel that woke it
    snap,     \* the contents it is writing
    file,     \* the contents of the cache file
    stop,     \* the stop channel is closed
    atStop,   \* what memory held then (history variable)
    failed    \* the last save failed (history variable)

dnsVars == <<stores, mem, dirty, writer, final, snap, file, stop, atStop, failed>>

Empty == -1     \* no file, or no entries
Corrupt == -2   \* a file that is not valid

Contents == 0 .. MaxStores \cup {Empty}

DnsTypeOK ==
    /\ stores \in 0 .. MaxStores /\ {mem, snap, atStop} \subseteq Contents
    /\ file \in Contents \cup {Corrupt}
    /\ writer \in {"none", "idle", "write", "remove", "rename", "done"}
    /\ {dirty, final, stop, failed} \subseteq BOOLEAN

\* loadDNSCache: whatever is not valid is ignored.
Loaded(f) == IF f = Corrupt THEN Empty ELSE f

\* What a process has in memory before the router is built.
DnsIdle ==
    /\ mem = Empty /\ dirty = FALSE /\ writer = "none" /\ final = FALSE /\ snap = Empty
    /\ stop = FALSE /\ atStop = Empty /\ failed = FALSE

EnableDNSPersistence ==
    /\ mem' = Loaded(file) /\ writer' = "idle"
    /\ UNCHANGED <<stores, dirty, final, snap, file, stop, atStop, failed>>

\* A query stores its answer and marks the cache dirty, under dnsMu.
StoreAnswer ==
    /\ stores < MaxStores /\ stores' = stores + 1
    /\ mem' = stores + 1 /\ dirty' = TRUE
    /\ UNCHANGED <<writer, final, snap, file, stop, atStop, failed>>

\* The end of a save; after the one for the stop channel the goroutine returns.
Saved(last) == writer' = IF last THEN "done" ELSE "idle"

\* persistDNSCache begins, for the ticker or for the stop channel: it takes its snapshot and
\* clears the flag under dnsMu, or has nothing to do.
Snapshot ==
    /\ writer = "idle"
    /\ \E last \in BOOLEAN :
       /\ last => stop
       /\ IF dirty THEN /\ writer' = "write" /\ final' = last
                        /\ snap' = mem /\ dirty' = FALSE /\ failed' = FALSE
                   ELSE last /\ Saved(last) /\ UNCHANGED <<final, snap, dirty, failed>>
    /\ UNCHANGED <<stores, mem, file, stop, atStop>>

\* Encoding, DPAPI or the temporary file fails, or the rename does: the cache is dirty again.
SaveFails ==
    /\ writer \in {"write", "rename"} /\ Saved(final)
    /\ dirty' = TRUE /\ failed' = TRUE
    /\ UNCHANGED <<stores, mem, final, snap, file, stop, atStop>>

WriteTemporary ==
    /\ writer = "write" /\ writer' = "remove"
    /\ UNCHANGED <<stores, mem, dirty, final, snap, file, stop, atStop, failed>>

\* os.Remove of the old file, whose error is ignored.
RemoveOld ==
    /\ writer = "remove" /\ writer' = "rename" /\ file' \in {file, Empty}
    /\ UNCHANGED <<stores, mem, dirty, final, snap, stop, atStop, failed>>

RenameNew_ClearsDirty ==
    /\ writer = "rename" /\ Saved(final) /\ file' = snap /\ dirty' = FALSE
    /\ UNCHANGED <<stores, mem, final, snap, stop, atStop, failed>>

RenameNew ==
    /\ writer = "rename" /\ Saved(final) /\ file' = snap
    /\ UNCHANGED <<stores, mem, dirty, final, snap, stop, atStop, failed>>

\* stopDNSPersistence closes the channel, and then waits for the goroutine.
CloseStop ==
    /\ stop' = TRUE /\ atStop' = mem
    /\ UNCHANGED <<stores, mem, dirty, writer, final, snap, file, failed>>

\* The process ends: only the file is left.
DnsEnd ==
    /\ mem' = Empty /\ dirty' = FALSE /\ writer' = "none" /\ final' = FALSE /\ snap' = Empty
    /\ stop' = FALSE /\ atStop' = Empty /\ failed' = FALSE
    /\ UNCHANGED <<stores, file>>

WriterStep == Snapshot \/ WriteTemporary \/ RemoveOld \/ RenameNew
=============================================================================
