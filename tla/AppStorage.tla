----------------------------- MODULE AppStorage -----------------------------
(***************************************************************************)
(* AppStorage of the desktop application: how one of its JSON files is     *)
(* saved and loaded.  A save writes <file>.tmp and renames it over <file>, *)
(* keeping <file>.bak.  A load takes the first of file, .bak and .tmp that *)
(* it can read and decode, and restores the file from it.  Every read,     *)
(* write, copy, rename and deletion may fail, and the application may die  *)
(* between any two of them.                                                *)
(*                                                                         *)
(* Saves are versions 1, 2, ...; version 0 is what the file held at first. *)
(* A file that is being written, or was when the program died, is Torn.    *)
(***************************************************************************)
EXTENDS Integers, Sequences

CONSTANTS MaxSaves,   \* bound on the saves requested
          MaxQueue,   \* bound on the saves waiting in _writeQueue
          MaxFaults   \* bound on crashes and failed operations

ASSUME BoundsAssumption == MaxSaves \in Nat /\ MaxQueue \in Nat /\ MaxFaults \in Nat

VARIABLES
    secure,   \* a sensitive file (DPAPI, secureBackup) or a plain one
    disk,     \* content of "file", "bak" and "tmp"
    pc,       \* the operation the storage is about to perform
    source,   \* the candidate the last load has come to
    queue,    \* versions waiting to be saved, the head being saved
    issued,   \* the last version requested
    acked,    \* the last version whose save was reported done
    faults    \* crashes and failed operations so far

vars == <<secure, disk, pc, source, queue, issued, acked, faults>>

None == -1   \* no such file
Torn == -2   \* half written
Paths == {"file", "bak", "tmp"}
Saving == {"delTmp", "openTmp", "writeTmp", "delBak", "copyBak", "endBak", "delFile",
           "rename", "fallback", "endFallback", "mirror", "endMirror", "return"}
Loading == {"load", "recover", "restore", "endRestore"}

Decodes(c) == c >= 0

\* _readJsonWithRecovery, when every file can be read: the first candidate that decodes.
Candidate(d) ==
    IF Decodes(d["file"]) THEN "file"
    ELSE IF Decodes(d["bak"]) THEN "bak"
    ELSE IF Decodes(d["tmp"]) THEN "tmp" ELSE "nothing"

\* The version such a load of this disk would return, -1 when nothing decodes.
Recovered(d) == IF Candidate(d) = "nothing" THEN -1 ELSE d[Candidate(d)]

Init ==
    /\ secure \in BOOLEAN
    /\ disk = [p \in Paths |-> IF p = "file" THEN 0 ELSE None]
    /\ pc = "load" /\ source = "file"
    /\ queue = <<>> /\ issued = 0 /\ acked = 0 /\ faults = 0

\* One file operation: from one point of the code to the next, with what it leaves on disk.
Op(from, path, content, to) ==
    /\ pc = from /\ pc' = to
    /\ disk' = [disk EXCEPT ![path] = content]
    /\ UNCHANGED <<secure, source, queue, issued, acked, faults>>

\* The operation throws; a write or a copy may leave a torn file, a failed delete the old one.
Fails(from, to, path, left) ==
    /\ pc = from /\ pc' = to
    /\ faults < MaxFaults /\ faults' = faults + 1
    /\ \E c \in left : disk' = [disk EXCEPT ![path] = c]
    /\ UNCHANGED <<secure, source, issued, acked>>

\* The future of the save completes with the error and the queue goes on to the next one.
Throws(from, path, left) == Fails(from, "idle", path, left) /\ queue' = Tail(queue)

-----------------------------------------------------------------------------
\* _atomicWrite: the save is appended to the queue of pending writes.
Request ==
    /\ pc \in Saving \cup {"idle"}
    /\ issued < MaxSaves /\ Len(queue) < MaxQueue
    /\ issued' = issued + 1
    /\ queue' = Append(queue, issued + 1)
    /\ UNCHANGED <<secure, source, disk, pc, acked, faults>>

\* _writeQueue runs the next save when the one before it is done.
Begin ==
    /\ pc = "idle" /\ queue # <<>>
    /\ pc' = "delTmp"
    /\ UNCHANGED <<secure, source, disk, queue, issued, acked, faults>>

DeleteTemp ==
    \/ Op("delTmp", "tmp", None, "openTmp")
    \/ disk["tmp"] # None /\ Throws("delTmp", "tmp", {disk["tmp"]})

\* temp.writeAsString(flush: true), in two steps so that a crash finds it half written.
OpenTemp ==
    \/ Op("openTmp", "tmp", Torn, "writeTmp")
    \/ Throws("openTmp", "tmp", {None})

WriteTemp ==
    \/ Op("writeTmp", "tmp", Head(queue),
          IF secure \/ disk["file"] # None THEN "delBak" ELSE "delFile")
    \/ Throws("writeTmp", "tmp", {Torn})

DeleteBackup ==
    \/ Op("delBak", "bak", None, IF secure THEN "delFile" ELSE "copyBak")
    \/ disk["bak"] # None /\ Throws("delBak", "bak", {disk["bak"]})

\* file.copy(backup.path) of a plain file.
CopyBackup ==
    \/ Op("copyBak", "bak", Torn, "endBak")
    \/ Op("endBak", "bak", disk["file"], "delFile")
    \/ Throws("copyBak", "bak", {None})
    \/ Throws("endBak", "bak", {Torn})

DeleteFile ==
    \/ Op("delFile", "file", None, "rename")
    \/ disk["file"] # None /\ Throws("delFile", "file", {disk["file"]})

Rename ==
    \/ /\ pc = "rename"
       /\ pc' = IF secure THEN "mirror" ELSE "return"
       /\ disk' = [disk EXCEPT !["file"] = disk["tmp"], !["tmp"] = None]
       /\ UNCHANGED <<secure, source, queue, issued, acked, faults>>
    \/ Fails("rename", "fallback", "file", {None}) /\ UNCHANGED queue

\* What the catch block of a failed rename copies: the new file, or the backup of the old.
FallbackSource == IF secure THEN "tmp" ELSE "bak"

Fallback_None ==
    /\ pc = "fallback" /\ pc' = "idle" /\ queue' = Tail(queue)
    /\ UNCHANGED <<secure, source, disk, issued, acked, faults>>

\* The catch block: the file is put back from the source that is left, then rethrow.
Fallback ==
    \/ disk[FallbackSource] # None /\ Op("fallback", "file", Torn, "endFallback")
    \/ /\ pc = "fallback" /\ disk[FallbackSource] = None
       /\ pc' = "idle" /\ queue' = Tail(queue)
       /\ UNCHANGED <<secure, source, disk, issued, acked, faults>>
    \/ /\ pc = "endFallback" /\ pc' = "idle" /\ queue' = Tail(queue)
       /\ disk' = [disk EXCEPT !["file"] = disk[FallbackSource]]
       /\ UNCHANGED <<secure, source, issued, acked, faults>>
    \/ disk[FallbackSource] # None /\ Throws("fallback", "file", {None})
    \/ Throws("endFallback", "file", {Torn})

\* A sensitive file is copied to .bak once it is in place; a failure is ignored.
Mirror ==
    \/ Op("mirror", "bak", Torn, "endMirror")
    \/ Op("endMirror", "bak", disk["file"], "return")
    \/ Fails("mirror", "return", "bak", {None}) /\ UNCHANGED queue
    \/ Fails("endMirror", "return", "bak", {Torn}) /\ UNCHANGED queue

Return ==
    /\ pc = "return" /\ pc' = "idle"
    /\ acked' = Head(queue) /\ queue' = Tail(queue)
    /\ UNCHANGED <<secure, source, disk, issued, faults>>

-----------------------------------------------------------------------------
\* The application dies: pending saves are gone, the disk stays as it is.
Crash ==
    /\ pc # "down" /\ pc' = "down"
    /\ faults < MaxFaults /\ faults' = faults + 1
    /\ queue' = <<>>
    /\ UNCHANGED <<secure, source, disk, issued, acked>>

Restart ==
    /\ pc = "down" /\ pc' = "load" /\ source' = "file"
    /\ UNCHANGED <<secure, disk, queue, issued, acked, faults>>

\* _readJsonWithRecovery reads and decodes a candidate; only .bak and .tmp are copied back.
Load ==
    /\ pc = "load" /\ Decodes(disk[source])
    /\ pc' = IF source = "file" THEN "idle" ELSE "recover"
    /\ UNCHANGED <<secure, source, disk, queue, issued, acked, faults>>

\* It goes on to the next candidate, or throws after the last: this one does not exist, does
\* not decode, or readAsString throws.
Skip ==
    /\ pc = "load"
    /\ \/ ~Decodes(disk[source]) /\ UNCHANGED faults
       \/ disk[source] # None /\ faults < MaxFaults /\ faults' = faults + 1
    /\ \/ source = "file" /\ source' = "bak" /\ UNCHANGED pc
       \/ source = "bak" /\ source' = "tmp" /\ UNCHANGED pc
       \/ source = "tmp" /\ pc' = "idle" /\ UNCHANGED source
    /\ UNCHANGED <<secure, disk, queue, issued, acked>>

\* The candidate is copied over the file; a failure is ignored.
Recover ==
    \/ Op("recover", "file", None, "restore")
    \/ disk["file"] # None /\ Fails("recover", "idle", "file", {disk["file"]}) /\ UNCHANGED queue

Restore ==
    \/ Op("restore", "file", Torn, "endRestore")
    \/ Op("endRestore", "file", disk[source], "idle")
    \/ Fails("restore", "idle", "file", {None}) /\ UNCHANGED queue
    \/ Fails("endRestore", "idle", "file", {Torn}) /\ UNCHANGED queue

Next ==
    \/ Request \/ Begin \/ DeleteTemp \/ OpenTemp \/ WriteTemp \/ DeleteBackup \/ CopyBackup
    \/ DeleteFile \/ Rename \/ Fallback \/ Mirror \/ Return
    \/ Crash \/ Restart \/ Load \/ Skip \/ Recover \/ Restore

Spec == Init /\ [][Next]_vars

-----------------------------------------------------------------------------
\* Every variable has its type, and only a save that is queued is ever carried out.
TypeOK ==
    /\ secure \in BOOLEAN
    /\ disk \in [Paths -> {None, Torn} \cup Nat]
    /\ pc \in Saving \cup Loading \cup {"idle", "down"} /\ source \in Paths
    /\ queue \in Seq(Nat) /\ Len(queue) <= MaxQueue
    /\ issued \in Nat /\ acked \in Nat /\ faults \in Nat
    /\ pc \in Saving => queue # <<>>

\* A load has passed over the file although it is whole, because reading it failed.
Misread == pc \in {"load", "recover"} /\ source # "file" /\ Decodes(disk["file"])

\* The file as its readers see it: what a load that can read every file would return now.
Durable == INSTANCE DurableFile WITH val <- Recovered(disk), misread <- Misread

\* _atomicWriteNow and _readJsonWithRecovery together implement a durable file: whatever
\* operations fail and wherever the application dies, there is one whole version to load, the
\* save reported last is that one, and nothing short of two faults leaves the file without
\* data.  The version moves back only when a load could not read a file that is whole and
\* replaces it by its backup, and for a sensitive file not even then at the first fault.
Refines == Durable!DSpec

\* A single crash or failed operation never costs a sensitive file a save that was reported
\* done, nor a plain one all its data.
OneFaultKeepsAcked ==
    faults < 2 => Recovered(disk) >= 0 /\ (secure => Recovered(disk) >= acked)
=============================================================================
