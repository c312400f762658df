-------------------------- MODULE AppStorageProofs --------------------------
(***************************************************************************)
(* AppStorage implements DurableFile, for every number of saves, queue     *)
(* length and number of faults.  The invariant says what is on disk at     *)
(* every point of a save and of a load, and where a readable copy is as    *)
(* long as at most one fault has happened.                                 *)
(***************************************************************************)
EXTENDS AppStorage, TLAPS

Written == {"delBak", "copyBak", "endBak", "delFile", "rename", "fallback", "endFallback"}
InPlace == {"mirror", "endMirror", "return"}
Restoring == {"recover", "restore", "endRestore"}

\* The versions waiting are newer than everything on disk, and newer from one to the next.
QueueInv ==
    /\ \A i \in 1 .. Len(queue) : queue[i] <= issued /\ \A p \in Paths : disk[p] <= queue[i]
    /\ \A i, j \in 1 .. Len(queue) : i < j => queue[i] < queue[j]
    /\ \A p \in Paths : disk[p] <= issued
    /\ pc \in Loading \cup {"down"} => queue = <<>>

\* What a save has on disk at each of its points.
SaveInv ==
    /\ pc = "openTmp" => disk["tmp"] = None
    /\ pc = "writeTmp" => disk["tmp"] = Torn
    /\ pc \in Written => disk["tmp"] = Head(queue)
    /\ pc \in InPlace => disk["file"] = Head(queue)
    /\ secure /\ pc \in {"delFile", "rename", "fallback", "endFallback"} => disk["bak"] = None
    /\ pc \in {"copyBak", "endBak"} => ~secure /\ disk["file"] # None /\ ~Decodes(disk["bak"])
    /\ ~secure /\ pc = "delBak" => disk["file"] # None
    /\ ~secure /\ pc = "delFile" /\ disk["file"] # None => disk["bak"] = disk["file"]
    /\ pc \in {"rename", "fallback"} => disk["file"] = None
    /\ pc = "endFallback" => disk["file"] = Torn
    /\ pc \in {"fallback", "endFallback"} => faults > 0

\* What a load has found: it passes over a file only when there has been a fault, and over a
\* whole backup only when there have been two.
LoadInv ==
    /\ pc \in Restoring => source # "file" /\ Decodes(disk[source])
    /\ pc \in {"restore", "endRestore"} => ~Decodes(disk["file"])
    /\ pc \in Loading /\ source # "file" => faults > 0
    /\ pc \in Loading /\ source = "tmp" /\ Decodes(disk["bak"]) => faults > 1
    /\ faults = 0 /\ pc \in Loading \cup {"down"} => Decodes(disk["file"])

\* The temporary file is the newest, and the backup of a sensitive file is as new as the file.
NewestInv ==
    /\ Decodes(disk["tmp"]) => disk["file"] <= disk["tmp"] /\ disk["bak"] <= disk["tmp"]
    /\ secure /\ Decodes(disk["file"]) /\ Decodes(disk["bak"]) /\ disk["bak"] # disk["file"]
          => faults > 1

\* Where the data is after at most one fault.
FaultInv ==
    faults < 2 =>
        /\ Recovered(disk) >= 0
        /\ pc \in {"idle", "delTmp", "openTmp", "writeTmp", "delBak", "copyBak", "endBak", "delFile"}
              => Decodes(disk["file"])
        /\ pc \in {"rename", "fallback", "endFallback"} => Decodes(disk[FallbackSource])

\* The strengthening that is inductive.
IInv == TypeOK /\ QueueInv /\ SaveInv /\ LoadInv /\ NewestInv /\ FaultInv

-----------------------------------------------------------------------------
\* Zenon proves what is not said to need SMT: arithmetic, mostly.
USE ZenonT(30)

\* Head and Tail of _writeQueue.
LEMMA QueueTail ==
    ASSUME NEW q \in Seq(Nat), q # <<>>
    PROVE  /\ Len(q) \in Nat \ {0} /\ Head(q) = q[1] /\ q[1] \in Nat
           /\ Tail(q) \in Seq(Nat) /\ Len(Tail(q)) = Len(q) - 1
           /\ \A i \in 1 .. Len(Tail(q)) : Tail(q)[i] = q[i + 1]
BY SMT

\* What a load returns, by the contents of the three files.
LEMMA RecoveredCases ==
    ASSUME NEW d \in [Paths -> {None, Torn} \cup Nat]
    PROVE  /\ Recovered(d) \in Nat \cup {-1}
           /\ d["file"] \in Nat => Recovered(d) = d["file"] /\ Candidate(d) = "file"
           /\ d["file"] \notin Nat /\ d["bak"] \in Nat
                 => Recovered(d) = d["bak"] /\ Candidate(d) = "bak"
           /\ d["file"] \notin Nat /\ d["bak"] \notin Nat /\ d["tmp"] \in Nat
                 => Recovered(d) = d["tmp"] /\ Candidate(d) = "tmp"
           /\ d["file"] \notin Nat /\ d["bak"] \notin Nat /\ d["tmp"] \notin Nat
                 => Recovered(d) = -1 /\ Candidate(d) = "nothing"
BY SMT DEF Recovered, Candidate, Decodes, Paths, None, Torn

\* The effect of one file operation that succeeds, and of one that fails, on the types.
LEMMA OpType ==
    ASSUME TypeOK, NEW from, NEW path \in Paths, NEW content \in {None, Torn} \cup Nat,
           NEW to \in Saving \cup Loading \cup {"idle", "down"},
           to \in Saving => from \in Saving, Op(from, path, content, to)
    PROVE  TypeOK'
BY DEF TypeOK, Op

\* Types after an operation that fails and does not end the save.
LEMMA FailsType ==
    ASSUME TypeOK, NEW from, NEW path \in Paths, NEW left \in SUBSET ({None, Torn} \cup Nat),
           NEW to \in Saving \cup Loading \cup {"idle", "down"},
           to \in Saving => from \in Saving, Fails(from, to, path, left), UNCHANGED queue
    PROVE  TypeOK'
BY SMT DEF TypeOK, Fails

\* Types after an operation that fails and ends the save with its error.
LEMMA ThrowsType ==
    ASSUME TypeOK, NEW from \in Saving, NEW path \in Paths,
           NEW left \in SUBSET ({None, Torn} \cup Nat), Throws(from, path, left)
    PROVE  TypeOK'
<1>1. queue # <<>>
  BY DEF TypeOK, Throws, Fails
<1>2. Tail(queue) \in Seq(Nat) /\ Len(Tail(queue)) <= MaxQueue
  BY <1>1, QueueTail, BoundsAssumption, SMT DEF TypeOK
<1> QED
  BY <1>2, SMT DEF TypeOK, Throws, Fails, Saving

\* Every step keeps the types.
LEMMA TypeStep == TypeOK /\ [Next]_vars => TypeOK'
<1> SUFFICES ASSUME TypeOK, [Next]_vars PROVE TypeOK'
  OBVIOUS
<1> USE DEF None, Torn, Paths, Saving, Loading
<1>a. /\ disk["file"] \in {None, Torn} \cup Nat /\ disk["bak"] \in {None, Torn} \cup Nat
      /\ disk["tmp"] \in {None, Torn} \cup Nat /\ FallbackSource \in Paths
      /\ disk[FallbackSource] \in {None, Torn} \cup Nat /\ disk[source] \in {None, Torn} \cup Nat
  BY DEF TypeOK, FallbackSource
<1>b. queue # <<>> => /\ Head(queue) \in Nat /\ Tail(queue) \in Seq(Nat)
                      /\ Len(Tail(queue)) <= MaxQueue
  BY QueueTail, BoundsAssumption, SMT DEF TypeOK
<1>c. pc \in Saving => queue # <<>>
  BY DEF TypeOK
<1>1. CASE Request
  BY <1>1, <1>b, <1>c, BoundsAssumption, SMTT(30) DEF TypeOK, Request
<1>2. CASE Begin
  BY <1>2, <1>b, <1>c, BoundsAssumption DEF TypeOK, Begin
<1>3. CASE DeleteTemp
  BY <1>3, <1>a, <1>b, <1>c, OpType, ThrowsType DEF DeleteTemp
<1>4. CASE OpenTemp
  BY <1>4, <1>a, <1>b, <1>c, OpType, ThrowsType DEF OpenTemp
<1>5. CASE WriteTemp
  <2>1. CASE Op("writeTmp", "tmp", Head(queue),
                IF secure \/ disk["file"] # None THEN "delBak" ELSE "delFile")
    <3> DEFINE to == IF secure \/ disk["file"] # None THEN "delBak" ELSE "delFile"
    <3>1. to \in Saving
      OBVIOUS
    <3>2. Head(queue) \in Nat
      BY <2>1, <1>b, <1>c DEF Op
    <3> HIDE DEF to
    <3> QED
      BY <2>1, <3>1, <3>2, OpType DEF to
  <2> QED
    BY <1>5, <2>1, ThrowsType DEF WriteTemp
<1>6. CASE DeleteBackup
  BY <1>6, <1>a, <1>b, <1>c, OpType, ThrowsType DEF DeleteBackup
<1>7. CASE CopyBackup
  BY <1>7, <1>a, <1>b, <1>c, OpType, ThrowsType DEF CopyBackup
<1>8. CASE DeleteFile
  BY <1>8, <1>a, <1>b, <1>c, OpType, ThrowsType DEF DeleteFile
<1>9. CASE Rename
  BY <1>9, <1>a, <1>c, FailsType DEF TypeOK, Rename
<1>10. CASE Fallback
  <2>1. CASE Op("fallback", "file", Torn, "endFallback")
    BY <2>1, OpType
  <2>2. CASE pc = "fallback" /\ pc' = "idle" /\ queue' = Tail(queue)
             /\ UNCHANGED <<secure, source, disk, issued, acked, faults>>
    BY <2>2, <1>b, <1>c DEF TypeOK
  <2>3. CASE pc = "endFallback" /\ pc' = "idle" /\ queue' = Tail(queue)
             /\ disk' = [disk EXCEPT !["file"] = disk[FallbackSource]]
             /\ UNCHANGED <<secure, source, issued, acked, faults>>
    BY <2>3, <1>a, <1>b, <1>c DEF TypeOK
  <2>4. CASE Throws("fallback", "file", {None})
    BY <2>4, ThrowsType
  <2>5. CASE Throws("endFallback", "file", {Torn})
    BY <2>5, ThrowsType
  <2> QED
    BY <1>10, <2>1, <2>2, <2>3, <2>4, <2>5 DEF Fallback
<1>11. CASE Mirror
  BY <1>11, <1>a, <1>b, <1>c, OpType, FailsType DEF Mirror
<1>12. CASE Return
  BY <1>12, <1>b, <1>c, BoundsAssumption DEF TypeOK, Return
<1>13. CASE Crash
  BY <1>13, <1>b, <1>c, BoundsAssumption, SMT DEF TypeOK, Crash
<1>14. CASE Restart
  BY <1>14, <1>b, <1>c, BoundsAssumption DEF TypeOK, Restart
<1>15. CASE Load
  BY <1>15, <1>b, <1>c, BoundsAssumption DEF TypeOK, Load
<1>16. CASE Skip
  BY <1>16, <1>b, <1>c, BoundsAssumption, SMT DEF TypeOK, Skip
<1>17. CASE Recover
  BY <1>17, <1>a, <1>b, <1>c, OpType, FailsType DEF Recover
<1>18. CASE Restore
  BY <1>18, <1>a, <1>b, <1>c, OpType, FailsType DEF Restore
<1>19. CASE UNCHANGED vars
  BY <1>19 DEF vars, TypeOK
<1> QED
  BY <1>1, <1>2, <1>3, <1>4, <1>5, <1>6, <1>7, <1>8, <1>9, <1>10, <1>11, <1>12, <1>13, <1>14, <1>15,
     <1>16, <1>17, <1>18, <1>19 DEF Next

\* What an operation leaves on disk: nothing new but the version that is being saved.
Moved ==
    \A p \in Paths : disk'[p] \in {None, Torn, disk["file"], disk["bak"], disk["tmp"]}
                                  \cup (IF queue = <<>> THEN {} ELSE {queue[1]})

\* Every step keeps the versions of the queue in order and above the one reported last.
LEMMA QueueStep ==
    ASSUME TypeOK, TypeOK', QueueInv, Moved, issued' = issued,
           queue' = queue \/ queue' = <<>> \/ (queue # <<>> /\ queue' = Tail(queue)),
           pc' \in Loading \cup {"down"} => queue' = <<>>
    PROVE  QueueInv'
<1>1. \A p \in Paths : /\ disk'[p] <= issued
                       /\ \A i \in 1 .. Len(queue) : disk'[p] <= queue[i]
  <2> SUFFICES ASSUME NEW p \in Paths
               PROVE  disk'[p] <= issued /\ \A i \in 1 .. Len(queue) : disk'[p] <= queue[i]
    OBVIOUS
  <2>1. disk'[p] \in {None, Torn, disk["file"], disk["bak"], disk["tmp"]}
                      \cup (IF queue = <<>> THEN {} ELSE {queue[1]})
    BY DEF Moved
  <2> QED
    <3>1. CASE disk'[p] \in {None, Torn}
      BY <3>1, SMTT(30) DEF TypeOK, QueueInv, None, Torn
    <3>2. CASE disk'[p] \in {disk["file"], disk["bak"], disk["tmp"]}
      BY <3>2 DEF QueueInv, Paths
    <3>3. CASE queue # <<>> /\ disk'[p] = queue[1]
      <4>1. 1 \in 1 .. Len(queue) /\ \A i \in 1 .. Len(queue) : i = 1 \/ 1 < i
        BY <3>3, QueueTail, SMT DEF TypeOK
      <4>2. \A i \in 1 .. Len(queue) : queue[i] \in Nat
        BY SMTT(30) DEF TypeOK
      <4> QED
        BY <3>3, <4>1, <4>2, SMT DEF QueueInv
    <3> QED
      BY <2>1, <3>1, <3>2, <3>3
<1>2. CASE queue' = queue
  BY <1>1, <1>2 DEF QueueInv
<1>3. CASE queue' = <<>>
  BY <1>1, <1>3, SMT DEF QueueInv
<1>4. CASE queue # <<>> /\ queue' = Tail(queue)
  BY <1>1, <1>4, QueueTail, SMTT(30) DEF QueueInv, TypeOK
<1> QED
  BY <1>2, <1>3, <1>4

\* Every step keeps the invariant.
LEMMA InvStep == IInv /\ [Next]_vars => IInv'
<1> SUFFICES ASSUME IInv, [Next]_vars PROVE IInv'
  OBVIOUS
<1> USE DEF IInv
<1>a. TypeOK'
  BY TypeStep
<1>b. queue # <<>> => /\ Len(queue) \in Nat \ {0} /\ Head(queue) = queue[1] /\ queue[1] \in Nat
                      /\ Tail(queue) \in Seq(Nat) /\ Len(Tail(queue)) = Len(queue) - 1
                      /\ \A i \in 1 .. Len(Tail(queue)) : Tail(queue)[i] = queue[i + 1]
  BY QueueTail DEF TypeOK
<1>c. disk \in [Paths -> {None, Torn} \cup Nat] /\ disk' \in [Paths -> {None, Torn} \cup Nat]
  BY <1>a DEF TypeOK
<1>d. /\ Recovered(disk) \in Nat \cup {-1}
      /\ disk["file"] \in Nat => Recovered(disk) = disk["file"] /\ Candidate(disk) = "file"
      /\ disk["file"] \notin Nat /\ disk["bak"] \in Nat
            => Recovered(disk) = disk["bak"] /\ Candidate(disk) = "bak"
      /\ disk["file"] \notin Nat /\ disk["bak"] \notin Nat /\ disk["tmp"] \in Nat
            => Recovered(disk) = disk["tmp"] /\ Candidate(disk) = "tmp"
      /\ disk["file"] \notin Nat /\ disk["bak"] \notin Nat /\ disk["tmp"] \notin Nat
            => Recovered(disk) = -1 /\ Candidate(disk) = "nothing"
  BY <1>c, RecoveredCases
<1>e. /\ Recovered(disk') \in Nat \cup {-1}
      /\ disk'["file"] \in Nat => Recovered(disk') = disk'["file"] /\ Candidate(disk') = "file"
      /\ disk'["file"] \notin Nat /\ disk'["bak"] \in Nat
            => Recovered(disk') = disk'["bak"] /\ Candidate(disk') = "bak"
      /\ disk'["file"] \notin Nat /\ disk'["bak"] \notin Nat /\ disk'["tmp"] \in Nat
            => Recovered(disk') = disk'["tmp"] /\ Candidate(disk') = "tmp"
      /\ disk'["file"] \notin Nat /\ disk'["bak"] \notin Nat /\ disk'["tmp"] \notin Nat
            => Recovered(disk') = -1 /\ Candidate(disk') = "nothing"
  BY <1>c, RecoveredCases
<1>f. pc \in Loading \cup {"down"} => queue = <<>>
  BY DEF QueueInv
<1>g. /\ pc \in Written => disk["tmp"] \in Nat
      /\ pc \in InPlace => disk["file"] \in Nat
  BY <1>b DEF SaveInv, TypeOK, Written, InPlace, Saving
<1>h. pc \in Saving => \A p \in Paths : disk[p] <= Head(queue)
  <2>1. pc \in Saving => 1 \in 1 .. Len(queue)
    BY QueueTail, SMT DEF TypeOK
  <2> QED
    BY <1>b, <2>1 DEF QueueInv, TypeOK
<1>1. CASE Request
  <2>1. QueueInv'
    <3>1. /\ Len(queue') = Len(queue) + 1 /\ queue'[Len(queue) + 1] = issued + 1
          /\ \A i \in 1 .. Len(queue) : queue'[i] = queue[i]
      BY <1>1, SMT DEF TypeOK, Request
    <3>2. \A p \in Paths : disk[p] \in Int
      BY SMT DEF TypeOK, None, Torn
    <3> QED
      BY <3>1, <3>2, <1>1, SMT DEF QueueInv, TypeOK, Request, Saving, Loading
  <2>2. SaveInv'
    BY <1>1, <1>a, <1>b, SMT DEF SaveInv, TypeOK, Request, Paths, None, Torn, Saving, Written, InPlace, Decodes, FallbackSource
  <2>3. LoadInv'
    BY <1>1, <1>c, <1>d, <1>e, <1>g DEF LoadInv, SaveInv, FaultInv, TypeOK, Request, Paths, None, Torn, Restoring, Loading, Written, InPlace, Decodes, FallbackSource
  <2>4. FaultInv'
    BY <1>1, <1>c, <1>d, <1>e, <1>g DEF SaveInv, LoadInv, FaultInv, TypeOK, Request, Paths, None, Torn, Written, InPlace, Restoring, Loading, Decodes, FallbackSource
  <2>5. NewestInv'
    BY <1>1, <1>b, <1>c, <1>g, <1>h, SMTT(30) DEF NewestInv, SaveInv, LoadInv, TypeOK, Request, Paths, None, Torn, Restoring, Loading, Written, InPlace, Decodes, FallbackSource, Saving
  <2> QED
    BY <1>a, <2>1, <2>2, <2>3, <2>4, <2>5
<1>2. CASE Begin
  <2>1. QueueInv'
    <3>1. Moved
      BY <1>2, <1>b, <1>d DEF Moved, TypeOK, Begin, Paths, None, Saving, FallbackSource
    <3> QED
      BY <3>1, <1>2, <1>a, <1>f, QueueStep DEF TypeOK, Begin, Saving, Loading
  <2>2. SaveInv'
    BY <1>2, <1>a, <1>b DEF SaveInv, TypeOK, Begin, Paths, None, Torn, Saving, Written, InPlace, Decodes, FallbackSource
  <2>3. LoadInv'
    BY <1>2, <1>c, <1>d, <1>e, <1>g DEF LoadInv, SaveInv, FaultInv, TypeOK, Begin, Paths, None, Torn, Restoring, Loading, Written, InPlace, Decodes, FallbackSource
  <2>4. FaultInv'
    BY <1>2, <1>c, <1>d, <1>e, <1>g DEF SaveInv, LoadInv, FaultInv, TypeOK, Begin, Paths, None, Torn, Written, InPlace, Restoring, Loading, Decodes, FallbackSource
  <2>5. NewestInv'
    BY <1>2, <1>b, <1>c, <1>g, <1>h, SMTT(30) DEF NewestInv, SaveInv, LoadInv, TypeOK, Begin, Paths, None, Torn, Restoring, Loading, Written, InPlace, Decodes, FallbackSource, Saving
  <2> QED
    BY <1>a, <2>1, <2>2, <2>3, <2>4, <2>5
<1>3. CASE DeleteTemp
  <2>1. QueueInv'
    <3>1. Moved
      BY <1>3, <1>b, <1>d, SMT DEF Moved, TypeOK, DeleteTemp, Op, Throws, Fails, Paths, None, Saving, FallbackSource
    <3> QED
      BY <3>1, <1>3, <1>a, <1>f, QueueStep DEF TypeOK, DeleteTemp, Op, Throws, Fails, Saving, Loading
  <2>2. SaveInv'
    BY <1>3, <1>a, <1>b DEF SaveInv, TypeOK, DeleteTemp, Op, Throws, Fails, Paths, None, Torn, Saving, Written, InPlace, Decodes, FallbackSource
  <2>3. LoadInv'
    BY <1>3, <1>c, <1>d, <1>e, <1>g DEF LoadInv, SaveInv, FaultInv, TypeOK, DeleteTemp, Op, Throws, Fails, Paths, None, Torn, Restoring, Loading, Written, InPlace, Decodes, FallbackSource
  <2>4. FaultInv'
    <3>1. pc = "delTmp" /\ pc' \in {"openTmp", "idle"} /\ disk'["file"] = disk["file"]
      BY <1>3, <1>c DEF DeleteTemp, Op, Throws, Fails, Paths
    <3>2. faults' \in Nat /\ faults' >= faults
      BY <1>3, <1>a, SMT DEF DeleteTemp, Op, Throws, Fails, TypeOK
    <3> QED
      BY <3>1, <3>2, <1>c, <1>e, SMT DEF FaultInv, TypeOK, Decodes, Paths, None, Torn
  <2>5. NewestInv'
    BY <1>3, <1>b, <1>c, <1>g, <1>h, SMTT(30) DEF NewestInv, SaveInv, LoadInv, TypeOK, DeleteTemp, Op, Throws, Fails, Paths, None, Torn, Restoring, Loading, Written, InPlace, Decodes, FallbackSource, Saving
  <2> QED
    BY <1>a, <2>1, <2>2, <2>3, <2>4, <2>5
<1>4. CASE OpenTemp
  <2>1. QueueInv'
    <3>1. Moved
      BY <1>4, <1>b, <1>d, SMT DEF Moved, TypeOK, OpenTemp, Op, Throws, Fails, Paths, None, Saving, FallbackSource
    <3> QED
      BY <3>1, <1>4, <1>a, <1>f, QueueStep DEF TypeOK, OpenTemp, Op, Throws, Fails, Saving, Loading
  <2>2. SaveInv'
    BY <1>4, <1>a, <1>b DEF SaveInv, TypeOK, OpenTemp, Op, Throws, Fails, Paths, None, Torn, Saving, Written, InPlace, Decodes, FallbackSource
  <2>3. LoadInv'
    BY <1>4, <1>c, <1>d, <1>e, <1>g DEF LoadInv, SaveInv, FaultInv, TypeOK, OpenTemp, Op, Throws, Fails, Paths, None, Torn, Restoring, Loading, Written, InPlace, Decodes, FallbackSource
  <2>4. FaultInv'
    <3>1. pc = "openTmp" /\ pc' \in {"writeTmp", "idle"} /\ disk'["file"] = disk["file"]
      BY <1>4, <1>c DEF OpenTemp, Op, Throws, Fails, Paths
    <3>2. faults' \in Nat /\ faults' >= faults
      BY <1>4, <1>a, SMT DEF OpenTemp, Op, Throws, Fails, TypeOK
    <3> QED
      BY <3>1, <3>2, <1>c, <1>e, SMT DEF FaultInv, TypeOK, Decodes, Paths, None, Torn
  <2>5. NewestInv'
    BY <1>4, <1>b, <1>c, <1>g, <1>h, SMTT(30) DEF NewestInv, SaveInv, LoadInv, TypeOK, OpenTemp, Op, Throws, Fails, Paths, None, Torn, Restoring, Loading, Written, InPlace, Decodes, FallbackSource, Saving
  <2> QED
    BY <1>a, <2>1, <2>2, <2>3, <2>4, <2>5
<1>5. CASE WriteTemp
  <2>1. QueueInv'
    <3>1. Moved
      BY <1>5, <1>b, <1>d, SMT DEF Moved, TypeOK, WriteTemp, Op, Throws, Fails, Paths, None, Saving, FallbackSource
    <3> QED
      BY <3>1, <1>5, <1>a, <1>f, QueueStep DEF TypeOK, WriteTemp, Op, Throws, Fails, Saving, Loading
  <2>2. SaveInv'
    BY <1>5, <1>a, <1>b DEF SaveInv, TypeOK, WriteTemp, Op, Throws, Fails, Paths, None, Torn, Saving, Written, InPlace, Decodes, FallbackSource
  <2>3. LoadInv'
    BY <1>5, <1>c, <1>d, <1>e, <1>g DEF LoadInv, SaveInv, FaultInv, TypeOK, WriteTemp, Op, Throws, Fails, Paths, None, Torn, Restoring, Loading, Written, InPlace, Decodes, FallbackSource
  <2>4. FaultInv'
    <3>1. pc = "writeTmp" /\ pc' \in {"delBak", "delFile", "idle"} /\ disk'["file"] = disk["file"]
      BY <1>5, <1>c DEF WriteTemp, Op, Throws, Fails, Paths
    <3>2. faults' \in Nat /\ faults' >= faults
      BY <1>5, <1>a, SMT DEF WriteTemp, Op, Throws, Fails, TypeOK
    <3> QED
      BY <3>1, <3>2, <1>c, <1>e, SMT DEF FaultInv, TypeOK, Decodes, Paths, None, Torn
  <2>5. NewestInv'
    BY <1>5, <1>b, <1>c, <1>g, <1>h, SMTT(30) DEF NewestInv, SaveInv, LoadInv, TypeOK, WriteTemp, Op, Throws, Fails, Paths, None, Torn, Restoring, Loading, Written, InPlace, Decodes, FallbackSource, Saving
  <2> QED
    BY <1>a, <2>1, <2>2, <2>3, <2>4, <2>5
<1>6. CASE DeleteBackup
  <2>1. QueueInv'
    <3>1. Moved
      BY <1>6, <1>b, <1>d, SMTT(30) DEF Moved, TypeOK, DeleteBackup, Op, Throws, Fails, Paths, None, Saving, FallbackSource
    <3> QED
      BY <3>1, <1>6, <1>a, <1>f, QueueStep DEF TypeOK, DeleteBackup, Op, Throws, Fails, Saving, Loading
  <2>2. SaveInv'
    BY <1>6, <1>a, <1>b, SMTT(30) DEF SaveInv, TypeOK, DeleteBackup, Op, Throws, Fails, Paths, None, Torn, Saving, Written, InPlace, Decodes, FallbackSource
  <2>3. LoadInv'
    BY <1>6, <1>c, <1>d, <1>e, <1>g DEF LoadInv, SaveInv, FaultInv, TypeOK, DeleteBackup, Op, Throws, Fails, Paths, None, Torn, Restoring, Loading, Written, InPlace, Decodes, FallbackSource
  <2>4. FaultInv'
    BY <1>6, <1>c, <1>d, <1>e, <1>g, SMTT(30) DEF SaveInv, LoadInv, FaultInv, TypeOK, DeleteBackup, Op, Throws, Fails, Paths, None, Torn, Written, InPlace, Restoring, Loading, Decodes, FallbackSource
  <2>5. NewestInv'
    BY <1>6, <1>b, <1>c, <1>g, <1>h, SMTT(30) DEF NewestInv, SaveInv, LoadInv, TypeOK, DeleteBackup, Op, Throws, Fails, Paths, None, Torn, Restoring, Loading, Written, InPlace, Decodes, FallbackSource, Saving
  <2> QED
    BY <1>a, <2>1, <2>2, <2>3, <2>4, <2>5
<1>7. CASE CopyBackup
  <2>1. QueueInv'
    <3>1. Moved
      BY <1>7, <1>b, <1>d, SMTT(30) DEF Moved, TypeOK, CopyBackup, Op, Throws, Fails, Paths, None, Saving, FallbackSource
    <3> QED
      BY <3>1, <1>7, <1>a, <1>f, QueueStep DEF TypeOK, CopyBackup, Op, Throws, Fails, Saving, Loading
  <2>2. SaveInv'
    BY <1>7, <1>a, <1>b, SMTT(30) DEF SaveInv, TypeOK, CopyBackup, Op, Throws, Fails, Paths, None, Torn, Saving, Written, InPlace, Decodes, FallbackSource
  <2>3. LoadInv'
    BY <1>7, <1>c, <1>d, <1>e, <1>g DEF LoadInv, SaveInv, FaultInv, TypeOK, CopyBackup, Op, Throws, Fails, Paths, None, Torn, Restoring, Loading, Written, InPlace, Decodes, FallbackSource
  <2>4. FaultInv'
    BY <1>7, <1>c, <1>d, <1>e, <1>g, SMTT(30) DEF SaveInv, LoadInv, FaultInv, TypeOK, CopyBackup, Op, Throws, Fails, Paths, None, Torn, Written, InPlace, Restoring, Loading, Decodes, FallbackSource
  <2>5. NewestInv'
    <3>1. ~secure /\ secure' = secure /\ disk'["file"] = disk["file"] /\ disk'["tmp"] = disk["tmp"]
          /\ disk'["bak"] \in {None, Torn, disk["file"]} /\ disk["tmp"] \in Nat
      BY <1>7, <1>c, <1>g, SMT DEF CopyBackup, Op, Throws, Fails, SaveInv, Paths, Written
    <3> QED
      BY <3>1, SMT DEF NewestInv, Decodes, None, Torn
  <2> QED
    BY <1>a, <2>1, <2>2, <2>3, <2>4, <2>5
<1>8. CASE DeleteFile
  <2>1. QueueInv'
    <3>1. Moved
      BY <1>8, <1>b, <1>d, SMT DEF Moved, TypeOK, DeleteFile, Op, Throws, Fails, Paths, None, Saving, FallbackSource
    <3> QED
      BY <3>1, <1>8, <1>a, <1>f, QueueStep DEF TypeOK, DeleteFile, Op, Throws, Fails, Saving, Loading
  <2>2. SaveInv'
    BY <1>8, <1>a, <1>b DEF SaveInv, TypeOK, DeleteFile, Op, Throws, Fails, Paths, None, Torn, Saving, Written, InPlace, Decodes, FallbackSource
  <2>3. LoadInv'
    BY <1>8, <1>c, <1>d, <1>e, <1>g DEF LoadInv, SaveInv, FaultInv, TypeOK, DeleteFile, Op, Throws, Fails, Paths, None, Torn, Restoring, Loading, Written, InPlace, Decodes, FallbackSource
  <2>4. FaultInv'
    BY <1>8, <1>c, <1>d, <1>e, <1>g, SMTT(30) DEF SaveInv, LoadInv, FaultInv, TypeOK, DeleteFile, Op, Throws, Fails, Paths, None, Torn, Written, InPlace, Restoring, Loading, Decodes, FallbackSource
  <2>5. NewestInv'
    BY <1>8, <1>b, <1>c, <1>g, <1>h, SMTT(30) DEF NewestInv, SaveInv, LoadInv, TypeOK, DeleteFile, Op, Throws, Fails, Paths, None, Torn, Restoring, Loading, Written, InPlace, Decodes, FallbackSource, Saving
  <2> QED
    BY <1>a, <2>1, <2>2, <2>3, <2>4, <2>5
<1>9. CASE Rename
  <2>1. QueueInv'
    <3>1. Moved
      BY <1>9, <1>b, <1>d, SMT DEF Moved, TypeOK, Rename, Fails, Paths, None, Saving, FallbackSource
    <3> QED
      BY <3>1, <1>9, <1>a, <1>f, QueueStep DEF TypeOK, Rename, Fails, Saving, Loading
  <2>2. SaveInv'
    BY <1>9, <1>a, <1>b, SMTT(30) DEF SaveInv, TypeOK, Rename, Fails, Paths, None, Torn, Saving, Written, InPlace, Decodes, FallbackSource
  <2>3. LoadInv'
    BY <1>9, <1>c, <1>d, <1>e, <1>g DEF LoadInv, SaveInv, FaultInv, TypeOK, Rename, Fails, Paths, None, Torn, Restoring, Loading, Written, InPlace, Decodes, FallbackSource
  <2>4. FaultInv'
    BY <1>9, <1>c, <1>d, <1>e, <1>g, SMTT(30) DEF SaveInv, LoadInv, FaultInv, TypeOK, Rename, Fails, Paths, None, Torn, Written, InPlace, Restoring, Loading, Decodes, FallbackSource
  <2>5. NewestInv'
    BY <1>9, <1>b, <1>c, <1>g, <1>h, SMTT(30) DEF NewestInv, SaveInv, LoadInv, TypeOK, Rename, Fails, Paths, None, Torn, Restoring, Loading, Written, InPlace, Decodes, FallbackSource, Saving
  <2> QED
    BY <1>a, <2>1, <2>2, <2>3, <2>4, <2>5
<1>10. CASE Fallback
  <2>1. QueueInv'
    <3>1. Moved
      BY <1>10, <1>b, <1>d, SMT DEF Moved, TypeOK, Fallback, Op, Throws, Fails, Paths, None, Saving, FallbackSource
    <3> QED
      BY <3>1, <1>10, <1>a, <1>f, QueueStep DEF TypeOK, Fallback, Op, Throws, Fails, Saving, Loading
  <2>2. SaveInv'
    BY <1>10, <1>a, <1>b DEF SaveInv, TypeOK, Fallback, Op, Throws, Fails, Paths, None, Torn, Saving, Written, InPlace, Decodes, FallbackSource
  <2>3. LoadInv'
    BY <1>10, <1>c, <1>d, <1>e, <1>g DEF LoadInv, SaveInv, FaultInv, TypeOK, Fallback, Op, Throws, Fails, Paths, None, Torn, Restoring, Loading, Written, InPlace, Decodes, FallbackSource
  <2>4. FaultInv'
    <3>1. CASE pc = "fallback"
      <4>1. faults < 2 => Decodes(disk[FallbackSource]) /\ disk[FallbackSource] # None
        BY <3>1, SMT DEF FaultInv, Decodes, None
      <4>2. faults' < 2 => faults < 2 /\ Op("fallback", "file", Torn, "endFallback")
        BY <3>1, <1>10, <4>1, SMT DEF SaveInv, Fallback, Throws, Fails, Op, TypeOK
      <4> QED
        BY <3>1, <1>c, <1>d, <1>e, <1>g, <4>1, <4>2, SMT
        DEF SaveInv, FaultInv, Op, TypeOK, Paths, None, Torn, Decodes, FallbackSource, Written
    <3>2. CASE pc = "endFallback"
      <4>1. faults' < 2 => /\ pc' = "idle" /\ faults < 2
                            /\ disk' = [disk EXCEPT !["file"] = disk[FallbackSource]]
        BY <1>10, <3>2, SMT DEF SaveInv, Fallback, Throws, Fails, Op, TypeOK
      <4> QED
        BY <3>2, <4>1, <1>c, <1>e, SMT DEF FaultInv, Paths, None, Torn, Decodes, FallbackSource
    <3> QED
      BY <1>10, <3>1, <3>2 DEF Fallback, Op, Throws, Fails
  <2>5. NewestInv'
    BY <1>10, <1>b, <1>c, <1>g, <1>h, SMTT(30) DEF NewestInv, SaveInv, LoadInv, TypeOK, Fallback, Op, Throws, Fails, Paths, None, Torn, Restoring, Loading, Written, InPlace, Decodes, FallbackSource, Saving
  <2> QED
    BY <1>a, <2>1, <2>2, <2>3, <2>4, <2>5
<1>11. CASE Mirror
  <2>1. QueueInv'
    <3>1. Moved
      BY <1>11, <1>b, <1>d, SMT DEF Moved, TypeOK, Mirror, Op, Fails, Paths, None, Saving, FallbackSource
    <3> QED
      BY <3>1, <1>11, <1>a, <1>f, QueueStep DEF TypeOK, Mirror, Op, Fails, Saving, Loading
  <2>2. SaveInv'
    BY <1>11, <1>a, <1>b DEF SaveInv, TypeOK, Mirror, Op, Fails, Paths, None, Torn, Saving, Written, InPlace, Decodes, FallbackSource
  <2>3. LoadInv'
    BY <1>11, <1>c, <1>d, <1>e, <1>g DEF LoadInv, SaveInv, FaultInv, TypeOK, Mirror, Op, Fails, Paths, None, Torn, Restoring, Loading, Written, InPlace, Decodes, FallbackSource
  <2>4. FaultInv'
    BY <1>11, <1>c, <1>d, <1>e, <1>g, SMTT(30) DEF SaveInv, LoadInv, FaultInv, TypeOK, Mirror, Op, Fails, Paths, None, Torn, Written, InPlace, Restoring, Loading, Decodes, FallbackSource
  <2>5. NewestInv'
    BY <1>11, <1>b, <1>c, <1>g, <1>h, SMTT(30) DEF NewestInv, SaveInv, LoadInv, TypeOK, Mirror, Op, Fails, Paths, None, Torn, Restoring, Loading, Written, InPlace, Decodes, FallbackSource, Saving
  <2> QED
    BY <1>a, <2>1, <2>2, <2>3, <2>4, <2>5
<1>12. CASE Return
  <2>1. QueueInv'
    <3>1. Moved
      BY <1>12, <1>b, <1>d DEF Moved, TypeOK, Return, Paths, None, Saving, FallbackSource
    <3> QED
      BY <3>1, <1>12, <1>a, <1>f, QueueStep DEF TypeOK, Return, Saving, Loading
  <2>2. SaveInv'
    BY <1>12, <1>a, <1>b DEF SaveInv, TypeOK, Return, Paths, None, Torn, Saving, Written, InPlace, Decodes, FallbackSource
  <2>3. LoadInv'
    BY <1>12, <1>c, <1>d, <1>e, <1>g DEF LoadInv, SaveInv, FaultInv, TypeOK, Return, Paths, None, Torn, Restoring, Loading, Written, InPlace, Decodes, FallbackSource
  <2>4. FaultInv'
    BY <1>12, <1>c, <1>d, <1>e, <1>g DEF SaveInv, LoadInv, FaultInv, TypeOK, Return, Paths, None, Torn, Written, InPlace, Restoring, Loading, Decodes, FallbackSource
  <2>5. NewestInv'
    BY <1>12, <1>b, <1>c, <1>g, <1>h, SMTT(30) DEF NewestInv, SaveInv, LoadInv, TypeOK, Return, Paths, None, Torn, Restoring, Loading, Written, InPlace, Decodes, FallbackSource, Saving
  <2> QED
    BY <1>a, <2>1, <2>2, <2>3, <2>4, <2>5
<1>13. CASE Crash
  <2>1. QueueInv'
    <3>1. Moved
      BY <1>13, <1>b, <1>d DEF Moved, TypeOK, Crash, Paths, None, Saving, FallbackSource
    <3> QED
      BY <3>1, <1>13, <1>a, <1>f, QueueStep DEF TypeOK, Crash, Saving, Loading
  <2>2. SaveInv'
    BY <1>13, <1>a, <1>b DEF SaveInv, TypeOK, Crash, Paths, None, Torn, Saving, Written, InPlace, Decodes, FallbackSource
  <2>3. LoadInv'
    BY <1>13, <1>c, <1>d, <1>e, <1>g, SMT DEF LoadInv, SaveInv, FaultInv, TypeOK, Crash, Paths, None, Torn, Restoring, Loading, Written, InPlace, Decodes, FallbackSource
  <2>4. FaultInv'
    BY <1>13, <1>c, <1>d, <1>e, <1>g, SMT DEF SaveInv, LoadInv, FaultInv, TypeOK, Crash, Paths, None, Torn, Written, InPlace, Restoring, Loading, Decodes, FallbackSource
  <2>5. NewestInv'
    BY <1>13, <1>b, <1>c, <1>g, <1>h, SMTT(30) DEF NewestInv, SaveInv, LoadInv, TypeOK, Crash, Paths, None, Torn, Restoring, Loading, Written, InPlace, Decodes, FallbackSource, Saving
  <2> QED
    BY <1>a, <2>1, <2>2, <2>3, <2>4, <2>5
<1>14. CASE Restart
  <2>1. QueueInv'
    <3>1. Moved
      BY <1>14, <1>b, <1>d DEF Moved, TypeOK, Restart, Paths, None, Saving, FallbackSource
    <3> QED
      BY <3>1, <1>14, <1>a, <1>f, QueueStep DEF TypeOK, Restart, Saving, Loading
  <2>2. SaveInv'
    BY <1>14, <1>a, <1>b DEF SaveInv, TypeOK, Restart, Paths, None, Torn, Saving, Written, InPlace, Decodes, FallbackSource
  <2>3. LoadInv'
    BY <1>14, <1>c, <1>d, <1>e, <1>g DEF LoadInv, SaveInv, FaultInv, TypeOK, Restart, Paths, None, Torn, Restoring, Loading, Written, InPlace, Decodes, FallbackSource
  <2>4. FaultInv'
    BY <1>14, <1>c, <1>d, <1>e, <1>g DEF SaveInv, LoadInv, FaultInv, TypeOK, Restart, Paths, None, Torn, Written, InPlace, Restoring, Loading, Decodes, FallbackSource
  <2>5. NewestInv'
    BY <1>14, <1>b, <1>c, <1>g, <1>h, SMTT(30) DEF NewestInv, SaveInv, LoadInv, TypeOK, Restart, Paths, None, Torn, Restoring, Loading, Written, InPlace, Decodes, FallbackSource, Saving
  <2> QED
    BY <1>a, <2>1, <2>2, <2>3, <2>4, <2>5
<1>15. CASE Load
  <2>1. QueueInv'
    <3>1. Moved
      BY <1>15, <1>b, <1>d DEF Moved, TypeOK, Load, Paths, None, Saving, FallbackSource
    <3> QED
      BY <3>1, <1>15, <1>a, <1>f, QueueStep DEF TypeOK, Load, Saving, Loading
  <2>2. SaveInv'
    BY <1>15, <1>a, <1>b DEF SaveInv, TypeOK, Load, Paths, None, Torn, Saving, Written, InPlace, Decodes, FallbackSource
  <2>3. LoadInv'
    BY <1>15, <1>c, <1>d, <1>e, <1>g, SMT DEF LoadInv, SaveInv, FaultInv, TypeOK, Load, Paths, None, Torn, Restoring, Loading, Written, InPlace, Decodes, FallbackSource
  <2>4. FaultInv'
    BY <1>15, <1>c, <1>d, <1>e, <1>g, SMT DEF SaveInv, LoadInv, FaultInv, TypeOK, Load, Paths, None, Torn, Written, InPlace, Restoring, Loading, Decodes, FallbackSource
  <2>5. NewestInv'
    BY <1>15, <1>b, <1>c, <1>g, <1>h, SMTT(30) DEF NewestInv, SaveInv, LoadInv, TypeOK, Load, Paths, None, Torn, Restoring, Loading, Written, InPlace, Decodes, FallbackSource, Saving
  <2> QED
    BY <1>a, <2>1, <2>2, <2>3, <2>4, <2>5
<1>16. CASE Skip
  <2>1. QueueInv'
    <3>1. Moved
      BY <1>16, <1>b, <1>d DEF Moved, TypeOK, Skip, Paths, None, Saving, FallbackSource
    <3> QED
      BY <3>1, <1>16, <1>a, <1>f, QueueStep DEF TypeOK, Skip, Saving, Loading
  <2>2. SaveInv'
    BY <1>16, <1>a, <1>b DEF SaveInv, TypeOK, Skip, Paths, None, Torn, Saving, Written, InPlace, Decodes, FallbackSource
  <2>3. LoadInv'
    BY <1>16, <1>c, <1>d, <1>e, <1>g, SMT DEF LoadInv, SaveInv, FaultInv, TypeOK, Skip, Paths, None, Torn, Restoring, Loading, Written, InPlace, Decodes, FallbackSource
  <2>4. FaultInv'
    BY <1>16, <1>c, <1>d, <1>e, <1>g, SMT DEF SaveInv, LoadInv, FaultInv, TypeOK, Skip, Paths, None, Torn, Written, InPlace, Restoring, Loading, Decodes, FallbackSource
  <2>5. NewestInv'
    BY <1>16, <1>b, <1>c, <1>g, <1>h, SMTT(30) DEF NewestInv, SaveInv, LoadInv, TypeOK, Skip, Paths, None, Torn, Restoring, Loading, Written, InPlace, Decodes, FallbackSource, Saving
  <2> QED
    BY <1>a, <2>1, <2>2, <2>3, <2>4, <2>5
<1>17. CASE Recover
  <2>1. QueueInv'
    <3>1. Moved
      BY <1>17, <1>b, <1>d, SMT DEF Moved, TypeOK, Recover, Op, Fails, Paths, None, Saving, FallbackSource
    <3> QED
      BY <3>1, <1>17, <1>a, <1>f, QueueStep DEF TypeOK, Recover, Op, Fails, Saving, Loading
  <2>2. SaveInv'
    BY <1>17, <1>a, <1>b DEF SaveInv, TypeOK, Recover, Op, Fails, Paths, None, Torn, Saving, Written, InPlace, Decodes, FallbackSource
  <2>3. LoadInv'
    BY <1>17, <1>c, <1>d, <1>e, <1>g, SMT DEF LoadInv, SaveInv, FaultInv, TypeOK, Recover, Op, Fails, Paths, None, Torn, Restoring, Loading, Written, InPlace, Decodes, FallbackSource
  <2>4. FaultInv'
    BY <1>17, <1>c, <1>d, <1>e, <1>g, SMTT(30) DEF SaveInv, LoadInv, FaultInv, TypeOK, Recover, Op, Fails, Paths, None, Torn, Written, InPlace, Restoring, Loading, Decodes, FallbackSource
  <2>5. NewestInv'
    BY <1>17, <1>b, <1>c, <1>g, <1>h, SMTT(30) DEF NewestInv, SaveInv, LoadInv, TypeOK, Recover, Op, Fails, Paths, None, Torn, Restoring, Loading, Written, InPlace, Decodes, FallbackSource, Saving
  <2> QED
    BY <1>a, <2>1, <2>2, <2>3, <2>4, <2>5
<1>18. CASE Restore
  <2>1. QueueInv'
    <3>1. Moved
      BY <1>18, <1>b, <1>d, SMTT(30) DEF Moved, TypeOK, Restore, Op, Fails, Paths, None, Saving, FallbackSource
    <3> QED
      BY <3>1, <1>18, <1>a, <1>f, QueueStep DEF TypeOK, Restore, Op, Fails, Saving, Loading
  <2>2. SaveInv'
    BY <1>18, <1>a, <1>b DEF SaveInv, TypeOK, Restore, Op, Fails, Paths, None, Torn, Saving, Written, InPlace, Decodes, FallbackSource
  <2>3. LoadInv'
    BY <1>18, <1>c, <1>d, <1>e, <1>g, SMTT(30) DEF LoadInv, SaveInv, FaultInv, TypeOK, Restore, Op, Fails, Paths, None, Torn, Restoring, Loading, Written, InPlace, Decodes, FallbackSource
  <2>4. FaultInv'
    BY <1>18, <1>c, <1>d, <1>e, <1>g, SMTT(30) DEF SaveInv, LoadInv, FaultInv, TypeOK, Restore, Op, Fails, Paths, None, Torn, Written, InPlace, Restoring, Loading, Decodes, FallbackSource
  <2>5. NewestInv'
    BY <1>18, <1>b, <1>c, <1>g, <1>h, SMTT(30) DEF NewestInv, SaveInv, LoadInv, TypeOK, Restore, Op, Fails, Paths, None, Torn, Restoring, Loading, Written, InPlace, Decodes, FallbackSource, Saving
  <2> QED
    BY <1>a, <2>1, <2>2, <2>3, <2>4, <2>5
<1>19. CASE UNCHANGED vars
  BY <1>19, <1>a, SMT DEF vars, QueueInv, SaveInv, LoadInv, NewestInv, FaultInv, FallbackSource
<1> QED
  BY <1>1, <1>2, <1>3, <1>4, <1>5, <1>6, <1>7, <1>8, <1>9, <1>10, <1>11, <1>12, <1>13, <1>14, <1>15,
     <1>16, <1>17, <1>18, <1>19 DEF Next

-----------------------------------------------------------------------------
\* What a step does to the version to load: a failed operation and a crash leave it alone, a
\* successful one leaves it alone or moves it forward, or puts the backup in the place of a
\* file that could not be read; and only after two faults it may be gone.
Keeps == Recovered(disk') = Recovered(disk)
Forward ==
    /\ \/ Recovered(disk') \in Nat /\ Recovered(disk') >= Recovered(disk)
       \/ Recovered(disk') = Recovered(disk)
       \/ faults > 1 /\ Recovered(disk') = -1
       \/ Misread /\ (secure => faults > 1) /\ Recovered(disk') \in Nat
    /\ UNCHANGED <<secure, acked, faults>>
Failed == Keeps /\ faults' = faults + 1 /\ UNCHANGED <<secure, acked>>
Acked ==
    /\ Keeps /\ acked' = Recovered(disk)
    /\ ~Misread /\ ~Misread' /\ UNCHANGED <<secure, faults>>

\* A file counts as misread from the fault on until the load is done with it.
LEMMA MisreadStep ==
    ASSUME TypeOK, [Next]_vars, Misread', faults' # faults + 1
    PROVE  Misread /\ UNCHANGED <<secure, disk, acked, faults>>
<1>1. CASE Request \/ Begin \/ Return \/ Crash \/ Restart
  BY <1>1 DEF Request, Begin, Return, Crash, Restart, Misread, Saving
<1>2. CASE DeleteTemp \/ OpenTemp \/ WriteTemp \/ DeleteBackup \/ CopyBackup \/ DeleteFile \/ Rename
  BY <1>2 DEF DeleteTemp, OpenTemp, WriteTemp, DeleteBackup, CopyBackup, DeleteFile, Rename, Op,
              Throws, Fails, Misread
<1>3. CASE Fallback \/ Mirror \/ Recover \/ Restore
  BY <1>3 DEF Fallback, Mirror, Recover, Restore, Op, Throws, Fails, Misread
<1>4. CASE Load
  BY <1>4 DEF Load, Misread
<1>5. CASE Skip
  BY <1>5 DEF Skip, Misread
<1>6. CASE UNCHANGED vars
  BY <1>6 DEF vars, Misread
<1> QED
  BY <1>1, <1>2, <1>3, <1>4, <1>5, <1>6 DEF Next

\* Every step moves the version forward or back as described, is a fault, or reports the version.
LEMMA VersionStep == IInv /\ [Next]_vars => Forward \/ Failed \/ Acked
<1> SUFFICES ASSUME IInv, [Next]_vars PROVE Forward \/ Failed \/ Acked
  OBVIOUS
<1> USE DEF IInv
<1>a. TypeOK'
  BY TypeStep
<1>b. queue # <<>> => Head(queue) = queue[1] /\ queue[1] \in Nat
  BY QueueTail DEF TypeOK
<1>c. disk \in [Paths -> {None, Torn} \cup Nat] /\ disk' \in [Paths -> {None, Torn} \cup Nat]
  BY <1>a DEF TypeOK
<1>d. /\ Recovered(disk) \in Nat \cup {-1}
      /\ disk["file"] \in Nat => Recovered(disk) = disk["file"] /\ Candidate(disk) = "file"
      /\ disk["file"] \notin Nat /\ disk["bak"] \in Nat
            => Recovered(disk) = disk["bak"] /\ Candidate(disk) = "bak"
      /\ disk["file"] \notin Nat /\ disk["bak"] \notin Nat /\ disk["tmp"] \in Nat
            => Recovered(disk) = disk["tmp"] /\ Candidate(disk) = "tmp"
      /\ disk["file"] \notin Nat /\ disk["bak"] \notin Nat /\ disk["tmp"] \notin Nat
            => Recovered(disk) = -1 /\ Candidate(disk) = "nothing"
  BY <1>c, RecoveredCases
<1>e. /\ Recovered(disk') \in Nat \cup {-1}
      /\ disk'["file"] \in Nat => Recovered(disk') = disk'["file"] /\ Candidate(disk') = "file"
      /\ disk'["file"] \notin Nat /\ disk'["bak"] \in Nat
            => Recovered(disk') = disk'["bak"] /\ Candidate(disk') = "bak"
      /\ disk'["file"] \notin Nat /\ disk'["bak"] \notin Nat /\ disk'["tmp"] \in Nat
            => Recovered(disk') = disk'["tmp"] /\ Candidate(disk') = "tmp"
      /\ disk'["file"] \notin Nat /\ disk'["bak"] \notin Nat /\ disk'["tmp"] \notin Nat
            => Recovered(disk') = -1 /\ Candidate(disk') = "nothing"
  BY <1>c, RecoveredCases
<1>f. pc \in Saving => \A p \in Paths : disk[p] <= Head(queue)
  <2>1. pc \in Saving => 1 \in 1 .. Len(queue)
    BY QueueTail, SMT DEF TypeOK
  <2> QED
    BY <1>b, <2>1 DEF QueueInv, TypeOK
<1>g. /\ pc \in Written => disk["tmp"] \in Nat
      /\ pc \in InPlace => disk["file"] \in Nat
  BY <1>b DEF SaveInv, TypeOK, Written, InPlace, Saving
<1>1. CASE Request
  BY <1>1 DEF Request, Forward
<1>2. CASE Begin
  BY <1>2 DEF Begin, Forward
<1>3. CASE DeleteTemp
  <2>1. CASE Op("delTmp", "tmp", None, "openTmp")
    BY <2>1, <1>c, <1>d, <1>e, <1>f, <1>g, SMT
    DEF Op, Forward, SaveInv, FaultInv, TypeOK, Paths, None, Torn, Saving, Written, Decodes
  <2>2. CASE Throws("delTmp", "tmp", {disk["tmp"]})
    <3>1. disk' = disk
      BY <2>2, <1>c DEF Throws, Fails, Paths
    <3> QED
      BY <2>2, <3>1 DEF Throws, Fails, Failed, Keeps
  <2> QED
    BY <1>3, <2>1, <2>2 DEF DeleteTemp
<1>4. CASE OpenTemp
  <2>1. CASE Op("openTmp", "tmp", Torn, "writeTmp")
    BY <2>1, <1>c, <1>d, <1>e, <1>f, <1>g, SMT
    DEF Op, Forward, SaveInv, FaultInv, TypeOK, Paths, None, Torn, Saving, Written, Decodes
  <2>2. CASE Throws("openTmp", "tmp", {None})
    <3>1. disk' = disk
      BY <2>2, <1>c DEF Throws, Fails, Paths, SaveInv
    <3> QED
      BY <2>2, <3>1 DEF Throws, Fails, Failed, Keeps
  <2> QED
    BY <1>4, <2>1, <2>2 DEF OpenTemp
<1>5. CASE WriteTemp
  BY <1>5, <1>b, <1>c, <1>d, <1>e, <1>f, <1>g, SMTT(30)
  DEF WriteTemp, Op, Throws, Fails, Forward, Failed, Keeps, SaveInv, LoadInv, FaultInv, TypeOK, Paths, None, Torn,
      Saving, Written, InPlace, Restoring, Decodes
<1>6. CASE DeleteBackup
  <2>1. CASE Op("delBak", "bak", None, IF secure THEN "delFile" ELSE "copyBak")
    BY <2>1, <1>c, <1>d, <1>e, <1>f, <1>g, SMT
    DEF Op, Forward, SaveInv, FaultInv, TypeOK, Paths, None, Torn, Saving, Written, Decodes
  <2>2. CASE Throws("delBak", "bak", {disk["bak"]})
    <3>1. disk' = disk
      BY <2>2, <1>c DEF Throws, Fails, Paths
    <3> QED
      BY <2>2, <3>1 DEF Throws, Fails, Failed, Keeps
  <2> QED
    BY <1>6, <2>1, <2>2 DEF DeleteBackup
<1>7. CASE CopyBackup
  BY <1>7, <1>b, <1>c, <1>d, <1>e, <1>f, <1>g, SMTT(30)
  DEF CopyBackup, Op, Throws, Fails, Forward, Failed, Keeps, SaveInv, LoadInv, FaultInv, TypeOK, Paths, None, Torn,
      Saving, Written, InPlace, Restoring, Decodes
<1>8. CASE DeleteFile
  <2>1. CASE Op("delFile", "file", None, "rename")
    BY <2>1, <1>c, <1>d, <1>e, <1>f, <1>g, SMT
    DEF Op, Forward, SaveInv, FaultInv, TypeOK, Paths, None, Torn, Saving, Written, Decodes
  <2>2. CASE Throws("delFile", "file", {disk["file"]})
    <3>1. disk' = disk
      BY <2>2, <1>c DEF Throws, Fails, Paths
    <3> QED
      BY <2>2, <3>1 DEF Throws, Fails, Failed, Keeps
  <2> QED
    BY <1>8, <2>1, <2>2 DEF DeleteFile
<1>9. CASE Rename
  BY <1>9, <1>b, <1>c, <1>d, <1>e, <1>f, <1>g, SMTT(30)
  DEF Rename, Fails, Forward, Failed, Keeps, SaveInv, LoadInv, FaultInv, TypeOK, Paths, None, Torn,
      Saving, Written, InPlace, Restoring, Decodes
<1>10. CASE Fallback
  BY <1>10, <1>b, <1>c, <1>d, <1>e, <1>f, <1>g, SMTT(30)
  DEF Fallback, Op, Throws, Fails, FallbackSource, Forward, Failed, Keeps, SaveInv, LoadInv, FaultInv, TypeOK, Paths, None, Torn,
      Saving, Written, InPlace, Restoring, Decodes
<1>11. CASE Mirror
  BY <1>11, <1>b, <1>c, <1>d, <1>e, <1>f, <1>g, SMTT(30)
  DEF Mirror, Op, Fails, Forward, Failed, Keeps, SaveInv, LoadInv, FaultInv, TypeOK, Paths, None, Torn,
      Saving, Written, InPlace, Restoring, Decodes
<1>12. CASE Return
  BY <1>12, <1>b, <1>d, <1>g DEF Return, Acked, Keeps, Misread, SaveInv, TypeOK, Saving, InPlace
<1>13. CASE Crash
  BY <1>13 DEF Crash, Failed, Keeps
<1>14. CASE Restart
  BY <1>14 DEF Restart, Forward
<1>15. CASE Load
  BY <1>15 DEF Load, Forward
<1>16. CASE Skip
  BY <1>16 DEF Skip, Forward, Failed, Keeps
<1>17. CASE Recover
  BY <1>17, <1>b, <1>c, <1>d, <1>e, <1>f, <1>g, SMTT(30)
  DEF Recover, Op, Fails, Forward, Failed, Keeps, Misread, NewestInv, SaveInv, LoadInv, FaultInv, TypeOK, Paths, None, Torn,
      Saving, Written, InPlace, Restoring, Decodes
<1>18. CASE Restore
  BY <1>18, <1>b, <1>c, <1>d, <1>e, <1>f, <1>g, SMTT(30)
  DEF Restore, Op, Fails, Forward, Failed, Keeps, NewestInv, SaveInv, LoadInv, FaultInv, TypeOK, Paths, None, Torn,
      Saving, Written, InPlace, Restoring, Decodes
<1>19. CASE UNCHANGED vars
  BY <1>19 DEF vars, Forward
<1> QED
  BY <1>1, <1>2, <1>3, <1>4, <1>5, <1>6, <1>7, <1>8, <1>9, <1>10, <1>11, <1>12, <1>13, <1>14, <1>15,
     <1>16, <1>17, <1>18, <1>19 DEF Next

-----------------------------------------------------------------------------
\* The invariant holds of the files a fresh installation starts with.
LEMMA InvInit == Init => IInv
<1> SUFFICES ASSUME Init PROVE IInv
  OBVIOUS
<1>1. disk \in [Paths -> {None, Torn} \cup Nat] /\ disk["file"] = 0 /\ disk["bak"] = None
      /\ disk["tmp"] = None
  BY DEF Init, Paths, None, Torn
<1>2. Recovered(disk) = 0
  BY <1>1, RecoveredCases, SMT
<1>3. TypeOK
  BY <1>1, BoundsAssumption, SMT DEF Init, TypeOK, Saving, Loading, Paths
<1>4. QueueInv
  BY <1>1, SMT DEF Init, QueueInv, Paths, None
<1>5. SaveInv /\ LoadInv /\ NewestInv /\ FaultInv
  BY <1>1, <1>2, SMT DEF Init, SaveInv, LoadInv, NewestInv, FaultInv, None, Written, InPlace, Restoring, Loading, Decodes
<1> QED
  BY <1>3, <1>4, <1>5 DEF IInv

\* The contents of the three files at every point of _atomicWriteNow and of
\* _readJsonWithRecovery, in every behaviour.
THEOREM DiskInvariant == Spec => []IInv
<1>1. IInv /\ [Next]_vars => IInv'
  BY InvStep
<1> QED
  BY InvInit, <1>1, PTL DEF Spec

\* Every save that is carried out was queued by _atomicWrite, and all variables keep their types.
THEOREM TypeCorrect == Spec => []TypeOK
BY DiskInvariant, PTL DEF IInv

\* _atomicWriteNow and _readJsonWithRecovery implement the durable file, for any number of
\* saves and of faults.
THEOREM Refinement == Spec => Refines
<1>1. Init => Durable!DInit
  <2> SUFFICES ASSUME Init PROVE Durable!DInit
    OBVIOUS
  <2>1. Recovered(disk) = 0
    BY SMT DEF Init, Recovered, Candidate, Decodes, Paths
  <2> QED
    BY <2>1, SMT DEF Init, Misread, Durable!DInit
<1>2. IInv /\ [Next]_vars => [Durable!DNext]_(Durable!dvars)
  <2> SUFFICES ASSUME IInv, [Next]_vars PROVE [Durable!DNext]_(Durable!dvars)
    OBVIOUS
  <2>1. Recovered(disk) \in Nat \cup {-1} /\ faults \in Nat
    BY RecoveredCases DEF IInv, TypeOK
  <2>2. Misread \in BOOLEAN /\ Misread' \in BOOLEAN
    BY DEF Misread
  <2>3. CASE Failed
    BY <2>2, <2>3 DEF Failed, Keeps, Durable!DNext, Durable!Fault
  <2>4. CASE Acked
    <3>1. Misread = FALSE /\ Misread' = FALSE
      BY <2>2, <2>4 DEF Acked
    <3> QED
      BY <2>4, <3>1 DEF Acked, Keeps, Durable!DNext, Durable!Ack
  <2>5. CASE Forward /\ Misread'
    <3>1. Misread /\ UNCHANGED <<secure, disk, acked, faults>>
      BY <2>1, <2>5, MisreadStep, SMT DEF Forward, IInv
    <3>2. Misread = Misread'
      BY <2>2, <2>5, <3>1
    <3> QED
      BY <3>1, <3>2 DEF Durable!dvars
  <2>6. CASE Forward /\ ~Misread'
    <3>1. Misread' = FALSE
      BY <2>2, <2>6
    <3>2. CASE Recovered(disk') \in Nat /\ Recovered(disk') > Recovered(disk)
      BY <2>6, <3>1, <3>2 DEF Forward, Durable!DNext, Durable!Commit
    <3>3. CASE Recovered(disk') = Recovered(disk) /\ Misread
      BY <2>6, <3>1, <3>3 DEF Forward, Durable!DNext, Durable!Leave
    <3>4. CASE Recovered(disk') = Recovered(disk) /\ ~Misread
      <4>1. Misread = Misread'
        BY <2>2, <3>1, <3>4
      <4> QED
        BY <2>6, <3>4, <4>1 DEF Forward, Durable!dvars
    <3>5. CASE faults > 1 /\ Recovered(disk') = -1
      BY <2>6, <3>1, <3>5 DEF Forward, Durable!DNext, Durable!Lose, Durable!Lost
    <3>6. CASE /\ Misread /\ (secure => faults > 1) /\ Recovered(disk') \in Nat
               /\ Recovered(disk') < Recovered(disk)
      BY <2>6, <3>1, <3>6 DEF Forward, Durable!DNext, Durable!Revert
    <3> QED
      BY <2>1, <2>6, <3>2, <3>3, <3>4, <3>5, <3>6, SMT DEF Forward
  <2> QED
    BY VersionStep, <2>3, <2>4, <2>5, <2>6
<1> QED
  BY <1>1, <1>2, DiskInvariant, PTL DEF Spec, Refines, Durable!DSpec

\* One crash or one failing file operation never costs a sensitive file a save that was
\* reported done, nor a plain one all its data.
THEOREM OneFault == Spec => []OneFaultKeepsAcked
<1>1. Init => OneFaultKeepsAcked
  BY SMT DEF Init, OneFaultKeepsAcked, Recovered, Candidate, Decodes, Paths
<1>2. IInv /\ IInv' /\ OneFaultKeepsAcked /\ [Next]_vars => OneFaultKeepsAcked'
  <2> SUFFICES ASSUME IInv, IInv', OneFaultKeepsAcked, [Next]_vars PROVE OneFaultKeepsAcked'
    OBVIOUS
  <2>1. /\ Recovered(disk) \in Nat \cup {-1} /\ acked \in Nat /\ faults \in Nat
        /\ Recovered(disk') \in Nat \cup {-1}
    BY RecoveredCases DEF IInv, TypeOK
  <2>2. faults' < 2 => Recovered(disk') >= 0
    BY DEF IInv, FaultInv
  <2> QED
    BY VersionStep, <2>1, <2>2, SMT DEF OneFaultKeepsAcked, Forward, Failed, Acked, Keeps
<1> QED
  BY <1>1, <1>2, DiskInvariant, PTL DEF Spec
=============================================================================
