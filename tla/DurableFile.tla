---------------------------- MODULE DurableFile ----------------------------
(***************************************************************************)
(* What a file of the desktop application promises to its readers, however *)
(* it is written: there is one whole version to load, a save that was      *)
(* reported done is that version, and it takes two faults (crashes or      *)
(* failing file operations) to lose the data.  The version moves forward,  *)
(* but for one exception: a load that fails to read the file goes back to  *)
(* its backup, which only a sensitive file keeps up to date.               *)
(* AppStorage implements this specification.                               *)
(***************************************************************************)
EXTENDS Integers

VARIABLES
    secure,   \* a sensitive file
    val,      \* the version to load, Lost when there is none
    acked,    \* the last version whose save was reported done
    faults,   \* crashes and failed file operations so far
    misread   \* a load under way has failed to read that version

dvars == <<secure, val, acked, faults, misread>>

Lost == -1

DInit == secure \in BOOLEAN /\ val = 0 /\ acked = 0 /\ faults = 0 /\ misread = FALSE

\* A save takes effect, in one step.
Commit ==
    /\ val' \in Nat /\ val' > val /\ misread' = FALSE
    /\ UNCHANGED <<secure, acked, faults>>

\* The caller learns that its save is done.
Ack == acked' = val /\ UNCHANGED <<secure, val, faults, misread>>

\* The program dies or a file operation fails; nothing is lost by it.
Fault ==
    /\ faults' = faults + 1 /\ misread' \in BOOLEAN
    /\ UNCHANGED <<secure, val, acked>>

\* The load that failed to read the version puts the backup in its place.
Revert ==
    /\ misread /\ misread' = FALSE
    /\ secure => faults > 1
    /\ val' \in Nat /\ val' < val
    /\ UNCHANGED <<secure, acked, faults>>

\* Or it leaves the version as it is.
Leave == misread /\ misread' = FALSE /\ UNCHANGED <<secure, val, acked, faults>>

\* After two faults there may be no readable copy left.
Lose ==
    /\ faults > 1 /\ val' = Lost /\ misread' = FALSE
    /\ UNCHANGED <<secure, acked, faults>>

DNext == Commit \/ Ack \/ Fault \/ Revert \/ Leave \/ Lose

DSpec == DInit /\ [][DNext]_dvars
=============================================================================
