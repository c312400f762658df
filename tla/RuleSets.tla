------------------------------ MODULE RuleSets ------------------------------
(***************************************************************************)
(* PrepareRuleSets of the runtime (core/runtime.go) and the loader of one  *)
(* remote rule set (ruleset/loader.go): a goroutine per set takes one of   *)
(* the download slots, uses a fresh cache file or else tries its sources,  *)
(* and falls back to the cache it read; the first error that is received   *)
(* cancels the rest.                                                       *)
(***************************************************************************)
EXTENDS Integers, FiniteSets

CONSTANTS Sets,       \* the configured rule sets
          Optional,   \* those that may stay empty
          Slots,      \* downloads at the same time (two in the code)
          Sources     \* URLs of a set, the fallbacks included

NoSet == "no set"

ASSUME RuleSetsAssumption ==
    /\ IsFiniteSet(Sets) /\ NoSet \notin Sets /\ Optional \subseteq Sets
    /\ Slots \in Nat \ {0} /\ Sources \in Nat \ {0}

VARIABLES
    cache,    \* the cache file of each set: "none" (or one that does not parse), "stale", "fresh"
    load,     \* where the goroutine of each set is
    at,       \* the source and the attempt it is at
    slots,    \* slots in use
    out,      \* the result it has put into the buffered channel
    got,      \* the sets whose result was received
    ctx,      \* the context of the preparation: "live", "cancelled", "expired"
    blame     \* the set of the first error received

Attempts == 2   \* downloadAttempts
Errors == {"missing", "unsaved", "ctx"}

setVars == <<load, at, slots, out, got, ctx, blame>>

RuleSetsTypeOK ==
    /\ cache \in [Sets -> {"none", "stale", "fresh"}]
    /\ load \in [Sets -> {"none", "slot", "load", "done"}]
    /\ at \in [Sets -> [src : 1 .. Sources, try : 1 .. Attempts]]
    /\ slots \in 0 .. Slots
    /\ out \in [Sets -> {"none", "set"} \cup Errors]
    /\ got \subseteq Sets /\ ctx \in {"live", "cancelled", "expired"}
    /\ blame \in Sets \cup {NoSet}

\* A process that has not begun to prepare.
RuleSetsIdle ==
    /\ load = [s \in Sets |-> "none"] /\ out = [s \in Sets |-> "none"]
    /\ at = [s \in Sets |-> [src |-> 1, try |-> 1]]
    /\ slots = 0 /\ got = {} /\ ctx = "live" /\ blame = NoSet

\* PrepareRuleSets starts a goroutine for every set.
PrepareBegin ==
    /\ load' = [s \in Sets |-> "slot"]
    /\ UNCHANGED <<cache, at, slots, out, got, ctx, blame>>

Sends_KeepsSlot(s, result) ==
    /\ out' = [out EXCEPT ![s] = result] /\ load' = [load EXCEPT ![s] = "done"]
    /\ at' = [at EXCEPT ![s] = [src |-> 1, try |-> 1]] /\ UNCHANGED slots

\* The goroutine sends its result and returns, which gives its slot back.
Sends(s, result) ==
    /\ out' = [out EXCEPT ![s] = result] /\ load' = [load EXCEPT ![s] = "done"]
    /\ at' = [at EXCEPT ![s] = [src |-> 1, try |-> 1]] /\ slots' = slots - 1

TakeSlot_NoLimit(s) ==
    /\ load[s] = "slot" /\ slots' = slots + 1 /\ load' = [load EXCEPT ![s] = "load"]
    /\ UNCHANGED <<cache, at, out, got, ctx, blame>>

\* The select at the start of the goroutine: the end of the context, or a slot.
TakeSlot(s) ==
    /\ load[s] = "slot"
    /\ \/ /\ ctx # "live" /\ out' = [out EXCEPT ![s] = "ctx"]
          /\ load' = [load EXCEPT ![s] = "done"] /\ UNCHANGED slots
       \/ /\ slots < Slots /\ slots' = slots + 1
          /\ load' = [load EXCEPT ![s] = "load"] /\ UNCHANGED out
    /\ UNCHANGED <<cache, at, got, ctx, blame>>

\* Load: a cache file that parses and is young enough is used as it is.
UseCache(s) ==
    /\ load[s] = "load" /\ cache[s] = "fresh" /\ Sends(s, "set")
    /\ UNCHANGED <<cache, got, ctx, blame>>

\* The next source; after the last one the cache that was read, the empty set, or the error.
NextSource(s) ==
    IF at[s].src < Sources
    THEN at' = [at EXCEPT ![s] = [src |-> @.src + 1, try |-> 1]] /\ UNCHANGED <<load, out, slots>>
    ELSE Sends(s, IF cache[s] # "none" \/ s \in Optional THEN "set" ELSE "missing")

\* download and ParseSource fail: in a way that may be retried, and is once unless the
\* context ends; or for good, as when the data does not parse.
DownloadFails(s) ==
    /\ load[s] = "load" /\ cache[s] # "fresh"
    /\ \/ /\ ctx = "live" /\ at[s].try < Attempts
          /\ at' = [at EXCEPT ![s].try = @ + 1] /\ UNCHANGED <<load, out, slots>>
       \/ NextSource(s)
    /\ UNCHANGED <<cache, got, ctx, blame>>

\* A source delivers data that parses, and writeCacheAtomic renames a complete temporary file
\* over the cache; when that fails the set is an error although it was downloaded.
Downloaded(s, saved) ==
    /\ load[s] = "load" /\ cache[s] # "fresh" /\ ctx = "live"
    /\ Sends(s, IF saved THEN "set" ELSE "unsaved")
    /\ cache' = IF saved THEN [cache EXCEPT ![s] = "fresh"] ELSE cache
    /\ UNCHANGED <<got, ctx, blame>>

\* The loop that receives the results; the first error cancels the context.
Collect(s) ==
    /\ out[s] # "none" /\ s \notin got /\ got' = got \cup {s}
    /\ IF out[s] \in Errors /\ blame = NoSet
       THEN blame' = s /\ ctx' = (IF ctx = "live" THEN "cancelled" ELSE ctx)
       ELSE UNCHANGED <<blame, ctx>>
    /\ UNCHANGED <<cache, load, at, slots, out>>

\* The three minutes that Start allows are over.
Expire == ctx = "live" /\ ctx' = "expired" /\ UNCHANGED <<cache, load, at, slots, out, got, blame>>

\* The process ends: its goroutines are gone.
RuleSetsEnd ==
    /\ load' = [s \in Sets |-> "none"] /\ out' = [s \in Sets |-> "none"]
    /\ at' = [s \in Sets |-> [src |-> 1, try |-> 1]]
    /\ slots' = 0 /\ got' = {} /\ ctx' = "live" /\ blame' = NoSet

LoaderStep(s) == TakeSlot(s) \/ UseCache(s) \/ DownloadFails(s) \/ Downloaded(s, TRUE)
=============================================================================
