--------------------------- MODULE CloneRequests ----------------------------
(***************************************************************************)
(* Keeping the clone of one repository fresh: the status reader with its   *)
(* cache, the requester with its cooldown, and ensureCloneFresh, which     *)
(* asks the one and then the other and returns an advisory.                *)
(*                                                                         *)
(* The clone service and the store the requester shares with other         *)
(* processes are external: a job is queued, runs and succeeds or fails,    *)
(* and a clone grows stale.  Several calls go on at once in one process.   *)
(***************************************************************************)
EXTENDS Naturals

CONSTANTS
    CloneCalls,  \* calls of ensureCloneFresh
    CacheTtl,    \* how long the reader's cache holds a status
    Cooldown,    \* the requester's cooldown
    LastTick     \* bound on the clock

ASSUME CloneConstants == CacheTtl \in Nat /\ Cooldown \in Nat /\ LastTick \in Nat

VARIABLES
    tick,       \* the clock
    service,    \* external: the state of the repository's clone
    cached,     \* repoCache
    observed,   \* observedJobs: when the requester last marked the repository
    kept,       \* the job store's mark
    ask,        \* what each call is doing
    advisory,   \* its answer
    basis       \* history: the instants at which the status a call went by was
                \* read by the service, and at which the call looked for it

cloneVars == <<tick, service, cached, observed, kept, ask, advisory, basis>>

NoMark == 99
NothingCached == [value |-> "unknown", until |-> 0, asOf |-> 0]
NoAsk == [at |-> "idle", now |-> 0, value |-> "unknown", asOf |-> 0, memory |-> NoMark]
NoBasis == [asOf |-> 0, used |-> 0]

CloneInit ==
    /\ tick = 0
    /\ service = "none"
    /\ cached = NothingCached
    /\ observed = NoMark
    /\ kept = NoMark
    /\ ask = [c \in CloneCalls |-> NoAsk]
    /\ advisory = [c \in CloneCalls |-> "none"]
    /\ basis = [c \in CloneCalls |-> NoBasis]

-----------------------------------------------------------------------------
(* The answer a status leads to *)

Advise(c, notice) ==
    /\ advisory' = [advisory EXCEPT ![c] = notice]
    /\ ask' = [ask EXCEPT ![c] = [NoAsk EXCEPT !.at = "done"]]

\* What ensureCloneFresh makes of a status: an answer, or a look at the sentinel.
Consider(c, value, asOf) ==
    /\ basis' = [basis EXCEPT ![c] = [asOf |-> asOf, used |-> ask[c].now]]
    /\ CASE value = "queued" -> Advise(c, "clone_in_progress")
         [] value = "succeeded" -> Advise(c, "fresh")
         [] value = "failed" -> Advise(c, "clone_failed")
         [] OTHER -> /\ ask' = [ask EXCEPT ![c].at = "sentinel"]
                     /\ UNCHANGED advisory

\* statusForRepo: the cache, or a poll.
BeginClone(c) ==
    /\ ask[c].at = "idle"
    /\ IF cached # NothingCached /\ cached.until > tick
       THEN /\ basis' = [basis EXCEPT ![c] = [asOf |-> cached.asOf, used |-> tick]]
            /\ CASE cached.value = "queued" -> Advise(c, "clone_in_progress")
                 [] cached.value = "succeeded" -> Advise(c, "fresh")
                 [] cached.value = "failed" -> Advise(c, "clone_failed")
                 [] OTHER -> /\ ask' = [ask EXCEPT ![c] = [NoAsk EXCEPT !.at = "sentinel"]]
                             /\ UNCHANGED advisory
            /\ UNCHANGED cached
       ELSE /\ ask' = [ask EXCEPT ![c] = [NoAsk EXCEPT !.at = "polling", !.now = tick]]
            /\ cached' = NothingCached
            /\ UNCHANGED <<advisory, basis>>
    /\ UNCHANGED <<tick, service, observed, kept>>

\* The service answers the poll; its answer is on its way.
ServiceReads(c) ==
    /\ ask[c].at = "polling"
    /\ ask' = [ask EXCEPT ![c].at = "answered", ![c].value = service, ![c].asOf = tick]
    /\ UNCHANGED <<tick, service, cached, observed, kept, advisory, basis>>

\* Mutant: counted from when the answer comes in.
UntilFromNow(c) == tick + CacheTtl

CachedUntil(c) == ask[c].now + CacheTtl

PollAnswered(c) ==
    /\ ask[c].at = "answered"
    /\ cached' = [value |-> ask[c].value, until |-> CachedUntil(c), asOf |-> ask[c].asOf]
    /\ Consider(c, ask[c].value, ask[c].asOf)
    /\ UNCHANGED <<tick, service, observed, kept>>

\* An error is not cached and counts as no status.
PollFails(c) ==
    /\ ask[c].at \in {"polling", "answered"}
    /\ ask' = [ask EXCEPT ![c].at = "sentinel"]
    /\ UNCHANGED <<tick, service, cached, observed, kept, advisory, basis>>

-----------------------------------------------------------------------------
(* The request *)

\* A fresh sentinel in the clone settles it; else requestIfNeeded begins, as far
\* as its read of the store.
ReadSentinel(c) ==
    /\ ask[c].at = "sentinel"
    /\ \/ service = "succeeded" /\ Advise(c, "fresh")
       \/ /\ ask' = [ask EXCEPT ![c] = [NoAsk EXCEPT !.at = "reading", !.now = tick,
                                                     !.memory = observed]]
          /\ UNCHANGED advisory
    /\ UNCHANGED <<tick, service, cached, observed, kept, basis>>

InCooldown(mark, now) == mark # NoMark /\ (now < mark \/ now - mark < Cooldown)

\* getObservedJob: the later of the two marks, the store's overwriting the
\* memory's; then the cooldown, or a new mark and the request.
StoreRead(c, stored) ==
    LET fromStore == stored # NoMark
                     /\ (ask[c].memory = NoMark \/ stored >= ask[c].memory)
        mark == IF fromStore THEN stored ELSE ask[c].memory IN
    /\ ask[c].at = "reading"
    /\ IF InCooldown(mark, ask[c].now)
       THEN /\ Advise(c, "clone_requested")
            /\ observed' = IF fromStore THEN stored ELSE observed
       ELSE /\ ask' = [ask EXCEPT ![c].at = "posting"]
            /\ observed' = ask[c].now
            /\ UNCHANGED advisory
    /\ UNCHANGED <<tick, service, cached, kept, basis>>

\* Accepted: a job is queued, unless one is under way.
Accepted(c) ==
    /\ ask[c].at = "posting"
    /\ service' = "queued"
    /\ observed' = ask[c].now
    /\ ask' = [ask EXCEPT ![c].at = "saving"]
    /\ UNCHANGED <<tick, cached, kept, advisory, basis>>

\* An error status, a body without a job, or no answer at all.
Rejected(c) ==
    /\ ask[c].at = "posting"
    /\ Advise(c, "clone_failed")
    /\ UNCHANGED <<tick, service, cached, observed, kept, basis>>

\* The mark is stored, or that fails, which is only reported.
Saved(c) ==
    /\ ask[c].at = "saving"
    /\ Advise(c, "clone_requested")
    /\ kept' \in {kept, ask[c].now}
    /\ UNCHANGED <<tick, service, cached, observed, basis>>

-----------------------------------------------------------------------------
(* The service, the clock, and a restart of the process *)

JobEnds(state) ==
    /\ service = "queued"
    /\ service' = state
    /\ UNCHANGED <<tick, cached, observed, kept, ask, advisory, basis>>

GrowsStale ==
    /\ service = "succeeded"
    /\ service' = "stale"
    /\ UNCHANGED <<tick, cached, observed, kept, ask, advisory, basis>>

TimePasses ==
    /\ tick < LastTick
    /\ tick' = tick + 1
    /\ UNCHANGED <<service, cached, observed, kept, ask, advisory, basis>>

Restart ==
    /\ cached' = NothingCached
    /\ observed' = NoMark
    /\ ask' = [c \in CloneCalls |->
                  IF ask[c].at = "idle" THEN NoAsk ELSE [NoAsk EXCEPT !.at = "done"]]
    /\ UNCHANGED <<tick, service, kept, advisory, basis>>

CloneNext ==
    \/ \E c \in CloneCalls :
        \/ BeginClone(c) \/ ServiceReads(c) \/ PollAnswered(c) \/ PollFails(c) \/ ReadSentinel(c)
        \/ \E stored \in {kept, NoMark} : StoreRead(c, stored)
        \/ Accepted(c) \/ Rejected(c) \/ Saved(c)
    \/ \E state \in {"succeeded", "failed"} : JobEnds(state)
    \/ GrowsStale \/ TimePasses \/ Restart

CloneSpec == CloneInit /\ [][CloneNext]_cloneVars

-----------------------------------------------------------------------------
(* Properties *)

\* A call never goes by a status older than the cache's time to live, however
\* long the poll that fetched it took and whichever poll was cached last.
StatusIsRecent ==
    \A c \in CloneCalls :
        \/ basis[c].used < basis[c].asOf + CacheTtl
        \/ basis[c].used <= basis[c].asOf

=============================================================================
