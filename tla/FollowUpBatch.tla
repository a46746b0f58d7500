----------------------------- MODULE FollowUpBatch -----------------------------
(***************************************************************************)
(* One run over the proactive signals of a workspace: the inbox is         *)
(* drained, the signals beyond the run's cap are put aside, and the others *)
(* are worked off by a pool of workers, each item under a time limit of    *)
(* its own and all of them under the caller's abort signal.  A limit or an *)
(* abort only sets the item's signal: the item is over when its function   *)
(* settles.                                                                *)
(***************************************************************************)
EXTENDS Naturals, Sequences, FiniteSets, SequencesExt

CONSTANTS
    Signals,      \* proactive signals that may come in, each once
    Workers,      \* the pool: as many as the run's concurrency
    MaxPerRun,    \* maxCandidatesPerRun
    Ttl,          \* how long a signal is worth something
    LastHour      \* bound on the clock

ASSUME BatchConstants ==
    /\ MaxPerRun \in Nat
    /\ Ttl \in Nat
    /\ LastHour \in Nat
    /\ IsFiniteSet(Workers)

VARIABLES
    hour,      \* the clock
    inbox,     \* the store: signals in it
    expiresAt, \* of the signals that came in
    drain,     \* drainSignals: its time, what it has yet to visit, what it found
    queue,     \* candidates handed to the pool
    dropped,   \* candidates beyond the cap
    nextIndex, \* of the pool
    busy,      \* the item each worker is on, 0 when it is free
    abortedBy, \* of each item: the reason on its signal, if any
    outcome,   \* of each item: its result, if any
    batch,     \* "idle", "listing", "draining", "running" or "done"
    cancelled, \* the caller's abort signal
    listed,    \* history: what was in the store when it was listed
    called     \* history: how the function of an item went

batchVars == <<hour, inbox, expiresAt, drain, queue, dropped, nextIndex, busy, abortedBy,
               outcome, batch, cancelled, listed, called>>

NoResult == "none"
Unborn == LastHour + Ttl + 1

BatchInit ==
    /\ hour = 0
    /\ inbox = {}
    /\ expiresAt = [s \in Signals |-> Unborn]
    /\ drain = [now |-> 0, rest |-> <<>>, active |-> <<>>]
    /\ queue = <<>> /\ dropped = <<>>
    /\ nextIndex = 0
    /\ busy = [w \in Workers |-> 0]
    /\ abortedBy = <<>> /\ outcome = <<>>
    /\ batch = "idle"
    /\ cancelled \in BOOLEAN
    /\ listed = {}
    /\ called = <<>>

-----------------------------------------------------------------------------
(* The inbox *)

RecordSignal(s) ==
    /\ expiresAt[s] = Unborn
    /\ expiresAt' = [expiresAt EXCEPT ![s] = hour + Ttl]
    /\ inbox' = inbox \cup {s}
    /\ UNCHANGED <<hour, drain, queue, dropped, nextIndex, busy, abortedBy, outcome, batch,
                   cancelled, listed, called>>

\* drainSignals takes the time and awaits the list; its order does not matter here.
Drain ==
    /\ batch = "idle"
    /\ batch' = "listing"
    /\ drain' = [drain EXCEPT !.now = hour]
    /\ UNCHANGED <<hour, inbox, expiresAt, queue, dropped, nextIndex, busy, abortedBy,
                   outcome, cancelled, listed, called>>

List ==
    /\ batch = "listing"
    /\ batch' = "draining"
    /\ drain' = [drain EXCEPT !.rest = SetToSeq(inbox)]
    /\ listed' = inbox
    /\ UNCHANGED <<hour, inbox, expiresAt, queue, dropped, nextIndex, busy, abortedBy,
                   outcome, cancelled, called>>

Expired(s) == expiresAt[s] <= drain.now

\* A signal that has expired is deleted, which may fail and is awaited.
Visit ==
    /\ batch = "draining"
    /\ drain.rest # <<>>
    /\ LET s == Head(drain.rest)
       IN  /\ inbox' \in IF Expired(s) THEN {inbox, inbox \ {s}} ELSE {inbox}
           /\ drain' = [drain EXCEPT !.rest = Tail(@),
                                     !.active = IF Expired(s) THEN @ ELSE Append(@, s)]
    /\ UNCHANGED <<hour, expiresAt, queue, dropped, nextIndex, busy, abortedBy, outcome,
                   batch, cancelled, listed, called>>

-----------------------------------------------------------------------------
(* The pool *)

Cap == IF MaxPerRun < Len(drain.active) THEN MaxPerRun ELSE Len(drain.active)

\* runFollowUpBatch: the prefix is processed, the rest dropped; without candidates,
\* or with the caller's signal aborted, no worker starts.
StartBatch ==
    /\ batch = "draining"
    /\ drain.rest = <<>>
    /\ queue' = SubSeq(drain.active, 1, Cap)
    /\ dropped' = SubSeq(drain.active, Cap + 1, Len(drain.active))
    /\ abortedBy' = [i \in 1..Cap |-> NoResult]
    /\ called' = [i \in 1..Cap |-> NoResult]
    /\ outcome' = [i \in 1..Cap |-> IF cancelled THEN "aborted" ELSE NoResult]
    /\ batch' = IF Cap = 0 \/ cancelled THEN "done" ELSE "running"
    /\ UNCHANGED <<hour, inbox, expiresAt, drain, nextIndex, busy, cancelled, listed>>

\* A free worker takes the next item; after an abort its function
\* is not called.
Take(w) ==
    /\ batch = "running"
    /\ busy[w] = 0
    /\ nextIndex < Len(queue)
    /\ nextIndex' = nextIndex + 1
    /\ IF cancelled
       THEN /\ outcome' = [outcome EXCEPT ![nextIndex + 1] = "aborted"]
            /\ UNCHANGED <<busy, called>>
       ELSE /\ busy' = [busy EXCEPT ![w] = nextIndex + 1]
            /\ called' = [called EXCEPT ![nextIndex + 1] = "running"]
            /\ UNCHANGED outcome
    /\ UNCHANGED <<hour, inbox, expiresAt, drain, queue, dropped, abortedBy, batch, cancelled,
                   listed>>

Underway == {busy[w] : w \in Workers} \ {0}

\* The first abort of an item's signal gives it its reason.
Aborting(items, reason) ==
    [i \in DOMAIN abortedBy |->
        IF i \in items /\ abortedBy[i] = NoResult THEN reason ELSE abortedBy[i]]

TimeLimit(i) ==
    /\ i \in Underway
    /\ abortedBy[i] = NoResult
    /\ abortedBy' = Aborting({i}, "timeout")
    /\ UNCHANGED <<hour, inbox, expiresAt, drain, queue, dropped, nextIndex, busy, outcome,
                   batch, cancelled, listed, called>>

CancelRun ==
    /\ ~cancelled
    /\ batch # "done"
    /\ cancelled' = TRUE
    /\ abortedBy' = Aborting(Underway, "aborted")
    /\ UNCHANGED <<hour, inbox, expiresAt, drain, queue, dropped, nextIndex, busy, outcome,
                   batch, listed, called>>

\* Mutant: an abort of the batch is taken for the item's limit.
SettleAsTimeout(i, how) ==
    CASE how = "value" -> "fulfilled"
      [] how = "error" -> "rejected"
      [] OTHER -> "timeout"

\* settleAfterAbort: after an abort of the batch every rejection counts as aborted; an
\* abort error of the function's own counts as a time-out.
SettleAfter(i, how) ==
    CASE how = "value" -> "fulfilled"
      [] how # "value" /\ cancelled -> "aborted"
      [] OTHER -> IF how = "error" THEN "rejected" ELSE "timeout"

\* The function may resolve in spite of its signal, and throw an abort error or
\* another one with or without it.
Settle(w, how) ==
    /\ busy[w] # 0
    /\ outcome' = [outcome EXCEPT ![busy[w]] = SettleAfter(busy[w], how)]
    /\ called' = [called EXCEPT ![busy[w]] = how]
    /\ busy' = [busy EXCEPT ![w] = 0]
    /\ UNCHANGED <<hour, inbox, expiresAt, drain, queue, dropped, nextIndex, abortedBy, batch,
                   cancelled, listed>>

\* All workers are through.
EndBatch ==
    /\ batch = "running"
    /\ nextIndex = Len(queue) /\ Underway = {}
    /\ batch' = "done"
    /\ UNCHANGED <<hour, inbox, expiresAt, drain, queue, dropped, nextIndex, busy, abortedBy,
                   outcome, cancelled, listed, called>>

HourPasses ==
    /\ hour < LastHour
    /\ hour' = hour + 1
    /\ UNCHANGED <<inbox, expiresAt, drain, queue, dropped, nextIndex, busy, abortedBy,
                   outcome, batch, cancelled, listed, called>>

-----------------------------------------------------------------------------
(* Specification *)

Hows == {"value", "error", "abortError"}

BatchNext ==
    \/ \E s \in Signals : RecordSignal(s)
    \/ Drain \/ List \/ Visit \/ StartBatch \/ CancelRun \/ EndBatch \/ HourPasses
    \/ \E w \in Workers : Take(w) \/ \E how \in Hows : Settle(w, how)
    \/ \E i \in DOMAIN queue : TimeLimit(i)

BatchSpec == BatchInit /\ [][BatchNext]_batchVars

-----------------------------------------------------------------------------
(* Properties *)

\* When a run is over, every signal that was in the store and had not expired when the
\* drain began was either handed to the pool or reported as dropped, once; every item
\* handed over has its own result, in its place; and the result says what happened:
\* fulfilled only if the function resolved and always if nothing aborted it, rejected if
\* it threw before anything aborted it, aborted only after an abort and always if the
\* function was never called, a time-out only if the limit was reached or the function
\* gave up by itself, and never for an item the abort of the batch ended (drainSignals,
\* runFollowUpBatch, boundedParallel).
RunAccountsForAll ==
    batch = "done" =>
        /\ Range(queue) \cup Range(dropped) = {s \in listed : ~Expired(s)}
        /\ IsInjective(queue \o dropped)
        /\ \A i \in DOMAIN queue :
              /\ outcome[i] # NoResult
              /\ outcome[i] = "fulfilled" => called[i] = "value"
              /\ abortedBy[i] = NoResult =>
                    /\ called[i] = "value" => outcome[i] = "fulfilled"
                    /\ called[i] = "error" => outcome[i] = "rejected"
              /\ called[i] = NoResult => outcome[i] = "aborted" /\ cancelled
              /\ outcome[i] = "aborted" => cancelled
              /\ abortedBy[i] = "aborted" => outcome[i] # "timeout"
              /\ outcome[i] = "timeout" => abortedBy[i] = "timeout" \/ called[i] = "abortError"
        /\ cancelled => Cardinality({i \in DOMAIN queue : abortedBy[i] = "aborted"})
                            <= Cardinality(Workers)

================================================================================
