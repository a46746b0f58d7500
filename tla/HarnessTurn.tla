------------------------------ MODULE HarnessTurn ------------------------------
(***************************************************************************)
(* runTurn of the harness: one bounded turn of model steps and tool        *)
(* batches.  The loop asks the model, runs the tool calls it requests one  *)
(* after the other or in parallel, retries those that fail retryably,      *)
(* appends the results to the transcript one by one and checks its limits  *)
(* in between.  The model, the tools, the approval adapter and the hooks   *)
(* are the product's: they may throw, and the turn's signal may be aborted *)
(* while any of them is awaited.                                           *)
(*                                                                         *)
(* One action stands for the code from one of those awaits to the next.    *)
(***************************************************************************)
EXTENDS Integers, Sequences, FiniteSets

CONSTANTS
    MaxIterations,  \* limits.maxIterations
    MaxToolCalls,   \* limits.maxToolCalls
    MaxInvalid,     \* limits.maxConsecutiveInvalidModelOutputs
    BudgetLimit,    \* limits.budgetLimit
    MaxRetries,     \* toolRetryConfig.maxRetries
    MaxBatch,       \* bound on the calls of one tool request
    Costs,          \* the cost units a model step or a tool run may report
    Outputs,        \* what the results of tools can be told apart by
    NoOutput        \* a result without output, or of the runtime policy

ASSUME ConstantsAssumption ==
    /\ MaxIterations \in Nat \ {0}
    /\ MaxToolCalls \in Nat \ {0}
    /\ MaxInvalid \in Nat \ {0}
    /\ BudgetLimit \in Nat
    /\ MaxRetries \in Nat
    /\ MaxBatch \in Nat \ {0}
    /\ Costs \subseteq Nat /\ 0 \in Costs
    /\ NoOutput \notin Outputs

VARIABLES
    at,          \* what runTurn is awaiting
    iteration,   \* state.iteration
    toolCalls,   \* state.toolCallCount
    invalids,    \* state.consecutiveInvalidOutputs
    cost,        \* state.usage.totalCostUnits, no further than the limit
    late,        \* limits.maxElapsedMs has passed
    aborted,     \* input.signal.aborted
    mode,        \* of the current batch
    calls,       \* state of each call of the batch
    runs,        \* how often each of them has been executed
    results,     \* results of the batch that are not in the transcript yet
    recent,      \* state.recentToolResultHashes
    stopReason,  \* of the result, "none" before there is one
    owed,        \* history: requested calls with no result in the transcript
    unbilled,    \* history: cost of tool runs that usage does not count yet
    abortedAt,   \* history: what was awaited when the signal was aborted
    threw        \* history: a call of a parallel batch has thrown

limits == <<iteration, toolCalls, invalids, cost, late>>
batch == <<mode, calls, runs, results>>
signal == <<aborted, abortedAt>>
vars == <<at, iteration, toolCalls, invalids, cost, late, aborted, mode, calls,
          runs, results, recent, stopReason, owed, unbilled, abortedAt, threw>>

Awaits == {"tool list", "top", "model", "approval", "tools", "results"}

Deferred ==
    {"max_iterations_reached", "max_tool_calls_reached", "timeout_reached",
     "budget_reached"}

StopReasons == Deferred \cup
    {"none", "cancelled", "runtime_error", "answer_finalized",
     "evidence_density_violation", "clarification_required", "approval_required",
     "model_refused", "model_invalid_response", "tool_unavailable",
     "tool_error_unrecoverable", "redundant_tool_loop"}

\* Results of tools.execute; an error has nothing to be compared.
ToolResults ==
    [status : {"success", "terminate"}, output : Outputs \cup {NoOutput}, cost : Costs]
        \cup [status : {"retryable", "error"}, output : {NoOutput}, cost : Costs]

\* What the runtime policy answers in place of a tool: a block costs nothing, a
\* cached result repeats the cost of the run it came from.
PolicyResults ==
    [status : {"success", "terminate"}, output : {NoOutput}, cost : Costs]

CallStates == {"waiting", "answered", "running", "backoff", "returned"}

Init ==
    /\ at = "tool list"
    /\ iteration = 0 /\ toolCalls = 0 /\ invalids = 0 /\ cost = 0
    /\ late = FALSE
    /\ aborted \in BOOLEAN
    /\ abortedAt = IF aborted THEN "tool list" ELSE "none"
    /\ mode = "sequential"
    /\ calls = <<>> /\ runs = <<>> /\ results = <<>>
    /\ recent = <<>>
    /\ stopReason = "none"
    /\ owed = 0 /\ unbilled = 0
    /\ threw = FALSE

-----------------------------------------------------------------------------
(* Ends and limits *)

Finish(reason) ==
    /\ at' = "done"
    /\ stopReason' = reason

GoOn(where) ==
    /\ at' = where
    /\ UNCHANGED stopReason

\* The catch block; an AbortError counts as a cancellation.
Caught ==
    \E reason \in {"cancelled", "runtime_error"} :
        /\ aborted => reason = "cancelled"
        /\ Finish(reason)

Paid(c) == IF cost + c < BudgetLimit THEN cost + c ELSE BudgetLimit

\* checkLimits, in its order, with i iterations begun and paid cost units.
Limit(i, paid) ==
    IF i > MaxIterations THEN "max_iterations_reached"
    ELSE IF toolCalls >= MaxToolCalls THEN "max_tool_calls_reached"
    ELSE IF late THEN "timeout_reached"
    ELSE IF paid >= BudgetLimit THEN "budget_reached"
    ELSE "none"

FinishOr(limit, where) == IF limit # "none" THEN Finish(limit) ELSE GoOn(where)

-----------------------------------------------------------------------------
(* The loop and the model *)

ToolsListed ==
    /\ at = "tool list"
    /\ IF aborted THEN Finish("cancelled") ELSE GoOn("top")
    /\ UNCHANGED <<limits, signal, batch, recent, owed, unbilled, threw>>

NextStep ==
    /\ at = "top"
    /\ iteration' = iteration + 1
    /\ IF aborted THEN Finish("cancelled")
                  ELSE FinishOr(Limit(iteration + 1, cost), "model")
    /\ UNCHANGED <<toolCalls, invalids, cost, late, signal, batch, recent, owed,
                   unbilled, threw>>

ModelCancelled ==
    /\ at = "model" /\ aborted
    /\ Finish("cancelled")
    /\ UNCHANGED <<limits, signal, batch, recent, owed, unbilled, threw>>

\* The model's step is paid for before its output is looked at.
ModelGives(c) ==
    /\ at = "model" /\ ~aborted
    /\ cost' = Paid(c)
    /\ UNCHANGED <<iteration, toolCalls, late, signal, recent, unbilled, threw>>

\* final_answer, clarification and refusal end the turn.
ModelSettles ==
    /\ \E c \in Costs : ModelGives(c)
    /\ \E reason \in {"answer_finalized", "evidence_density_violation",
                      "clarification_required", "model_refused"} : Finish(reason)
    /\ UNCHANGED <<invalids, batch, owed>>

ModelAsksApproval ==
    /\ \E c \in Costs : ModelGives(c)
    /\ GoOn("approval")
    /\ UNCHANGED <<invalids, batch, owed>>

ApprovalPrepared ==
    /\ at = "approval"
    /\ IF aborted THEN Finish("cancelled") ELSE Finish("approval_required")
    /\ UNCHANGED <<limits, signal, batch, recent, owed, unbilled, threw>>

\* An invalid output, or a tool request without calls.
ModelInvalid ==
    /\ invalids' = invalids + 1
    /\ \E c \in Costs :
          /\ ModelGives(c)
          /\ IF invalids' >= MaxInvalid THEN Finish("model_invalid_response")
             ELSE FinishOr(Limit(iteration, Paid(c)), "top")
    /\ UNCHANGED <<batch, owed>>

\* Mutant: the limit is compared before the calls are counted in.
OneLeft(n) == toolCalls < MaxToolCalls

Affordable(n) == toolCalls + n <= MaxToolCalls

ModelRefusedTools ==
    /\ \E c \in Costs : ModelGives(c)
    /\ \/ Finish("tool_unavailable")
       \/ /\ \E n \in 1..MaxBatch : ~Affordable(n)
          /\ Finish("max_tool_calls_reached")
    /\ UNCHANGED <<invalids, batch, owed>>

ModelRequestsTools ==
    /\ \E c \in Costs : ModelGives(c)
    /\ \E n \in 1..MaxBatch :
          /\ Affordable(n)
          /\ calls' = [i \in 1..n |-> "waiting"]
          /\ runs' = [i \in 1..n |-> 0]
          /\ owed' = owed + n
    /\ mode' \in {"sequential", "parallel"}
    /\ GoOn("tools")
    /\ UNCHANGED <<invalids, results>>

\* listAvailable, the model, prepareRequest or a hook throws.
AdapterThrows ==
    /\ at \in {"tool list", "model", "approval", "results"}
    /\ Caught
    /\ UNCHANGED <<limits, signal, batch, recent, owed, unbilled, threw>>

-----------------------------------------------------------------------------
(* Tool batches *)

\* Calls of these indices pass the runtime policy, which answers the others.
Begin(allowed, begun) ==
    /\ calls' = [i \in DOMAIN calls |->
                    IF i \notin begun THEN calls[i]
                    ELSE IF i \in allowed THEN "running" ELSE "answered"]
    /\ runs' = [i \in DOMAIN calls |-> IF i \in allowed THEN 1 ELSE runs[i]]
    /\ toolCalls' = toolCalls + Cardinality(allowed)
    /\ UNCHANGED <<at, iteration, invalids, cost, late, signal, mode, results,
                   recent, stopReason, owed, unbilled, threw>>

BeginParallel ==
    /\ at = "tools" /\ mode = "parallel"
    /\ \A i \in DOMAIN calls : calls[i] = "waiting"
    /\ \E allowed \in SUBSET DOMAIN calls : Begin(allowed, DOMAIN calls)

\* The first call is begun in any case, the others if the signal is not aborted.
BeginNext ==
    /\ at = "tools" /\ mode = "sequential"
    /\ \E i \in DOMAIN calls :
          /\ calls[i] = "waiting"
          /\ \A j \in 1..(i - 1) : calls[j] = "returned"
          /\ i > 1 => ~aborted
          /\ \E allowed \in SUBSET {i} : Begin(allowed, {i})

Returns(i, r) ==
    /\ calls' = [calls EXCEPT ![i] = "returned"]
    /\ results' = Append(results, r)
    /\ UNCHANGED <<at, limits, signal, mode, runs, recent, stopReason, owed, threw>>

PolicyAnswers(i) ==
    /\ calls[i] = "answered"
    /\ \E r \in PolicyResults : Returns(i, r)
    /\ UNCHANGED unbilled

Retriable(i) == runs[i] <= MaxRetries

ToolReturns(i) ==
    /\ calls[i] = "running"
    /\ \E r \in ToolResults :
          /\ r.status = "retryable" => aborted \/ ~Retriable(i)
          /\ Returns(i, r)
          /\ unbilled' = unbilled + r.cost

\* A failed try is paid for before the call is tried again.
ToolFailsRetryably(i) ==
    /\ calls[i] = "running"
    /\ ~aborted /\ Retriable(i)
    /\ \E c \in Costs : cost' = Paid(c)
    /\ calls' = [calls EXCEPT ![i] = "backoff"]
    /\ UNCHANGED <<at, iteration, toolCalls, invalids, late, signal, mode, runs,
                   results, recent, stopReason, owed, unbilled, threw>>

\* A result that an abort leaves behind is never looked at.
BackoffAborted(i) ==
    /\ calls[i] = "backoff" /\ aborted
    /\ Returns(i, [status |-> "retryable", output |-> NoOutput, cost |-> 0])
    /\ UNCHANGED unbilled

\* Mutant: the tries are not counted.
RetriedUncounted(i) == runs

Retried(i) == [runs EXCEPT ![i] = @ + 1]

BackoffEnds(i) ==
    /\ calls[i] = "backoff" /\ ~aborted
    /\ calls' = [calls EXCEPT ![i] = "running"]
    /\ runs' = Retried(i)
    /\ UNCHANGED <<at, limits, signal, mode, results, recent, stopReason, owed,
                   unbilled, threw>>

\* tools.execute or the runtime policy throws.  The other calls of a parallel
\* batch run on, and their retries too, with the turn over.
ToolThrows(i) ==
    /\ calls[i] \in {"answered", "running"}
    /\ calls' = [calls EXCEPT ![i] = "returned"]
    /\ IF at = "tools" THEN Caught ELSE UNCHANGED <<at, stopReason>>
    /\ threw' = (threw \/ mode = "parallel")
    /\ UNCHANGED <<limits, signal, mode, runs, results, recent, owed, unbilled>>

Outstanding == {i \in DOMAIN calls : calls[i] \in {"answered", "running", "backoff"}}

\* Mutant: Promise.race for Promise.all.
FirstIsOver == \E i \in DOMAIN calls : calls[i] = "returned"

BatchIsOver ==
    \/ \A i \in DOMAIN calls : calls[i] = "returned"
    \/ mode = "sequential" /\ aborted /\ Outstanding = {} /\ calls[1] = "returned"

\* Mutant: the results are looked at all the same.
CancelledNever == FALSE

CancelledInBatch == aborted

BatchCancelled ==
    /\ at = "tools" /\ BatchIsOver
    /\ CancelledInBatch
    /\ Finish("cancelled")
    /\ UNCHANGED <<limits, signal, batch, recent, owed, unbilled, threw>>

Terminates == \A k \in DOMAIN results : results[k].status = "terminate"

\* What results cost together.
TotalCost(rs) ==
    LET upto[n \in 0..Len(rs)] == IF n = 0 THEN 0 ELSE upto[n - 1] + rs[n].cost
    IN  upto[Len(rs)]

\* All results are paid for and recorded, and their text is the answer.
BatchTerminates ==
    /\ at = "tools" /\ BatchIsOver
    /\ ~CancelledInBatch
    /\ Terminates
    /\ cost' = Paid(TotalCost(results))
    /\ unbilled' = unbilled - TotalCost(results)
    /\ results' = <<>>
    /\ owed' = owed - Len(results)
    /\ \/ Finish("answer_finalized")
       \/ Finish("evidence_density_violation")
       \/ Caught
    /\ UNCHANGED <<iteration, toolCalls, invalids, late, signal, mode, calls, runs,
                   recent, threw>>

BatchGoesOn ==
    /\ at = "tools" /\ BatchIsOver
    /\ ~CancelledInBatch
    /\ ~Terminates
    /\ GoOn("results")
    /\ UNCHANGED <<limits, signal, batch, recent, owed, unbilled, threw>>

-----------------------------------------------------------------------------
(* Results *)

Billed(r) == r.cost

LastFive(s) == IF Len(s) > 5 THEN Tail(s) ELSE s

\* recordToolResultSignature: only results with an output are compared.
Remember(r) ==
    IF r.status \in {"retryable", "error"} THEN <<>>
    ELSE IF r.output = NoOutput THEN recent
    ELSE LastFive(Append(recent, r.output))

Redundant(r) ==
    LET s == Remember(r)
        n == Len(s)
    IN  r.output # NoOutput /\ n >= 3 /\ s[n] = s[n - 1] /\ s[n] = s[n - 2]

\* Why the loop ends with result r, if it does.  The clarification hook is asked
\* before anything else, but the limits come before its question.
Ending(r, clarified) ==
    LET limit == Limit(iteration, Paid(Billed(r)))
    IN  IF clarified
          THEN IF limit # "none" THEN limit ELSE "clarification_required"
        ELSE IF r.status = "error" THEN "tool_error_unrecoverable"
        ELSE IF Redundant(r) THEN "redundant_tool_loop"
        ELSE limit

\* Mutant: the results behind the first are forgotten.
LeftAfterFirst == <<>>

LeftAfter == Tail(results)

\* processToolResult; after the last one the loop goes round again.
ProcessResult ==
    /\ at = "results"
    /\ LET r == Head(results) IN
          /\ cost' = Paid(Billed(r))
          /\ unbilled' = unbilled - Billed(r)
          /\ \E clarified \in BOOLEAN :
                /\ recent' = IF clarified /\ r.status # "error" /\ r.status # "retryable"
                               THEN recent ELSE Remember(r)
                /\ FinishOr(Ending(r, clarified),
                            IF LeftAfter = <<>> THEN "top" ELSE "results")
    /\ results' = LeftAfter
    /\ owed' = owed - 1
    /\ invalids' = IF at' = "top" THEN 0 ELSE invalids
    /\ UNCHANGED <<iteration, toolCalls, late, signal, mode, calls, runs, threw>>

-----------------------------------------------------------------------------
(* The turn *)

Abort ==
    /\ at # "done" /\ ~aborted
    /\ aborted' = TRUE
    /\ abortedAt' = at
    /\ UNCHANGED <<at, limits, batch, recent, stopReason, owed, unbilled, threw>>

TimeIsUp ==
    /\ at # "done" /\ ~late
    /\ late' = TRUE
    /\ UNCHANGED <<at, iteration, toolCalls, invalids, cost, signal, batch, recent,
                   stopReason, owed, unbilled, threw>>

ModelStep ==
    \/ ModelCancelled \/ ModelSettles \/ ModelAsksApproval \/ ModelInvalid
    \/ ModelRefusedTools \/ ModelRequestsTools

CallStep(i) ==
    \/ PolicyAnswers(i) \/ ToolReturns(i) \/ ToolFailsRetryably(i)
    \/ BackoffAborted(i) \/ BackoffEnds(i) \/ ToolThrows(i)

BatchStep ==
    \/ BeginParallel \/ BeginNext \/ BatchCancelled \/ BatchTerminates \/ BatchGoesOn

Turn ==
    \/ ToolsListed \/ NextStep \/ ModelStep \/ ApprovalPrepared \/ AdapterThrows
    \/ BatchStep \/ ProcessResult
    \/ \E i \in DOMAIN calls : CallStep(i)

Next == Turn \/ Abort \/ TimeIsUp

Spec == Init /\ [][Next]_vars

\* The model, the tools, the adapters and the hooks settle in the end: nothing
\* in the loop times them out.
FairSpec == Spec /\ WF_vars(Turn)

-----------------------------------------------------------------------------
(* Properties *)

\* Every variable keeps to the shape of the turn's MutableState.
TypeOK ==
    /\ at \in Awaits \cup {"done"}
    /\ iteration \in Nat /\ toolCalls \in Nat /\ invalids \in Nat
    /\ cost \in 0..BudgetLimit
    /\ late \in BOOLEAN /\ aborted \in BOOLEAN /\ threw \in BOOLEAN
    /\ mode \in {"sequential", "parallel"}
    /\ calls \in Seq(CallStates)
    /\ runs \in Seq(Nat) /\ Len(runs) = Len(calls)
    /\ results \in Seq(ToolResults \cup PolicyResults)
    /\ recent \in Seq(Outputs) /\ Len(recent) <= 5
    /\ stopReason \in StopReasons
    /\ owed \in Int /\ unbilled \in Int
    /\ abortedAt \in Awaits \cup {"none"}

\* The limits hold however the calls of a batch overlap: no tool call is begun
\* beyond maxToolCalls, none is executed more than MaxRetries times over, and
\* the model is never asked once more than maxIterations allows; and when it is
\* asked again every run of a tool has been counted against the budget.
LimitsHold ==
    /\ TypeOK
    /\ toolCalls <= MaxToolCalls
    /\ \A i \in DOMAIN runs : runs[i] <= MaxRetries + 1
    /\ at = "model" => iteration <= MaxIterations /\ toolCalls < MaxToolCalls
    /\ at \in {"top", "model"} => unbilled <= 0

\* When the model is asked again every call it requested has its result in the
\* transcript.
ModelSeesResults == at \in {"top", "model"} => owed = 0 /\ Outstanding = {}

\* If the signal is aborted while the model, the approval adapter or a tool is
\* awaited the turn ends as cancelled, whatever these still answer or throw.
CancelWins ==
    at = "done" /\ abortedAt \in {"tool list", "model", "approval", "tools"}
        => stopReason = "cancelled"

\* No tool call is still under way once runTurn has returned, unless another
\* call of its parallel batch threw.
NoCallOutlivesTurn == at = "done" /\ Outstanding # {} => threw

\* A turn comes to an end, provided what it awaits does.
TurnEnds == <>(at = "done")

================================================================================
