------------------------------ MODULE CallGuard ------------------------------
(***************************************************************************)
(* The idempotency guard in front of a tool registry.                      *)
(*                                                                         *)
(* It keeps, for the turns used last, the calls that have succeeded, and   *)
(* answers a repeated call itself: with a hint, then with the earlier      *)
(* output, then with an error that ends the turn.  A call in flight holds  *)
(* on to its turn's cache, which another turn may push out meanwhile.      *)
(***************************************************************************)
EXTENDS Integers, FiniteSets, Sequences, SequencesExt

CONSTANTS
    ToolCalls,  \* calls made
    GuardTurns, \* turns that make them
    ToolInputs,     \* tool names with their inputs
    MaxTurns    \* turns whose calls are remembered

ASSUME GuardConstants == MaxTurns \in Nat \ {0} /\ IsFiniteSet(ToolCalls)

VARIABLES
    asks,      \* turn and input of each call
    answer,     \* how it was answered, or where it is
    turnCaches, \* the caches of the turns used last, the oldest first
    entry,      \* per cache: how often each remembered input was repeated
    cacheOf,    \* the cache each call holds
    caches,     \* caches made so far
    succeeded,  \* history: when a call began, had an identical one succeeded
    pushedOut   \* history: calls whose turn's cache was pushed out since they began

guardVars == <<asks, answer, turnCaches, entry, cacheOf, caches, succeeded, pushedOut>>

Forgotten == -1     \* no record
NoCache == 0

GuardInit ==
    /\ asks \in [ToolCalls -> GuardTurns \X ToolInputs]
    /\ answer = [k \in ToolCalls |-> "new"]
    /\ turnCaches = <<>>
    /\ entry = [n \in 1 .. Cardinality(ToolCalls) |-> [i \in ToolInputs |-> Forgotten]]
    /\ cacheOf = [k \in ToolCalls |-> NoCache]
    /\ caches = 0
    /\ succeeded = [k \in ToolCalls |-> {}]
    /\ pushedOut = {}

-----------------------------------------------------------------------------
GuardTurn(k) == asks[k][1]
Input(k) == asks[k][2]

\* touchTurnCache: the turn moves to the end, with a new cache if it has none.
Touched(t) ==
    LET known == {i \in DOMAIN turnCaches : turnCaches[i][1] = t} IN
    IF known = {} THEN Append(turnCaches, <<t, caches + 1>>)
    ELSE LET i == CHOOSE i \in known : TRUE
         IN  Append(RemoveAt(turnCaches, i), turnCaches[i])

\* evictOldestTurnIfNeeded.
KeepRecent(cs) ==
    IF Len(cs) > MaxTurns THEN SubSeq(cs, Len(cs) - MaxTurns + 1, Len(cs)) ELSE cs

Tier(repeats) ==
    CASE repeats = 1 -> "hint" [] repeats = 2 -> "directive" [] OTHER -> "abort"

\* execute up to its first await.
ExecuteGuarded(k) ==
    LET touched == Touched(GuardTurn(k))
        kept == KeepRecent(touched)
        evicted == {c[1] : c \in ToSet(touched)} \ {c[1] : c \in ToSet(kept)}
        cache == Last(kept)[2]
        repeats == entry[cache][Input(k)] IN
    /\ answer[k] = "new"
    /\ turnCaches' = kept
    /\ caches' = IF cache > caches THEN cache ELSE caches
    /\ cacheOf' = [cacheOf EXCEPT ![k] = cache]
    /\ IF repeats # Forgotten
       THEN /\ entry' = [entry EXCEPT ![cache][Input(k)] = repeats + 1]
            /\ answer' = [answer EXCEPT ![k] = Tier(repeats + 1)]
       ELSE answer' = [answer EXCEPT ![k] = "running"] /\ UNCHANGED entry
    /\ succeeded' = [succeeded EXCEPT ![k] = {j \in ToolCalls : answer[j] = "ok"}]
    /\ pushedOut' = pushedOut
           \cup {j \in ToolCalls : answer[j] # "new" /\ GuardTurn(j) \in evicted}
    /\ UNCHANGED asks

\* Mutant: errors are remembered as well.
RememberedAll(k, outcome) == TRUE

Remembered(k, outcome) == outcome = "ok"

\* The inner registry answers.
InnerReturns(k, outcome) ==
    /\ answer[k] = "running"
    /\ answer' = [answer EXCEPT ![k] = outcome]
    /\ IF Remembered(k, outcome)
       THEN entry' = [entry EXCEPT ![cacheOf[k]][Input(k)] = 0]
       ELSE UNCHANGED entry
    /\ UNCHANGED <<asks, turnCaches, cacheOf, caches, succeeded, pushedOut>>

GuardNext ==
    \E k \in ToolCalls :
        ExecuteGuarded(k) \/ \E outcome \in {"ok", "error"} : InnerReturns(k, outcome)

GuardSpec == GuardInit /\ [][GuardNext]_guardVars

-----------------------------------------------------------------------------
(* Properties *)

ByGuard == {"hint", "directive", "abort"}

\* The guard answers the repeats and nothing else: a call it answers itself had
\* succeeded in the same turn before, so that a call that failed can be made
\* again; and a call that had succeeded is not run again, unless its turn has
\* been pushed out since that call began.
RepeatsAreBlocked ==
    \A k \in ToolCalls :
        LET before == {j \in succeeded[k] : asks[j] = asks[k]} IN
        /\ answer[k] \in ByGuard => before # {}
        /\ answer[k] \in {"running", "ok", "error"} => before \subseteq pushedOut

=============================================================================
