------------------------ MODULE ContinuationLifecycle ------------------------
(***************************************************************************)
(* What a continuation promises its callers, with no calls, no store and   *)
(* no clock: the life of one record as the package README draws it.  It is *)
(* opened once, runs at most MaxAttempts bounded turns one after the       *)
(* other, posts at most one reply, and once it is closed it stays closed.  *)
(***************************************************************************)
EXTENDS Naturals

CONSTANT MaxAttempts  \* a natural number

VARIABLES
    status,    \* the record's status, "absent" before it is stored
    attempts,  \* turns started so far
    posted     \* replies handed to the user

lifeVars == <<status, attempts, posted>>

Closed == {"completed", "cancelled", "expired", "superseded", "failed"}

LifeInit ==
    /\ status = "absent"
    /\ attempts = 0
    /\ posted = 0

Open ==
    /\ status = "absent"
    /\ status' = "pending"
    /\ UNCHANGED <<attempts, posted>>

StartTurn ==
    /\ status = "pending"
    /\ attempts < MaxAttempts
    /\ status' = "resuming"
    /\ attempts' = attempts + 1
    /\ UNCHANGED posted

PostReply ==
    /\ status = "resuming"
    /\ posted = 0
    /\ posted' = 1
    /\ UNCHANGED <<status, attempts>>

\* The turn stopped resumable again; it has answered nobody yet.
Repend ==
    /\ status = "resuming"
    /\ posted = 0
    /\ status' = "pending"
    /\ UNCHANGED <<attempts, posted>>

Close ==
    /\ status \in {"pending", "resuming"}
    /\ status' \in Closed
    /\ UNCHANGED <<attempts, posted>>

LifeNext == Open \/ StartTurn \/ PostReply \/ Repend \/ Close

LifeSpec == LifeInit /\ [][LifeNext]_lifeVars
==============================================================================
