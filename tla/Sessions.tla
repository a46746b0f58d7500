-------------------------------- MODULE Sessions -------------------------------
(***************************************************************************)
(* The session store of one user.  Every operation fetches a session,      *)
(* decides on a patch and hands it to the adapter's update, with an await  *)
(* before and after; calls interleave there.  The in-memory adapter merges *)
(* the patch into the stored session at once; the runtime adapter takes    *)
(* the patch with its time, reads the session again and later writes it as *)
(* a whole.                                                                *)
(*                                                                         *)
(* The message path, resolveSession with the default affinity resolver,    *)
(* finds the user's session and touches it, or creates one.                *)
(***************************************************************************)
EXTENDS Naturals, FiniteSets

CONSTANTS
    SessionCallers, \* calls that may be under way at once
    SessionIds,     \* session ids
    Channels,       \* surfaces
    Ttl,            \* time without activity after which a session is stale
    LastTime,       \* bound on the clock
    MaxOps          \* bound on the calls made

ASSUME SessionConstants ==
    /\ {"none"} \cap (SessionIds \cup Channels) = {}
    /\ Ttl \in Nat
    /\ LastTime \in Nat
    /\ MaxOps \in Nat

VARIABLES
    adapter,   \* the store's adapter: "memory" or "runtime"
    session,   \* the stored sessions
    op,        \* of each caller: the call it is in, and what it has read
    now,       \* the clock
    ops,       \* calls made so far (bound)
    promised,  \* history: the sessions as they would be if calls took effect
               \* one at a time, as the store's interface describes them
    raced      \* history: sessions written by a call whose copy was out of date

sessVars == <<adapter, session, op, now, ops, promised, raced>>

NoValue == "none"
NoSession == [state |-> NoValue, last |-> 0, surfaces |-> {}]
NoOp == [at |-> "idle", does |-> NoValue, on |-> NoValue, arg |-> NoValue,
         copy |-> NoSession, stamp |-> 0, base |-> NoSession, rest |-> <<>>]

SessInit ==
    /\ adapter \in {"memory", "runtime"}
    /\ session = [s \in SessionIds |-> NoSession]
    /\ op = [k \in SessionCallers |-> NoOp]
    /\ now = 0
    /\ ops = 0
    /\ promised = session
    /\ raced = {}

-----------------------------------------------------------------------------
(* What the operations do *)

Exists(s) == session[s] # NoSession

\* find with a state filter.
Having(states) == {s \in SessionIds : session[s].state \in states}

\* A call that throws or returns on the session it fetched.
Refuses(does, arg, r) ==
    CASE does = "touch"  -> r.state = "expired"
      [] does = "attach" -> arg \in r.surfaces
      [] does = "detach" -> arg \notin r.surfaces
      [] does = "expire" -> r.state = "expired"
      [] OTHER -> FALSE

\* Mutant: a touch leaves a suspended session suspended.
PatchActivity(does, arg, r, t) ==
    CASE does = "touch"  -> IF r.state = "created" THEN [last |-> t, state |-> "active"]
                                                   ELSE [last |-> t]
      [] does = "attach" -> [surfaces |-> r.surfaces \cup {arg}]
      [] does = "detach" -> [surfaces |-> r.surfaces \ {arg}]
      [] does = "expire" -> [state |-> "expired"]
      [] OTHER -> [state |-> "suspended"]

\* The patch of an operation, given the session it fetched and the time it took then.
Patch(does, arg, r, t) ==
    CASE does = "touch"  -> IF r.state \in {"created", "suspended"}
                            THEN [last |-> t, state |-> "active"] ELSE [last |-> t]
      [] does = "attach" -> [surfaces |-> r.surfaces \cup {arg}]
      [] does = "detach" -> [surfaces |-> r.surfaces \ {arg}]
      [] does = "expire" -> [state |-> "expired"]
      [] OTHER -> [state |-> "suspended"]

Merged(patch, r) == [f \in DOMAIN r |-> IF f \in DOMAIN patch THEN patch[f] ELSE r[f]]

StaleAt(t, r) == r.last + Ttl < t

\* defaultAffinityResolver: sessions with the surface attached first, and the
\* one with the latest activity among them.
Best(x) ==
    LET live == Having({"active", "suspended"})
        there == {s \in live : x \in session[s].surfaces}
        pool == IF there # {} THEN there ELSE live
    IN  {s \in pool : \A t \in pool : session[t].last <= session[s].last}

-----------------------------------------------------------------------------
(* The history: operations one at a time *)

Latest(t, u) == IF t < u THEN u ELSE t

\* What an operation does to a session by the store's interface, a touch at time t.
Promise(does, arg, r, t) ==
    IF r.state = "expired" /\ does \in {"touch", "suspend"} THEN r ELSE
    CASE does = "touch"   -> [r EXCEPT !.state = "active", !.last = Latest(t, @)]
      [] does = "attach"  -> [r EXCEPT !.surfaces = @ \cup {arg}]
      [] does = "detach"  -> [r EXCEPT !.surfaces = @ \ {arg}]
      [] does = "expire"  -> [r EXCEPT !.state = "expired"]
      [] does = "suspend" -> [r EXCEPT !.state = IF @ = "active" THEN "suspended" ELSE @]

\* What of a session an operation's patch depends on.
Matters(does, r) ==
    CASE does = "touch" -> <<r.state>>
      [] does \in {"attach", "detach"} -> <<r.surfaces>>
      [] does = "suspend" -> <<r.state, r.last>>
      [] OTHER -> <<>>

\* The time in a call's patch: the runtime adapter's update awaits a read after it.
PatchTime(k) == IF adapter = "runtime" THEN op[k].stamp ELSE now

\* The call writes from something that is no longer so.
OutOfDate(k) ==
    LET o == op[k]
    IN  \/ Matters(o.does, o.copy) # Matters(o.does, session[o.on])
        \/ o.does = "touch" /\ PatchTime(k) < session[o.on].last
        \/ adapter = "runtime" /\ o.base # session[o.on]

-----------------------------------------------------------------------------
(* Calls *)

Idle(k) == op[k].at = "idle"
Done(k) == op' = [op EXCEPT ![k] = NoOp]
Started == ops < MaxOps /\ ops' = ops + 1

\* touch, attachSurface, detachSurface and expire fetch the session.
Fetch(k, s, does, arg) ==
    /\ Idle(k)
    /\ Exists(s)
    /\ Started
    /\ op' = [op EXCEPT ![k] = [NoOp EXCEPT !.at = "fetched", !.does = does, !.on = s,
                                            !.arg = arg, !.copy = session[s]]]
    /\ UNCHANGED <<adapter, session, now, promised, raced>>

Refuse(k) ==
    /\ op[k].at = "fetched"
    /\ Refuses(op[k].does, op[k].arg, op[k].copy)
    /\ Done(k)
    /\ UNCHANGED <<adapter, session, now, ops, promised, raced>>

MayPatch(k) == op[k].at = "fetched" /\ ~Refuses(op[k].does, op[k].arg, op[k].copy)

\* The patch goes to the runtime adapter's update, with the time it was made.
Stamp(k) ==
    /\ adapter = "runtime"
    /\ MayPatch(k)
    /\ op' = [op EXCEPT ![k].at = "patched", ![k].stamp = now]
    /\ UNCHANGED <<adapter, session, now, ops, promised, raced>>

\* That update reads the session once more.
Reread(k) ==
    /\ op[k].at = "patched"
    /\ op' = [op EXCEPT ![k].at = "reread", ![k].base = session[op[k].on]]
    /\ UNCHANGED <<adapter, session, now, ops, promised, raced>>

\* The next of the stale sessions: its copy was taken when the sweep began.
Suspending(copies, s) ==
    [NoOp EXCEPT !.at = "fetched", !.does = "suspend", !.on = s, !.copy = copies[s],
                 !.rest = [t \in DOMAIN copies \ {s} |-> copies[t]]]

\* The patch is merged into the session, or the session is written with it.
Update(k) ==
    LET o == op[k]
        under == IF adapter = "runtime" THEN o.base ELSE session[o.on]
    IN  /\ IF adapter = "runtime" THEN o.at = "reread" ELSE MayPatch(k)
        /\ session' = [session EXCEPT ![o.on] =
                           Merged(Patch(o.does, o.arg, o.copy, PatchTime(k)), under)]
        /\ promised' = [promised EXCEPT ![o.on] = Promise(o.does, o.arg, @, PatchTime(k))]
        /\ raced' = IF OutOfDate(k) THEN raced \cup {o.on} ELSE raced
        /\ \/ o.rest = <<>> /\ Done(k)
           \/ \E s \in DOMAIN o.rest : op' = [op EXCEPT ![k] = Suspending(o.rest, s)]
        /\ UNCHANGED <<adapter, now, ops>>

\* sweepStale lists the sessions that were stale when it was called, at or before
\* the listing, and suspends one after the other.
Sweep(k) ==
    \E called \in IF adapter = "runtime" THEN 0..now ELSE {now} :
        LET stale == {s \in Having({"active"}) : StaleAt(called, session[s])}
            copies == [s \in stale |-> session[s]]
        IN  /\ Idle(k)
            /\ Started
            /\ \E s \in stale : op' = [op EXCEPT ![k] = Suspending(copies, s)]
            /\ UNCHANGED <<adapter, session, now, promised, raced>>

\* A message arrives; the resolver looks for a session to continue.
Resolve(k, x) ==
    /\ Idle(k)
    /\ Started
    /\ \/ \E s \in Best(x) :
            op' = [op EXCEPT ![k] = [NoOp EXCEPT !.at = "resolved", !.does = "touch", !.on = s]]
       \/ /\ Best(x) = {}
          /\ op' = [op EXCEPT ![k] = [NoOp EXCEPT !.at = "creating", !.arg = x]]
    /\ UNCHANGED <<adapter, session, now, promised, raced>>

\* The touch of the session resolved to fetches it again.
ResolvedTouch(k) ==
    /\ op[k].at = "resolved"
    /\ op' = [op EXCEPT ![k].at = "fetched", ![k].copy = session[op[k].on]]
    /\ UNCHANGED <<adapter, session, now, ops, promised, raced>>

\* create under a random id: nothing is stored under it.
Create(k) ==
    /\ op[k].at = "creating"
    /\ \E s \in SessionIds :
        /\ ~Exists(s)
        /\ session' = [session EXCEPT ![s] =
                        [state |-> "created", last |-> now, surfaces |-> {op[k].arg}]]
        /\ promised' = [promised EXCEPT ![s] = session'[s]]
    /\ Done(k)
    /\ UNCHANGED <<adapter, now, ops, raced>>

Later ==
    /\ now < LastTime
    /\ now' = now + 1
    /\ UNCHANGED <<adapter, session, op, ops, promised, raced>>

SessNext ==
    \/ \E k \in SessionCallers :
        \/ \E s \in SessionIds :
            \/ Fetch(k, s, "touch", NoValue)
            \/ Fetch(k, s, "expire", NoValue)
            \/ \E x \in Channels : Fetch(k, s, "attach", x) \/ Fetch(k, s, "detach", x)
        \/ \E x \in Channels : Resolve(k, x)
        \/ Sweep(k)
        \/ Refuse(k) \/ Stamp(k) \/ Reread(k) \/ Update(k)
        \/ ResolvedTouch(k) \/ Create(k)
    \/ Later

SessSpec == SessInit /\ [][SessNext]_sessVars

-----------------------------------------------------------------------------
(* Properties *)

SessTypeOK ==
    LET Stored == [state: {NoValue, "created", "active", "suspended", "expired"},
                   last: 0..LastTime, surfaces: SUBSET Channels]
    IN  /\ adapter \in {"memory", "runtime"}
        /\ session \in [SessionIds -> Stored]
        /\ promised \in [SessionIds -> Stored]
        /\ \A k \in SessionCallers :
            /\ op[k].at \in {"idle", "fetched", "patched", "reread", "resolved", "creating"}
            /\ op[k].copy \in Stored /\ op[k].base \in Stored /\ op[k].stamp \in 0..LastTime
            /\ op[k].on \in SessionIds \cup {NoValue} /\ op[k].arg \in Channels \cup {NoValue}
        /\ now \in 0..LastTime
        /\ ops \in 0..MaxOps
        /\ raced \subseteq SessionIds

\* A session is what its calls, one at a time, would have made of it, unless a
\* call wrote it from a copy in which what the call goes by was out of date, or
\* with a time older than the activity it overwrites: no attachment is lost, no
\* expired session revived, none suspended that was just touched, for any other
\* reason.  A copy out of date does all of these, against v1-sessions-spec.md:56.
KeepsPromises ==
    /\ SessTypeOK
    /\ \A s \in SessionIds \ raced : session[s] = promised[s]

=============================================================================
