----------------------------- MODULE MemoryStore -----------------------------
(***************************************************************************)
(* The memory store over a relay memory adapter: scoped entries that are   *)
(* written, updated, promoted to a broader scope, compacted and deleted.   *)
(*                                                                         *)
(* Every access to the adapter is an await, so a promotion, a compaction,  *)
(* an update and the deletion of a scope work from what they have read     *)
(* while other calls go on, and may fail half-way.  What an entry's text   *)
(* says is abstracted to the facts it knows: a write or an update with new *)
(* content adds one, a promotion keeps them and a compaction callback      *)
(* keeps those of all its sources.                                         *)
(***************************************************************************)
EXTENDS Naturals, FiniteSets, FiniteSetsExt

CONSTANTS
    Scopes,        \* records [kind, id]
    MemoryCallers, \* calls under way
    MaxEntries,    \* bound on the entries ever stored
    MaxFacts,      \* bound on the facts ever told
    LastDay        \* bound on the clock

ASSUME MemoryConstants ==
    /\ \A s \in Scopes : s.kind \in {"session", "user", "workspace", "org", "object"}
    /\ MaxEntries \in Nat \ {0} /\ MaxFacts \in Nat /\ LastDay \in Nat

VARIABLES
    entries,    \* the adapter's records, by id; a higher id is a newer entry
    entriesMade, \* entries stored so far
    facts,      \* facts told so far
    call,       \* what each caller is doing
    day,        \* the clock
    forgotten,  \* history: facts of entries somebody asked to delete
    overtaken   \* history: facts added to an entry another call had in hand

memoryVars == <<entries, entriesMade, facts, call, day, forgotten, overtaken>>

NoExpiry == LastDay + 1
Expiries == 0 .. (LastDay - 1) \cup {NoExpiry}
NoEntry == [scope |-> [kind |-> "none", id |-> 0], knows |-> {}, expires |-> NoExpiry]
NoCall == [op |-> "none", from |-> {}, read |-> NoEntry, deletes |-> FALSE]

EntryIds == 1 .. MaxEntries
StoredEntries == {e \in EntryIds : entries[e] # NoEntry}

MemoryInit ==
    /\ entries = [e \in EntryIds |-> NoEntry]
    /\ entriesMade = 0
    /\ facts = 0
    /\ call = [c \in MemoryCallers |-> NoCall]
    /\ day = 0
    /\ forgotten = {}
    /\ overtaken = {}

-----------------------------------------------------------------------------
(* Reading *)

IsExpired(e) == entries[e].expires < day

\* fetchById: what get, promote, compact and update start from.
Readable == {e \in StoredEntries : ~ IsExpired(e)}

Newest(S, n) == {e \in S : Cardinality({f \in S : f > e}) < n}

\* listCandidates: the adapter lists the newest entries of all scopes (only a
\* workspace has a list of its own), three times as many as asked for.
Window(scope, limit) ==
    Newest(IF scope.kind = "workspace"
           THEN {e \in StoredEntries : entries[e].scope = scope} ELSE StoredEntries, 3 * limit)

\* retrieve, without includeNarrower.
Retrieve(scope, limit) ==
    Newest({e \in Window(scope, limit) : entries[e].scope = scope /\ ~ IsExpired(e)}, limit)

-----------------------------------------------------------------------------
(* Calls that store what they have read *)

PromotionRules ==
    [session   |-> {"user", "workspace", "org", "object"},
     user      |-> {"workspace", "org"},
     workspace |-> {"org"},
     org       |-> {},
     object    |-> {"user", "workspace", "org"}]

promotionAllowed(source, target) == target.kind \in PromotionRules[source.kind]

NoMemoryCall(c) == call[c] = NoCall

Others == UNCHANGED <<day, forgotten, overtaken>>

\* insert: the adapter adds a record under a new id.
Insert(record) ==
    /\ entriesMade < MaxEntries
    /\ entriesMade' = entriesMade + 1
    /\ entries' = [entries EXCEPT ![entriesMade + 1] = record]

\* write stores a fact that is new.
Write(c, scope, expires) ==
    /\ NoMemoryCall(c)
    /\ facts < MaxFacts
    /\ facts' = facts + 1
    /\ Insert([scope |-> scope, knows |-> {facts + 1}, expires |-> expires])
    /\ UNCHANGED call
    /\ Others

\* promote as far as its insert: the draft is the source in the target scope.
Promote(c, e, target, deleteOriginal) ==
    /\ NoMemoryCall(c)
    /\ e \in Readable
    /\ promotionAllowed(entries[e].scope, target)
    /\ call' = [call EXCEPT ![c] =
                  [op |-> "insert", from |-> {e}, deletes |-> deleteOriginal,
                   read |-> [entries[e] EXCEPT !.scope = target]]]
    /\ UNCHANGED <<entries, entriesMade, facts>>
    /\ Others

\* promoteLatestSessionMemory.
PromoteLatest(c, session, target, deleteOriginal) ==
    /\ session.kind = "session"
    /\ \E e \in Retrieve(session, 1) : Promote(c, e, target, deleteOriginal)

\* The expiry of the first source that has one.
FirstExpiry(S) ==
    LET limited == {e \in S : entries[e].expires # NoExpiry} IN
    IF limited = {} THEN {NoExpiry} ELSE {entries[e].expires : e \in limited}

\* compact as far as its insert, the callback included: sources of one scope,
\* listed by the caller in an order of its own.
Compact(c, S, deleteSourceEntries) ==
    /\ NoMemoryCall(c)
    /\ S # {}
    /\ S \subseteq Readable
    /\ \A e, f \in S : entries[e].scope = entries[f].scope
    /\ \E expires \in FirstExpiry(S) :
        call' = [call EXCEPT ![c] =
                   [op |-> "insert", from |-> S, deletes |-> deleteSourceEntries,
                    read |-> [scope |-> entries[CHOOSE e \in S : TRUE].scope,
                              knows |-> UNION {entries[e].knows : e \in S},
                              expires |-> expires]]]
    /\ UNCHANGED <<entries, entriesMade, facts>>
    /\ Others

\* Mutant: the sources go first.
DeletesFirst(c) ==
    IF call[c].deletes
    THEN /\ entries' = [e \in EntryIds |-> IF e \in call[c].from THEN NoEntry ELSE entries[e]]
         /\ call' = [call EXCEPT ![c].deletes = FALSE]
         /\ UNCHANGED entriesMade
    ELSE Insert(call[c].read) /\ call' = [call EXCEPT ![c] = NoCall]

\* The derived entry is stored; then its sources are deleted, if they are to be.
StoreDerived(c) ==
    /\ Insert(call[c].read)
    /\ call' = [call EXCEPT ![c] =
                  IF call[c].deletes THEN [call[c] EXCEPT !.op = "delete"] ELSE NoCall]

InsertDerived(c) ==
    /\ call[c].op = "insert"
    /\ StoreDerived(c)
    /\ UNCHANGED facts
    /\ Others

\* deleteById, one source after the other.
DeleteSource(c) ==
    /\ call[c].op = "delete"
    /\ \E e \in call[c].from :
        /\ entries' = [entries EXCEPT ![e] = NoEntry]
        /\ call' = [call EXCEPT ![c] =
                      IF call[c].from = {e} THEN NoCall ELSE [call[c] EXCEPT !.from = @ \ {e}]]
    /\ UNCHANGED <<entriesMade, facts>>
    /\ Others

\* The adapter or the compaction callback throws: the call ends where it is.
Fail(c) ==
    /\ ~ NoMemoryCall(c)
    /\ call' = [call EXCEPT ![c] = NoCall]
    /\ UNCHANGED <<entries, entriesMade, facts>>
    /\ Others

-----------------------------------------------------------------------------
(* Updates and deletions *)

\* A call other than c's has read e and will store what it read, or delete it.
InHand(c, e) == \E d \in MemoryCallers \ {c} : ~ NoMemoryCall(d) /\ e \in call[d].from

\* update reads the entry; the patch it will store has its content, unless the
\* caller gives a new one.
StartUpdate(c, e) ==
    /\ NoMemoryCall(c)
    /\ e \in Readable
    /\ call' = [call EXCEPT ![c] = [op |-> "update", from |-> {e}, read |-> entries[e],
                                    deletes |-> FALSE]]
    /\ UNCHANGED <<entries, entriesMade, facts>>
    /\ Others

\* The adapter reads the entry again first, for what the patch leaves out: its
\* scope, which never changes, and its expiry, which may be any here, so that this
\* read and the write after it are one step.  If it is gone the call fails.
StoreUpdate(c, newContent, expires) ==
    /\ call[c].op = "update"
    /\ call' = [call EXCEPT ![c] = NoCall]
    /\ \E e \in call[c].from :
        /\ e \in StoredEntries
        /\ newContent => facts < MaxFacts
        /\ facts' = IF newContent THEN facts + 1 ELSE facts
        /\ entries' = [entries EXCEPT ![e].expires = expires,
                         ![e].knows = call[c].read.knows
                                      \cup (IF newContent THEN {facts + 1} ELSE {})]
        /\ overtaken' = IF newContent /\ InHand(c, e)
                        THEN overtaken \cup {facts + 1} ELSE overtaken
    /\ UNCHANGED <<entriesMade, day, forgotten>>

Delete(e) ==
    /\ e \in StoredEntries
    /\ entries' = [entries EXCEPT ![e] = NoEntry]
    /\ forgotten' = forgotten \cup entries[e].knows
    /\ UNCHANGED <<entriesMade, facts, call, day, overtaken>>

\* deleteManyByScope: the scope is listed first.
StartDeleteByScope(c, scope) ==
    LET S == {e \in StoredEntries : entries[e].scope = scope} IN
    /\ NoMemoryCall(c)
    /\ S # {}
    /\ call' = [call EXCEPT ![c] = [NoCall EXCEPT !.op = "forget", !.from = S]]
    /\ UNCHANGED <<entries, entriesMade, facts>>
    /\ Others

DeleteOfScope(c) ==
    /\ call[c].op = "forget"
    /\ \E e \in call[c].from :
        /\ entries' = [entries EXCEPT ![e] = NoEntry]
        /\ forgotten' = forgotten \cup entries[e].knows
        /\ call' = [call EXCEPT ![c] =
                      IF call[c].from = {e} THEN NoCall ELSE [call[c] EXCEPT !.from = @ \ {e}]]
    /\ UNCHANGED <<entriesMade, facts, day, overtaken>>

DayPasses ==
    /\ day < LastDay
    /\ day' = day + 1
    /\ UNCHANGED <<entries, entriesMade, facts, call, forgotten, overtaken>>

-----------------------------------------------------------------------------
MemoryNext ==
    \/ \E c \in MemoryCallers :
        \/ \E s \in Scopes, x \in Expiries : Write(c, s, x)
        \/ \E e \in EntryIds, s \in Scopes, d \in BOOLEAN : Promote(c, e, s, d)
        \/ \E s, t \in Scopes, d \in BOOLEAN : PromoteLatest(c, s, t, d)
        \/ \E S \in SUBSET EntryIds, d \in BOOLEAN : Compact(c, S, d)
        \/ InsertDerived(c) \/ DeleteSource(c) \/ Fail(c)
        \/ \E e \in EntryIds : StartUpdate(c, e)
        \/ \E n \in BOOLEAN, x \in Expiries : StoreUpdate(c, n, x)
        \/ \E s \in Scopes : StartDeleteByScope(c, s)
        \/ DeleteOfScope(c)
    \/ \E e \in EntryIds : Delete(e)
    \/ DayPasses

MemorySpec == MemoryInit /\ [][MemoryNext]_memoryVars

-----------------------------------------------------------------------------
(* Properties *)

\* Nothing is lost half-way: whatever was told is in some stored entry, however
\* promotions, compactions and their deletions interleave and fail.  It is gone
\* only if an entry that knew it was deleted on request, or if it was added to
\* an entry while another call worked from the text as it was before.
KnowledgeKept ==
    \A f \in (1 .. facts) \ (forgotten \cup overtaken) :
        \E e \in StoredEntries : f \in entries[e].knows

\* "The same handler can `retrieve()` that entry in the next turn": a scope with
\* a live entry retrieves one, however many entries other scopes have.
RetrieveFindsOwn ==
    \A s \in Scopes : (\E e \in Readable : entries[e].scope = s) => Retrieve(s, 1) # {}
=============================================================================
