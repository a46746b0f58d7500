------------------------------ MODULE StoreProofs ------------------------------
(***************************************************************************)
(* Theorems about MemoryStore, Sessions and CloneRequests, for any scopes, *)
(* callers, sessions, calls, times to live, cooldowns and bounds.          *)
(*                                                                         *)
(* That nothing is lost half-way rests on two facts.  A call that works    *)
(* from entries it has read still knows what they know, but for what was   *)
(* added meanwhile; an update knows nothing they do not.  And whatever was *)
(* told is in an entry that no call is about to delete.                    *)
(*                                                                         *)
(* A call on a session patches what it may: it has not been refused on its *)
(* copy, and one that suspends took the copy of an active session.  Where  *)
(* what matters in the copy is still so, the patch is what was promised.   *)
(*                                                                         *)
(* A cached clone status is good until the poll that fetched it began plus *)
(* the time to live.  The service reads its state at some instant after    *)
(* the poll began, so a status is never older than its place in the cache  *)
(* says; the invariant follows the two instants from the poll, through the *)
(* call that waits for it, into the cache.                                 *)
(***************************************************************************)
EXTENDS MemoryStore, Sessions, CloneRequests, SequenceTheorems, TLAPS

EntryRecords == [scope : Scopes, knows : SUBSET Nat, expires : Nat]

CallRecords ==
    [op : {"none", "insert", "delete", "update", "forget"}, from : SUBSET EntryIds,
     read : EntryRecords \cup {NoEntry}, deletes : BOOLEAN]

MemoryTypes ==
    /\ entries \in [EntryIds -> EntryRecords \cup {NoEntry}]
    /\ entriesMade \in 0 .. MaxEntries
    /\ facts \in Nat
    /\ call \in [MemoryCallers -> CallRecords]
    /\ day \in Nat

\* What a call k has in hand of the entries it is working from.
InHandInv(k) ==
    /\ k.from \subseteq 1 .. entriesMade
    /\ k.op = "insert" => k.read \in EntryRecords
    /\ k = NoCall \/ k.op # "none"
    /\ \A e \in k.from \cap StoredEntries :
        /\ k.op \in {"insert", "update"} => entries[e].knows \subseteq k.read.knows \cup overtaken
        /\ k.op = "update" => k.read.knows \subseteq entries[e].knows \cup overtaken

Told == (1 .. facts) \ (forgotten \cup overtaken)

\* The entry stays: no call is about to delete it as one of its sources.
Safe(e) == e \in StoredEntries /\ \A c \in MemoryCallers : call[c].op = "delete" => e \notin call[c].from

MemoryInv ==
    /\ StoredEntries \subseteq 1 .. entriesMade
    /\ \A c \in MemoryCallers : InHandInv(call[c])
    /\ \A f \in Told : \E e \in EntryIds : Safe(e) /\ f \in entries[e].knows

LEMMA NotAnEntry == NoEntry \notin EntryRecords
  BY MemoryConstants DEF NoEntry, EntryRecords

LEMMA MemoryInitOK == MemoryInit => MemoryTypes /\ MemoryInv
  <1> SUFFICES ASSUME MemoryInit PROVE MemoryTypes /\ MemoryInv
    OBVIOUS
  <1> USE MemoryConstants DEF MemoryInit
  <1>1. NoCall \in CallRecords
    BY DEF NoCall, CallRecords
  <1>2. MemoryTypes
    BY <1>1 DEF MemoryTypes
  <1>3. StoredEntries = {} /\ Told = {}
    BY DEF StoredEntries, Told
  <1>4. InHandInv(NoCall)
    BY DEF InHandInv, NoCall
  <1> QED BY <1>2, <1>3, <1>4 DEF MemoryInv

-----------------------------------------------------------------------------
(* Calls that begin or fail *)

\* A call that takes k in hand, and deletes no sources yet, changes nothing else.
LEMMA TakesInHand ==
    ASSUME MemoryTypes, MemoryInv, NEW c \in MemoryCallers, NEW k \in CallRecords,
           InHandInv(k), k.op # "delete",
           call' = [call EXCEPT ![c] = k],
           UNCHANGED <<entries, entriesMade, facts, day, forgotten, overtaken>>
    PROVE  MemoryTypes' /\ MemoryInv'
  <1>1. StoredEntries' = StoredEntries /\ Told' = Told
    BY DEF StoredEntries, Told
  <1>2. \A d \in MemoryCallers : InHandInv(call'[d])
    BY DEF MemoryInv, MemoryTypes
  <1>3. \A d \in MemoryCallers : InHandInv(call[d])'
    BY <1>1, <1>2 DEF InHandInv
  <1>4. \A e : Safe(e) => Safe(e)'
    BY <1>1 DEF Safe, MemoryTypes
  <1> QED BY <1>1, <1>3, <1>4 DEF MemoryTypes, MemoryInv

LEMMA ReadableEntry ==
    ASSUME MemoryTypes, NEW e \in Readable
    PROVE  e \in EntryIds /\ e \in StoredEntries /\ entries[e] \in EntryRecords
  BY DEF Readable, StoredEntries, MemoryTypes

LEMMA PromoteKeeps ==
    ASSUME MemoryTypes, MemoryInv, NEW c \in MemoryCallers, NEW e, NEW target \in Scopes,
           NEW d \in BOOLEAN, Promote(c, e, target, d)
    PROVE  MemoryTypes' /\ MemoryInv'
  <1> DEFINE draft == [entries[e] EXCEPT !.scope = target]
             k == [op |-> "insert", from |-> {e}, deletes |-> d, read |-> draft]
  <1>1. e \in EntryIds /\ e \in StoredEntries /\ entries[e] \in EntryRecords
    BY ReadableEntry DEF Promote
  <1>2. draft \in EntryRecords /\ draft.knows = entries[e].knows
    BY <1>1 DEF EntryRecords
  <1>3. k \in CallRecords
    BY <1>1, <1>2 DEF CallRecords
  <1>4. InHandInv(k)
    BY <1>1, <1>2 DEF InHandInv, MemoryInv
  <1>5. call' = [call EXCEPT ![c] = k] /\ k.op # "delete"
    BY DEF Promote
  <1> HIDE DEF k
  <1> QED BY <1>3, <1>4, <1>5, TakesInHand DEF Promote, Others

LEMMA CompactKeeps ==
    ASSUME MemoryTypes, MemoryInv, NEW c \in MemoryCallers, NEW S, NEW d \in BOOLEAN,
           Compact(c, S, d)
    PROVE  MemoryTypes' /\ MemoryInv'
  <1>1. PICK expires \in FirstExpiry(S) :
          call' = [call EXCEPT ![c] =
                     [op |-> "insert", from |-> S, deletes |-> d,
                      read |-> [scope |-> entries[CHOOSE e \in S : TRUE].scope,
                                knows |-> UNION {entries[e].knows : e \in S},
                                expires |-> expires]]]
    BY DEF Compact
  <1> DEFINE draft == [scope |-> entries[CHOOSE e \in S : TRUE].scope,
                       knows |-> UNION {entries[e].knows : e \in S},
                       expires |-> expires]
             k == [op |-> "insert", from |-> S, deletes |-> d, read |-> draft]
  <1>2. \A e \in S : e \in EntryIds /\ e \in StoredEntries /\ entries[e] \in EntryRecords
    BY ReadableEntry DEF Compact
  <1>3. draft \in EntryRecords
    <2>1. (CHOOSE e \in S : TRUE) \in S
      BY DEF Compact
    <2>2. draft.scope \in Scopes
      BY <1>2, <2>1 DEF EntryRecords
    <2>3. draft.knows \in SUBSET Nat
      BY <1>2 DEF EntryRecords
    <2>4. draft.expires \in Nat
      BY <1>2, MemoryConstants DEF FirstExpiry, NoExpiry, EntryRecords
    <2> QED BY <2>2, <2>3, <2>4 DEF EntryRecords
  <1>4. k \in CallRecords
    BY <1>2, <1>3 DEF CallRecords
  <1>5. \A e \in S : entries[e].knows \subseteq draft.knows
    OBVIOUS
  <1>6. InHandInv(k)
    BY <1>2, <1>3, <1>5 DEF InHandInv, MemoryInv
  <1>7. call' = [call EXCEPT ![c] = k] /\ k.op # "delete"
    BY <1>1
  <1> HIDE DEF k
  <1> QED BY <1>4, <1>6, <1>7, TakesInHand DEF Compact, Others

LEMMA OtherCallsKeep ==
    ASSUME MemoryTypes, MemoryInv, NEW c \in MemoryCallers,
           \/ Fail(c) \/ \E e \in EntryIds : StartUpdate(c, e)
           \/ \E s \in Scopes : StartDeleteByScope(c, s)
    PROVE  MemoryTypes' /\ MemoryInv'
  <1>1. CASE Fail(c)
    <2>1. NoCall \in CallRecords /\ InHandInv(NoCall) /\ NoCall.op # "delete"
      BY DEF NoCall, CallRecords, InHandInv
    <2> QED BY <1>1, <2>1, TakesInHand DEF Fail, Others
  <1>2. ASSUME NEW e \in EntryIds, StartUpdate(c, e)
        PROVE  MemoryTypes' /\ MemoryInv'
    <2> DEFINE k == [op |-> "update", from |-> {e}, read |-> entries[e], deletes |-> FALSE]
    <2>1. e \in StoredEntries /\ entries[e] \in EntryRecords
      BY <1>2, ReadableEntry DEF StartUpdate
    <2>2. k \in CallRecords /\ k.op # "delete"
      BY <2>1 DEF CallRecords
    <2>3. InHandInv(k)
      BY <2>1 DEF InHandInv, MemoryInv
    <2>4. call' = [call EXCEPT ![c] = k]
      BY <1>2 DEF StartUpdate
    <2> HIDE DEF k
    <2> QED BY <1>2, <2>2, <2>3, <2>4, TakesInHand DEF StartUpdate, Others
  <1>3. ASSUME NEW s \in Scopes, StartDeleteByScope(c, s)
        PROVE  MemoryTypes' /\ MemoryInv'
    <2> DEFINE S == {e \in StoredEntries : entries[e].scope = s}
               k == [NoCall EXCEPT !.op = "forget", !.from = S]
    <2>1. k \in CallRecords /\ k.op = "forget" /\ k.from = S
      BY DEF CallRecords, NoCall, StoredEntries
    <2>2. InHandInv(k)
      BY <2>1 DEF InHandInv, MemoryInv
    <2>3. call' = [call EXCEPT ![c] = k]
      BY <1>3 DEF StartDeleteByScope
    <2> HIDE DEF k
    <2> QED BY <1>3, <2>1, <2>2, <2>3, TakesInHand DEF StartDeleteByScope, Others
  <1> QED BY <1>1, <1>2, <1>3

-----------------------------------------------------------------------------
(* Entries that are added and go *)

\* A record under a new id is nobody's source and disturbs no other entry.
LEMMA InsertAdds ==
    ASSUME MemoryTypes, MemoryInv, NEW record \in EntryRecords, Insert(record)
    PROVE  LET n == entriesMade + 1 IN
           /\ entries' \in [EntryIds -> EntryRecords \cup {NoEntry}]
           /\ entriesMade' \in 0 .. MaxEntries /\ n \in EntryIds
           /\ StoredEntries' = StoredEntries \cup {n} /\ n \notin StoredEntries
           /\ StoredEntries' \subseteq 1 .. entriesMade'
           /\ entries'[n] = record
           /\ \A e \in StoredEntries : entries'[e] = entries[e]
           /\ \A c \in MemoryCallers : n \notin call[c].from
  <1> DEFINE n == entriesMade + 1
  <1>1. n \in EntryIds /\ entriesMade' = n /\ entries' = [entries EXCEPT ![n] = record]
    BY MemoryConstants DEF Insert, MemoryTypes, EntryIds
  <1>2. n \notin StoredEntries /\ \A c \in MemoryCallers : n \notin call[c].from
    BY DEF MemoryInv, InHandInv, MemoryTypes
  <1>3. StoredEntries' = StoredEntries \cup {n}
    BY <1>1, NotAnEntry DEF StoredEntries, MemoryTypes
  <1>4. StoredEntries' \subseteq 1 .. entriesMade'
    <2>1. StoredEntries \subseteq 1 .. entriesMade /\ entriesMade \in Nat
      BY DEF MemoryInv, MemoryTypes
    <2>2. StoredEntries \subseteq 1 .. n /\ n \in 1 .. n
      BY <2>1
    <2> QED BY <1>1, <1>3, <2>2
  <1>5. \A e \in StoredEntries : entries'[e] = entries[e]
    BY <1>1, <1>2 DEF MemoryTypes, StoredEntries
  <1> QED BY <1>1, <1>2, <1>3, <1>4, <1>5, MemoryConstants DEF MemoryTypes, EntryIds, Insert

LEMMA WriteKeeps ==
    ASSUME MemoryTypes, MemoryInv, NEW c \in MemoryCallers, NEW s \in Scopes, NEW x \in Expiries,
           Write(c, s, x)
    PROVE  MemoryTypes' /\ MemoryInv'
  <1> DEFINE record == [scope |-> s, knows |-> {facts + 1}, expires |-> x]
  <1>0. PICK n : n = entriesMade + 1
    OBVIOUS
  <1>1. x \in Nat
    BY MemoryConstants DEF Expiries, NoExpiry
  <1>2. record \in EntryRecords
    BY <1>1 DEF EntryRecords, MemoryTypes
  <1>3. Insert(record)
    BY DEF Write
  <1>4. /\ entries' \in [EntryIds -> EntryRecords \cup {NoEntry}]
        /\ entriesMade' \in 0 .. MaxEntries /\ n \in EntryIds
        /\ StoredEntries' = StoredEntries \cup {n} /\ n \notin StoredEntries
        /\ StoredEntries' \subseteq 1 .. entriesMade'
        /\ entries'[n] = record
        /\ \A e \in StoredEntries : entries'[e] = entries[e]
        /\ \A d \in MemoryCallers : n \notin call[d].from
    BY <1>0, <1>2, <1>3, InsertAdds
  <1>5. /\ UNCHANGED <<call, day, forgotten, overtaken>> /\ facts' = facts + 1
        /\ entriesMade' = n
    BY <1>0, <1>3 DEF Write, Others, Insert
  <1>6. \A d \in MemoryCallers : InHandInv(call[d])'
    BY <1>0, <1>4, <1>5 DEF InHandInv, MemoryInv, MemoryTypes
  <1>7. \A e : Safe(e) => Safe(e)' /\ entries'[e] = entries[e]
    BY <1>4, <1>5 DEF Safe
  <1>8. Safe(n)' /\ facts + 1 \in entries'[n].knows
    BY <1>4, <1>5 DEF Safe
  <1>9. \A f \in Told' : f \in Told \/ f = facts + 1
    BY <1>5 DEF Told, MemoryTypes
  <1>10. \A f \in Told' : \E e \in EntryIds : Safe(e)' /\ f \in entries'[e].knows
    BY <1>4, <1>7, <1>8, <1>9 DEF MemoryInv
  <1> QED BY <1>4, <1>5, <1>6, <1>10 DEF MemoryTypes, MemoryInv

LEMMA InsertDerivedKeeps ==
    ASSUME MemoryTypes, MemoryInv, NEW c \in MemoryCallers, InsertDerived(c)
    PROVE  MemoryTypes' /\ MemoryInv'
  <1> DEFINE record == call[c].read
             k == IF call[c].deletes THEN [call[c] EXCEPT !.op = "delete"] ELSE NoCall
  <1>0. PICK n : n = entriesMade + 1
    OBVIOUS
  <1>1. call[c] \in CallRecords /\ call[c].op = "insert" /\ record \in EntryRecords
    BY DEF InsertDerived, MemoryInv, InHandInv, MemoryTypes
  <1>2. Insert(record) /\ call' = [call EXCEPT ![c] = k]
    BY DEF InsertDerived, StoreDerived
  <1>3. /\ entries' \in [EntryIds -> EntryRecords \cup {NoEntry}]
        /\ entriesMade' \in 0 .. MaxEntries /\ n \in EntryIds
        /\ StoredEntries' = StoredEntries \cup {n} /\ n \notin StoredEntries
        /\ StoredEntries' \subseteq 1 .. entriesMade'
        /\ entries'[n] = record
        /\ \A e \in StoredEntries : entries'[e] = entries[e]
        /\ \A d \in MemoryCallers : n \notin call[d].from
    BY <1>0, <1>1, <1>2, InsertAdds
  <1>4. /\ UNCHANGED <<facts, day, forgotten, overtaken>> /\ Told' = Told /\ entriesMade' = n
    BY <1>0, <1>2 DEF InsertDerived, Others, Told, Insert
  <1>5. /\ k \in CallRecords /\ k.op \in {"delete", "none"} /\ k.from \subseteq call[c].from
        /\ k = NoCall \/ k.op = "delete"
    BY <1>1 DEF CallRecords, NoCall
  <1>6. call' \in [MemoryCallers -> CallRecords] /\ call'[c] = k
        /\ \A d \in MemoryCallers \ {c} : call'[d] = call[d]
    BY <1>2, <1>5 DEF MemoryTypes
  <1> HIDE DEF k
  <1>7. InHandInv(call[c])'
    BY <1>0, <1>4, <1>5, <1>6 DEF InHandInv, MemoryInv, MemoryTypes
  <1>8. \A d \in MemoryCallers \ {c} : InHandInv(call[d])'
    BY <1>0, <1>3, <1>4, <1>6 DEF InHandInv, MemoryInv, MemoryTypes
  <1>9. Safe(n)'
    BY <1>3, <1>5, <1>6 DEF Safe
  <1>10. ASSUME NEW f \in Told
         PROVE  \E e \in EntryIds : Safe(e)' /\ f \in entries'[e].knows
    <2>1. PICK e \in EntryIds : Safe(e) /\ f \in entries[e].knows
      BY DEF MemoryInv
    <2>2. CASE e \in call[c].from
      <3>1. f \in record.knows
        BY <1>1, <2>1, <2>2 DEF MemoryInv, InHandInv, Safe, Told
      <3> QED BY <1>3, <1>9, <3>1
    <2>3. CASE e \notin call[c].from
      BY <1>3, <1>5, <1>6, <2>1, <2>3 DEF Safe
    <2> QED BY <2>2, <2>3
  <1> QED BY <1>3, <1>4, <1>6, <1>7, <1>8, <1>10 DEF MemoryTypes, MemoryInv

\* An entry that goes takes with it nothing that must stay, if it is not safe
\* or if all it knows counts as forgotten.
LEMMA GoneKeeps ==
    ASSUME MemoryTypes, MemoryInv, NEW e \in EntryIds,
           entries' = [entries EXCEPT ![e] = NoEntry],
           UNCHANGED <<entriesMade, facts, day, overtaken>>,
           forgotten \subseteq forgotten',
           Safe(e) => entries[e].knows \subseteq forgotten',
           call' \in [MemoryCallers -> CallRecords],
           \A c \in MemoryCallers :
              \/ call'[c] = call[c]
              \/ call'[c] = NoCall
              \/ call'[c].from \subseteq call[c].from /\ call'[c].op = call[c].op
                 /\ call[c].op \in {"delete", "forget"}
    PROVE  MemoryTypes' /\ MemoryInv'
  <1>1. /\ StoredEntries' = StoredEntries \ {e}
        /\ \A i \in StoredEntries' : entries'[i] = entries[i]
        /\ entries' \in [EntryIds -> EntryRecords \cup {NoEntry}]
    BY DEF StoredEntries, MemoryTypes
  <1>2. \A c \in MemoryCallers : InHandInv(call[c])'
    BY <1>1 DEF InHandInv, MemoryInv, NoCall
  <1>3. \A i : i # e /\ Safe(i) => Safe(i)' /\ entries'[i] = entries[i]
    BY <1>1 DEF Safe, NoCall
  <1>4. Told' \subseteq Told /\ Told' \cap forgotten' = {}
    BY DEF Told
  <1>5. \A f \in Told' : \E i \in EntryIds : Safe(i)' /\ f \in entries'[i].knows
    BY <1>3, <1>4 DEF MemoryInv
  <1> QED BY <1>1, <1>2, <1>5 DEF MemoryTypes, MemoryInv

LEMMA DeletionsKeep ==
    ASSUME MemoryTypes, MemoryInv,
           \/ \E c \in MemoryCallers : DeleteSource(c) \/ DeleteOfScope(c)
           \/ \E e \in EntryIds : Delete(e)
    PROVE  MemoryTypes' /\ MemoryInv'
  <1>1. ASSUME NEW e \in EntryIds, Delete(e)
        PROVE  MemoryTypes' /\ MemoryInv'
    BY <1>1, GoneKeeps DEF Delete, MemoryTypes
  <1>2. ASSUME NEW c \in MemoryCallers, DeleteSource(c) \/ DeleteOfScope(c)
        PROVE  MemoryTypes' /\ MemoryInv'
    <2>1. PICK e \in call[c].from :
            /\ entries' = [entries EXCEPT ![e] = NoEntry]
            /\ call' = [call EXCEPT ![c] =
                          IF call[c].from = {e} THEN NoCall
                          ELSE [call[c] EXCEPT !.from = @ \ {e}]]
            /\ \/ DeleteSource(c)
               \/ DeleteOfScope(c) /\ forgotten' = forgotten \cup entries[e].knows
      BY <1>2 DEF DeleteSource, DeleteOfScope
    <2>2. e \in EntryIds /\ call[c] \in CallRecords /\ call[c].op \in {"delete", "forget"}
      BY <1>2, <2>1 DEF MemoryTypes, CallRecords, DeleteSource, DeleteOfScope
    <2>3. /\ NoCall \in CallRecords
          /\ [call[c] EXCEPT !.from = @ \ {e}] \in CallRecords
      BY <2>2 DEF CallRecords, NoCall
    <2>4. call' \in [MemoryCallers -> CallRecords]
      BY <2>1, <2>3 DEF MemoryTypes
    <2>5. \A d \in MemoryCallers :
              \/ call'[d] = call[d]
              \/ call'[d] = NoCall
              \/ call'[d].from \subseteq call[d].from /\ call'[d].op = call[d].op
                 /\ call[d].op \in {"delete", "forget"}
      BY <2>1, <2>2 DEF MemoryTypes, CallRecords
    <2>6. /\ UNCHANGED <<entriesMade, facts, day, overtaken>> /\ forgotten \subseteq forgotten'
          /\ Safe(e) => entries[e].knows \subseteq forgotten'
      BY <2>1 DEF DeleteSource, DeleteOfScope, Others, Safe
    <2> QED BY <2>1, <2>2, <2>4, <2>5, <2>6, GoneKeeps
  <1> QED BY <1>1, <1>2

-----------------------------------------------------------------------------
(* Updates *)

LEMMA StoreUpdateKeeps ==
    ASSUME MemoryTypes, MemoryInv, NEW c \in MemoryCallers, NEW new \in BOOLEAN,
           NEW x \in Expiries, StoreUpdate(c, new, x)
    PROVE  MemoryTypes' /\ MemoryInv'
  <1>1. PICK e \in call[c].from :
        /\ e \in StoredEntries
        /\ facts' = IF new THEN facts + 1 ELSE facts
        /\ entries' = [entries EXCEPT ![e].expires = x,
                         ![e].knows = call[c].read.knows
                                      \cup (IF new THEN {facts + 1} ELSE {})]
        /\ overtaken' = IF new /\ InHand(c, e) THEN overtaken \cup {facts + 1} ELSE overtaken
    BY DEF StoreUpdate
  <1> DEFINE added == IF new THEN {facts + 1} ELSE {}
             old == call[c].read.knows
  <1>2. /\ call[c].op = "update" /\ call[c] \in CallRecords /\ e \in EntryIds
        /\ entries[e] \in EntryRecords
    BY <1>1 DEF StoreUpdate, MemoryTypes, StoredEntries
  <1>3. call' = [call EXCEPT ![c] = NoCall] /\ UNCHANGED <<entriesMade, day, forgotten>>
    BY DEF StoreUpdate
  <1>4. old \subseteq Nat /\ added \subseteq Nat /\ x \in Nat /\ facts' \in Nat
    BY <1>1, <1>2, MemoryConstants
       DEF CallRecords, EntryRecords, NoEntry, MemoryTypes, Expiries, NoExpiry
  <1>5. /\ entries' \in [EntryIds -> EntryRecords \cup {NoEntry}]
        /\ entries'[e] \in EntryRecords
        /\ entries'[e].knows = old \cup added
        /\ \A i \in EntryIds \ {e} : entries'[i] = entries[i]
    <2> DEFINE record == [entries[e] EXCEPT !.expires = x, !.knows = old \cup added]
    <2>1. record \in EntryRecords /\ record.knows = old \cup added
      BY <1>2, <1>4 DEF EntryRecords
    <2>2. entries' = [entries EXCEPT ![e] = record]
      BY <1>1, <1>2 DEF MemoryTypes
    <2> HIDE DEF record
    <2> QED BY <1>2, <2>1, <2>2 DEF MemoryTypes
  <1>6. StoredEntries' = StoredEntries
    BY <1>1, <1>5, NotAnEntry DEF StoredEntries
  <1>7. NoCall \in CallRecords /\ call' \in [MemoryCallers -> CallRecords]
        /\ call'[c] = NoCall /\ \A d \in MemoryCallers \ {c} : call'[d] = call[d]
    BY <1>3 DEF NoCall, CallRecords, MemoryTypes
  <1>8. /\ entries[e].knows \subseteq old \cup overtaken
        /\ old \subseteq entries[e].knows \cup overtaken
    BY <1>1, <1>2 DEF MemoryInv, InHandInv
  <1>9. overtaken \subseteq overtaken'
    BY <1>1
  <1>10. \A d \in MemoryCallers \ {c} : e \in call[d].from => added \subseteq overtaken'
    <2>1. \A d \in MemoryCallers \ {c} : e \in call[d].from => InHand(c, e)
      BY DEF InHand, NoMemoryCall, NoCall
    <2> QED BY <1>1, <2>1
  <1>11. ASSUME NEW d \in MemoryCallers \ {c}
         PROVE  InHandInv(call[d])'
    <2>1. InHandInv(call[d]) /\ call'[d] = call[d]
      BY <1>7 DEF MemoryInv
    <2>2. ASSUME NEW i \in call[d].from \cap StoredEntries
          PROVE  /\ call[d].op \in {"insert", "update"} =>
                        entries'[i].knows \subseteq call[d].read.knows \cup overtaken'
                 /\ call[d].op = "update" =>
                        call[d].read.knows \subseteq entries'[i].knows \cup overtaken'
      <3>1. /\ call[d].op \in {"insert", "update"} =>
                   entries[i].knows \subseteq call[d].read.knows \cup overtaken
            /\ call[d].op = "update" =>
                   call[d].read.knows \subseteq entries[i].knows \cup overtaken
        BY <2>1 DEF InHandInv
      <3>2. CASE i = e
        BY <1>5, <1>8, <1>9, <1>10, <3>1, <3>2
      <3>3. CASE i # e
        BY <1>5, <1>9, <3>1, <3>3 DEF StoredEntries
      <3> QED BY <3>2, <3>3
    <2> QED BY <1>3, <1>6, <2>1, <2>2 DEF InHandInv
  <1>12. InHandInv(call[c])'
    BY <1>7 DEF InHandInv, NoCall
  <1>13. \A i : Safe(i) => Safe(i)'
    BY <1>6, <1>7 DEF Safe, NoCall
  <1>14. \A f \in Told' : f \in Told \/ (f \in added /\ f \notin overtaken')
    BY <1>1, <1>3, <1>9 DEF Told, MemoryTypes
  <1>15. ASSUME NEW f \in Told'
         PROVE  \E i \in EntryIds : Safe(i)' /\ f \in entries'[i].knows
    <2>1. CASE f \in Told
      <3>1. PICK i \in EntryIds : Safe(i) /\ f \in entries[i].knows
        BY <2>1 DEF MemoryInv
      <3>2. f \in entries'[i].knows
        <4>1. f \notin overtaken
          BY <2>1 DEF Told
        <4> QED BY <1>5, <1>8, <3>1, <4>1
      <3> QED BY <1>13, <3>1, <3>2
    <2>2. CASE f \in added /\ f \notin overtaken'
      <3>1. \A d \in MemoryCallers : call[d].op = "delete" => e \notin call[d].from
        BY <1>2, <1>10, <2>2
      <3>2. Safe(e)
        BY <1>1, <3>1 DEF Safe
      <3> QED BY <1>2, <1>5, <1>13, <2>2, <3>2
    <2> QED BY <1>14, <2>1, <2>2
  <1> QED BY <1>3, <1>4, <1>5, <1>6, <1>7, <1>11, <1>12, <1>15 DEF MemoryTypes, MemoryInv

-----------------------------------------------------------------------------

LEMMA MemoryStep == MemoryTypes /\ MemoryInv /\ [MemoryNext]_memoryVars => MemoryTypes' /\ MemoryInv'
  <1> SUFFICES ASSUME MemoryTypes, MemoryInv, [MemoryNext]_memoryVars
               PROVE  MemoryTypes' /\ MemoryInv'
    OBVIOUS
  <1>1. CASE DayPasses \/ UNCHANGED memoryVars
    <2>1. UNCHANGED <<entries, entriesMade, facts, call, forgotten, overtaken>> /\ day' \in Nat
      BY <1>1 DEF DayPasses, memoryVars, MemoryTypes
    <2> QED BY <2>1 DEF MemoryTypes, MemoryInv, InHandInv, StoredEntries, Safe, Told
  <1>2. ASSUME NEW c \in MemoryCallers, NEW s \in Scopes, NEW t \in Scopes, NEW d \in BOOLEAN,
               PromoteLatest(c, s, t, d)
        PROVE  MemoryTypes' /\ MemoryInv'
    BY <1>2, PromoteKeeps DEF PromoteLatest
  <1>3. CASE \E c \in MemoryCallers :
               \/ \E s \in Scopes, x \in Expiries : Write(c, s, x)
               \/ \E e \in EntryIds, s \in Scopes, d \in BOOLEAN : Promote(c, e, s, d)
               \/ \E S \in SUBSET EntryIds, d \in BOOLEAN : Compact(c, S, d)
               \/ InsertDerived(c)
               \/ \E n \in BOOLEAN, x \in Expiries : StoreUpdate(c, n, x)
    BY <1>3, WriteKeeps, PromoteKeeps, CompactKeeps, InsertDerivedKeeps, StoreUpdateKeeps
  <1>4. CASE \/ \E c \in MemoryCallers : \/ DeleteSource(c) \/ DeleteOfScope(c) \/ Fail(c)
                                         \/ \E e \in EntryIds : StartUpdate(c, e)
                                         \/ \E s \in Scopes : StartDeleteByScope(c, s)
             \/ \E e \in EntryIds : Delete(e)
    BY <1>4, DeletionsKeep, OtherCallsKeep
  <1> QED BY <1>1, <1>2, <1>3, <1>4 DEF MemoryNext

THEOREM MemoryAlways == MemorySpec => [](MemoryTypes /\ MemoryInv)
  BY MemoryInitOK, MemoryStep, PTL DEF MemorySpec

\* Nothing told is lost half-way, however promotions, compactions, updates and
\* deletions interleave and wherever they fail.
THEOREM KnowledgeAlwaysKept == MemorySpec => []KnowledgeKept
  <1>1. MemoryInv => KnowledgeKept
    BY DEF MemoryInv, Safe, Told, KnowledgeKept
  <1> QED BY <1>1, MemoryAlways, PTL

-----------------------------------------------------------------------------
(* Sessions *)

SessionStates == {NoValue, "created", "active", "suspended", "expired"}

SessionRecords == [state : SessionStates, last : 0..LastTime, surfaces : SUBSET Channels]

Does == {"touch", "attach", "detach", "expire", "suspend"}

Rests == {<<>>} \cup UNION {[D -> SessionRecords] : D \in SUBSET SessionIds}

OpRecords ==
    [at : {"idle", "fetched", "patched", "reread", "resolved", "creating"}, does : Does \cup {NoValue},
     on : SessionIds \cup {NoValue}, arg : Channels \cup {NoValue},
     copy : SessionRecords, stamp : 0..LastTime, base : SessionRecords, rest : Rests]

SessionTypes ==
    /\ adapter \in {"memory", "runtime"}
    /\ session \in [SessionIds -> SessionRecords]
    /\ promised \in [SessionIds -> SessionRecords]
    /\ op \in [SessionCallers -> OpRecords]
    /\ now \in 0..LastTime
    /\ ops \in 0..MaxOps
    /\ raced \subseteq SessionIds

\* A session that has been created.
There(s) == s \in SessionIds /\ session[s].state # NoValue

\* What a call o has in hand.
OpInv(o) ==
    /\ o.at = "creating" => o.arg \in Channels
    /\ o.at \in {"fetched", "patched", "reread", "resolved"} => There(o.on) /\ o.does \in Does
    /\ o.at = "resolved" => o.does = "touch"
    /\ o.at \in {"fetched", "patched", "reread"} =>
          /\ o.does \in {"attach", "detach"} => o.arg \in Channels
          /\ o.does = "suspend" => o.copy.state = "active"
    /\ o.at \in {"patched", "reread"} => ~Refuses(o.does, o.arg, o.copy)
    /\ o.at = "reread" => o.base.state # NoValue
    /\ \A s \in DOMAIN o.rest : There(s) /\ o.rest[s] \in SessionRecords /\ o.rest[s].state = "active"

SessionInv ==
    /\ \A k \in SessionCallers : OpInv(op[k])
    /\ \A s \in SessionIds : Exists(s) => There(s)
    /\ \A s \in SessionIds \ raced : session[s] = promised[s]

LEMMA IdleIsFine ==
    NoOp \in OpRecords /\ NoSession \in SessionRecords /\ OpInv(NoOp) /\ 0 \in 0..LastTime
  <1>0. 0 \in 0..LastTime
    BY SessionConstants
  <1>1. NoSession \in SessionRecords
    BY SessionConstants DEF NoSession, SessionRecords, SessionStates
  <1>2. NoOp \in OpRecords
    BY <1>0, <1>1 DEF NoOp, OpRecords, Rests
  <1>3. DOMAIN <<>> = {}
    BY EmptySeq
  <1> QED BY <1>0, <1>1, <1>2, <1>3 DEF OpInv, NoOp

LEMMA SessionInitOK == SessInit => SessionTypes /\ SessionInv
  BY IdleIsFine, SessionConstants DEF SessInit, SessionTypes, SessionInv, Exists

\* The sessions there stay there, and a call of one caller changes.
LEMMA CallMoves ==
    ASSUME SessionTypes, SessionInv, NEW k \in SessionCallers, NEW o \in OpRecords,
           op' = [op EXCEPT ![k] = o], OpInv(o)',
           \A s \in SessionIds : There(s) => There(s)'
    PROVE  /\ op' \in [SessionCallers -> OpRecords]
           /\ \A j \in SessionCallers : OpInv(op[j])'
  <1>1. op' \in [SessionCallers -> OpRecords] /\ op'[k] = o
        /\ \A j \in SessionCallers \ {k} : op'[j] = op[j]
    BY DEF SessionTypes
  <1>2. ASSUME NEW j \in SessionCallers, j # k PROVE OpInv(op[j])'
    <2>1. OpInv(op[j])
      BY DEF SessionInv
    <2>2. op'[j] = op[j]
      BY <1>1, <1>2
    <2> QED BY <2>1, <2>2 DEF OpInv, Refuses, There
  <1> QED BY <1>1, <1>2

\* Only a call changes, and nothing that is stored.
LEMMA OnlyCallMoves ==
    ASSUME SessionTypes, SessionInv, NEW k \in SessionCallers, NEW o \in OpRecords,
           op' = [op EXCEPT ![k] = o], OpInv(o), ops' \in 0..MaxOps,
           UNCHANGED <<adapter, session, now, promised, raced>>
    PROVE  SessionTypes' /\ SessionInv'
  <1>1. \A s : (There(s)' <=> There(s)) /\ (Exists(s)' <=> Exists(s))
    BY DEF There, Exists
  <1>2. OpInv(o)'
    BY <1>1 DEF OpInv, Refuses
  <1> QED BY <1>1, <1>2, CallMoves DEF SessionTypes, SessionInv

LEMMA FetchKeeps ==
    ASSUME SessionTypes, SessionInv, NEW k \in SessionCallers, NEW s \in SessionIds,
           NEW d \in Does \ {"suspend"}, NEW x \in Channels \cup {NoValue},
           d \in {"attach", "detach"} => x \in Channels, Fetch(k, s, d, x)
    PROVE  SessionTypes' /\ SessionInv'
  <1>1. PICK o : o = [NoOp EXCEPT !.at = "fetched", !.does = d, !.on = s, !.arg = x,
                                  !.copy = session[s]]
    OBVIOUS
  <1>2. op' = [op EXCEPT ![k] = o]
    BY <1>1 DEF Fetch
  <1>3. session[s] \in SessionRecords /\ DOMAIN <<>> = {}
    BY EmptySeq DEF SessionTypes
  <1>4. o = [at |-> "fetched", does |-> d, on |-> s, arg |-> x, copy |-> session[s],
             stamp |-> 0, base |-> NoSession, rest |-> <<>>]
    BY <1>1 DEF NoOp
  <1>5. o \in OpRecords
    BY <1>3, <1>4, IdleIsFine DEF OpRecords, Rests
  <1>6. There(s)
    BY DEF Fetch, SessionInv
  <1>7. OpInv(o)
    BY <1>3, <1>4, <1>6 DEF OpInv
  <1>8. ops' \in 0..MaxOps
    BY SessionConstants DEF Fetch, Started, SessionTypes
  <1>9. UNCHANGED <<adapter, session, now, promised, raced>>
    BY DEF Fetch
  <1> QED BY <1>2, <1>5, <1>7, <1>8, <1>9, OnlyCallMoves

LEMMA RefuseKeeps ==
    ASSUME SessionTypes, SessionInv, NEW k \in SessionCallers, Refuse(k)
    PROVE  SessionTypes' /\ SessionInv'
  <1>1. op' = [op EXCEPT ![k] = NoOp] /\ ops' \in 0..MaxOps
    BY DEF Refuse, Done, SessionTypes
  <1>2. UNCHANGED <<adapter, session, now, promised, raced>>
    BY DEF Refuse
  <1> QED BY <1>1, <1>2, IdleIsFine, OnlyCallMoves

LEMMA StampKeeps ==
    ASSUME SessionTypes, SessionInv, NEW k \in SessionCallers, Stamp(k)
    PROVE  SessionTypes' /\ SessionInv'
  <1>1. PICK o : o = [op[k] EXCEPT !.at = "patched", !.stamp = now]
    OBVIOUS
  <1>2. op[k] \in OpRecords /\ OpInv(op[k]) /\ op[k].at = "fetched"
        /\ ~Refuses(op[k].does, op[k].arg, op[k].copy) /\ now \in 0..LastTime
    BY DEF Stamp, MayPatch, SessionTypes, SessionInv
  <1>3. op' = [op EXCEPT ![k] = o]
    BY <1>1 DEF Stamp
  <1>4. o \in OpRecords
    BY <1>1, <1>2 DEF OpRecords
  <1>5. /\ o.at = "patched" /\ o.does = op[k].does /\ o.on = op[k].on /\ o.arg = op[k].arg
        /\ o.copy = op[k].copy /\ o.rest = op[k].rest
    BY <1>1, <1>2 DEF OpRecords
  <1>6. OpInv(o)
    BY <1>2, <1>5 DEF OpInv
  <1>7. ops' \in 0..MaxOps /\ UNCHANGED <<adapter, session, now, promised, raced>>
    BY DEF Stamp, SessionTypes
  <1> QED BY <1>3, <1>4, <1>6, <1>7, OnlyCallMoves

LEMMA RereadKeeps ==
    ASSUME SessionTypes, SessionInv, NEW k \in SessionCallers, Reread(k)
    PROVE  SessionTypes' /\ SessionInv'
  <1>1. PICK o : o = [op[k] EXCEPT !.at = "reread", !.base = session[op[k].on]]
    OBVIOUS
  <1>2. op[k] \in OpRecords /\ OpInv(op[k]) /\ op[k].at = "patched"
    BY DEF Reread, SessionTypes, SessionInv
  <1>3. There(op[k].on) /\ session[op[k].on] \in SessionRecords
    BY <1>2 DEF OpInv, There, SessionTypes
  <1>4. op' = [op EXCEPT ![k] = o]
    BY <1>1 DEF Reread
  <1>5. o \in OpRecords
    BY <1>1, <1>2, <1>3 DEF OpRecords
  <1>6. /\ o.at = "reread" /\ o.does = op[k].does /\ o.on = op[k].on /\ o.arg = op[k].arg
        /\ o.copy = op[k].copy /\ o.base = session[op[k].on] /\ o.rest = op[k].rest
    BY <1>1, <1>2 DEF OpRecords
  <1>7. OpInv(o)
    BY <1>2, <1>3, <1>6 DEF OpInv, There
  <1>8. ops' \in 0..MaxOps /\ UNCHANGED <<adapter, session, now, promised, raced>>
    BY DEF Reread, SessionTypes
  <1> QED BY <1>4, <1>5, <1>7, <1>8, OnlyCallMoves

LEMMA ResolveKeeps ==
    ASSUME SessionTypes, SessionInv, NEW k \in SessionCallers, NEW x \in Channels, Resolve(k, x)
    PROVE  SessionTypes' /\ SessionInv'
  <1>a. Started /\ UNCHANGED <<adapter, session, now, promised, raced>>
    BY DEF Resolve
  <1>1. ops' \in 0..MaxOps /\ UNCHANGED <<adapter, session, now, promised, raced>>
    BY <1>a, SessionConstants DEF Started, SessionTypes
  <1>2. DOMAIN <<>> = {}
    BY EmptySeq
  <1>3. CASE \E s \in Best(x) :
               op' = [op EXCEPT ![k] = [NoOp EXCEPT !.at = "resolved", !.does = "touch", !.on = s]]
    <2>1. PICK s \in Best(x) :
               op' = [op EXCEPT ![k] = [NoOp EXCEPT !.at = "resolved", !.does = "touch", !.on = s]]
      BY <1>3
    <2>2. s \in SessionIds /\ There(s)
      <3>1. s \in Having({"active", "suspended"})
        BY DEF Best
      <3> QED BY <3>1 DEF Having, There, NoValue
    <2>3. PICK o : o = [NoOp EXCEPT !.at = "resolved", !.does = "touch", !.on = s]
      OBVIOUS
    <2>4. o = [at |-> "resolved", does |-> "touch", on |-> s, arg |-> NoValue,
               copy |-> NoSession, stamp |-> 0, base |-> NoSession, rest |-> <<>>]
      BY <2>3 DEF NoOp
    <2>5. o \in OpRecords
      BY <2>2, <2>4, IdleIsFine DEF OpRecords, Rests, Does
    <2>6. OpInv(o)
      BY <1>2, <2>2, <2>4 DEF OpInv, Does
    <2> QED BY <1>1, <2>1, <2>3, <2>5, <2>6, OnlyCallMoves
  <1>4. CASE op' = [op EXCEPT ![k] = [NoOp EXCEPT !.at = "creating", !.arg = x]]
    <2>3. PICK o : o = [NoOp EXCEPT !.at = "creating", !.arg = x]
      OBVIOUS
    <2>4. o = [at |-> "creating", does |-> NoValue, on |-> NoValue, arg |-> x,
               copy |-> NoSession, stamp |-> 0, base |-> NoSession, rest |-> <<>>]
      BY <2>3 DEF NoOp
    <2>5. o \in OpRecords
      BY <2>4, IdleIsFine DEF OpRecords, Rests
    <2>6. OpInv(o)
      BY <1>2, <2>4 DEF OpInv
    <2> QED BY <1>1, <1>4, <2>3, <2>5, <2>6, OnlyCallMoves
  <1> QED BY <1>3, <1>4 DEF Resolve

LEMMA ResolvedTouchKeeps ==
    ASSUME SessionTypes, SessionInv, NEW k \in SessionCallers, ResolvedTouch(k)
    PROVE  SessionTypes' /\ SessionInv'
  <1>1. PICK o : o = [op[k] EXCEPT !.at = "fetched", !.copy = session[op[k].on]]
    OBVIOUS
  <1>2. op[k] \in OpRecords /\ OpInv(op[k]) /\ op[k].at = "resolved"
    BY DEF ResolvedTouch, SessionTypes, SessionInv
  <1>3. There(op[k].on) /\ session[op[k].on] \in SessionRecords /\ op[k].does = "touch"
    BY <1>2 DEF OpInv, There, SessionTypes
  <1>4. op' = [op EXCEPT ![k] = o]
    BY <1>1 DEF ResolvedTouch
  <1>5. o \in OpRecords
    BY <1>1, <1>2, <1>3 DEF OpRecords
  <1>6. o.at = "fetched" /\ o.does = "touch" /\ o.on = op[k].on /\ o.rest = op[k].rest
    BY <1>1, <1>2, <1>3 DEF OpRecords
  <1>7. OpInv(o)
    BY <1>2, <1>3, <1>6 DEF OpInv, Does
  <1>8. ops' \in 0..MaxOps /\ UNCHANGED <<adapter, session, now, promised, raced>>
    BY DEF ResolvedTouch, SessionTypes
  <1> QED BY <1>4, <1>5, <1>7, <1>8, OnlyCallMoves

\* The next of a sweep's sessions.
LEMMA SuspendingIsFine ==
    ASSUME NEW D \in SUBSET SessionIds, NEW copies \in [D -> SessionRecords], NEW s \in D,
           \A t \in D : There(t) /\ copies[t].state = "active"
    PROVE  Suspending(copies, s) \in OpRecords /\ OpInv(Suspending(copies, s))
  <1>1. PICK left : left = [t \in D \ {s} |-> copies[t]]
    OBVIOUS
  <1>2. left \in [D \ {s} -> SessionRecords] /\ D \ {s} \in SUBSET SessionIds
    BY <1>1
  <1>3. left \in Rests
    BY <1>2 DEF Rests
  <1>4. [t \in DOMAIN copies \ {s} |-> copies[t]] = left
    BY <1>1
  <1>5. PICK o : o = Suspending(copies, s)
    OBVIOUS
  <1>6. o = [at |-> "fetched", does |-> "suspend", on |-> s, arg |-> NoValue,
             copy |-> copies[s], stamp |-> 0, base |-> NoSession, rest |-> left]
    BY <1>4, <1>5 DEF Suspending, NoOp
  <1>7. copies[s] \in SessionRecords /\ copies[s].state = "active" /\ There(s)
    OBVIOUS
  <1>8. o \in OpRecords
    BY <1>3, <1>6, <1>7, IdleIsFine DEF OpRecords, Does
  <1>9. \A t \in DOMAIN left : There(t) /\ left[t] \in SessionRecords /\ left[t].state = "active"
    BY <1>1, <1>2
  <1>10. OpInv(o)
    BY <1>6, <1>7, <1>9 DEF OpInv, Does
  <1> QED BY <1>5, <1>8, <1>10

LEMMA SweepKeeps ==
    ASSUME SessionTypes, SessionInv, NEW k \in SessionCallers, Sweep(k)
    PROVE  SessionTypes' /\ SessionInv'
  <1>0. PICK called \in Nat \cup {now} :
           LET stale == {s \in Having({"active"}) : StaleAt(called, session[s])}
               copies == [s \in stale |-> session[s]]
           IN  \E s \in stale : op' = [op EXCEPT ![k] = Suspending(copies, s)]
    BY DEF Sweep
  <1>1. PICK D : D = {s \in Having({"active"}) : StaleAt(called, session[s])}
    OBVIOUS
  <1>2. PICK copies : copies = [s \in D |-> session[s]]
    OBVIOUS
  <1>3. D \in SUBSET SessionIds /\ \A s \in D : session[s].state = "active"
    BY <1>1 DEF Having
  <1>4. copies \in [D -> SessionRecords]
    BY <1>2, <1>3 DEF SessionTypes
  <1>5. \A s \in D : There(s) /\ copies[s].state = "active"
    BY <1>2, <1>3 DEF There, NoValue
  <1>6. Started /\ UNCHANGED <<adapter, session, now, promised, raced>>
    BY DEF Sweep
  <1>7. ops' \in 0..MaxOps
    BY <1>6, SessionConstants DEF Started, SessionTypes
  <1>8. \E s \in D : op' = [op EXCEPT ![k] = Suspending(copies, s)]
    BY <1>0, <1>1, <1>2
  <1>9. PICK s \in D : op' = [op EXCEPT ![k] = Suspending(copies, s)]
    BY <1>8
  <1>10. Suspending(copies, s) \in OpRecords /\ OpInv(Suspending(copies, s))
    BY <1>3, <1>4, <1>5, SuspendingIsFine
  <1>11. PICK o : o = Suspending(copies, s)
    OBVIOUS
  <1> QED BY <1>6, <1>7, <1>9, <1>10, <1>11, OnlyCallMoves

LEMMA CreateKeeps ==
    ASSUME SessionTypes, SessionInv, NEW k \in SessionCallers, Create(k)
    PROVE  SessionTypes' /\ SessionInv'
  <1>1. PICK r : r = [state |-> "created", last |-> now, surfaces |-> {op[k].arg}]
    OBVIOUS
  <1>2. PICK s \in SessionIds : /\ ~Exists(s)
                                 /\ session' = [session EXCEPT ![s] = r]
                                 /\ promised' = [promised EXCEPT ![s] = session'[s]]
    BY <1>1 DEF Create
  <1>3. op[k].arg \in Channels
    BY DEF Create, SessionInv, OpInv
  <1>4. r \in SessionRecords /\ r.state = "created"
    BY <1>1, <1>3 DEF SessionRecords, SessionStates, SessionTypes
  <1>5. session' \in [SessionIds -> SessionRecords] /\ session'[s] = r
    BY <1>2, <1>4 DEF SessionTypes
  <1>6. promised' \in [SessionIds -> SessionRecords] /\ promised'[s] = r
    BY <1>2, <1>4, <1>5 DEF SessionTypes
  <1>7. \A t \in SessionIds \ {s} : session'[t] = session[t] /\ promised'[t] = promised[t]
    BY <1>2 DEF SessionTypes
  <1>8. op' = [op EXCEPT ![k] = NoOp] /\ UNCHANGED <<adapter, now, ops, raced>>
    BY DEF Create, Done
  <1>9. There(s)'
    BY <1>4, <1>5 DEF There, NoValue
  <1>10. \A t \in SessionIds : There(t) => There(t)'
    BY <1>7, <1>9 DEF There
  <1>11. OpInv(NoOp)'
    BY EmptySeq DEF OpInv, NoOp
  <1>12. op' \in [SessionCallers -> OpRecords] /\ \A j \in SessionCallers : OpInv(op[j])'
    BY <1>8, <1>10, <1>11, IdleIsFine, CallMoves
  <1>13. \A t \in SessionIds : (Exists(t) => There(t))'
    BY <1>7, <1>9 DEF Exists, There, SessionInv
  <1>14. \A t \in SessionIds \ raced' : session'[t] = promised'[t]
    BY <1>5, <1>6, <1>7, <1>8 DEF SessionInv
  <1>15. SessionTypes'
    BY <1>5, <1>6, <1>8, <1>12 DEF SessionTypes
  <1> QED BY <1>12, <1>13, <1>14, <1>15 DEF SessionInv

LEMMA LaterKeeps ==
    ASSUME SessionTypes, SessionInv, Later
    PROVE  SessionTypes' /\ SessionInv'
  <1>1. now' \in 0..LastTime /\ UNCHANGED <<adapter, session, op, ops, promised, raced>>
    BY SessionConstants DEF Later, SessionTypes
  <1>2. SessionTypes'
    BY <1>1 DEF SessionTypes
  <1>3. \A s : (There(s)' <=> There(s)) /\ (Exists(s)' <=> Exists(s))
    BY <1>1 DEF There, Exists
  <1>4. ASSUME NEW k \in SessionCallers PROVE OpInv(op[k])'
    BY <1>1, <1>3 DEF SessionInv, OpInv, Refuses
  <1> QED BY <1>1, <1>2, <1>3, <1>4 DEF SessionInv

\* A patch merged into a session.
LEMMA MergedFields ==
    ASSUME NEW r \in SessionRecords, NEW p
    PROVE  Merged(p, r) =
             [state    |-> IF "state" \in DOMAIN p THEN p["state"] ELSE r.state,
              last     |-> IF "last" \in DOMAIN p THEN p["last"] ELSE r.last,
              surfaces |-> IF "surfaces" \in DOMAIN p THEN p["surfaces"] ELSE r.surfaces]
  <1>1. DOMAIN r = {"state", "last", "surfaces"}
    BY DEF SessionRecords
  <1> QED BY <1>1 DEF Merged

LEMMA MergeActive ==
    ASSUME NEW r \in SessionRecords, NEW n, NEW v
    PROVE  Merged([last |-> n, state |-> v], r)
             = [state |-> v, last |-> n, surfaces |-> r.surfaces]
  <1>1. PICK p : p = [last |-> n, state |-> v]
    OBVIOUS
  <1>2. DOMAIN p = {"state", "last"} /\ p["state"] = v /\ p["last"] = n
    BY <1>1
  <1> QED BY <1>1, <1>2, MergedFields

LEMMA MergeLast ==
    ASSUME NEW r \in SessionRecords, NEW n
    PROVE  Merged([last |-> n], r) = [state |-> r.state, last |-> n, surfaces |-> r.surfaces]
  <1>1. PICK p : p = [last |-> n]
    OBVIOUS
  <1>2. DOMAIN p = {"last"} /\ p["last"] = n
    BY <1>1
  <1> QED BY <1>1, <1>2, MergedFields

LEMMA MergeSurfaces ==
    ASSUME NEW r \in SessionRecords, NEW v
    PROVE  Merged([surfaces |-> v], r) = [state |-> r.state, last |-> r.last, surfaces |-> v]
  <1>1. PICK p : p = [surfaces |-> v]
    OBVIOUS
  <1>2. DOMAIN p = {"surfaces"} /\ p["surfaces"] = v
    BY <1>1
  <1> QED BY <1>1, <1>2, MergedFields

LEMMA MergeState ==
    ASSUME NEW r \in SessionRecords, NEW v
    PROVE  Merged([state |-> v], r) = [state |-> v, last |-> r.last, surfaces |-> r.surfaces]
  <1>1. PICK p : p = [state |-> v]
    OBVIOUS
  <1>2. DOMAIN p = {"state"} /\ p["state"] = v
    BY <1>1
  <1> QED BY <1>1, <1>2, MergedFields

\* What a call writes is a session, and one that is there if the one under it is.
LEMMA PatchedIsSession ==
    ASSUME NEW t \in 0..LastTime, NEW d \in Does, NEW x \in Channels \cup {NoValue},
           NEW copy \in SessionRecords, NEW r \in SessionRecords,
           d \in {"attach", "detach"} => x \in Channels, r.state # NoValue
    PROVE  /\ Merged(Patch(d, x, copy, t), r) \in SessionRecords
           /\ Merged(Patch(d, x, copy, t), r).state # NoValue
  <1>1. r.state \in SessionStates /\ r.last \in 0..LastTime /\ r.surfaces \in SUBSET Channels
        /\ copy.surfaces \in SUBSET Channels
    BY DEF SessionRecords
  <1>2. CASE d = "touch" /\ copy.state \in {"created", "suspended"}
    <2>1. Patch(d, x, copy, t) = [last |-> t, state |-> "active"]
      BY <1>2 DEF Patch
    <2>2. Merged([last |-> t, state |-> "active"], r)
            = [state |-> "active", last |-> t, surfaces |-> r.surfaces]
      BY MergeActive
    <2> QED BY <1>1, <2>1, <2>2 DEF SessionRecords, SessionStates, NoValue
  <1>3. CASE d = "touch" /\ copy.state \notin {"created", "suspended"}
    <2>1. Patch(d, x, copy, t) = [last |-> t]
      BY <1>3 DEF Patch
    <2>2. Merged([last |-> t], r)
            = [state |-> r.state, last |-> t, surfaces |-> r.surfaces]
      BY MergeLast
    <2> QED BY <1>1, <2>1, <2>2 DEF SessionRecords
  <1>4. CASE d \in {"attach", "detach"}
    <2>1. PICK v \in SUBSET Channels : Patch(d, x, copy, t) = [surfaces |-> v]
      <3>1. CASE d = "attach"
        BY <1>1, <3>1 DEF Patch
      <3>2. CASE d = "detach"
        BY <1>1, <3>2 DEF Patch
      <3> QED BY <1>4, <3>1, <3>2
    <2>2. Merged([surfaces |-> v], r) = [state |-> r.state, last |-> r.last, surfaces |-> v]
      BY MergeSurfaces
    <2> QED BY <1>1, <2>1, <2>2 DEF SessionRecords
  <1>5. CASE d \in {"expire", "suspend"}
    <2>1. PICK v \in {"expired", "suspended"} : Patch(d, x, copy, t) = [state |-> v]
      BY <1>5 DEF Patch
    <2>2. Merged([state |-> v], r) = [state |-> v, last |-> r.last, surfaces |-> r.surfaces]
      BY MergeState
    <2> QED BY <1>1, <2>1, <2>2 DEF SessionRecords, SessionStates, NoValue
  <1> QED BY <1>2, <1>3, <1>4, <1>5 DEF Does

\* So does the promise.
LEMMA PromisedIsSession ==
    ASSUME NEW t \in 0..LastTime, NEW d \in Does, NEW x \in Channels \cup {NoValue},
           NEW r \in SessionRecords, d \in {"attach", "detach"} => x \in Channels
    PROVE  Promise(d, x, r, t) \in SessionRecords
  <1>1. r = [state |-> r.state, last |-> r.last, surfaces |-> r.surfaces]
        /\ r.state \in SessionStates /\ r.last \in 0..LastTime /\ r.surfaces \in SUBSET Channels
    BY DEF SessionRecords
  <1>2. CASE r.state = "expired" /\ d \in {"touch", "suspend"}
    BY <1>2 DEF Promise
  <1>3. CASE ~(r.state = "expired" /\ d \in {"touch", "suspend"})
    <2>1. CASE d = "touch"
      <3>1. Latest(t, r.last) \in 0..LastTime
        BY <1>1 DEF Latest
      <3> QED BY <1>1, <1>3, <2>1, <3>1 DEF Promise, SessionRecords, SessionStates
    <2>2. CASE d = "attach"
      BY <1>1, <1>3, <2>2 DEF Promise, SessionRecords
    <2>3. CASE d = "detach"
      BY <1>1, <1>3, <2>3 DEF Promise, SessionRecords
    <2>4. CASE d = "expire"
      BY <1>1, <1>3, <2>4 DEF Promise, SessionRecords, SessionStates
    <2>5. CASE d = "suspend"
      BY <1>1, <1>3, <2>5 DEF Promise, SessionRecords, SessionStates
    <2> QED BY <2>1, <2>2, <2>3, <2>4, <2>5 DEF Does
  <1> QED BY <1>2, <1>3

\* A call that goes by what is so does what it promises.
LEMMA UpToDateKeepsPromise ==
    ASSUME NEW t \in 0..LastTime, NEW d \in Does, NEW x \in Channels \cup {NoValue},
           NEW copy \in SessionRecords, NEW r \in SessionRecords, r.state # NoValue,
           Matters(d, copy) = Matters(d, r), ~Refuses(d, x, copy),
           d = "suspend" => copy.state = "active", d = "touch" => ~(t < r.last)
    PROVE  Merged(Patch(d, x, copy, t), r) = Promise(d, x, r, t)
  <1>1. r = [state |-> r.state, last |-> r.last, surfaces |-> r.surfaces]
        /\ r.state \in SessionStates
    BY DEF SessionRecords
  <1>2. CASE d = "touch"
    <2>1. copy.state = r.state /\ r.state # "expired"
      BY <1>2 DEF Matters, Refuses
    <2>2. Promise(d, x, r, t) = [state |-> "active", last |-> t, surfaces |-> r.surfaces]
      <3>1. Latest(t, r.last) = t
        BY <1>1, <1>2 DEF Latest, SessionRecords
      <3> QED BY <1>1, <1>2, <2>1, <3>1 DEF Promise
    <2>3. CASE r.state \in {"created", "suspended"}
      <3>1. Patch(d, x, copy, t) = [last |-> t, state |-> "active"]
        BY <1>2, <2>1, <2>3 DEF Patch
      <3> QED BY <2>2, <3>1, MergeActive
    <2>4. CASE r.state = "active"
      <3>1. Patch(d, x, copy, t) = [last |-> t]
        BY <1>2, <2>1, <2>4 DEF Patch
      <3> QED BY <2>2, <2>4, <3>1, MergeLast
    <2> QED BY <1>1, <2>1, <2>3, <2>4 DEF SessionStates
  <1>3. CASE d = "attach"
    <2>1. copy.surfaces = r.surfaces
      BY <1>3 DEF Matters
    <2>2. Promise(d, x, r, t) = [state |-> r.state, last |-> r.last, surfaces |-> r.surfaces \cup {x}]
      BY <1>1, <1>3 DEF Promise
    <2>3. Patch(d, x, copy, t) = [surfaces |-> r.surfaces \cup {x}]
      BY <1>3, <2>1 DEF Patch
    <2> QED BY <2>2, <2>3, MergeSurfaces
  <1>4. CASE d = "detach"
    <2>1. copy.surfaces = r.surfaces
      BY <1>4 DEF Matters
    <2>2. Promise(d, x, r, t) = [state |-> r.state, last |-> r.last, surfaces |-> r.surfaces \ {x}]
      BY <1>1, <1>4 DEF Promise
    <2>3. Patch(d, x, copy, t) = [surfaces |-> r.surfaces \ {x}]
      BY <1>4, <2>1 DEF Patch
    <2> QED BY <2>2, <2>3, MergeSurfaces
  <1>5. CASE d = "expire"
    <2>1. Promise(d, x, r, t) = [state |-> "expired", last |-> r.last, surfaces |-> r.surfaces]
      BY <1>1, <1>5 DEF Promise
    <2>2. Patch(d, x, copy, t) = [state |-> "expired"]
      BY <1>5 DEF Patch
    <2> QED BY <2>1, <2>2, MergeState
  <1>6. CASE d = "suspend"
    <2>1. r.state = "active"
      BY <1>6 DEF Matters
    <2>2. Promise(d, x, r, t) = [state |-> "suspended", last |-> r.last, surfaces |-> r.surfaces]
      BY <1>1, <1>6, <2>1 DEF Promise
    <2>3. Patch(d, x, copy, t) = [state |-> "suspended"]
      BY <1>6 DEF Patch
    <2> QED BY <2>2, <2>3, MergeState
  <1> QED BY <1>2, <1>3, <1>4, <1>5, <1>6 DEF Does

LEMMA UpdateKeeps ==
    ASSUME SessionTypes, SessionInv, NEW k \in SessionCallers, Update(k)
    PROVE  SessionTypes' /\ SessionInv'
  <1>1. PICK o : o = op[k]
    OBVIOUS
  <1>t. PICK t : t = PatchTime(k)
    OBVIOUS
  <1>2. PICK under : under = IF adapter = "runtime" THEN o.base ELSE session[o.on]
    OBVIOUS
  <1>3. PICK written : written = Merged(Patch(o.does, o.arg, o.copy, t), under)
    OBVIOUS
  <1>4. PICK due : due = Promise(o.does, o.arg, promised[o.on], t)
    OBVIOUS
  <1>5. o \in OpRecords /\ OpInv(o)
    BY <1>1 DEF SessionTypes, SessionInv
  <1>6. IF adapter = "runtime" THEN o.at = "reread" ELSE MayPatch(k)
    BY <1>1 DEF Update
  <1>7. o.at \in {"fetched", "reread"} /\ ~Refuses(o.does, o.arg, o.copy)
    BY <1>1, <1>5, <1>6 DEF MayPatch, OpInv
  <1>8. There(o.on) /\ o.on \in SessionIds /\ o.does \in Does
        /\ (o.does \in {"attach", "detach"} => o.arg \in Channels)
        /\ (o.does = "suspend" => o.copy.state = "active")
    BY <1>5, <1>7 DEF OpInv, There
  <1>9. o.arg \in Channels \cup {NoValue} /\ o.copy \in SessionRecords /\ o.base \in SessionRecords
        /\ o.rest \in Rests
    BY <1>5 DEF OpRecords
  <1>10. under \in SessionRecords /\ under.state # NoValue
    <2>1. CASE adapter = "runtime"
      BY <1>2, <1>5, <1>6, <1>9, <2>1 DEF OpInv
    <2>2. CASE adapter # "runtime"
      BY <1>2, <1>8, <2>2 DEF There, SessionTypes
    <2> QED BY <2>1, <2>2
  <1>11. t \in 0..LastTime
    BY <1>1, <1>5, <1>t DEF SessionTypes, OpRecords, PatchTime
  <1>12. written \in SessionRecords /\ written.state # NoValue
    BY <1>3, <1>8, <1>9, <1>10, <1>11, PatchedIsSession
  <1>13. promised[o.on] \in SessionRecords
    BY <1>8 DEF SessionTypes
  <1>14. due \in SessionRecords
    BY <1>4, <1>8, <1>9, <1>11, <1>13, PromisedIsSession
  <1>15. session' = [session EXCEPT ![o.on] = written]
    BY <1>1, <1>2, <1>3, <1>t DEF Update
  <1>16. promised' = [promised EXCEPT ![o.on] = due]
    BY <1>1, <1>4, <1>t DEF Update
  <1>17. session' \in [SessionIds -> SessionRecords] /\ session'[o.on] = written
         /\ \A s \in SessionIds \ {o.on} : session'[s] = session[s]
    BY <1>8, <1>12, <1>15 DEF SessionTypes
  <1>18. promised' \in [SessionIds -> SessionRecords] /\ promised'[o.on] = due
         /\ \A s \in SessionIds \ {o.on} : promised'[s] = promised[s]
    BY <1>8, <1>14, <1>16 DEF SessionTypes
  <1>19. There(o.on)'
    BY <1>8, <1>12, <1>17 DEF There
  <1>20. \A s \in SessionIds : There(s) => There(s)'
    BY <1>17, <1>19 DEF There
  <1>21. \A s \in SessionIds : (Exists(s) => There(s))'
    BY <1>17, <1>19 DEF Exists, There, SessionInv
  <1>22. PICK e \in OpRecords : op' = [op EXCEPT ![k] = e] /\ OpInv(e)'
    <2>1. (o.rest = <<>> /\ Done(k))
          \/ (\E s \in DOMAIN o.rest : op' = [op EXCEPT ![k] = Suspending(o.rest, s)])
      BY <1>1 DEF Update
    <2>2. CASE Done(k)
      <3>1. OpInv(NoOp)'
        BY EmptySeq DEF OpInv, NoOp
      <3> QED BY <2>2, <3>1, IdleIsFine DEF Done
    <2>3. CASE \E s \in DOMAIN o.rest : op' = [op EXCEPT ![k] = Suspending(o.rest, s)]
      <3>1. PICK s \in DOMAIN o.rest : op' = [op EXCEPT ![k] = Suspending(o.rest, s)]
        BY <2>3
      <3>2. PICK D \in SUBSET SessionIds : o.rest \in [D -> SessionRecords]
        BY <1>9, <3>1, EmptySeq DEF Rests
      <3>3. DOMAIN o.rest = D
        BY <3>2
      <3>4. \A u \in D : There(u) /\ o.rest[u].state = "active"
        BY <1>5, <3>3 DEF OpInv
      <3>5. s \in D
        BY <3>1, <3>3
      <3>6. PICK e : e = Suspending(o.rest, s)
        OBVIOUS
      <3>7. e \in OpRecords /\ OpInv(e)
        BY <3>2, <3>4, <3>5, <3>6, SuspendingIsFine
      <3>8. \A u : There(u) => There(u)'
        BY <1>20 DEF There
      <3>9. OpInv(e)'
        BY <3>7, <3>8 DEF OpInv, Refuses
      <3> QED BY <3>1, <3>6, <3>7, <3>9
    <2> QED BY <2>1, <2>2, <2>3
  <1>23. op' \in [SessionCallers -> OpRecords] /\ \A j \in SessionCallers : OpInv(op[j])'
    BY <1>20, <1>22, CallMoves
  <1>24. raced' = IF OutOfDate(k) THEN raced \cup {o.on} ELSE raced
    BY <1>1 DEF Update
  <1>25. ASSUME NEW s \in SessionIds \ raced' PROVE session'[s] = promised'[s]
    <2>1. s \notin raced /\ session[s] = promised[s]
      BY <1>24 DEF SessionInv
    <2>2. CASE s = o.on
      <3>1. ~OutOfDate(k)
        BY <1>24, <2>2
      <3>2. Matters(o.does, o.copy) = Matters(o.does, session[o.on])
            /\ under = session[o.on] /\ (o.does = "touch" => ~(t < under.last))
        BY <1>1, <1>2, <1>t, <3>1 DEF OutOfDate
      <3>3. Matters(o.does, o.copy) = Matters(o.does, under)
        BY <3>2
      <3>4. written = Promise(o.does, o.arg, under, t)
        BY <1>3, <1>7, <1>8, <1>9, <1>10, <1>11, <3>2, <3>3, UpToDateKeepsPromise
      <3> QED BY <1>4, <1>17, <1>18, <2>1, <2>2, <3>2, <3>4
    <2>3. CASE s # o.on
      BY <1>17, <1>18, <2>1, <2>3
    <2> QED BY <2>2, <2>3
  <1>26. UNCHANGED <<adapter, now, ops>>
    BY DEF Update
  <1>27. raced' \subseteq SessionIds
    BY <1>8, <1>24 DEF SessionTypes
  <1>28. SessionTypes'
    BY <1>17, <1>18, <1>23, <1>26, <1>27 DEF SessionTypes
  <1> QED BY <1>21, <1>23, <1>25, <1>28 DEF SessionInv

LEMMA SessionStep ==
    SessionTypes /\ SessionInv /\ [SessNext]_sessVars => SessionTypes' /\ SessionInv'
  <1> SUFFICES ASSUME SessionTypes, SessionInv, [SessNext]_sessVars
               PROVE  SessionTypes' /\ SessionInv'
    OBVIOUS
  <1>1. CASE UNCHANGED sessVars
    <2>1. SessionTypes'
      BY <1>1 DEF SessionTypes, sessVars
    <2>2. \A s : (There(s)' <=> There(s)) /\ (Exists(s)' <=> Exists(s))
      BY <1>1 DEF There, Exists, sessVars
    <2>3. ASSUME NEW k \in SessionCallers PROVE OpInv(op[k])'
      BY <1>1, <2>2 DEF SessionInv, OpInv, Refuses, sessVars
    <2> QED BY <1>1, <2>1, <2>2, <2>3 DEF SessionInv, sessVars
  <1>2. ASSUME NEW k \in SessionCallers, NEW s \in SessionIds,
               \/ Fetch(k, s, "touch", NoValue)
               \/ Fetch(k, s, "expire", NoValue)
               \/ \E x \in Channels : Fetch(k, s, "attach", x) \/ Fetch(k, s, "detach", x)
        PROVE  SessionTypes' /\ SessionInv'
    BY <1>2, FetchKeeps DEF Does
  <1>3. ASSUME NEW k \in SessionCallers,
               \/ \E x \in Channels : Resolve(k, x)
               \/ Sweep(k)
               \/ Refuse(k) \/ Stamp(k) \/ Reread(k) \/ Update(k)
               \/ ResolvedTouch(k) \/ Create(k)
        PROVE  SessionTypes' /\ SessionInv'
    BY <1>3, ResolveKeeps, SweepKeeps, RefuseKeeps, StampKeeps, RereadKeeps, UpdateKeeps,
       ResolvedTouchKeeps, CreateKeeps
  <1>4. CASE Later
    BY <1>4, LaterKeeps
  <1> QED BY <1>1, <1>2, <1>3, <1>4 DEF SessNext

\* Every call works on a session that was created, and on a copy it may patch,
\* however the calls of one user interleave at their awaits.
THEOREM SessionsAlways == SessSpec => [](SessionTypes /\ SessionInv)
  BY SessionInitOK, SessionStep, PTL DEF SessSpec

\* However calls interleave, a session is what its calls would have made of it
\* one at a time, unless one of them wrote it from an outdated copy or with a time
\* older than the activity it overwrote.
THEOREM PromisesAlwaysKept == SessSpec => []KeepsPromises
  <1>1. ASSUME SessionTypes PROVE SessTypeOK
    <2>1. ASSUME NEW k \in SessionCallers
          PROVE  /\ op[k].at \in {"idle", "fetched", "patched", "reread", "resolved",
                                  "creating"}
                 /\ op[k].copy \in SessionRecords /\ op[k].base \in SessionRecords
                 /\ op[k].stamp \in 0..LastTime
                 /\ op[k].on \in SessionIds \cup {NoValue}
                 /\ op[k].arg \in Channels \cup {NoValue}
      <3>1. op[k] \in OpRecords
        BY <1>1 DEF SessionTypes
      <3> QED BY <3>1 DEF OpRecords
    <2> QED BY <1>1, <2>1 DEF SessTypeOK, SessionTypes, SessionRecords, SessionStates
  <1>2. SessionTypes /\ SessionInv => KeepsPromises
    BY <1>1 DEF SessionInv, KeepsPromises
  <1> QED BY <1>2, SessionsAlways, PTL

-----------------------------------------------------------------------------
(* Clone requests: types and the age of a status *)

AskRecords ==
    [at : {"idle", "polling", "answered", "sentinel", "reading", "posting", "saving", "done"},
     now : Nat, value : {"none", "queued", "succeeded", "failed", "stale", "unknown"},
     asOf : Nat, memory : Nat]

CloneTypeOK ==
    /\ tick \in Nat
    /\ service \in {"none", "queued", "succeeded", "failed", "stale"}
    /\ cached \in [value : {"none", "queued", "succeeded", "failed", "stale", "unknown"},
                   until : Nat, asOf : Nat]
    /\ observed \in Nat /\ kept \in Nat
    /\ ask \in [CloneCalls -> AskRecords]
    /\ basis \in [CloneCalls -> [asOf : Nat, used : Nat]]

\* Of what a call has in hand: its poll began no later than the service read.
AskInv(a) ==
    /\ a.now <= tick
    /\ a.at = "answered" => a.now <= a.asOf

BasisInv(b) == b.used < b.asOf + CacheTtl \/ b.used <= b.asOf

CloneInv ==
    /\ cached.until <= cached.asOf + CacheTtl
    /\ \A c \in CloneCalls : AskInv(ask[c]) /\ BasisInv(basis[c])

LEMMA CloneInitOK == CloneInit => CloneTypeOK /\ CloneInv
  BY CloneConstants DEF CloneInit, CloneTypeOK, CloneInv, AskRecords, AskInv, BasisInv,
     NothingCached, NoAsk, NoBasis, NoMark

\* What an answer does to the call that gets it.
LEMMA AdviseKeeps ==
    ASSUME CloneTypeOK, CloneInv, NEW c \in CloneCalls, NEW notice, Advise(c, notice)
    PROVE  /\ ask' \in [CloneCalls -> AskRecords]
           /\ \A d \in CloneCalls : AskInv(ask'[d])
  <1>1. NoAsk.now = 0 /\ [NoAsk EXCEPT !.at = "done"] \in AskRecords
    BY DEF NoAsk, NoMark, AskRecords
  <1>2. AskInv([NoAsk EXCEPT !.at = "done"])
    BY DEF NoAsk, AskInv, CloneTypeOK
  <1> QED BY <1>1, <1>2 DEF Advise, CloneTypeOK, CloneInv

-----------------------------------------------------------------------------
(* One step *)

LEMMA BeginCloneKeeps ==
    ASSUME CloneTypeOK, CloneInv, NEW c \in CloneCalls, BeginClone(c)
    PROVE  CloneTypeOK' /\ CloneInv'
  <1> DEFINE sentinel == [NoAsk EXCEPT !.at = "sentinel"]
  <1>1. sentinel \in AskRecords /\ AskInv(sentinel)
    BY DEF NoAsk, NoMark, AskRecords, AskInv, CloneTypeOK
  <1>2. CASE cached # NothingCached /\ cached.until > tick
    <2>1. \/ \E notice : Advise(c, notice)
          \/ ask' = [ask EXCEPT ![c] = sentinel]
      BY <1>2 DEF BeginClone
    <2>2. /\ ask' \in [CloneCalls -> AskRecords]
          /\ \A d \in CloneCalls : AskInv(ask'[d])
      BY <1>1, <2>1, AdviseKeeps DEF CloneTypeOK, CloneInv
    <2>3. basis' = [basis EXCEPT ![c] = [asOf |-> cached.asOf, used |-> tick]]
      BY <1>2 DEF BeginClone
    <2>4. BasisInv([asOf |-> cached.asOf, used |-> tick])
      BY <1>2, CloneConstants DEF BasisInv, CloneTypeOK, CloneInv
    <2>5. /\ basis' \in [CloneCalls -> [asOf : Nat, used : Nat]]
          /\ \A d \in CloneCalls : BasisInv(basis'[d])
      BY <2>3, <2>4 DEF CloneTypeOK, CloneInv
    <2> QED BY <1>2, <2>2, <2>5 DEF BeginClone, CloneTypeOK, CloneInv, AskInv, BasisInv
  <1>3. CASE ~(cached # NothingCached /\ cached.until > tick)
    <2> DEFINE polling == [NoAsk EXCEPT !.at = "polling", !.now = tick]
    <2>1. polling \in AskRecords /\ AskInv(polling)
      <3>1. polling \in AskRecords
        BY DEF NoAsk, NoMark, AskRecords, CloneTypeOK
      <3>2. polling.now = tick /\ polling.at = "polling"
        BY DEF NoAsk
      <3> QED BY <3>1, <3>2 DEF AskInv, CloneTypeOK
    <2>2. /\ ask' \in [CloneCalls -> AskRecords]
          /\ \A d \in CloneCalls : AskInv(ask'[d])
      BY <1>3, <2>1 DEF BeginClone, CloneTypeOK, CloneInv
    <2>3. cached' = NothingCached /\ UNCHANGED basis
      BY <1>3 DEF BeginClone
    <2> QED BY <2>2, <2>3, CloneConstants
            DEF BeginClone, CloneTypeOK, CloneInv, AskInv, BasisInv, NothingCached
  <1> QED BY <1>2, <1>3

LEMMA PollKeeps ==
    ASSUME CloneTypeOK, CloneInv, NEW c \in CloneCalls,
           ServiceReads(c) \/ PollAnswered(c) \/ PollFails(c)
    PROVE  CloneTypeOK' /\ CloneInv'
  <1>1. CASE ServiceReads(c)
    <2> DEFINE answered == [ask[c] EXCEPT !.at = "answered", !.value = service, !.asOf = tick]
    <2>1. ask' = [ask EXCEPT ![c] = answered]
      BY <1>1 DEF ServiceReads, CloneTypeOK
    <2>2. answered \in AskRecords /\ AskInv(answered)
      BY DEF CloneTypeOK, CloneInv, AskRecords, AskInv
    <2> QED BY <1>1, <2>1, <2>2 DEF ServiceReads, CloneTypeOK, CloneInv, AskInv, BasisInv
  <1>2. CASE PollAnswered(c)
    <2> DEFINE sentinel == [ask[c] EXCEPT !.at = "sentinel"]
    <2>1. sentinel \in AskRecords /\ AskInv(sentinel)
      BY DEF CloneTypeOK, CloneInv, AskRecords, AskInv
    <2>2. \/ \E notice : Advise(c, notice)
          \/ ask' = [ask EXCEPT ![c] = sentinel]
      BY <1>2 DEF PollAnswered, Consider, CloneTypeOK
    <2>3. /\ ask' \in [CloneCalls -> AskRecords]
          /\ \A d \in CloneCalls : AskInv(ask'[d])
      BY <2>1, <2>2, AdviseKeeps DEF CloneTypeOK, CloneInv
    <2>4. /\ ask[c].now \in Nat /\ ask[c].asOf \in Nat /\ ask[c].now <= ask[c].asOf
          /\ ask[c] \in AskRecords
      BY <1>2 DEF PollAnswered, CloneTypeOK, CloneInv, AskRecords, AskInv
    <2>5. /\ cached' \in [value : {"none", "queued", "succeeded", "failed", "stale", "unknown"},
                          until : Nat, asOf : Nat]
          /\ cached'.until <= cached'.asOf + CacheTtl
      BY <1>2, <2>4, CloneConstants DEF PollAnswered, CachedUntil, AskRecords
    <2>6. basis' = [basis EXCEPT ![c] = [asOf |-> ask[c].asOf, used |-> ask[c].now]]
      BY <1>2 DEF PollAnswered, Consider
    <2>7. /\ basis' \in [CloneCalls -> [asOf : Nat, used : Nat]]
          /\ \A d \in CloneCalls : BasisInv(basis'[d])
      BY <2>4, <2>6 DEF CloneTypeOK, CloneInv, BasisInv
    <2> QED BY <1>2, <2>3, <2>5, <2>7 DEF PollAnswered, CloneTypeOK, CloneInv, AskInv, BasisInv
  <1>3. CASE PollFails(c)
    <2> DEFINE sentinel == [ask[c] EXCEPT !.at = "sentinel"]
    <2>1. sentinel \in AskRecords /\ AskInv(sentinel)
      BY DEF CloneTypeOK, CloneInv, AskRecords, AskInv
    <2>2. ask' = [ask EXCEPT ![c] = sentinel]
      BY <1>3 DEF PollFails, CloneTypeOK
    <2> QED BY <1>3, <2>1, <2>2 DEF PollFails, CloneTypeOK, CloneInv, AskInv, BasisInv
  <1> QED BY <1>1, <1>2, <1>3

\* The request and what follows it touch neither the cache nor a basis.
LEMMA RequestKeeps ==
    ASSUME CloneTypeOK, CloneInv, NEW c \in CloneCalls,
           \/ ReadSentinel(c) \/ Accepted(c) \/ Rejected(c) \/ Saved(c)
           \/ \E stored \in {kept, NoMark} : StoreRead(c, stored)
    PROVE  CloneTypeOK' /\ CloneInv'
  <1> DEFINE reading == [NoAsk EXCEPT !.at = "reading", !.now = tick, !.memory = observed]
             At(l) == [ask[c] EXCEPT !.at = l]
  <1>1. reading \in AskRecords /\ AskInv(reading)
    <2>1. reading \in AskRecords
      BY DEF NoAsk, NoMark, AskRecords, CloneTypeOK
    <2>2. reading.now = tick /\ reading.at = "reading"
      BY DEF NoAsk
    <2> QED BY <2>1, <2>2 DEF AskInv, CloneTypeOK
  <1>2. \A l \in {"posting", "saving"} : At(l) \in AskRecords /\ AskInv(At(l))
    BY DEF CloneTypeOK, CloneInv, AskRecords, AskInv
  <1>3. \/ \E notice : Advise(c, notice)
        \/ ask' = [ask EXCEPT ![c] = reading]
        \/ \E l \in {"posting", "saving"} : ask' = [ask EXCEPT ![c] = At(l)]
    BY DEF ReadSentinel, StoreRead, Accepted, Rejected, Saved, CloneTypeOK
  <1>4. /\ ask' \in [CloneCalls -> AskRecords]
        /\ \A d \in CloneCalls : AskInv(ask'[d])
    BY <1>1, <1>2, <1>3, AdviseKeeps DEF CloneTypeOK, CloneInv
  <1>5. ask[c].now \in Nat /\ ask[c].memory \in Nat /\ NoMark \in Nat
    BY DEF CloneTypeOK, AskRecords, NoMark
  <1>6. observed' \in Nat /\ kept' \in Nat
    BY <1>5 DEF ReadSentinel, StoreRead, Accepted, Rejected, Saved, CloneTypeOK
  <1>7. UNCHANGED <<tick, cached, basis>> /\ service' \in {service, "queued"}
    BY DEF ReadSentinel, StoreRead, Accepted, Rejected, Saved
  <1> QED BY <1>4, <1>6, <1>7 DEF CloneTypeOK, CloneInv, AskInv, BasisInv

LEMMA CloneStep == CloneTypeOK /\ CloneInv /\ [CloneNext]_cloneVars => CloneTypeOK' /\ CloneInv'
  <1> SUFFICES ASSUME CloneTypeOK, CloneInv, [CloneNext]_cloneVars
               PROVE  CloneTypeOK' /\ CloneInv'
    OBVIOUS
  <1>1. CASE UNCHANGED cloneVars
    BY <1>1 DEF cloneVars, CloneTypeOK, CloneInv, AskInv, BasisInv
  <1>2. CASE (\E state \in {"succeeded", "failed"} : JobEnds(state)) \/ GrowsStale
    BY <1>2 DEF JobEnds, GrowsStale, CloneTypeOK, CloneInv, AskInv, BasisInv
  <1>3. CASE TimePasses
    <2>1. \A c \in CloneCalls : AskInv(ask[c])'
      BY <1>3 DEF TimePasses, CloneTypeOK, CloneInv, AskInv, AskRecords
    <2> QED BY <1>3, <2>1 DEF TimePasses, CloneTypeOK, CloneInv, BasisInv
  <1>4. CASE Restart
    <2>1. \A at \in {"idle", "done"} : LET a == [NoAsk EXCEPT !.at = at] IN
              a \in AskRecords /\ AskInv(a)
      BY DEF NoAsk, NoMark, AskRecords, AskInv, CloneTypeOK
    <2>2. \A c \in CloneCalls : ask'[c] \in AskRecords /\ AskInv(ask'[c])
      BY <1>4, <2>1 DEF Restart, NoAsk
    <2>3. ask' \in [CloneCalls -> AskRecords]
      BY <1>4, <2>2 DEF Restart
    <2> QED BY <1>4, <2>2, <2>3, CloneConstants
            DEF Restart, CloneTypeOK, CloneInv, AskInv, BasisInv, NothingCached, NoMark
  <1>5. ASSUME NEW c \in CloneCalls,
               \/ BeginClone(c) \/ ServiceReads(c) \/ PollAnswered(c) \/ PollFails(c)
               \/ ReadSentinel(c) \/ Accepted(c) \/ Rejected(c) \/ Saved(c)
               \/ \E stored \in {kept, NoMark} : StoreRead(c, stored)
        PROVE  CloneTypeOK' /\ CloneInv'
    BY <1>5, BeginCloneKeeps, PollKeeps, RequestKeeps
  <1> QED BY <1>1, <1>2, <1>3, <1>4, <1>5 DEF CloneNext

THEOREM CloneAlways == CloneSpec => [](CloneTypeOK /\ CloneInv)
  BY CloneInitOK, CloneStep, PTL DEF CloneSpec

\* No call goes by a status older than the time to live, however calls, polls
\* that come back late, requests and restarts interleave.
THEOREM StatusAlwaysRecent == CloneSpec => []StatusIsRecent
  <1>1. CloneInv => StatusIsRecent
    BY DEF CloneInv, BasisInv, StatusIsRecent
  <1> QED BY <1>1, CloneAlways, PTL
===============================================================================
