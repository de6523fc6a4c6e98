----------------------------- MODULE Interner -----------------------------
(***************************************************************************)
(* The interner of runtime/string.rs: an open-addressed hash table with    *)
(* linear probing and tombstones over the pool of strings.                 *)
(*                                                                         *)
(* A string object is named by its id; ids count from 1 here and from 0 in *)
(* the code.  Both loops over many entries are one step per entry: the     *)
(* rehash of grow (job) and the sweep of the string pool (dead).  While    *)
(* one runs, nothing else touches the interner.                            *)
(***************************************************************************)
EXTENDS Integers, FiniteSets, Sequences, FiniteSetsExt

CONSTANTS
    Strings,    \* byte strings
    EmptyStr,   \* ""
    Hash,       \* fnv1a_fold(fnv1a_state(s))
    InitCap,    \* slots of a new interner (512 in the code)
    MaxCap,     \* bound: slots
    MaxIds      \* bound: ids given out

ASSUME InternerAssumption ==
    /\ EmptyStr \in Strings
    /\ Hash \in [Strings -> Nat]
    /\ InitCap \in Nat /\ InitCap >= 4

VARIABLES
    slots,  \* position -> Empty, Tombstone or the id of the string there
    nuse,   \* occupied slots
    ndead,  \* tombstones
    text,   \* id -> the bytes it was allocated with; Len(text) = by_id.len()
    pool,   \* ids of the allocated strings; by_id is None for the others
    job,    \* the rehash in progress
    dead    \* strings that the sweep in progress has still to free

vars == <<slots, nuse, ndead, text, pool, job, dead>>

Empty == 0
Tombstone == -1
Occupied(v) == v > 0

\* A slot array has the positions 0 .. n - 1.
Size(a) == Cardinality(DOMAIN a)
Cap == Size(slots)

\* (hash + k) & mask: the k-th position that a probe for s looks at.
At(s, k, n) == (Hash[s] + k) % n

\* The first step of the probe for s in a at which P holds.
FirstStep(n, P(_)) == CHOOSE k \in 0 .. n - 1 : P(k) /\ \A j \in 0 .. k - 1 : ~P(j)

NoJob == [str |-> EmptyStr, new |-> <<>>, next |-> -1]
Idle == job = NoJob /\ dead = {}

\* Mutant: the tombstones do not count.
should_grow_Live == nuse * 10 >= Cap * 7

should_grow == (nuse + ndead) * 10 >= Cap * 7

---------------------------------------------------------------------------
(* Probing *)

Holds(s, i) == Occupied(slots[i]) /\ text[slots[i]] = s

\* Mutant: a tombstone ends the probe.
Stops_Dead(s, i) == slots[i] <= 0 \/ Holds(s, i)

\* The probe for s ends at an empty slot or at s itself.
Stops(s, i) == slots[i] = Empty \/ Holds(s, i)

\* Where the probe for s ends.
ProbeStep(s) == FirstStep(Cap, LAMBDA k : Stops(s, At(s, k, Cap)))
ProbePos(s) == At(s, ProbeStep(s), Cap)

\* Where a new s goes: the first tombstone passed, else the end.
InsertPos(s) ==
    LET passed == {k \in 0 .. ProbeStep(s) : slots[At(s, k, Cap)] = Tombstone}
    IN  IF passed = {} THEN ProbePos(s) ELSE At(s, Min(passed), Cap)

---------------------------------------------------------------------------
(* intern_with_hash *)

\* The tail of insert_new: a new string object, entered at position i of a.
Enter(s, a, i, tombs) ==
    /\ Len(text) < MaxIds
    /\ text' = Append(text, s)
    /\ pool' = pool \cup {Len(text) + 1}
    /\ ndead' = IF a[i] = Tombstone THEN tombs - 1 ELSE tombs
    /\ slots' = [a EXCEPT ![i] = Len(text) + 1]
    /\ nuse' = nuse + 1

\* Not found and room enough.
InternNew(s) ==
    /\ Idle
    /\ slots[ProbePos(s)] = Empty
    /\ ~should_grow
    /\ Enter(s, slots, InsertPos(s), ndead)
    /\ UNCHANGED <<job, dead>>

\* Not found and too full: grow allocates twice the slots.
InternGrow(s) ==
    /\ Idle
    /\ slots[ProbePos(s)] = Empty
    /\ should_grow
    /\ Cap * 2 <= MaxCap /\ Len(text) < MaxIds
    /\ job' = [str |-> s, new |-> [i \in 0 .. Cap * 2 - 1 |-> Empty], next |-> 0]
    /\ UNCHANGED <<slots, nuse, ndead, text, pool, dead>>

\* The first free position for s in the array that is being filled.
FreePos(s, a) == At(s, FirstStep(Size(a), LAMBDA k : a[At(s, k, Size(a))] <= 0), Size(a))

\* Mutant: an entry keeps its old position.
Moved_InPlace(a, i) ==
    IF Occupied(slots[i]) THEN [a EXCEPT ![i] = slots[i]] ELSE a

\* The array once the entry of old position i is rehashed.
Moved(a, i) ==
    IF Occupied(slots[i]) THEN [a EXCEPT ![FreePos(text[slots[i]], a)] = slots[i]] ELSE a

\* One turn of grow's loop.
GrowStep ==
    /\ job.next \in DOMAIN slots
    /\ job' = [job EXCEPT !.new = Moved(@, job.next), !.next = @ + 1]
    /\ UNCHANGED <<slots, nuse, ndead, text, pool, dead>>

\* The loop is done: no tombstones are left; probe again and enter the string.
GrowEnd ==
    /\ job # NoJob
    /\ job.next = Cap
    /\ Enter(job.str, job.new, FreePos(job.str, job.new), 0)
    /\ job' = NoJob
    /\ UNCHANGED dead

---------------------------------------------------------------------------
(* sweep *)

\* The strings with no bytes, which sweep marks first.
Pinned == {p \in pool : text[p] = EmptyStr}

\* The pool's sweep has found the strings in D dead.  Which ones is decided
\* by mark and colour (GcHeap).
SweepBegin(D) ==
    /\ Idle
    /\ D \subseteq pool \ Pinned
    /\ dead' = D
    /\ UNCHANGED <<slots, nuse, ndead, text, pool, job>>

\* Mutant: the slot is made empty.
Unlinked_Empty(i) == [slots EXCEPT ![i] = Empty]

\* The table without the entry at i.
Unlinked(i) == [slots EXCEPT ![i] = Tombstone]

\* on_free: bury the string's slot, forget its id, drop the object.
SweepFree(p) ==
    LET i == ProbePos(text[p]) IN
    /\ p \in dead
    /\ IF slots[i] = Empty
         THEN UNCHANGED <<slots, nuse, ndead>>
         ELSE /\ slots' = Unlinked(i)
              /\ nuse' = nuse - 1
              /\ ndead' = ndead + 1
    /\ pool' = pool \ {p}
    /\ dead' = dead \ {p}
    /\ UNCHANGED <<text, job>>

---------------------------------------------------------------------------
(* Specification *)

\* Interner::new interns "" in an empty table.
Init ==
    /\ slots = [i \in 0 .. InitCap - 1 |-> IF i = At(EmptyStr, 0, InitCap) THEN 1 ELSE Empty]
    /\ nuse = 1
    /\ ndead = 0
    /\ text = <<EmptyStr>>
    /\ pool = {1}
    /\ job = NoJob
    /\ dead = {}

Next ==
    \/ \E s \in Strings : InternNew(s)
    \/ \E s \in Strings : InternGrow(s)
    \/ GrowStep
    \/ GrowEnd
    \/ \E D \in SUBSET pool : SweepBegin(D)
    \/ \E p \in dead : SweepFree(p)

Spec == Init /\ [][Next]_vars

---------------------------------------------------------------------------
(* Properties *)

\* Every probe ends: intern_with_hash and on_free loop until they meet an
\* empty slot, so one must be left whatever mix of strings and tombstones
\* fills the others, in the old array and in the one grow fills.
ProbesEnd ==
    /\ \E i \in DOMAIN slots : slots[i] = Empty
    /\ job # NoJob => \E i \in DOMAIN job.new : job.new[i] = Empty

\* The probe of intern_with_hash dereferences what it passes: a slot never
\* holds a freed string, not even in the middle of a sweep; and nuse and
\* ndead, which decide when to grow, count the slots.
SlotsLive ==
    /\ \A i \in DOMAIN slots : Occupied(slots[i]) => slots[i] \in pool
    /\ nuse = Cardinality({i \in DOMAIN slots : Occupied(slots[i])})
    /\ ndead = Cardinality({i \in DOMAIN slots : slots[i] = Tombstone})

\* Every live string is where a probe for it ends, also after the entries
\* before it were buried or moved.
Findable == \A p \in pool : slots[ProbePos(text[p])] = p

\* The table of live strings, with an id that is fresh for each new one.
Table == INSTANCE StringTable WITH
    ids <- [s \in {text[p] : p \in pool} |-> CHOOSE p \in pool : text[p] = s],
    used <- Len(text)

\* Interning implements the promised table: a string that is live is found
\* again by the probe (no second object is made for it), ids are not reused
\* although strings are freed, and "" stays.
ImplementsTable == Table!TableSpec
=============================================================================
