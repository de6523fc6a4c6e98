----------------------------- MODULE LuaTable -----------------------------
(***************************************************************************)
(* The table of runtime/table.rs: an array part for the integer keys below *)
(* asize and a hash part of chained nodes, kept short by Brent's variation *)
(* (a node that is not in its main position gives way to a key that is).   *)
(*                                                                         *)
(* A deleted key stays in its node with a nil value.  A string hashes by   *)
(* its id and is compared by its address, so a key is an integer or the    *)
(* address of a string or another object; hash gives the hash of each.     *)
(*                                                                         *)
(* A table is a record, as the operations below compose: set may rehash,   *)
(* which resizes, which sets every entry again.  full is raised where the  *)
(* code would rehash once more within such a resize.  The map of TableMap  *)
(* takes every step with the table, to compare it with.                    *)
(***************************************************************************)
EXTENDS Integers, FiniteSets, FiniteSetsExt

CONSTANTS
    Ints,       \* integer keys that may go to the array part
    Strs,       \* addresses of strings
    Objs,       \* other keys: objects, numbers that only hash
    Vals,       \* values other than nil: objects
    Nil,
    Hashes,     \* the hash functions (functions from keys to naturals)
    Sizes       \* sizes of a new table: pairs of asize and hbits

\* No array part is longer, no hash part has more bits.
LJ_MAX_ASIZE == 2^27 + 1
LJ_MAX_HBITS == 26

ASSUME TableAssumption ==
    /\ Ints \subseteq 0 .. LJ_MAX_ASIZE - 1
    /\ Nil \notin Ints \cup Strs \cup Objs \cup Vals
    /\ Ints \cap (Strs \cup Objs \cup Vals) = {}
    /\ Hashes \subseteq [Ints \cup Strs \cup Objs -> Nat]
    /\ Sizes \subseteq (0 .. LJ_MAX_ASIZE) \X (0 .. LJ_MAX_HBITS)

VARIABLES
    hash,   \* hash_key
    tab,    \* the table
    map,    \* what the table should hold
    trav    \* a traversal with next: its last key, what it returned and owes, and
            \* whether the hash part moved under it

vars == <<hash, tab, map, trav>>

Keys == Ints \cup Strs \cup Objs

Map == INSTANCE TableMap

NIL_NODE == -1
EMPTY == [key |-> Nil, val |-> Nil, next |-> NIL_NODE]

\* fls: the position of the highest bit of x > 0.
Fls(x) == CHOOSE b \in 0 .. 31 : 2^b <= x /\ x < 2^(b + 1)

hsize2hbits(s) == IF s <= 1 THEN s ELSE 1 + Fls(s - 1)

new_hpart(hbits) == [n \in 0 .. 2^hbits - 1 |-> EMPTY]

\* A table with asize array slots and, unless hbits is 0, 2^hbits nodes.
new(asize, hbits) ==
    [array   |-> [i \in 0 .. asize - 1 |-> Nil],
     asize   |-> asize,
     node    |-> IF hbits = 0 THEN <<>> ELSE new_hpart(hbits),
     hmask   |-> IF hbits = 0 THEN 0 ELSE 2^hbits - 1,
     freetop |-> IF hbits = 0 THEN 0 ELSE 2^hbits,
     nomm    |-> Strs,
     full    |-> FALSE]

---------------------------------------------------------------------------
(* Looking up *)

has_hpart(t) == t.hmask # 0

hash_slot(t, k) == hash[k] % (t.hmask + 1)

InArray(t, k) == k \in Ints /\ k < t.asize

\* The first node of N that a walk along the chain from n meets, or NIL_NODE.
Walk(t, n, N) ==
    LET walk[m \in (DOMAIN t.node) \cup {NIL_NODE}] ==
            IF m \in N \cup {NIL_NODE} THEN m ELSE walk[t.node[m].next]
    IN  walk[n]

\* The nodes with key k.
NodesOf(t, k) == {n \in DOMAIN t.node : t.node[n].key = k}

\* The node of key k, NIL_NODE if it has none.
FindNode(t, k) ==
    IF has_hpart(t) THEN Walk(t, hash_slot(t, k), NodesOf(t, k)) ELSE NIL_NODE

get(t, k) ==
    IF InArray(t, k) THEN t.array[k]
    ELSE LET n == FindNode(t, k)
         IN  IF n = NIL_NODE THEN Nil ELSE t.node[n].val

---------------------------------------------------------------------------
(* New keys *)

MainFree(t, k) == t.node[hash_slot(t, k)].val = Nil

FreeNodes(t) == {n \in 0 .. t.freetop - 1 : t.node[n].key = Nil}

\* The nodes linked to n, and the one of them on the chain from main.
Before(t, n) == {p \in DOMAIN t.node : t.node[p].next = n}
Pred(t, main, n) == Walk(t, main, Before(t, n))

\* Mutant: the predecessor keeps its link to the node that was moved.
MoveAway_Unlinked(t, n, free, k) ==
    [t EXCEPT !.freetop = free,
              !.node = [@ EXCEPT ![free] = t.node[n], ![n] = [EMPTY EXCEPT !.key = k]]]

\* The key in n has its main position elsewhere: it moves to the free node.
MoveAway(t, n, free, k) ==
    LET pred == Pred(t, hash_slot(t, t.node[n].key), n)
    IN  [t EXCEPT !.freetop = free,
                  !.node = [@ EXCEPT ![pred].next = free,
                                     ![free] = t.node[n],
                                     ![n] = [EMPTY EXCEPT !.key = k]]]

\* The key in n is in its main position: the new one goes behind it.
ChainIn(t, n, free, k) ==
    [t EXCEPT !.freetop = free,
              !.node = [@ EXCEPT ![free] = [EMPTY EXCEPT !.key = k, !.next = t.node[n].next],
                                 ![n].next = free]]

\* The table with a node for k, which it has room for.
try_new_key(t, k) ==
    LET n    == hash_slot(t, k)
        free == Max(FreeNodes(t))
    IN  IF MainFree(t, k) THEN [t EXCEPT !.node[n].key = k]
        ELSE IF hash_slot(t, t.node[n].key) # n THEN MoveAway(t, n, free, k)
        ELSE ChainIn(t, n, free, k)

HasRoom(t, k) == has_hpart(t) /\ (MainFree(t, k) \/ FreeNodes(t) # {})

\* Mutant: the store of a string key leaves the cache of metamethods.
Nomm_Kept(t, k) == t.nomm

\* set clears the cache for a string, try_new_key for every new key.
Nomm(t, k) == IF k \in Strs \/ FindNode(t, k) = NIL_NODE THEN {} ELSE t.nomm

\* set, as long as it need not rehash.
Put(t, k, v) ==
    IF InArray(t, k) THEN [t EXCEPT !.array[k] = v]
    ELSE IF FindNode(t, k) = NIL_NODE /\ ~HasRoom(t, k) THEN [t EXCEPT !.full = TRUE]
    ELSE LET u == IF FindNode(t, k) = NIL_NODE THEN try_new_key(t, k) ELSE t
         IN  [u EXCEPT !.node[FindNode(u, k)].val = v, !.nomm = Nomm(t, k)]

---------------------------------------------------------------------------
(* Resizing *)

\* The key and the value at a position: the array slots, then the nodes.  The key
\* is Nil if the position is empty.
ValAt(t, i) == IF i < t.asize THEN t.array[i] ELSE t.node[i - t.asize].val
KeyAt(t, i) ==
    IF ValAt(t, i) = Nil THEN Nil
    ELSE IF i < t.asize THEN i ELSE t.node[i - t.asize].key

\* The positions of t are 0 .. End(t) - 1.
End(t) == t.asize + Cardinality(DOMAIN t.node)

\* u with the entries of t from position a on set again, one by one.
Reinsert(u, t, a) ==
    LET upto[i \in a .. End(t)] ==
            IF i = a THEN u
            ELSE IF KeyAt(t, i - 1) = Nil THEN upto[i - 1]
            ELSE Put(upto[i - 1], KeyAt(t, i - 1), ValAt(t, i - 1))
    IN  upto[End(t)]

\* The new parts with the array slots that stay.
resize_parts(t, asize, hbits) ==
    [new(asize, hbits) EXCEPT
        !.array = [i \in 0 .. asize - 1 |-> IF i < t.asize THEN t.array[i] ELSE Nil],
        !.nomm = t.nomm]

\* Both parts get their new size, and what they lost is set again.
resize(t, asize, hbits) ==
    Reinsert(resize_parts(t, asize, hbits), t, Min({asize, t.asize}))

\* The bin of an array key: 0 .. 2, 3 .. 4, 5 .. 8, and so on.
Bin(k) == IF k > 2 THEN Fls(k - 1) ELSE 0

\* The array slots and the nodes that are in use.
Slots(t) == {i \in DOMAIN t.array : t.array[i] # Nil}
Nodes(t) == {n \in DOMAIN t.node : t.node[n].val # Nil}

\* The integer keys that count_array and count_int put in bins.
IntKeys(t, ek) == (Slots(t) \cup {t.node[n].key : n \in Nodes(t)} \cup {ek}) \cap Ints

\* best_asize: the largest array more than a quarter of which is used, and how
\* many of the keys go there.
best_asize(ks) ==
    LET sum(b) == Cardinality({k \in ks : Bin(k) <= b})
        nn     == Cardinality(ks)
        tried  == {b \in 0 .. 27 : 2 * nn > 2^b /\ sum(b - 1) # nn}
        dense  == {b \in tried : sum(b) # sum(b - 1) /\ 2 * sum(b) > 2^b}
    IN  IF dense = {} THEN [asize |-> 0, na |-> 0]
        ELSE [asize |-> 2 * 2^Max(dense) + 1, na |-> sum(Max(dense))]

\* Mutant: the key that does not fit is not counted.
Total_Old(t) == Cardinality(Slots(t)) + Cardinality(Nodes(t))

\* The entries of the table and the new key.
Total(t) == 1 + Cardinality(Slots(t)) + Cardinality(Nodes(t))

\* The sizes that a rehash for ek chooses.
new_asize(t, ek) == best_asize(IntKeys(t, ek)).asize
new_hbits(t, ek) == hsize2hbits(Total(t) - best_asize(IntKeys(t, ek)).na)

rehash(t, ek) == resize(t, new_asize(t, ek), new_hbits(t, ek))

hbits(t) == IF has_hpart(t) THEN Fls(t.hmask) + 1 ELSE 0

\* The array part grows to the next power of two above n > 0.
reasize(t, n) == resize(t, Min({2^(Fls(n) + 1), LJ_MAX_ASIZE}), hbits(t))

---------------------------------------------------------------------------
(* Storing *)

NeedsRehash(t, k) == ~InArray(t, k) /\ FindNode(t, k) = NIL_NODE /\ ~HasRoom(t, k)

\* The hash part would get too large: an assertion ends the program.
Overflows(t, k) == NeedsRehash(t, k) /\ new_hbits(t, k) > LJ_MAX_HBITS

set(t, k, v) == IF NeedsRehash(t, k) THEN Put(rehash(t, k), k, v) ELSE Put(t, k, v)

\* A store right above the array part makes it grow.
Push(t, k, v) == k > 0 /\ k = t.asize /\ v # Nil
set_int(t, k, v) == IF Push(t, k, v) THEN Put(reasize(t, k), k, v) ELSE set(t, k, v)

---------------------------------------------------------------------------
(* Traversal and length *)

INVALID == -1

\* Mutant: the search goes on at the key itself.
key_index_Same(t, k) ==
    IF k = Nil THEN 0
    ELSE IF InArray(t, k) THEN k + 1
    ELSE IF FindNode(t, k) # NIL_NODE THEN t.asize + FindNode(t, k)
    ELSE INVALID

\* Where the search for the successor of k starts.
key_index(t, k) ==
    IF k = Nil THEN 0
    ELSE IF InArray(t, k) THEN k + 1
    ELSE IF FindNode(t, k) # NIL_NODE THEN t.asize + FindNode(t, k) + 1
    ELSE INVALID

\* The key after k, Nil at the end.
next(t, k) ==
    LET rest == {i \in key_index(t, k) .. End(t) - 1 : KeyAt(t, i) # Nil}
    IN  IF key_index(t, k) = INVALID \/ rest = {} THEN Nil ELSE KeyAt(t, Min(rest))

\* No integer outside Ints is ever a key.
get_int(t, k) == IF k \in Ints THEN get(t, k) ELSE Nil

\* The binary search of len and len_hash between lo (in use) and hi (not).
Border(t, lo, hi) ==
    LET search[r \in (0 .. hi) \X (0 .. hi)] ==
            LET mid == (r[1] + r[2]) \div 2
            IN  IF r[2] - r[1] <= 1 THEN r[1]
                ELSE IF get_int(t, mid) = Nil THEN search[<<r[1], mid>>]
                ELSE search[<<mid, r[2]>>]
    IN  search[<<lo, hi>>]

\* hi doubles until it is not a key.
len_hash(t, top) ==
    LET d == CHOOSE d \in 0 .. 30 :
                 /\ get_int(t, (top + 1) * 2^d) = Nil
                 /\ \A e \in 0 .. d - 1 : get_int(t, (top + 1) * 2^e) # Nil
    IN  Border(t, IF d = 0 THEN top ELSE (top + 1) * 2^(d - 1), (top + 1) * 2^d)

\* Mutant: a table whose array part is full ends there.
len_Array(t) ==
    LET hi == IF t.asize = 0 THEN 0 ELSE t.asize - 1
    IN  IF hi > 0 /\ t.array[hi] = Nil THEN Border(t, 0, hi) ELSE hi

len(t) ==
    LET hi == IF t.asize = 0 THEN 0 ELSE t.asize - 1
    IN  IF hi > 0 /\ t.array[hi] = Nil THEN Border(t, 0, hi)
        ELSE IF ~has_hpart(t) THEN hi
        ELSE len_hash(t, hi)

---------------------------------------------------------------------------
(* Steps *)

Idle == [on |-> FALSE, moved |-> FALSE, key |-> Nil, seen |-> {}, owed |-> {}]

Init ==
    /\ hash \in Hashes
    /\ tab \in {new(z[1], z[2]) : z \in Sizes}
    /\ Map!Init
    /\ trav = Idle

\* A traversal goes on over stores to present keys, which next allows; a key
\* that is deleted is not owed.  A push of set_int to a present key enlarges the
\* array part and inserts the nodes again: the traversal may be among them.
TravAfterStore(k) ==
    IF trav.on /\ map[k] # Nil
    THEN [trav EXCEPT !.owed = {j \in @ : map'[j] # Nil},
                      !.moved = @ \/ (/\ tab'.asize # tab.asize
                                     /\ trav.key # Nil /\ ~InArray(tab, trav.key))]
    ELSE Idle

\* rawset, and stores of string keys (set_str takes the same path).
Set(k, v) ==
    /\ ~Overflows(tab, k)
    /\ tab' = set(tab, k, v)
    /\ Map!Store(k, v)
    /\ trav' = TravAfterStore(k)
    /\ UNCHANGED hash

\* TSETV and TSETB with an integer key, table.insert.
SetInt(k, v) ==
    /\ Push(tab, k, v) \/ ~Overflows(tab, k)
    /\ tab' = set_int(tab, k, v)
    /\ Map!Store(k, v)
    /\ trav' = TravAfterStore(k)
    /\ UNCHANGED hash

\* clear_weak_entries: entries whose key or value is dying lose their value.
ClearWeak(D) ==
    /\ tab' = [tab EXCEPT
                !.array = [i \in DOMAIN @ |-> IF @[i] \in D THEN Nil ELSE @[i]],
                !.node = [n \in DOMAIN @ |->
                            IF @[n].key \in D \/ @[n].val \in D
                            THEN [@[n] EXCEPT !.val = Nil] ELSE @[n]]]
    /\ Map!Drop(D)
    /\ trav' = [trav EXCEPT !.owed = {j \in @ : map'[j] # Nil}]
    /\ UNCHANGED hash

\* meta_fast: a miss is remembered.
MetaFast(s) ==
    /\ s \notin tab.nomm
    /\ get(tab, s) = Nil
    /\ tab' = [tab EXCEPT !.nomm = @ \cup {s}]
    /\ UNCHANGED <<hash, map, trav>>

\* pairs, or the first call of next.
Begin ==
    /\ ~trav.on
    /\ trav' = [Idle EXCEPT !.on = TRUE, !.owed = {k \in Keys : map[k] # Nil}]
    /\ UNCHANGED <<hash, tab, map>>

\* lib_next; the loop ends there, or because it raises: the last key is no
\* longer one of the table.
Next1 ==
    /\ trav.on
    /\ LET k == next(tab, trav.key)
       IN  trav' = IF k = Nil THEN Idle
                   ELSE [trav EXCEPT !.key = k, !.seen = @ \cup {k}, !.owed = @ \ {k}]
    /\ UNCHANGED <<hash, tab, map>>

Next ==
    \/ \E k \in Keys, v \in Vals \cup {Nil} : Set(k, v)
    \/ \E k \in Ints, v \in Vals \cup {Nil} : SetInt(k, v)
    \/ \E D \in SUBSET (Objs \cup Vals) : ClearWeak(D)
    \/ \E s \in Strs : MetaFast(s)
    \/ Begin
    \/ Next1

Spec == Init /\ [][Next]_vars

---------------------------------------------------------------------------
(* Properties *)

\* Room for everything: the reinsertion of a resize and the key that caused it
\* never meet a full hash part, so that rehash is neither nested nor repeated.
RehashFits == ~tab.full

\* len returns a border: it is 0 or a key, and the next integer is not a key.
LenIsBorder ==
    /\ len(tab) = 0 \/ get_int(tab, len(tab)) # Nil
    /\ get_int(tab, len(tab) + 1) = Nil

\* A traversal whose body stores only to present keys can go on, returns no key
\* twice and none is left out, also when the array part grows while it is there.
\* There is no claim once the array part grew while the traversal was in the hash
\* part: next may raise then, repeat keys and leave out others.
EachOnce ==
    trav.on /\ ~trav.moved =>
        /\ key_index(tab, trav.key) # INVALID
        /\ next(tab, trav.key) \notin trav.seen
        /\ next(tab, trav.key) = Nil => trav.owed = {}

\* A metamethod that the cache says is missing is missing.
NommSound == \A s \in tab.nomm : get(tab, s) = Nil

\* The table is a map: the array part, the hash part, and the moves between nodes
\* and between the parts are invisible, and a key is never in two places.
IsMap == \A k \in Keys : get(tab, k) = map[k]

\* Seen through get alone, without the map kept beside it, the layout implements the
\* map: a step stores one key, drops what the collector frees, or changes nothing.
Layout == INSTANCE TableMap WITH map <- [k \in Keys |-> get(tab, k)]
ImplementsMap == Layout!Spec

===========================================================================
