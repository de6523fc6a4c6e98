--------------------------- MODULE LuaTableProofs ---------------------------
(***************************************************************************)
(* Proofs about LuaTable, for every hash function, set of keys and size.   *)
(*                                                                         *)
(* The invariant, TableInv, says of the layout (TabOK) that its sizes      *)
(* agree (Shape) and that every key of the hash part is on the chain that  *)
(* starts at its main position (Links).  Chains are spoken of with closed  *)
(* sets of nodes rather than paths, which would need induction.            *)
(*                                                                         *)
(* A store into a part with room keeps Links, with Brent's variation the   *)
(* hard case; a resize stores entry after entry into empty parts; that     *)
(* there is room is the counting that rehash does.  A traversal is a       *)
(* position: what it returned is below, what it owes is not.               *)
(***************************************************************************)
EXTENDS LuaTable, CountLemmas

---------------------------------------------------------------------------
(* Powers of two, as far as 32 bits go *)

\* The successor's power is twice as much.
LEMMA PowDouble == \A b \in 0 .. 31 : 2^(b + 1) = 2 * 2^b
<1> DEFINE D(b) == 2^(b + 1) = 2 * 2^b
<1> SUFFICES ASSUME NEW b \in 0 .. 31 PROVE D(b)
  OBVIOUS
<1>1. D(0) /\ D(1) /\ D(2) /\ D(3) /\ D(4) /\ D(5) /\ D(6) /\ D(7)
  OBVIOUS
<1>2. D(8) /\ D(9) /\ D(10) /\ D(11) /\ D(12) /\ D(13) /\ D(14) /\ D(15)
  OBVIOUS
<1>3. D(16) /\ D(17) /\ D(18) /\ D(19) /\ D(20) /\ D(21) /\ D(22) /\ D(23)
  OBVIOUS
<1>4. D(24) /\ D(25) /\ D(26) /\ D(27) /\ D(28) /\ D(29) /\ D(30) /\ D(31)
  OBVIOUS
<1> HIDE DEF D
<1> QED
  BY <1>1, <1>2, <1>3, <1>4

\* Powers are positive: the least exponent with another power would not be 0.
LEMMA PowPositive == \A b \in 0 .. 32 : 2^b \in Nat /\ 2^b > 0
<1> DEFINE Bad == {b \in 0 .. 32 : ~(2^b \in Nat /\ 2^b > 0)}
<1> SUFFICES ASSUME Bad # {} PROVE FALSE
  OBVIOUS
<1>1. PICK b \in Bad : \A c \in Bad : ~(c < b)
  BY LeastIndex, Bad \in SUBSET Nat
<1>2. CASE b = 0
  BY <1>2, 2^0 = 1
<1>3. CASE b # 0
  <2>1. b - 1 \in 0 .. 31 /\ b - 1 \notin Bad
    BY <1>1, <1>3
  <2>2. 2^(b - 1 + 1) = 2 * 2^(b - 1)
    BY <2>1, PowDouble
  <2>3. b - 1 + 1 = b
    OBVIOUS
  <2> QED
    BY <2>1, <2>2, <2>3
<1> QED
  BY <1>2, <1>3

\* A smaller exponent has a power of at most half.
LEMMA PowMonotone == \A b, c \in 0 .. 32 : b < c => 2 * 2^b <= 2^c
<1> SUFFICES ASSUME NEW b \in 0 .. 32, \E c \in 0 .. 32 : b < c /\ ~(2 * 2^b <= 2^c) PROVE FALSE
  OBVIOUS
<1> DEFINE Bad == {c \in 0 .. 32 : b < c /\ ~(2 * 2^b <= 2^c)}
<1>1. PICK c \in Bad : \A d \in Bad : ~(d < c)
  BY LeastIndex, Bad \in SUBSET Nat, Bad # {}
<1>2. PICK d \in 0 .. 31 : d + 1 = c
  <2>1. c - 1 \in 0 .. 31 /\ c - 1 + 1 = c
    BY <1>1
  <2> QED
    BY <2>1
<1>3. 2^c = 2 * 2^d
  BY <1>2, PowDouble
<1>4. 2^d \in Nat
  <2>1. d \in 0 .. 32
    BY <1>2
  <2> HIDE DEF Bad
  <2> QED
    BY <2>1, PowPositive
<1>5. b = d \/ (b < d /\ d \notin Bad)
  BY <1>1, <1>2
<1> QED
  BY <1>2, <1>3, <1>4, <1>5

\* All but the first are even, 2 at least.
LEMMA PowEven == \A c \in 1 .. 32 : 2^c >= 2
<1> SUFFICES ASSUME NEW c \in 1 .. 32 PROVE 2^c >= 2
  OBVIOUS
<1>1. PICK d \in 0 .. 31 : d + 1 = c
  <2>1. c - 1 \in 0 .. 31 /\ c - 1 + 1 = c
    OBVIOUS
  <2> QED
    BY <2>1
<1>2. 2^c = 2 * 2^d
  BY <1>1, PowDouble
<1>3. 2^d \in Nat /\ 2^d > 0
  BY PowPositive, d \in 0 .. 32
<1> QED
  BY <1>2, <1>3

\* fls finds the highest bit.
LEMMA FlsFound ==
    ASSUME NEW x \in Nat, 0 < x, x < 2^32
    PROVE  Fls(x) \in 0 .. 31 /\ 2^Fls(x) <= x /\ x < 2^(Fls(x) + 1)
<1> DEFINE Low == {b \in 0 .. 31 : 2^b <= x}
<1>1. 0 \in Low
  BY 2^0 = 1
<1>2. PICK b \in Low : \A c \in Low : c <= b
  BY <1>1, GreatestIndex, 31 \in Nat, Low \in SUBSET (0 .. 31)
<1>3. x < 2^(b + 1)
  <2>1. CASE b = 31
    BY <2>1
  <2>2. CASE b < 31
    <3>1. b + 1 \in 0 .. 31 /\ b + 1 \notin Low
      BY <1>2, <2>2
    <3> QED
      BY <3>1, PowPositive
  <2> QED
    BY <2>1, <2>2
<1>4. \E c \in 0 .. 31 : 2^c <= x /\ x < 2^(c + 1)
  BY <1>2, <1>3
<1> QED
  BY <1>4 DEF Fls

---------------------------------------------------------------------------
(* Chains.  That a node is on the chain of another is said with closed sets of *)
(* nodes and that chains end with the sets that a chain must leave: neither    *)
(* needs an induction along the chain.                                         *)

Closed(t, C) == \A x \in C : t.node[x].next # NIL_NODE => t.node[x].next \in C

\* n is m or comes after it.
OnChain(t, m, n) == \A C \in SUBSET DOMAIN t.node : m \in C /\ Closed(t, C) => n \in C

\* Every set of nodes has one whose successor is not in it.
Acyclic(t) ==
    \A S \in SUBSET DOMAIN t.node : S # {} => \E x \in S : t.node[x].next \notin S

\* Links lead to nodes.
LinksInside(t) ==
    /\ DOMAIN t.node \subseteq Nat
    /\ \A x \in DOMAIN t.node : t.node[x].next \in DOMAIN t.node \cup {NIL_NODE}

\* No two nodes are linked to the same.
Injective(t) ==
    \A x, y \in DOMAIN t.node :
        t.node[x].next = t.node[y].next /\ t.node[x].next # NIL_NODE => x = y

\* f does what the walk to N does.
IsWalk(t, N, f) ==
    f = [m \in (DOMAIN t.node) \cup {NIL_NODE} |->
            IF m \in N \cup {NIL_NODE} THEN m ELSE f[t.node[m].next]]

\* Where chains end there is one such function at most, so the walk is it.
LEMMA WalkIs ==
    ASSUME NEW t, LinksInside(t), Acyclic(t), NEW N, NEW g, IsWalk(t, N, g),
           NEW m \in (DOMAIN t.node) \cup {NIL_NODE}
    PROVE  Walk(t, m, N) = g[m]
<1> DEFINE w == CHOOSE f : IsWalk(t, N, f)
<1>1. IsWalk(t, N, w)
  OBVIOUS
<1>2. Walk(t, m, N) = w[m]
  BY DEF Walk, IsWalk
<1> HIDE DEF w
<1> DEFINE S == {x \in DOMAIN t.node : w[x] # g[x]}
<1>3. \A x \in (DOMAIN t.node) \cup {NIL_NODE} :
         w[x] = IF x \in N \cup {NIL_NODE} THEN x ELSE w[t.node[x].next]
  BY <1>1 DEF IsWalk
<1>4. \A x \in (DOMAIN t.node) \cup {NIL_NODE} :
         g[x] = IF x \in N \cup {NIL_NODE} THEN x ELSE g[t.node[x].next]
  BY DEF IsWalk
<1>5. S = {}
  <2> SUFFICES ASSUME S # {} PROVE FALSE
    OBVIOUS
  <2>1. PICK x \in S : t.node[x].next \notin S
    BY DEF Acyclic
  <2>2. t.node[x].next \in DOMAIN t.node \cup {NIL_NODE}
    BY DEF LinksInside
  <2>3. w[t.node[x].next] = g[t.node[x].next]
    BY <2>1, <2>2, <1>3, <1>4
  <2> QED
    BY <2>3, <1>3, <1>4
<1>6. w[NIL_NODE] = g[NIL_NODE]
  BY <1>3, <1>4
<1> QED
  BY <1>2, <1>5, <1>6

\* The successor of a node is on its chain, and what comes after another node
\* than itself comes after its successor.
LEMMA ChainStep ==
    ASSUME NEW t, LinksInside(t), NEW m \in DOMAIN t.node, NEW n \in DOMAIN t.node, m # n
    PROVE  OnChain(t, m, n) <=>
               t.node[m].next # NIL_NODE /\ OnChain(t, t.node[m].next, n)
<1>1. ASSUME t.node[m].next # NIL_NODE, OnChain(t, t.node[m].next, n)
      PROVE  OnChain(t, m, n)
  BY <1>1 DEF OnChain, Closed
<1>2. ASSUME OnChain(t, m, n)
      PROVE  t.node[m].next # NIL_NODE
  <2> SUFFICES ASSUME t.node[m].next = NIL_NODE PROVE FALSE
    OBVIOUS
  <2>1. {m} \in SUBSET DOMAIN t.node /\ m \in {m} /\ Closed(t, {m})
    BY DEF Closed
  <2> QED
    BY <1>2, <2>1 DEF OnChain
<1>3. ASSUME OnChain(t, m, n)
      PROVE  OnChain(t, t.node[m].next, n)
  <2> SUFFICES ASSUME NEW C \in SUBSET DOMAIN t.node, t.node[m].next \in C, Closed(t, C)
               PROVE  n \in C
    BY DEF OnChain
  <2>1. C \cup {m} \in SUBSET DOMAIN t.node /\ Closed(t, C \cup {m})
    BY DEF Closed
  <2>2. n \in C \cup {m}
    BY <1>3, <2>1 DEF OnChain
  <2> QED
    BY <2>2
<1> QED
  BY <1>1, <1>2, <1>3

\* A walk to one node finds it if it is on the chain, and otherwise nothing.
LEMMA WalkToOne ==
    ASSUME NEW t, LinksInside(t), Acyclic(t), NEW n \in DOMAIN t.node,
           NEW m \in DOMAIN t.node
    PROVE  Walk(t, m, {n}) = IF OnChain(t, m, n) THEN n ELSE NIL_NODE
<1> DEFINE g == [x \in (DOMAIN t.node) \cup {NIL_NODE} |->
                    IF x \in DOMAIN t.node /\ OnChain(t, x, n) THEN n ELSE NIL_NODE]
<1> DEFINE e == [x \in (DOMAIN t.node) \cup {NIL_NODE} |->
                    IF x \in {n} \cup {NIL_NODE} THEN x ELSE g[t.node[x].next]]
<1>1. \A x \in (DOMAIN t.node) \cup {NIL_NODE} : g[x] = e[x]
  <2> SUFFICES ASSUME NEW x \in (DOMAIN t.node) \cup {NIL_NODE} PROVE g[x] = e[x]
    OBVIOUS
  <2>0. NIL_NODE \notin DOMAIN t.node
    BY DEF LinksInside, NIL_NODE
  <2>1. CASE x = NIL_NODE
    BY <2>0, <2>1
  <2>2. CASE x = n
    <3>1. OnChain(t, n, n)
      BY DEF OnChain
    <3> QED
      BY <2>2, <3>1
  <2>3. CASE x # NIL_NODE /\ x # n
    <3>1. t.node[x].next \in (DOMAIN t.node) \cup {NIL_NODE}
      BY <2>3 DEF LinksInside
    <3>2. OnChain(t, x, n) <=> t.node[x].next # NIL_NODE /\ OnChain(t, t.node[x].next, n)
      BY <2>3, ChainStep
    <3>3. e[x] = g[t.node[x].next]
      BY <2>3
    <3>4. g[t.node[x].next] =
             IF t.node[x].next \in DOMAIN t.node /\ OnChain(t, t.node[x].next, n)
             THEN n ELSE NIL_NODE
      BY <3>1
    <3>5. g[x] = IF OnChain(t, x, n) THEN n ELSE NIL_NODE
      BY <2>3
    <3> HIDE DEF g, e
    <3> QED
      BY <2>0, <3>1, <3>2, <3>3, <3>4, <3>5
  <2> QED
    BY <2>1, <2>2, <2>3
<1>2. g = e
  BY <1>1
<1>3. IsWalk(t, {n}, g)
  BY <1>2 DEF IsWalk
<1>4. Walk(t, m, {n}) = g[m]
  BY <1>3, WalkIs
<1> QED
  BY <1>4

\* A walk to no node finds nothing.
LEMMA WalkToNone ==
    ASSUME NEW t, LinksInside(t), Acyclic(t), NEW m \in DOMAIN t.node
    PROVE  Walk(t, m, {}) = NIL_NODE
<1> DEFINE g == [x \in (DOMAIN t.node) \cup {NIL_NODE} |-> NIL_NODE]
<1>1. IsWalk(t, {}, g)
  BY DEF IsWalk, LinksInside
<1>2. Walk(t, m, {}) = g[m]
  BY <1>1, WalkIs
<1> QED
  BY <1>2

---------------------------------------------------------------------------
(* The hash part *)

Main(t, x) == hash_slot(t, t.node[x].key)

KeysUnique(t) ==
    \A x, y \in DOMAIN t.node :
        t.node[x].key = t.node[y].key /\ t.node[x].key # Nil => x = y

\* Only nodes that have or had a key are linked, in either direction.
TargetsKeyed(t) ==
    \A x \in DOMAIN t.node :
        t.node[x].next # NIL_NODE =>
            t.node[x].key # Nil /\ t.node[t.node[x].next].key # Nil

\* The main position of a key holds a key that has it as its main position,
\* and from there the key is reached.
MainsTaken(t) ==
    \A x \in DOMAIN t.node : t.node[x].key # Nil =>
        /\ Main(t, x) \in DOMAIN t.node
        /\ t.node[Main(t, x)].key # Nil
        /\ Main(t, Main(t, x)) = Main(t, x)

Reached(t) ==
    \A x \in DOMAIN t.node : t.node[x].key # Nil => OnChain(t, Main(t, x), x)

\* No node from freetop on is free.
FreeBelow(t) == \A x \in DOMAIN t.node : x >= t.freetop => t.node[x].key # Nil

Links(t) ==
    /\ LinksInside(t)
    /\ Injective(t)
    /\ Acyclic(t)
    /\ KeysUnique(t)
    /\ TargetsKeyed(t)
    /\ MainsTaken(t)
    /\ Reached(t)
    /\ FreeBelow(t)

\* Links reads the hash part but not its values.
LEMMA LinksSame ==
    ASSUME NEW t, NEW u, Links(t), u.hmask = t.hmask, u.freetop = t.freetop,
           DOMAIN u.node = DOMAIN t.node,
           \A x \in DOMAIN t.node :
               u.node[x].key = t.node[x].key /\ u.node[x].next = t.node[x].next
    PROVE  Links(u)
<1>1. \A x \in DOMAIN t.node : Main(u, x) = Main(t, x)
  BY DEF Main, hash_slot
<1>2. \A m, n : OnChain(u, m, n) <=> OnChain(t, m, n)
  BY DEF OnChain, Closed
<1>3. LinksInside(u) /\ Injective(u) /\ Acyclic(u)
  BY DEF Links, LinksInside, Injective, Acyclic
<1>4. KeysUnique(u) /\ TargetsKeyed(u) /\ FreeBelow(u)
  BY DEF Links, KeysUnique, TargetsKeyed, LinksInside, FreeBelow
<1>5. MainsTaken(u) /\ Reached(u)
  BY <1>1, <1>2 DEF Links, MainsTaken, Reached
<1> QED
  BY <1>3, <1>4, <1>5 DEF Links

\* A key put into its free main position.
LEMMA MainFreeLinks ==
    ASSUME NEW t, NEW u, Links(t), NEW k, k # Nil,
           \A x \in DOMAIN t.node : t.node[x].key # k,
           NEW n \in DOMAIN t.node, n = hash_slot(t, k),
           u.hmask = t.hmask, u.freetop = t.freetop, DOMAIN u.node = DOMAIN t.node,
           \A x \in DOMAIN t.node :
               /\ u.node[x].key = IF x = n THEN k ELSE t.node[x].key
               /\ u.node[x].next = t.node[x].next
    PROVE  Links(u)
<1>1. \A x \in DOMAIN t.node : Main(u, x) = IF x = n THEN n ELSE Main(t, x)
  BY DEF Main, hash_slot
<1>2. \A m, x : OnChain(u, m, x) <=> OnChain(t, m, x)
  BY DEF OnChain, Closed
<1>3. LinksInside(u) /\ Injective(u) /\ Acyclic(u)
  BY DEF Links, LinksInside, Injective, Acyclic
<1>4. KeysUnique(u) /\ TargetsKeyed(u) /\ FreeBelow(u)
  BY DEF Links, KeysUnique, TargetsKeyed, LinksInside, FreeBelow
<1>5. MainsTaken(u)
  BY <1>1 DEF Links, MainsTaken
<1>6. OnChain(u, n, n)
  BY DEF OnChain
<1>7. Reached(u)
  BY <1>1, <1>2, <1>6 DEF Links, Reached
<1> QED
  BY <1>3, <1>4, <1>5, <1>7 DEF Links

\* A key chained in behind its main position n.
LEMMA ChainInLinks ==
    ASSUME NEW t, NEW u, Links(t), NEW k, k # Nil,
           \A x \in DOMAIN t.node : t.node[x].key # k,
           NEW n \in DOMAIN t.node, n = hash_slot(t, k),
           t.node[n].key # Nil, Main(t, n) = n,
           NEW free \in DOMAIN t.node, t.node[free].key = Nil,
           \A x \in DOMAIN t.node : x > free => t.node[x].key # Nil,
           u.hmask = t.hmask, u.freetop = free, DOMAIN u.node = DOMAIN t.node,
           \A x \in DOMAIN t.node :
               /\ u.node[x].key = IF x = free THEN k ELSE t.node[x].key
               /\ u.node[x].next = IF x = free THEN t.node[n].next
                                   ELSE IF x = n THEN free ELSE t.node[x].next
    PROVE  Links(u)
<1>0. free # n /\ NIL_NODE \notin DOMAIN t.node
  BY DEF Links, LinksInside, NIL_NODE
<1>1. \A x \in DOMAIN t.node : Main(u, x) = IF x = free THEN n ELSE Main(t, x)
  BY DEF Main, hash_slot
<1>2. \A x \in DOMAIN t.node : t.node[x].next # free
  BY <1>0 DEF Links, TargetsKeyed
<1>3. LinksInside(u) /\ KeysUnique(u) /\ FreeBelow(u)
  BY DEF Links, LinksInside, KeysUnique, FreeBelow
<1>4. Injective(u)
  BY <1>0, <1>2 DEF Links, Injective
<1>5. TargetsKeyed(u)
  BY <1>0, <1>2 DEF Links, LinksInside, TargetsKeyed
<1>6. MainsTaken(u)
  BY <1>0, <1>1 DEF Links, MainsTaken
<1>7. Acyclic(u)
  <2> SUFFICES ASSUME NEW S \in SUBSET DOMAIN t.node, S # {}
               PROVE  \E x \in S : u.node[x].next \notin S
    BY DEF Acyclic
  <2> DEFINE R == S \ {free}
  <2>0. t.node[n].next # free
    BY <1>2
  <2>1. CASE R = {}
    BY <2>1, <2>0
  <2>2. CASE R # {}
    <3>1. PICK x \in R : t.node[x].next \notin R
      BY <2>2 DEF Links, Acyclic
    <3>2. t.node[x].next \notin S
      BY <3>1, <1>2
    <3> QED
      BY <3>1, <3>2
  <2> QED
    BY <2>1, <2>2
<1>8. \A m, x : m \in DOMAIN t.node /\ m # free /\ OnChain(t, m, x) => OnChain(u, m, x) \/ x = free
  <2> SUFFICES ASSUME NEW m \in DOMAIN t.node, m # free, NEW x, OnChain(t, m, x), x # free,
                      NEW C \in SUBSET DOMAIN t.node, m \in C, Closed(u, C)
               PROVE  x \in C
    BY DEF OnChain
  <2> DEFINE R == C \ {free}
  <2>1. Closed(t, R)
    <3> SUFFICES ASSUME NEW y \in R, t.node[y].next # NIL_NODE PROVE t.node[y].next \in R
      BY DEF Closed
    <3>1. CASE y # n
      BY <3>1, <1>2 DEF Closed
    <3>2. CASE y = n
      <4>1. free \in C
        BY <3>2, <1>0 DEF Closed
      <4> QED
        BY <3>2, <4>1, <1>2 DEF Closed
    <3> QED
      BY <3>1, <3>2
  <2>2. m \in R /\ R \in SUBSET DOMAIN t.node
    OBVIOUS
  <2> QED
    BY <2>1, <2>2 DEF OnChain
<1>9. OnChain(u, n, free)
  BY <1>0 DEF OnChain, Closed
<1>10. Reached(u)
  BY <1>0, <1>1, <1>8, <1>9 DEF Links, Reached, MainsTaken
<1> QED
  BY <1>3, <1>4, <1>5, <1>6, <1>7, <1>10 DEF Links

\* The node that links to n, which the walk from the main position of n's key finds.
LEMMA PredFound ==
    ASSUME NEW t, Links(t), NEW n \in DOMAIN t.node, t.node[n].key # Nil, Main(t, n) # n
    PROVE  \E p \in DOMAIN t.node :
              /\ p = Pred(t, Main(t, n), n)
              /\ t.node[p].next = n
<1> DEFINE m == Main(t, n)
<1>1. m \in DOMAIN t.node /\ OnChain(t, m, n) /\ NIL_NODE \notin DOMAIN t.node
  BY DEF Links, MainsTaken, Reached, LinksInside, NIL_NODE
<1> HIDE DEF m
<1>2. PICK p \in DOMAIN t.node : t.node[p].next = n
  <2> SUFFICES ASSUME \A p \in DOMAIN t.node : t.node[p].next # n PROVE FALSE
    OBVIOUS
  <2> DEFINE C == DOMAIN t.node \ {n}
  <2>1. C \in SUBSET DOMAIN t.node /\ Closed(t, C)
    BY DEF Closed, Links, LinksInside
  <2>2. m \in C /\ n \notin C
    BY <1>1 DEF m
  <2> QED
    BY <1>1, <2>1, <2>2 DEF OnChain
<1>3. Before(t, n) = {p}
  BY <1>1, <1>2 DEF Before, Links, Injective
<1>4. OnChain(t, m, p)
  <2> SUFFICES ASSUME NEW C \in SUBSET DOMAIN t.node, m \in C, Closed(t, C), p \notin C
               PROVE  FALSE
    BY DEF OnChain
  <2> DEFINE R == C \ {n}
  <2>1. \A x \in C : t.node[x].next # n
    BY <1>1, <1>2 DEF Links, Injective
  <2>2. Closed(t, R) /\ R \in SUBSET DOMAIN t.node
    BY <2>1 DEF Closed
  <2>3. m \in R
    BY DEF m
  <2> QED
    BY <1>1, <2>2, <2>3 DEF OnChain
<1>5. Walk(t, m, {p}) = p
  BY <1>1, <1>2, <1>4, WalkToOne DEF Links
<1>6. Pred(t, m, n) = p
  BY <1>3, <1>5 DEF Pred
<1> QED
  BY <1>2, <1>6 DEF m

\* The key in n gives way to one that has n as its main position, and moves to
\* the free node with its place in its chain.
LEMMA MoveAwayLinks ==
    ASSUME NEW t, NEW u, Links(t), NEW k, k # Nil,
           \A x \in DOMAIN t.node : t.node[x].key # k,
           NEW n \in DOMAIN t.node, n = hash_slot(t, k),
           t.node[n].key # Nil, Main(t, n) # n,
           NEW p \in DOMAIN t.node, t.node[p].next = n,
           NEW free \in DOMAIN t.node, t.node[free].key = Nil,
           \A x \in DOMAIN t.node : x > free => t.node[x].key # Nil,
           u.hmask = t.hmask, u.freetop = free, DOMAIN u.node = DOMAIN t.node,
           \A x \in DOMAIN t.node :
               /\ u.node[x].key = IF x = n THEN k ELSE IF x = free THEN t.node[n].key
                                  ELSE t.node[x].key
               /\ u.node[x].next = IF x = n THEN NIL_NODE
                                   ELSE IF x = free THEN t.node[n].next
                                   ELSE IF x = p THEN free ELSE t.node[x].next
    PROVE  Links(u)
<1>0. free # n /\ p # n /\ p # free /\ NIL_NODE \notin DOMAIN t.node
  <2>1. free # n /\ p # free /\ NIL_NODE \notin DOMAIN t.node
    BY DEF Links, LinksInside, TargetsKeyed, NIL_NODE
  <2>2. p # n
    <3> DEFINE S == {n}
    <3>1. S \in SUBSET DOMAIN t.node /\ S # {}
      OBVIOUS
    <3> HIDE DEF S
    <3>2. \E x \in S : t.node[x].next \notin S
      BY <3>1 DEF Links, Acyclic
    <3> QED
      BY <3>2 DEF S
  <2> QED
    BY <2>1, <2>2
<1>1. \A x \in DOMAIN t.node :
         Main(u, x) = IF x = n THEN n ELSE IF x = free THEN Main(t, n) ELSE Main(t, x)
  BY <1>0 DEF Main, hash_slot
<1>2. \A x \in DOMAIN t.node : t.node[x].next # free
  BY <1>0 DEF Links, TargetsKeyed
<1>3. \A x \in DOMAIN t.node : t.node[x].next = n => x = p
  BY <1>0 DEF Links, Injective
<1>4. \* no key has n as its main position
      \A x \in DOMAIN t.node : t.node[x].key # Nil => Main(t, x) # n
  BY DEF Links, MainsTaken
<1>5. LinksInside(u) /\ FreeBelow(u)
  BY <1>0 DEF Links, LinksInside, FreeBelow
<1>6. KeysUnique(u)
  BY <1>0 DEF Links, KeysUnique
<1>7. Injective(u)
  BY <1>0, <1>2, <1>3 DEF Links, Injective
<1>8. TargetsKeyed(u)
  <2> SUFFICES ASSUME NEW x \in DOMAIN t.node, u.node[x].next # NIL_NODE
               PROVE  u.node[x].key # Nil /\ u.node[u.node[x].next].key # Nil
    BY DEF TargetsKeyed
  <2>1. CASE x = free
    <3>1. t.node[n].next # NIL_NODE /\ t.node[n].next \in DOMAIN t.node
      BY <1>0, <2>1 DEF Links, LinksInside
    <3> QED
      BY <1>0, <2>1, <3>1 DEF Links, TargetsKeyed
  <2>2. CASE x = p
    BY <1>0, <2>2 DEF Links, TargetsKeyed
  <2>3. CASE x # free /\ x # p /\ x # n
    <3>1. t.node[x].next # NIL_NODE /\ t.node[x].next \in DOMAIN t.node
      BY <1>0, <2>3 DEF Links, LinksInside
    <3> QED
      BY <1>0, <2>3, <3>1 DEF Links, TargetsKeyed
  <2>4. x # n
    OBVIOUS
  <2> QED
    BY <2>1, <2>2, <2>3, <2>4
<1>9. MainsTaken(u)
  <2> SUFFICES ASSUME NEW x \in DOMAIN t.node, u.node[x].key # Nil
               PROVE  /\ Main(u, x) \in DOMAIN t.node
                      /\ u.node[Main(u, x)].key # Nil
                      /\ Main(u, Main(u, x)) = Main(u, x)
    BY DEF MainsTaken
  <2>1. CASE x = n
    BY <2>1, <1>1
  <2>2. ASSUME NEW y \in DOMAIN t.node, t.node[y].key # Nil
        PROVE  /\ Main(t, y) \in DOMAIN t.node
               /\ u.node[Main(t, y)].key # Nil
               /\ Main(u, Main(t, y)) = Main(t, y)
    <3>1. /\ Main(t, y) \in DOMAIN t.node
          /\ t.node[Main(t, y)].key # Nil
          /\ Main(t, Main(t, y)) = Main(t, y)
      BY <2>2 DEF Links, MainsTaken
    <3>2. Main(t, y) # n /\ Main(t, y) # free
      BY <2>2, <3>1, <1>4
    <3> QED
      BY <3>1, <3>2, <1>1
  <2>3. CASE x # n
    <3>1. CASE x = free
      BY <3>1, <2>2, <1>0, <1>1
    <3>2. CASE x # free
      BY <2>3, <3>2, <2>2, <1>1
    <3> QED
      BY <3>1, <3>2
  <2> QED
    BY <2>1, <2>3
<1>10. Acyclic(u)
  <2> SUFFICES ASSUME NEW S \in SUBSET DOMAIN t.node, S # {}
               PROVE  \E x \in S : u.node[x].next \notin S
    BY DEF Acyclic
  <2>1. CASE n \in S
    BY <2>1, <1>0
  <2>2. CASE n \notin S
    <3> DEFINE R == (S \ {free}) \cup (IF free \in S THEN {n} ELSE {})
    <3>1. R \in SUBSET DOMAIN t.node /\ R # {}
      OBVIOUS
    <3>2. PICK x \in R : t.node[x].next \notin R
      BY <3>1 DEF Links, Acyclic
    <3>3. t.node[x].next # free
      BY <1>2, <3>1
    <3>4. CASE x = n
      <4>1. free \in S /\ u.node[free].next = t.node[n].next
        BY <3>4, <2>2, <1>0
      <4>2. t.node[n].next \notin S
        BY <3>2, <3>3, <3>4
      <4> QED
        BY <4>1, <4>2
    <3>5. CASE x # n
      <4>1. x \in S /\ x # free
        BY <3>5
      <4>2. CASE x = p
        <5>1. free \notin S
          BY <3>2, <4>2
        <5> QED
          BY <4>1, <4>2, <5>1, <1>0
      <4>3. CASE x # p
        <5>1. t.node[x].next \notin S
          BY <3>2, <3>3
        <5> QED
          BY <4>1, <4>3, <5>1, <3>5
      <4> QED
        BY <4>2, <4>3
    <3> QED
      BY <3>4, <3>5
  <2> QED
    BY <2>1, <2>2
<1>11. ASSUME NEW m \in DOMAIN t.node, m # n, m # free, NEW x \in DOMAIN t.node, OnChain(t, m, x),
              x # free
       PROVE  OnChain(u, m, IF x = n THEN free ELSE x)
  <2> SUFFICES ASSUME NEW C \in SUBSET DOMAIN t.node, m \in C, Closed(u, C)
               PROVE  (IF x = n THEN free ELSE x) \in C
    BY DEF OnChain
  <2> DEFINE R == (C \ {free, n}) \cup (IF free \in C THEN {n} ELSE {})
  <2>1. Closed(t, R)
    <3> SUFFICES ASSUME NEW y \in R, t.node[y].next # NIL_NODE PROVE t.node[y].next \in R
      BY DEF Closed
    <3>0. t.node[y].next # free
      BY <1>2
    <3>1. CASE y = n
      <4>1. free \in C /\ u.node[free].next = t.node[n].next
        BY <3>1, <1>0
      <4>2. t.node[n].next \in C
        BY <4>1, <3>1 DEF Closed
      <4> QED
        BY <4>2, <3>0, <3>1, <1>0, <1>3
    <3>2. CASE y = p
      BY <3>2, <1>0 DEF Closed
    <3>3. CASE y # n /\ y # p
      <4>1. t.node[y].next # n
        BY <3>3, <1>3
      <4>2. t.node[y].next \in C
        BY <3>3 DEF Closed
      <4> QED
        BY <3>0, <4>1, <4>2
    <3> QED
      BY <3>1, <3>2, <3>3
  <2>2. m \in R /\ R \in SUBSET DOMAIN t.node
    BY <1>11
  <2>3. x \in R
    BY <1>11, <2>1, <2>2 DEF OnChain
  <2> QED
    BY <2>3, <1>0, <1>11
<1>12. Reached(u)
  <2> SUFFICES ASSUME NEW x \in DOMAIN t.node, u.node[x].key # Nil
               PROVE  OnChain(u, Main(u, x), x)
    BY DEF Reached
  <2>1. CASE x = n
    <3>1. OnChain(u, n, n)
      BY DEF OnChain
    <3> QED
      BY <2>1, <3>1, <1>1
  <2>2. ASSUME NEW y \in DOMAIN t.node, t.node[y].key # Nil
        PROVE  OnChain(u, Main(t, y), IF y = n THEN free ELSE y)
    <3>1. Main(t, y) \in DOMAIN t.node /\ Main(t, y) # n /\ Main(t, y) # free
      BY <2>2, <1>4 DEF Links, MainsTaken
    <3>2. OnChain(t, Main(t, y), y) /\ y # free
      BY <2>2 DEF Links, Reached
    <3> QED
      BY <3>1, <3>2, <1>11
  <2>3. CASE x = free
    BY <2>3, <2>2, <1>0, <1>1
  <2>4. CASE x # n /\ x # free
    BY <2>4, <2>2, <1>1
  <2> QED
    BY <2>1, <2>3, <2>4
<1> QED
  BY <1>5, <1>6, <1>7, <1>8, <1>9, <1>10, <1>12 DEF Links

---------------------------------------------------------------------------
(* Tables *)

HashOK == hash \in [Keys -> Nat]

Node == [key : Keys \cup {Nil}, val : Vals \cup {Nil}, next : Int]

\* The sizes agree; a node without a key has no value, and no key of a node
\* belongs in the array part.
Shape(t) ==
    /\ DOMAIN t = {"array", "asize", "node", "hmask", "freetop", "nomm", "full"}
    /\ t.asize \in 0 .. LJ_MAX_ASIZE
    /\ t.array \in [0 .. t.asize - 1 -> Vals \cup {Nil}]
    /\ \A i \in 0 .. t.asize - 1 : t.array[i] # Nil => i \in Ints
    /\ \E h \in 0 .. LJ_MAX_HBITS : t.hmask = 2^h - 1
    /\ DOMAIN t.node = IF t.hmask = 0 THEN {} ELSE 0 .. t.hmask
    /\ \A x \in DOMAIN t.node :
          /\ t.node[x] \in Node
          /\ t.node[x].key = Nil => t.node[x].val = Nil
          /\ ~InArray(t, t.node[x].key)
    /\ t.freetop \in 0 .. Cardinality(DOMAIN t.node)
    /\ t.nomm \subseteq Strs
    /\ t.full = FALSE

TabOK(t) == Shape(t) /\ Links(t)

\* Some node holds the value v for k.
Holds(t, k, v) == \E x \in DOMAIN t.node : t.node[x].key = k /\ t.node[x].val = v

\* The hash part has one node for each hash.
LEMMA NodeCount ==
    ASSUME NEW t, Shape(t)
    PROVE  /\ t.hmask \in Nat
           /\ IsFiniteSet(DOMAIN t.node)
           /\ Cardinality(DOMAIN t.node) = IF t.hmask = 0 THEN 0 ELSE t.hmask + 1
           /\ DOMAIN t.node = 0 .. Cardinality(DOMAIN t.node) - 1
<1>1. t.hmask \in Nat
  <2>1. PICK h \in 0 .. LJ_MAX_HBITS : t.hmask = 2^h - 1
    BY DEF Shape
  <2>2. h \in 0 .. 32
    BY DEF LJ_MAX_HBITS
  <2>3. 2^h \in Nat /\ 2^h > 0
    BY <2>2, PowPositive
  <2> QED
    BY <2>1, <2>3
<1>2. CASE t.hmask = 0
  BY <1>2, FS_EmptySet DEF Shape
<1>3. CASE t.hmask # 0
  <2>1. DOMAIN t.node = 0 .. t.hmask
    BY <1>3 DEF Shape
  <2>2. IsFiniteSet(0 .. t.hmask) /\ Cardinality(0 .. t.hmask) = t.hmask + 1
    BY <1>1, FS_Interval
  <2> QED
    BY <1>1, <1>3, <2>1, <2>2
<1> QED
  BY <1>1, <1>2, <1>3

\* Array sizes are numbers.
LEMMA SizeNat ==
    /\ LJ_MAX_ASIZE \in Nat
    /\ \A t : Shape(t) => t.asize \in Nat /\ t.asize <= LJ_MAX_ASIZE
<1>1. LJ_MAX_ASIZE \in Nat
  BY SMT DEF LJ_MAX_ASIZE
<1> QED
  BY <1>1 DEF Shape

\* A main position is a node.
LEMMA SlotInside ==
    ASSUME NEW t, Shape(t), HashOK, NEW k \in Keys, has_hpart(t)
    PROVE  hash_slot(t, k) \in DOMAIN t.node
<1>1. t.hmask \in Nat /\ t.hmask # 0 /\ DOMAIN t.node = 0 .. t.hmask
  BY NodeCount DEF Shape, has_hpart
<1>2. hash[k] \in Nat
  BY DEF HashOK
<1>3. \A a, b \in Nat : b > 0 => a % b \in 0 .. b - 1
  OBVIOUS
<1>4. hash[k] % (t.hmask + 1) \in 0 .. t.hmask
  BY <1>1, <1>2, <1>3
<1> QED
  BY <1>1, <1>4 DEF hash_slot

\* A lookup finds the node of a key if there is one.
LEMMA FindNodeIs ==
    ASSUME NEW t, TabOK(t), HashOK, NEW k \in Keys
    PROVE  /\ \A n \in DOMAIN t.node : t.node[n].key = k => FindNode(t, k) = n
           /\ (\A n \in DOMAIN t.node : t.node[n].key # k) => FindNode(t, k) = NIL_NODE
<1>0. LinksInside(t) /\ Acyclic(t) /\ k # Nil
  BY TableAssumption DEF TabOK, Links, Keys
<1>1. ASSUME NEW n \in DOMAIN t.node, t.node[n].key = k
      PROVE  FindNode(t, k) = n
  <2>1. has_hpart(t)
    BY DEF has_hpart, TabOK, Shape
  <2>2. NodesOf(t, k) = {n}
    BY <1>0, <1>1 DEF NodesOf, TabOK, Links, KeysUnique
  <2>3. hash_slot(t, k) \in DOMAIN t.node /\ OnChain(t, hash_slot(t, k), n)
    BY <1>0, <1>1 DEF TabOK, Links, MainsTaken, Reached, Main
  <2>4. Walk(t, hash_slot(t, k), {n}) = n
    BY <1>0, <2>3, WalkToOne
  <2> QED
    BY <2>1, <2>2, <2>4 DEF FindNode
<1>2. ASSUME \A n \in DOMAIN t.node : t.node[n].key # k
      PROVE  FindNode(t, k) = NIL_NODE
  <2>1. CASE has_hpart(t)
    <3>1. NodesOf(t, k) = {}
      BY <1>2 DEF NodesOf
    <3>2. hash_slot(t, k) \in DOMAIN t.node
      BY <2>1, SlotInside DEF TabOK
    <3>3. Walk(t, hash_slot(t, k), {}) = NIL_NODE
      BY <1>0, <3>2, WalkToNone
    <3> QED
      BY <2>1, <3>1, <3>3 DEF FindNode
  <2>2. CASE ~has_hpart(t)
    BY <2>2 DEF FindNode
  <2> QED
    BY <2>1, <2>2
<1> QED
  BY <1>1, <1>2

\* So get reads the array or the one node of the key.
LEMMA GetIs ==
    ASSUME NEW t, TabOK(t), HashOK, NEW k \in Keys
    PROVE  /\ get(t, k) \in Vals \cup {Nil}
           /\ InArray(t, k) => get(t, k) = t.array[k]
           /\ ~InArray(t, k) => \A v \in Vals : get(t, k) = v <=> Holds(t, k, v)
<1>0. k # Nil /\ Nil \notin Vals /\ NIL_NODE \notin DOMAIN t.node
  BY TableAssumption DEF Keys, TabOK, Links, LinksInside, NIL_NODE
<1>1. CASE InArray(t, k)
  <2>1. k \in 0 .. t.asize - 1
    BY <1>1, TableAssumption DEF InArray, TabOK, Shape
  <2> QED
    BY <1>1, <2>1 DEF get, TabOK, Shape
<1>2. CASE ~InArray(t, k)
  <2>1. CASE \A n \in DOMAIN t.node : t.node[n].key # k
    <3>1. get(t, k) = Nil
      BY <1>2, <2>1, FindNodeIs DEF get
    <3>2. \A v : ~Holds(t, k, v)
      BY <2>1 DEF Holds
    <3> QED
      BY <1>0, <1>2, <3>1, <3>2
  <2>2. ASSUME NEW n \in DOMAIN t.node, t.node[n].key = k
        PROVE  get(t, k) \in Vals \cup {Nil} /\ \A v : get(t, k) = v <=> Holds(t, k, v)
    <3>1. get(t, k) = t.node[n].val
      BY <1>0, <1>2, <2>2, FindNodeIs DEF get
    <3>2. \A v : Holds(t, k, v) <=> t.node[n].val = v
      BY <1>0, <2>2 DEF Holds, TabOK, Links, KeysUnique
    <3> QED
      BY <3>1, <3>2 DEF TabOK, Shape, Node
  <2> QED
    BY <1>2, <2>1, <2>2
<1> QED
  BY <1>1, <1>2

\* Two tables whose nodes hold the same value for a key give the same.
LEMMA GetSame ==
    ASSUME NEW t, NEW u, TabOK(t), TabOK(u), HashOK, NEW k \in Keys,
           ~InArray(t, k), ~InArray(u, k),
           \A v \in Vals : Holds(u, k, v) <=> Holds(t, k, v)
    PROVE  get(u, k) = get(t, k)
<1>1. \A v \in Vals : get(u, k) = v <=> get(t, k) = v
  BY GetIs
<1>2. get(t, k) \in Vals \cup {Nil} /\ get(u, k) \in Vals \cup {Nil}
  BY GetIs
<1> QED
  BY <1>1, <1>2

---------------------------------------------------------------------------
(* New keys *)

\* What a new key changes: nothing but nodes, and no key loses its value.
Added(t, u, k) ==
    /\ TabOK(u)
    /\ u.asize = t.asize /\ u.array = t.array /\ u.hmask = t.hmask /\ u.nomm = t.nomm
    /\ DOMAIN u.node = DOMAIN t.node
    /\ \E n \in DOMAIN u.node : u.node[n].key = k /\ u.node[n].val = Nil
    /\ \A j \in Keys, v \in Vals : Holds(u, j, v) <=> Holds(t, j, v)
    /\ \A x \in DOMAIN u.node :
          u.node[x].key = k \/ \E y \in DOMAIN t.node : u.node[x].key = t.node[y].key

\* The free node that the scan from freetop finds.
LEMMA FreeFound ==
    ASSUME NEW t, Shape(t), FreeNodes(t) # {}
    PROVE  /\ Max(FreeNodes(t)) \in FreeNodes(t)
           /\ \A x \in FreeNodes(t) : x <= Max(FreeNodes(t))
<1>1. FreeNodes(t) \in SUBSET (0 .. t.freetop) /\ t.freetop \in Nat
  BY NodeCount, FS_CardinalityType DEF FreeNodes, Shape
<1>2. PICK f \in FreeNodes(t) : \A x \in FreeNodes(t) : x <= f
  BY <1>1, GreatestIndex
<1>3. \E y \in FreeNodes(t) : \A x \in FreeNodes(t) : y >= x
  BY <1>1, <1>2
<1>4. /\ Max(FreeNodes(t)) \in FreeNodes(t)
      /\ \A x \in FreeNodes(t) : Max(FreeNodes(t)) >= x
  BY <1>3 DEF Max
<1> QED
  BY <1>1, <1>4

\* Every free node is below freetop, and a node.
LEMMA FreeIs ==
    ASSUME NEW t, TabOK(t)
    PROVE  FreeNodes(t) = {x \in DOMAIN t.node : t.node[x].key = Nil}
<1>1. DOMAIN t.node \subseteq Nat /\ t.freetop \in Nat
  BY NodeCount, FS_CardinalityType DEF TabOK, Links, LinksInside, Shape
<1>2. \A x \in 0 .. t.freetop - 1 : x \in DOMAIN t.node
  <2> DEFINE c == Cardinality(DOMAIN t.node)
  <2>1. c \in Nat /\ t.freetop \in 0 .. c /\ DOMAIN t.node = 0 .. c - 1
    BY NodeCount, FS_CardinalityType DEF TabOK, Shape
  <2> HIDE DEF c
  <2> QED
    BY <2>1
<1> QED
  BY <1>1, <1>2 DEF FreeNodes, TabOK, Links, FreeBelow

LEMMA MainFreeAdded ==
    ASSUME NEW t, TabOK(t), HashOK, NEW k \in Keys, ~InArray(t, k), has_hpart(t),
           \A x \in DOMAIN t.node : t.node[x].key # k, MainFree(t, k)
    PROVE  Added(t, [t EXCEPT !.node[hash_slot(t, k)].key = k], k)
<1> DEFINE n == hash_slot(t, k)
<1> DEFINE u == [t EXCEPT !.node[n].key = k]
<1>0. k # Nil /\ Nil \notin Vals
  BY TableAssumption DEF Keys
<1>1. n \in DOMAIN t.node /\ t.node[n].val = Nil
  BY SlotInside DEF TabOK, MainFree
<1> HIDE DEF n
<1>2. /\ DOMAIN u = DOMAIN t /\ u.array = t.array /\ u.asize = t.asize /\ u.hmask = t.hmask
      /\ u.freetop = t.freetop /\ u.nomm = t.nomm /\ u.full = t.full
      /\ DOMAIN u.node = DOMAIN t.node
  BY DEF TabOK, Shape
<1>3. \A x \in DOMAIN t.node :
         u.node[x] = IF x = n THEN [t.node[n] EXCEPT !.key = k] ELSE t.node[x]
  BY <1>1 DEF TabOK, Shape
<1>4. \A x \in DOMAIN t.node : t.node[x] \in Node
  BY DEF TabOK, Shape
<1> HIDE DEF u
<1>5. \A x \in DOMAIN t.node :
         /\ u.node[x].key = IF x = n THEN k ELSE t.node[x].key
         /\ u.node[x].next = t.node[x].next
         /\ u.node[x].val = t.node[x].val
         /\ u.node[x] \in Node
  BY <1>1, <1>3, <1>4 DEF Node
<1>6. Links(u)
  BY <1>0, <1>1, <1>2, <1>5, MainFreeLinks DEF n, TabOK
<1>7. Shape(u)
  BY <1>0, <1>1, <1>2, <1>5 DEF TabOK, Shape, InArray
<1>8. \A j \in Keys, v \in Vals : Holds(u, j, v) <=> Holds(t, j, v)
  BY <1>0, <1>1, <1>2, <1>5 DEF Holds
<1>9. u.node[n].key = k /\ u.node[n].val = Nil
  BY <1>1, <1>5
<1> QED
  BY <1>1, <1>2, <1>5, <1>6, <1>7, <1>8, <1>9 DEF Added, TabOK, n, u

LEMMA ChainInAdded ==
    ASSUME NEW t, TabOK(t), HashOK, NEW k \in Keys, ~InArray(t, k), has_hpart(t),
           \A x \in DOMAIN t.node : t.node[x].key # k, ~MainFree(t, k),
           NEW n, n = hash_slot(t, k), hash_slot(t, t.node[n].key) = n,
           NEW free \in FreeNodes(t), \A x \in FreeNodes(t) : x <= free
    PROVE  Added(t, ChainIn(t, n, free, k), k)
<1> DEFINE e == [EMPTY EXCEPT !.key = k, !.next = t.node[n].next]
<1> DEFINE u == ChainIn(t, n, free, k)
<1>0. k # Nil /\ Nil \notin Vals
  BY TableAssumption DEF Keys
<1>1. n \in DOMAIN t.node /\ t.node[n].val # Nil /\ t.node[n].key # Nil
  BY SlotInside DEF TabOK, MainFree, Shape
<1>2. free \in DOMAIN t.node /\ t.node[free].key = Nil /\ free # n /\ t.node[free].val = Nil
  <2>1. free \in DOMAIN t.node /\ t.node[free].key = Nil
    BY FreeIs
  <2> QED
    BY <1>1, <2>1 DEF TabOK, Shape
<1>3. \A x \in DOMAIN t.node : x > free => t.node[x].key # Nil
  <2>1. DOMAIN t.node \subseteq Nat
    BY DEF TabOK, Links, LinksInside
  <2> QED
    BY <2>1, <1>2, FreeIs
<1>4. /\ DOMAIN u = DOMAIN t /\ u.array = t.array /\ u.asize = t.asize /\ u.hmask = t.hmask
      /\ u.freetop = free /\ u.nomm = t.nomm /\ u.full = t.full
      /\ DOMAIN u.node = DOMAIN t.node
  BY DEF ChainIn, TabOK, Shape
<1>5. \A x \in DOMAIN t.node :
         u.node[x] = IF x = n THEN [t.node[n] EXCEPT !.next = free]
                     ELSE IF x = free THEN e ELSE t.node[x]
  BY <1>1, <1>2 DEF ChainIn, TabOK, Shape
<1>6. \A x \in DOMAIN t.node : t.node[x] \in Node
  BY DEF TabOK, Shape
<1>7. e.key = k /\ e.val = Nil /\ e.next = t.node[n].next /\ e \in Node /\ free \in Int
  <2>1. t.node[n].next \in Int
    BY <1>1, <1>6 DEF Node
  <2>2. free \in Int
    BY <1>2 DEF TabOK, Links, LinksInside
  <2> QED
    BY <2>1, <2>2 DEF EMPTY, Node
<1> HIDE DEF u, e
<1>8. \A x \in DOMAIN t.node :
         /\ u.node[x].key = IF x = free THEN k ELSE t.node[x].key
         /\ u.node[x].next = IF x = free THEN t.node[n].next
                             ELSE IF x = n THEN free ELSE t.node[x].next
         /\ u.node[x].val = t.node[x].val
         /\ u.node[x] \in Node
  BY <1>1, <1>2, <1>5, <1>6, <1>7 DEF Node
<1>9. Links(u)
  BY <1>0, <1>1, <1>2, <1>3, <1>4, <1>8, ChainInLinks DEF TabOK, Main
<1>10. Shape(u)
  <2>1. u.freetop \in 0 .. Cardinality(DOMAIN u.node)
    <3> DEFINE c == Cardinality(DOMAIN t.node)
    <3>1. c \in Nat /\ DOMAIN t.node = 0 .. c - 1
      BY NodeCount, FS_CardinalityType DEF TabOK
    <3>2. c = Cardinality(DOMAIN u.node)
      BY <1>4
    <3> HIDE DEF c
    <3> QED
      BY <1>2, <1>4, <3>1, <3>2
  <2> QED
    BY <2>1, <1>0, <1>4, <1>8 DEF TabOK, Shape, InArray
<1>11. \A j \in Keys, v \in Vals : Holds(u, j, v) <=> Holds(t, j, v)
  BY <1>0, <1>2, <1>4, <1>8 DEF Holds
<1>12. u.node[free].key = k /\ u.node[free].val = Nil
  BY <1>2, <1>8
<1> QED
  BY <1>2, <1>4, <1>8, <1>9, <1>10, <1>11, <1>12 DEF Added, TabOK, u

LEMMA MoveAwayAdded ==
    ASSUME NEW t, TabOK(t), HashOK, NEW k \in Keys, ~InArray(t, k), has_hpart(t),
           \A x \in DOMAIN t.node : t.node[x].key # k, ~MainFree(t, k),
           NEW n, n = hash_slot(t, k), hash_slot(t, t.node[n].key) # n,
           NEW free \in FreeNodes(t), \A x \in FreeNodes(t) : x <= free
    PROVE  Added(t, MoveAway(t, n, free, k), k)
<1> DEFINE e == [EMPTY EXCEPT !.key = k]
<1> DEFINE u == MoveAway(t, n, free, k)
<1>0. k # Nil /\ Nil \notin Vals
  BY TableAssumption DEF Keys
<1>1. n \in DOMAIN t.node /\ t.node[n].val # Nil /\ t.node[n].key # Nil
  BY SlotInside DEF TabOK, MainFree, Shape
<1>2. free \in DOMAIN t.node /\ t.node[free].key = Nil /\ free # n /\ t.node[free].val = Nil
  <2>1. free \in DOMAIN t.node /\ t.node[free].key = Nil
    BY FreeIs
  <2> QED
    BY <1>1, <2>1 DEF TabOK, Shape
<1>3. \A x \in DOMAIN t.node : x > free => t.node[x].key # Nil
  <2>1. DOMAIN t.node \subseteq Nat
    BY DEF TabOK, Links, LinksInside
  <2> QED
    BY <2>1, <1>2, FreeIs
<1>4. PICK p \in DOMAIN t.node : p = Pred(t, hash_slot(t, t.node[n].key), n) /\ t.node[p].next = n
  BY <1>1, PredFound DEF Main, TabOK
<1>5. p # n /\ p # free
  <2>1. p # free
    BY <1>1, <1>2, <1>4 DEF TabOK, Links, TargetsKeyed, LinksInside, NIL_NODE
  <2>2. p # n
    <3> DEFINE S == {n}
    <3>1. S \in SUBSET DOMAIN t.node /\ S # {}
      BY <1>1
    <3> HIDE DEF S
    <3>2. \E x \in S : t.node[x].next \notin S
      BY <3>1 DEF TabOK, Links, Acyclic
    <3> QED
      BY <3>2, <1>4 DEF S
  <2> QED
    BY <2>1, <2>2
<1>6. u = [t EXCEPT !.freetop = free,
                    !.node = [@ EXCEPT ![p].next = free, ![free] = t.node[n], ![n] = e]]
  BY <1>4 DEF MoveAway
<1>7. /\ DOMAIN u = DOMAIN t /\ u.array = t.array /\ u.asize = t.asize /\ u.hmask = t.hmask
      /\ u.freetop = free /\ u.nomm = t.nomm /\ u.full = t.full
      /\ DOMAIN u.node = DOMAIN t.node
  BY <1>6 DEF TabOK, Shape
<1>8. \A x \in DOMAIN t.node :
         u.node[x] = IF x = n THEN e
                     ELSE IF x = free THEN t.node[n]
                     ELSE IF x = p THEN [t.node[p] EXCEPT !.next = free] ELSE t.node[x]
  BY <1>1, <1>2, <1>4, <1>5, <1>6 DEF TabOK, Shape
<1>9. \A x \in DOMAIN t.node : t.node[x] \in Node
  BY DEF TabOK, Shape
<1>10. e.key = k /\ e.val = Nil /\ e.next = NIL_NODE /\ e \in Node /\ free \in Int
  BY <1>1, <1>2 DEF EMPTY, Node, TabOK, Links, LinksInside, NIL_NODE
<1> HIDE DEF u, e
<1>11. \A x \in DOMAIN t.node :
          /\ u.node[x].key = IF x = n THEN k ELSE IF x = free THEN t.node[n].key
                             ELSE t.node[x].key
          /\ u.node[x].next = IF x = n THEN NIL_NODE
                              ELSE IF x = free THEN t.node[n].next
                              ELSE IF x = p THEN free ELSE t.node[x].next
          /\ u.node[x].val = IF x = n THEN Nil ELSE IF x = free THEN t.node[n].val
                             ELSE t.node[x].val
          /\ u.node[x] \in Node
  BY <1>1, <1>2, <1>4, <1>5, <1>8, <1>9, <1>10 DEF Node
<1>12. Links(u)
  BY <1>0, <1>1, <1>2, <1>3, <1>4, <1>7, <1>11, MoveAwayLinks DEF TabOK, Main
<1>13. Shape(u)
  <2>1. u.freetop \in 0 .. Cardinality(DOMAIN u.node)
    <3> DEFINE c == Cardinality(DOMAIN t.node)
    <3>1. c \in Nat /\ DOMAIN t.node = 0 .. c - 1
      BY NodeCount, FS_CardinalityType DEF TabOK
    <3>2. c = Cardinality(DOMAIN u.node)
      BY <1>7
    <3> HIDE DEF c
    <3> QED
      BY <1>2, <1>7, <3>1, <3>2
  <2>2. \A x \in DOMAIN u.node :
          /\ u.node[x] \in Node
          /\ u.node[x].key = Nil => u.node[x].val = Nil
          /\ ~InArray(u, u.node[x].key)
    BY <1>0, <1>1, <1>2, <1>7, <1>11 DEF TabOK, Shape, InArray
  <2> QED
    BY <2>1, <2>2, <1>7 DEF TabOK, Shape
<1>14. \A j \in Keys, v \in Vals : Holds(u, j, v) <=> Holds(t, j, v)
  <2> SUFFICES ASSUME NEW j \in Keys, NEW v \in Vals PROVE Holds(u, j, v) <=> Holds(t, j, v)
    OBVIOUS
  <2>1. ASSUME NEW x \in DOMAIN t.node, t.node[x].key = j, t.node[x].val = v
        PROVE  Holds(u, j, v)
    <3>1. CASE x = n
      BY <1>2, <1>7, <1>11, <2>1, <3>1 DEF Holds
    <3>2. CASE x # n
      BY <1>0, <1>2, <1>7, <1>11, <2>1, <3>2 DEF Holds
    <3> QED
      BY <3>1, <3>2
  <2>2. ASSUME NEW x \in DOMAIN t.node, u.node[x].key = j, u.node[x].val = v
        PROVE  Holds(t, j, v)
    BY <1>0, <1>1, <1>11, <2>2 DEF Holds
  <2> QED
    BY <2>1, <2>2, <1>7 DEF Holds
<1>15. u.node[n].key = k /\ u.node[n].val = Nil
  BY <1>1, <1>11
<1>16. \A x \in DOMAIN u.node :
          u.node[x].key = k \/ \E y \in DOMAIN t.node : u.node[x].key = t.node[y].key
  BY <1>1, <1>7, <1>11
<1> QED
  BY <1>1, <1>7, <1>12, <1>13, <1>14, <1>15, <1>16 DEF Added, TabOK, u

\* try_new_key adds a node for a key that has none, as long as there is room.
LEMMA NewKeyAdded ==
    ASSUME NEW t, TabOK(t), HashOK, NEW k \in Keys, ~InArray(t, k), HasRoom(t, k),
           \A x \in DOMAIN t.node : t.node[x].key # k
    PROVE  Added(t, try_new_key(t, k), k)
<1>1. has_hpart(t)
  BY DEF HasRoom
<1>2. CASE MainFree(t, k)
  BY <1>1, <1>2, MainFreeAdded DEF try_new_key
<1>3. CASE ~MainFree(t, k)
  <2>1. /\ Max(FreeNodes(t)) \in FreeNodes(t)
        /\ \A x \in FreeNodes(t) : x <= Max(FreeNodes(t))
    BY <1>3, FreeFound DEF HasRoom, TabOK
  <2>2. CASE hash_slot(t, t.node[hash_slot(t, k)].key) # hash_slot(t, k)
    BY <1>1, <1>3, <2>1, <2>2, MoveAwayAdded DEF try_new_key
  <2>3. CASE hash_slot(t, t.node[hash_slot(t, k)].key) = hash_slot(t, k)
    BY <1>1, <1>3, <2>1, <2>3, ChainInAdded DEF try_new_key
  <2> QED
    BY <2>2, <2>3
<1> QED
  BY <1>2, <1>3

---------------------------------------------------------------------------
(* Storing where there is room *)

HasKey(t, k) == \E x \in DOMAIN t.node : t.node[x].key = k

\* w is t with v for k, in parts of the same sizes.
Stored(t, w, k, v) ==
    /\ TabOK(w)
    /\ w.asize = t.asize /\ w.hmask = t.hmask /\ DOMAIN w.node = DOMAIN t.node
    /\ \A j \in Keys : get(w, j) = IF j = k THEN v ELSE get(t, j)
    /\ \A j : HasKey(w, j) => j = k \/ HasKey(t, j)
    /\ w.nomm \subseteq t.nomm
    /\ k \in Strs => w.nomm = {}

KeysStay(t, w) == \A x \in DOMAIN t.node : w.node[x].key = t.node[x].key

LEMMA PutInArray ==
    ASSUME NEW t, TabOK(t), HashOK, NEW k \in Keys, NEW v \in Vals \cup {Nil}, InArray(t, k)
    PROVE  Stored(t, Put(t, k, v), k, v) /\ KeysStay(t, Put(t, k, v))
<1> DEFINE w == Put(t, k, v)
<1>1. w = [t EXCEPT !.array[k] = v]
  BY DEF Put
<1>2. k \in 0 .. t.asize - 1 /\ k \notin Strs
  BY TableAssumption DEF InArray, TabOK, Shape
<1>3. /\ DOMAIN w = DOMAIN t /\ w.asize = t.asize /\ w.hmask = t.hmask /\ w.node = t.node
      /\ w.freetop = t.freetop /\ w.nomm = t.nomm /\ w.full = t.full
      /\ w.array = [t.array EXCEPT ![k] = v]
  BY <1>1 DEF TabOK, Shape
<1>4. w.array \in [0 .. t.asize - 1 -> Vals \cup {Nil}]
  BY <1>2, <1>3 DEF TabOK, Shape
<1>5. \A i \in 0 .. t.asize - 1 : w.array[i] = IF i = k THEN v ELSE t.array[i]
  BY <1>2, <1>3 DEF TabOK, Shape
<1> HIDE DEF w
<1>6. Links(w)
  BY <1>3, LinksSame DEF TabOK
<1>7. TabOK(w)
  BY <1>3, <1>4, <1>5, <1>6 DEF TabOK, Shape, InArray
<1>8. \A j \in Keys : get(w, j) = IF j = k THEN v ELSE get(t, j)
  <2> SUFFICES ASSUME NEW j \in Keys PROVE get(w, j) = IF j = k THEN v ELSE get(t, j)
    OBVIOUS
  <2>1. InArray(w, j) <=> InArray(t, j)
    BY <1>3 DEF InArray
  <2>2. CASE InArray(t, j)
    <3>1. j \in 0 .. t.asize - 1
      BY <2>2, TableAssumption DEF InArray, TabOK, Shape
    <3> QED
      BY <2>1, <2>2, <3>1, <1>5 DEF get
  <2>3. CASE ~InArray(t, j)
    <3>1. get(w, j) = get(t, j)
      BY <2>1, <2>3, <1>3, <1>7, GetSame DEF Holds
    <3>2. j # k
      BY <2>3
    <3> QED
      BY <3>1, <3>2
  <2> QED
    BY <2>2, <2>3
<1> QED
  BY <1>2, <1>3, <1>7, <1>8 DEF Stored, HasKey, w, KeysStay

SetNode(t, n, v, ns) == [t EXCEPT !.node[n].val = v, !.nomm = ns]

\* The value put in the node of a key.
LEMMA ValuePut ==
    ASSUME NEW t, TabOK(t), HashOK, NEW k \in Keys, NEW v \in Vals \cup {Nil},
           ~InArray(t, k), HasKey(t, k), NEW ns \in SUBSET Strs,
           NEW w, w = SetNode(t, FindNode(t, k), v, ns)
    PROVE  /\ TabOK(w)
           /\ w.asize = t.asize /\ w.hmask = t.hmask /\ DOMAIN w.node = DOMAIN t.node
           /\ w.nomm = ns
           /\ KeysStay(t, w)
           /\ \A j \in Keys : get(w, j) = IF j = k THEN v ELSE get(t, j)
<1>0. k # Nil /\ Nil \notin Vals
  BY TableAssumption DEF Keys
<1>1. PICK n \in DOMAIN t.node : t.node[n].key = k /\ FindNode(t, k) = n
  BY FindNodeIs DEF HasKey
<1>2. /\ DOMAIN w = DOMAIN t /\ w.asize = t.asize /\ w.hmask = t.hmask /\ w.array = t.array
      /\ w.freetop = t.freetop /\ w.nomm = ns /\ w.full = t.full
      /\ DOMAIN w.node = DOMAIN t.node
  BY DEF TabOK, Shape, SetNode
<1>3. \A x \in DOMAIN t.node :
         w.node[x] = IF x = n THEN [t.node[n] EXCEPT !.val = v] ELSE t.node[x]
  BY <1>1 DEF TabOK, Shape, SetNode
<1>4. \A x \in DOMAIN t.node : t.node[x] \in Node
  BY DEF TabOK, Shape
<1>5. \A x \in DOMAIN t.node :
         /\ w.node[x].key = t.node[x].key
         /\ w.node[x].next = t.node[x].next
         /\ w.node[x].val = IF x = n THEN v ELSE t.node[x].val
         /\ w.node[x] \in Node
  BY <1>1, <1>3, <1>4 DEF Node
<1>6. Links(w)
  <2>1. \A x \in DOMAIN t.node :
           w.node[x].key = t.node[x].key /\ w.node[x].next = t.node[x].next
    BY <1>5
  <2> QED
    BY <1>2, <2>1, LinksSame DEF TabOK
<1>7. TabOK(w)
  BY <1>0, <1>1, <1>2, <1>5, <1>6 DEF TabOK, Shape, InArray
<1>8. \A j \in Keys : get(w, j) = IF j = k THEN v ELSE get(t, j)
  <2> SUFFICES ASSUME NEW j \in Keys PROVE get(w, j) = IF j = k THEN v ELSE get(t, j)
    OBVIOUS
  <2>1. InArray(w, j) <=> InArray(t, j)
    BY <1>2 DEF InArray
  <2>2. CASE InArray(t, j)
    BY <2>1, <2>2, <1>2 DEF get
  <2>3. CASE ~InArray(t, j) /\ j # k
    <3>1. \A x : Holds(w, j, x) <=> Holds(t, j, x)
      BY <1>1, <1>2, <1>5, <2>3 DEF Holds
    <3> QED
      BY <2>1, <2>3, <3>1, <1>7, GetSame
  <2>4. CASE j = k
    <3>1. \A x : Holds(w, k, x) <=> x = v
      <4>1. \A x \in DOMAIN t.node : t.node[x].key = k => x = n
        BY <1>0, <1>1 DEF TabOK, Links, KeysUnique
      <4> QED
        BY <1>1, <1>2, <1>5, <4>1 DEF Holds
    <3>2. get(w, k) \in Vals \cup {Nil} /\ \A x \in Vals : get(w, k) = x <=> x = v
      BY <2>1, <2>4, <3>1, <1>7, GetIs
    <3>3. get(w, k) = v
      BY <3>2, <1>0
    <3> QED
      BY <3>3, <2>4
  <2> QED
    BY <2>2, <2>3, <2>4
<1> QED
  BY <1>2, <1>5, <1>7, <1>8 DEF KeysStay

\* A store to a key that has a node.
LEMMA PutInNode ==
    ASSUME NEW t, TabOK(t), HashOK, NEW k \in Keys, NEW v \in Vals \cup {Nil},
           ~InArray(t, k), HasKey(t, k)
    PROVE  Stored(t, Put(t, k, v), k, v) /\ KeysStay(t, Put(t, k, v))
<1>1. FindNode(t, k) # NIL_NODE
  BY FindNodeIs DEF HasKey, TabOK, Links, LinksInside, NIL_NODE
<1>2. Put(t, k, v) = SetNode(t, FindNode(t, k), v, Nomm(t, k))
  BY <1>1 DEF Put, SetNode
<1>3. Nomm(t, k) \subseteq t.nomm /\ (k \in Strs => Nomm(t, k) = {}) /\ Nomm(t, k) \in SUBSET Strs
  BY DEF Nomm, TabOK, Shape
<1> DEFINE w == Put(t, k, v)
<1>4. /\ TabOK(w)
      /\ w.asize = t.asize /\ w.hmask = t.hmask /\ DOMAIN w.node = DOMAIN t.node
      /\ w.nomm = Nomm(t, k)
      /\ KeysStay(t, w)
      /\ \A j \in Keys : get(w, j) = IF j = k THEN v ELSE get(t, j)
  BY <1>2, <1>3, ValuePut
<1> HIDE DEF w
<1> QED
  BY <1>3, <1>4 DEF w, Stored, KeysStay, HasKey

\* A store to a new key.
LEMMA PutNew ==
    ASSUME NEW t, TabOK(t), HashOK, NEW k \in Keys, NEW v \in Vals \cup {Nil},
           ~InArray(t, k), ~HasKey(t, k), HasRoom(t, k)
    PROVE  Stored(t, Put(t, k, v), k, v)
<1>1. FindNode(t, k) = NIL_NODE
  BY FindNodeIs DEF HasKey
<1> DEFINE u == try_new_key(t, k)
<1>2. Added(t, u, k)
  BY NewKeyAdded DEF HasKey
<1>3. Put(t, k, v) = SetNode(u, FindNode(u, k), v, Nomm(t, k))
  BY <1>1 DEF Put, SetNode
<1>4. Nomm(t, k) = {}
  BY <1>1 DEF Nomm
<1> HIDE DEF u
<1>5. TabOK(u) /\ ~InArray(u, k) /\ HasKey(u, k)
  BY <1>2 DEF Added, HasKey, InArray
<1> DEFINE w == Put(t, k, v)
<1>6. /\ TabOK(w)
      /\ w.asize = u.asize /\ w.hmask = u.hmask /\ DOMAIN w.node = DOMAIN u.node
      /\ w.nomm = {}
      /\ KeysStay(u, w)
      /\ \A j \in Keys : get(w, j) = IF j = k THEN v ELSE get(u, j)
  BY <1>3, <1>4, <1>5, ValuePut
<1> HIDE DEF w
<1>7. \A j \in Keys : get(u, j) = get(t, j)
  <2> SUFFICES ASSUME NEW j \in Keys PROVE get(u, j) = get(t, j)
    OBVIOUS
  <2>1. InArray(u, j) <=> InArray(t, j)
    BY <1>2 DEF Added, InArray
  <2>2. CASE InArray(t, j)
    BY <2>1, <2>2, <1>2 DEF get, Added
  <2>3. CASE ~InArray(t, j)
    BY <2>1, <2>3, <1>2, <1>5, GetSame DEF Added
  <2> QED
    BY <2>2, <2>3
<1>8. \A j : HasKey(w, j) => j = k \/ HasKey(t, j)
  BY <1>2, <1>6 DEF HasKey, KeysStay, Added
<1> QED
  BY <1>2, <1>6, <1>7, <1>8 DEF w, Stored, Added

\* Put stores, unless a new key finds no room.
LEMMA PutStores ==
    ASSUME NEW t, TabOK(t), HashOK, NEW k \in Keys, NEW v \in Vals \cup {Nil},
           InArray(t, k) \/ HasKey(t, k) \/ HasRoom(t, k)
    PROVE  Stored(t, Put(t, k, v), k, v)
BY PutInArray, PutInNode, PutNew

---------------------------------------------------------------------------
(* Positions: the slots of the array part, then the nodes *)

\* Each live key has one position, and the position has its value.
LEMMA Positions ==
    ASSUME NEW t, TabOK(t), HashOK
    PROVE  /\ End(t) \in Nat /\ t.asize \in Nat /\ t.asize <= End(t)
           /\ \A i \in 0 .. End(t) - 1 :
                 KeyAt(t, i) # Nil =>
                    /\ KeyAt(t, i) \in Keys
                    /\ get(t, KeyAt(t, i)) = ValAt(t, i)
                    /\ ValAt(t, i) \in Vals
                    /\ InArray(t, KeyAt(t, i)) <=> i < t.asize
                    /\ i < t.asize => KeyAt(t, i) = i
                    /\ i >= t.asize =>
                          i - t.asize \in DOMAIN t.node /\ t.node[i - t.asize].key = KeyAt(t, i)
           /\ \A k \in Keys : get(t, k) # Nil => \E i \in 0 .. End(t) - 1 : KeyAt(t, i) = k
<1> DEFINE c == Cardinality(DOMAIN t.node)
<1>1. c \in Nat /\ DOMAIN t.node = 0 .. c - 1 /\ t.asize \in Nat /\ End(t) = t.asize + c
  BY NodeCount, FS_CardinalityType, SizeNat DEF TabOK, End
<1> HIDE DEF c
<1>2. Nil \notin Ints /\ Nil \notin Vals /\ Ints \subseteq Nat /\ Ints \subseteq Keys /\ Nil \notin Keys
  BY TableAssumption DEF Keys
<1>3. ASSUME NEW i \in 0 .. End(t) - 1, KeyAt(t, i) # Nil, i < t.asize
      PROVE  /\ KeyAt(t, i) = i /\ i \in Keys /\ InArray(t, i)
             /\ get(t, i) = ValAt(t, i) /\ ValAt(t, i) \in Vals
  <2>1. KeyAt(t, i) = i /\ ValAt(t, i) = t.array[i] /\ t.array[i] # Nil
    BY <1>3 DEF KeyAt, ValAt
  <2>2. i \in 0 .. t.asize - 1
    BY <1>1, <1>3
  <2>3. i \in Ints /\ t.array[i] \in Vals
    BY <2>1, <2>2 DEF TabOK, Shape
  <2>4. InArray(t, i)
    BY <1>3, <2>3 DEF InArray
  <2> QED
    BY <1>2, <2>1, <2>3, <2>4 DEF get
<1>4. ASSUME NEW i \in 0 .. End(t) - 1, KeyAt(t, i) # Nil, i >= t.asize
      PROVE  /\ KeyAt(t, i) \in Keys /\ ~InArray(t, KeyAt(t, i))
             /\ get(t, KeyAt(t, i)) = ValAt(t, i) /\ ValAt(t, i) \in Vals
             /\ i - t.asize \in DOMAIN t.node /\ t.node[i - t.asize].key = KeyAt(t, i)
  <2> DEFINE x == i - t.asize
  <2>1. x \in DOMAIN t.node /\ ~(i < t.asize)
    BY <1>1, <1>4
  <2>2. KeyAt(t, i) = t.node[x].key /\ ValAt(t, i) = t.node[x].val /\ t.node[x].val # Nil
    BY <1>4, <2>1 DEF KeyAt, ValAt
  <2> HIDE DEF x
  <2>3. t.node[x] \in Node /\ ~InArray(t, t.node[x].key)
    BY <2>1 DEF TabOK, Shape
  <2>4. t.node[x].key \in Keys /\ t.node[x].val \in Vals
    BY <1>4, <2>2, <2>3 DEF Node
  <2>5. Holds(t, t.node[x].key, t.node[x].val)
    BY <2>1 DEF Holds
  <2>6. get(t, t.node[x].key) = t.node[x].val
    BY <2>3, <2>4, <2>5, GetIs
  <2> QED
    BY <2>1, <2>2, <2>3, <2>4, <2>6 DEF x
<1>5. ASSUME NEW k \in Keys, get(t, k) # Nil
      PROVE  \E i \in 0 .. End(t) - 1 : KeyAt(t, i) = k
  <2>1. CASE InArray(t, k)
    <3>1. k \in 0 .. End(t) - 1 /\ k < t.asize
      BY <1>1, <1>2, <2>1 DEF InArray
    <3>2. t.array[k] # Nil
      BY <1>5, <2>1 DEF get
    <3> QED
      BY <3>1, <3>2 DEF KeyAt, ValAt
  <2>2. CASE ~InArray(t, k)
    <3>1. get(t, k) \in Vals
      BY <1>5, GetIs
    <3>2. PICK x \in DOMAIN t.node : t.node[x].key = k /\ t.node[x].val = get(t, k)
      BY <2>2, <3>1, GetIs DEF Holds
    <3>3. PICK i \in 0 .. End(t) - 1 : i - t.asize = x /\ ~(i < t.asize)
      <4> DEFINE i == x + t.asize
      <4>1. i \in 0 .. End(t) - 1 /\ i - t.asize = x /\ ~(i < t.asize)
        BY <1>1, <3>2
      <4> HIDE DEF i
      <4> QED
        BY <4>1
    <3>4. KeyAt(t, i) = k
      BY <1>5, <3>2, <3>3 DEF KeyAt, ValAt
    <3> QED
      BY <3>4
  <2> QED
    BY <2>1, <2>2
<1> QED
  BY <1>1, <1>3, <1>4, <1>5

\* No two positions have the same key.
LEMMA PositionUnique ==
    ASSUME NEW t, TabOK(t), HashOK, NEW i \in 0 .. End(t) - 1, NEW j \in 0 .. End(t) - 1,
           KeyAt(t, i) # Nil, KeyAt(t, i) = KeyAt(t, j)
    PROVE  i = j
<1>1. i < t.asize <=> j < t.asize
  BY Positions
<1>2. CASE i < t.asize
  BY <1>1, <1>2, Positions
<1>3. CASE ~(i < t.asize)
  <2>1. t.asize \in Nat
    BY Positions
  <2>2. /\ i - t.asize \in DOMAIN t.node /\ t.node[i - t.asize].key = KeyAt(t, i)
        /\ j - t.asize \in DOMAIN t.node /\ t.node[j - t.asize].key = KeyAt(t, j)
    BY <1>1, <1>3, <2>1, Positions
  <2>3. i - t.asize = j - t.asize
    BY <2>2 DEF TabOK, Links, KeysUnique
  <2> QED
    BY <2>1, <2>3
<1> QED
  BY <1>2, <1>3

---------------------------------------------------------------------------
(* Resizing *)

\* A table whose keys are of a set that its hash part could hold has room for
\* another key of the set.
LEMMA RoomLeft ==
    ASSUME NEW t, TabOK(t), NEW M, IsFiniteSet(M), Cardinality(M) <= Cardinality(DOMAIN t.node),
           \A j : HasKey(t, j) /\ j # Nil => j \in M,
           NEW k \in M, ~HasKey(t, k)
    PROVE  HasRoom(t, k)
<1>1. IsFiniteSet(DOMAIN t.node) /\ Cardinality(DOMAIN t.node) \in Nat
  BY NodeCount, FS_CardinalityType DEF TabOK
<1>2. IsFiniteSet(M \ {k}) /\ Cardinality(M \ {k}) = Cardinality(M) - 1 /\ Cardinality(M) \in Nat
  BY FS_RemoveElement, FS_CardinalityType
<1>3. has_hpart(t)
  <2>1. Cardinality(M \ {k}) \in Nat
    BY <1>2, FS_CardinalityType
  <2>2. Cardinality(DOMAIN t.node) # 0
    BY <1>1, <1>2, <2>1
  <2> QED
    BY <2>2, NodeCount DEF has_hpart, TabOK
<1>4. FreeNodes(t) # {}
  <2> SUFFICES ASSUME FreeNodes(t) = {} PROVE FALSE
    OBVIOUS
  <2> DEFINE f == [x \in DOMAIN t.node |-> t.node[x].key]
  <2>1. \A x \in DOMAIN t.node : t.node[x].key # Nil
    BY FreeIs
  <2>2. f \in [DOMAIN t.node -> M \ {k}]
    BY <2>1 DEF HasKey
  <2>3. \A x, y \in DOMAIN t.node : f[x] = f[y] => x = y
    BY <2>1 DEF TabOK, Links, KeysUnique
  <2>4. f \in Injection(DOMAIN t.node, M \ {k})
    BY <2>2, <2>3 DEF Injection, IsInjective
  <2>5. Cardinality(DOMAIN t.node) <= Cardinality(M \ {k})
    BY <1>2, <2>4, FS_Injection
  <2> QED
    BY <1>1, <1>2, <2>5
<1> QED
  BY <1>3, <1>4 DEF HasRoom

\* What the new parts take over from t.
Arrayed(t) ==
    /\ t.array \in [0 .. t.asize - 1 -> Vals \cup {Nil}]
    /\ \A i \in 0 .. t.asize - 1 : t.array[i] # Nil => i \in Ints
    /\ t.asize \in Int
    /\ t.nomm \subseteq Strs

\* The parts before anything is set again.
LEMMA PartsOK ==
    ASSUME NEW t, Arrayed(t), HashOK, NEW A \in 0 .. LJ_MAX_ASIZE, NEW B \in 0 .. LJ_MAX_HBITS,
           NEW e, e = resize_parts(t, A, B)
    PROVE  /\ TabOK(e)
           /\ e.asize = A /\ e.nomm = t.nomm
           /\ Cardinality(DOMAIN e.node) = IF B = 0 THEN 0 ELSE 2^B
           /\ \A j : HasKey(e, j) => j = Nil
           /\ \A j \in Keys : get(e, j) = IF InArray(e, j) /\ InArray(t, j) THEN get(t, j) ELSE Nil
<1> DEFINE arr == [i \in 0 .. A - 1 |-> IF i < t.asize THEN t.array[i] ELSE Nil]
<1> DEFINE nodes == IF B = 0 THEN <<>> ELSE new_hpart(B)
<1>0. Nil \notin Vals /\ Nil \notin Keys /\ Nil \notin Ints /\ Ints \subseteq Nat
  BY TableAssumption DEF Keys
<1>1. 2^B \in Nat /\ 2^B > 0 /\ (B # 0 => 2^B >= 2) /\ (B = 0 => 2^B = 1)
  <2>0. B \in 0 .. 32
    BY DEF LJ_MAX_HBITS
  <2>1. 2^B \in Nat /\ 2^B > 0
    BY <2>0, PowPositive
  <2>2. B # 0 => 2^B >= 2
    <3>1. B # 0 => B \in 1 .. 32
      BY <2>0
    <3> HIDE DEF arr, nodes
    <3> QED
      BY <3>1, PowEven
  <2>3. B = 0 => 2^B = 1
    OBVIOUS
  <2> QED
    BY <2>1, <2>2, <2>3
<1>2. /\ DOMAIN e = {"array", "asize", "node", "hmask", "freetop", "nomm", "full"}
      /\ e.array = arr /\ e.asize = A /\ e.node = nodes
      /\ e.hmask = (IF B = 0 THEN 0 ELSE 2^B - 1) /\ e.freetop = (IF B = 0 THEN 0 ELSE 2^B)
      /\ e.nomm = t.nomm /\ e.full = FALSE
  BY DEF resize_parts, new
<1>3. DOMAIN nodes = IF B = 0 THEN {} ELSE 0 .. 2^B - 1
  BY DEF new_hpart
<1>4. \A x \in DOMAIN nodes :
         nodes[x].key = Nil /\ nodes[x].val = Nil /\ nodes[x].next = NIL_NODE /\ nodes[x] \in Node
  BY DEF new_hpart, EMPTY, Node, NIL_NODE
<1>5. arr \in [0 .. A - 1 -> Vals \cup {Nil}] /\ \A i \in 0 .. A - 1 : arr[i] # Nil => i \in Ints
  BY DEF Arrayed
<1>6. DOMAIN e.node = IF e.hmask = 0 THEN {} ELSE 0 .. e.hmask
  BY <1>1, <1>2, <1>3
<1>7. Cardinality(DOMAIN e.node) = IF B = 0 THEN 0 ELSE 2^B
  <2>1. CASE B = 0
    BY <2>1, <1>2, <1>3, FS_EmptySet
  <2>2. CASE B # 0
    <3>1. Cardinality(0 .. 2^B - 1) = 2^B - 1 - 0 + 1
      BY <1>1, <2>2, FS_Interval
    <3> QED
      BY <3>1, <2>2, <1>1, <1>2, <1>3
  <2> QED
    BY <2>1, <2>2
<1> HIDE DEF arr, nodes
<1>8. Links(e)
  <2>1. LinksInside(e) /\ Injective(e) /\ Acyclic(e)
    BY <1>2, <1>3, <1>4, <1>1 DEF LinksInside, Injective, Acyclic, NIL_NODE
  <2>2. KeysUnique(e) /\ TargetsKeyed(e) /\ MainsTaken(e) /\ Reached(e)
    BY <1>2, <1>4 DEF KeysUnique, TargetsKeyed, MainsTaken, Reached
  <2>3. FreeBelow(e)
    BY <1>1, <1>2, <1>3 DEF FreeBelow
  <2> QED
    BY <2>1, <2>2, <2>3 DEF Links
<1>9. Shape(e)
  <2>1. \E h \in 0 .. LJ_MAX_HBITS : e.hmask = 2^h - 1
    BY <1>1, <1>2
  <2>2. e.freetop \in 0 .. Cardinality(DOMAIN e.node)
    BY <1>1, <1>2, <1>7
  <2>3. \A x \in DOMAIN e.node :
           /\ e.node[x] \in Node
           /\ e.node[x].key = Nil => e.node[x].val = Nil
           /\ ~InArray(e, e.node[x].key)
    BY <1>0, <1>2, <1>4 DEF InArray
  <2>4. t.nomm \subseteq Strs
    BY DEF Arrayed
  <2> QED
    BY <1>2, <1>5, <1>6, <2>1, <2>2, <2>3, <2>4 DEF Shape
<1>10. TabOK(e)
  BY <1>8, <1>9 DEF TabOK
<1>11. ASSUME NEW j \in Keys
       PROVE  get(e, j) = IF InArray(e, j) /\ InArray(t, j) THEN get(t, j) ELSE Nil
  <2>1. CASE InArray(e, j)
    <3>1. j \in 0 .. A - 1 /\ get(e, j) = arr[j]
      BY <1>0, <1>2, <2>1 DEF InArray, get
    <3>2. arr[j] = IF j < t.asize THEN t.array[j] ELSE Nil
      BY <3>1 DEF arr
    <3> QED
      BY <2>1, <3>1, <3>2 DEF InArray, get
  <2>2. CASE ~InArray(e, j)
    <3>1. \A v \in Vals : ~Holds(e, j, v)
      BY <1>0, <1>2, <1>4 DEF Holds
    <3> QED
      BY <2>2, <3>1, <1>10, GetIs
  <2> QED
    BY <2>1, <2>2
<1> QED
  BY <1>2, <1>4, <1>7, <1>10, <1>11 DEF HasKey

\* x with the entry at position i of t set again.
SetAgain(x, t, i) == IF KeyAt(t, i) = Nil THEN x ELSE Put(x, KeyAt(t, i), ValAt(t, i))

\* f[i] is u with the entries from a up to i set again, for i up to n.
IsUpto(f, u, t, a, n) ==
    f = [i \in a .. n |-> IF i = a THEN u ELSE SetAgain(f[i - 1], t, i - 1)]

\* Reinsert sets the entries again one after the other.
LEMMA ReinsertDef ==
    ASSUME NEW u, NEW t, NEW a \in Nat, End(t) \in Nat, a <= End(t)
    PROVE  \E f : /\ f[a] = u
                  /\ \A i \in a .. End(t) - 1 : f[i + 1] = SetAgain(f[i], t, i)
                  /\ Reinsert(u, t, a) = f[End(t)]
<1> DEFINE Bad == {n \in Nat : a <= n /\ ~\E f : IsUpto(f, u, t, a, n)}
<1>1. Bad = {}
  <2> SUFFICES ASSUME Bad # {} PROVE FALSE
    OBVIOUS
  <2>1. PICK n \in Bad : \A m \in Bad : ~(m < n)
    BY LeastIndex, Bad \in SUBSET Nat
  <2>2. n # a
    <3> SUFFICES ASSUME n = a PROVE FALSE
      OBVIOUS
    <3>1. IsUpto([i \in a .. a |-> u], u, t, a, a)
      BY DEF IsUpto
    <3> QED
      BY <3>1, <2>1
  <2>3. n - 1 \in Nat /\ n - 1 \notin Bad /\ a <= n - 1
    BY <2>1, <2>2
  <2>4. PICK f : IsUpto(f, u, t, a, n - 1)
    BY <2>3
  <2> DEFINE g == [i \in a .. n |-> IF i = n THEN SetAgain(f[n - 1], t, n - 1) ELSE f[i]]
  <2> DEFINE h == [i \in a .. n |-> IF i = a THEN u ELSE SetAgain(g[i - 1], t, i - 1)]
  <2>5. \A i \in a .. n - 1 : f[i] = IF i = a THEN u ELSE SetAgain(f[i - 1], t, i - 1)
    BY <2>4 DEF IsUpto
  <2>6. \A i \in a .. n : g[i] = h[i]
    <3> SUFFICES ASSUME NEW i \in a .. n PROVE g[i] = h[i]
      OBVIOUS
    <3>1. CASE i = a
      BY <3>1, <2>2, <2>3, <2>5
    <3>2. CASE i # a
      <4>1. i - 1 \in a .. n - 1 /\ i - 1 # n /\ i - 1 \in a .. n
        BY <3>2, <2>1
      <4>2. g[i - 1] = f[i - 1]
        BY <4>1
      <4>3. h[i] = SetAgain(f[i - 1], t, i - 1)
        BY <3>2, <4>2
      <4>4. CASE i = n
        BY <4>3, <4>4
      <4>5. CASE i # n
        <5>1. i \in a .. n - 1
          BY <4>5
        <5>2. g[i] = f[i]
          BY <4>5
        <5> QED
          BY <3>2, <4>3, <5>1, <5>2, <2>5
      <4> QED
        BY <4>4, <4>5
    <3> QED
      BY <3>1, <3>2
  <2>7. g = h
    BY <2>6
  <2>8. IsUpto(g, u, t, a, n)
    BY <2>7 DEF IsUpto
  <2> QED
    BY <2>1, <2>8
<1> DEFINE w == CHOOSE f : IsUpto(f, u, t, a, End(t))
<1>2. IsUpto(w, u, t, a, End(t))
  BY <1>1
<1>3. Reinsert(u, t, a) = w[End(t)]
  BY DEF Reinsert, IsUpto, SetAgain
<1> HIDE DEF w
<1>4. \A i \in a .. End(t) : w[i] = IF i = a THEN u ELSE SetAgain(w[i - 1], t, i - 1)
  BY <1>2 DEF IsUpto
<1>5. w[a] = u
  BY <1>4
<1>6. ASSUME NEW i \in a .. End(t) - 1 PROVE w[i + 1] = SetAgain(w[i], t, i)
  <2>1. i + 1 \in a .. End(t) /\ i + 1 # a /\ i + 1 - 1 = i
    OBVIOUS
  <2> QED
    BY <2>1, <1>4
<1> QED
  BY <1>3, <1>5, <1>6

\* The live keys that an array part of size A does not take.
Hashed(t, A) == {j \in Keys : get(t, j) # Nil /\ ~(j \in Ints /\ j < A)}

\* w has the parts for A and B and holds what is at the positions below i.
Filled(w, t, A, B, M, i) ==
    /\ TabOK(w)
    /\ w.asize = A /\ w.nomm \subseteq t.nomm
    /\ Cardinality(DOMAIN w.node) = IF B = 0 THEN 0 ELSE 2^B
    /\ \A j : HasKey(w, j) /\ j # Nil => j \in M
    /\ \A j \in Keys :
          get(w, j) = IF \E p \in 0 .. i - 1 : KeyAt(t, p) = j THEN get(t, j) ELSE Nil

\* Setting one entry again fills one position more.
LEMMA FilledStep ==
    ASSUME NEW t, TabOK(t), HashOK, NEW A, NEW B, NEW M, IsFiniteSet(M),
           Hashed(t, A) \subseteq M, Cardinality(M) <= IF B = 0 THEN 0 ELSE 2^B,
           NEW i \in 0 .. End(t) - 1, NEW w, Filled(w, t, A, B, M, i)
    PROVE  Filled(SetAgain(w, t, i), t, A, B, M, i + 1)
<1>0. Nil \notin Keys /\ Nil \notin Vals
  BY TableAssumption DEF Keys
<1>1. \A j : (\E p \in 0 .. i + 1 - 1 : KeyAt(t, p) = j) <=>
                 (\E p \in 0 .. i - 1 : KeyAt(t, p) = j) \/ KeyAt(t, i) = j
  <2>1. \A p : p \in 0 .. i + 1 - 1 <=> p \in 0 .. i - 1 \/ p = i
    OBVIOUS
  <2> QED
    BY <2>1
<1>2. CASE KeyAt(t, i) = Nil
  <2>1. SetAgain(w, t, i) = w
    BY <1>2 DEF SetAgain
  <2>2. \A j \in Keys : (\E p \in 0 .. i + 1 - 1 : KeyAt(t, p) = j) <=>
                             (\E p \in 0 .. i - 1 : KeyAt(t, p) = j)
    BY <1>0, <1>1, <1>2
  <2> QED
    BY <2>1, <2>2 DEF Filled
<1>3. CASE KeyAt(t, i) # Nil
  <2> DEFINE k == KeyAt(t, i)
  <2> DEFINE v == ValAt(t, i)
  <2> DEFINE u == SetAgain(w, t, i)
  <2>1. k \in Keys /\ v \in Vals /\ get(t, k) = v
    BY <1>3, Positions
  <2>2. u = Put(w, k, v)
    BY <1>3 DEF SetAgain
  <2> HIDE DEF k, v, u
  <2>3. InArray(w, k) \/ HasKey(w, k) \/ HasRoom(w, k)
    <3> SUFFICES ASSUME ~InArray(w, k), ~HasKey(w, k) PROVE HasRoom(w, k)
      OBVIOUS
    <3>1. k \in M
      BY <1>0, <2>1 DEF Hashed, Filled, InArray
    <3>2. /\ TabOK(w) /\ Cardinality(M) <= Cardinality(DOMAIN w.node)
          /\ \A j : HasKey(w, j) /\ j # Nil => j \in M
      BY DEF Filled
    <3> QED
      BY <3>1, <3>2, RoomLeft
  <2>4. Stored(w, u, k, v)
    BY <2>1, <2>2, <2>3, PutStores DEF Filled
  <2>5. \A j : HasKey(u, j) /\ j # Nil => j \in M
    <3>1. ASSUME HasKey(u, k), ~HasKey(w, k) PROVE k \in M
      <4>1. ~InArray(u, k)
        BY <3>1, <2>4 DEF HasKey, Stored, TabOK, Shape
      <4> QED
        BY <4>1, <1>0, <2>1, <2>4 DEF Hashed, Stored, Filled, InArray
    <3> QED
      BY <3>1, <2>4 DEF Stored, Filled
  <2>6. \A j \in Keys :
           get(u, j) = IF \E p \in 0 .. i + 1 - 1 : KeyAt(t, p) = j THEN get(t, j) ELSE Nil
    BY <1>1, <2>1, <2>4 DEF Stored, Filled, k
  <2>7. Filled(u, t, A, B, M, i + 1)
    BY <2>4, <2>5, <2>6 DEF Stored, Filled
  <2> QED
    BY <2>7 DEF u
<1> QED
  BY <1>2, <1>3

\* A resize keeps every entry, if the hash part has room for those that the
\* array part does not take.
LEMMA ResizeKeeps ==
    ASSUME NEW t, TabOK(t), HashOK, NEW A \in 0 .. LJ_MAX_ASIZE, NEW B \in 0 .. LJ_MAX_HBITS,
           NEW M, IsFiniteSet(M), Hashed(t, A) \subseteq M,
           Cardinality(M) <= IF B = 0 THEN 0 ELSE 2^B
    PROVE  /\ TabOK(resize(t, A, B))
           /\ resize(t, A, B).asize = A /\ resize(t, A, B).nomm \subseteq t.nomm
           /\ Cardinality(DOMAIN resize(t, A, B).node) = IF B = 0 THEN 0 ELSE 2^B
           /\ \A j : HasKey(resize(t, A, B), j) /\ j # Nil => j \in M
           /\ \A j \in Keys : get(resize(t, A, B), j) = get(t, j)
<1> DEFINE a == Min({A, t.asize})
<1> DEFINE e == resize_parts(t, A, B)
<1>0. A \in Nat /\ t.asize \in Nat /\ End(t) \in Nat /\ t.asize <= End(t)
  BY SizeNat, Positions
<1>1. a \in Nat /\ a <= A /\ a <= t.asize /\ (a = A \/ a = t.asize)
  BY <1>0 DEF Min
<1> HIDE DEF a, e
<1>2. PICK f : /\ f[a] = e
               /\ \A i \in a .. End(t) - 1 : f[i + 1] = SetAgain(f[i], t, i)
               /\ Reinsert(e, t, a) = f[End(t)]
  BY <1>0, <1>1, ReinsertDef
<1>3. Filled(e, t, A, B, M, a)
  <2>1. /\ TabOK(e)
        /\ e.asize = A /\ e.nomm = t.nomm
        /\ Cardinality(DOMAIN e.node) = IF B = 0 THEN 0 ELSE 2^B
        /\ \A j : HasKey(e, j) => j = Nil
        /\ \A j \in Keys :
              get(e, j) = IF InArray(e, j) /\ InArray(t, j) THEN get(t, j) ELSE Nil
    <3>1. Arrayed(t)
      BY <1>0 DEF TabOK, Shape, Arrayed
    <3> QED
      BY <3>1, PartsOK DEF e
  <2>2. ASSUME NEW j \in Keys
        PROVE  get(e, j) = IF \E p \in 0 .. a - 1 : KeyAt(t, p) = j THEN get(t, j) ELSE Nil
    <3>0. Nil \notin Keys /\ Ints \subseteq Nat
      BY TableAssumption DEF Keys
    <3>1. \A p \in 0 .. a - 1 : p \in 0 .. End(t) - 1 /\ p < t.asize /\ p < A
      BY <1>0, <1>1
    <3>2. ASSUME NEW p \in 0 .. a - 1, KeyAt(t, p) = j
          PROVE  InArray(e, j) /\ InArray(t, j)
      <4>1. KeyAt(t, p) # Nil /\ p < t.asize /\ p < A /\ p \in 0 .. End(t) - 1
        BY <3>0, <3>1, <3>2
      <4>2. InArray(t, j) /\ j = p
        BY <4>1, <3>2, Positions
      <4> QED
        BY <4>1, <4>2, <2>1 DEF InArray
    <3>3. ASSUME InArray(e, j), InArray(t, j), get(t, j) # Nil
          PROVE  \E p \in 0 .. a - 1 : KeyAt(t, p) = j
      <4>1. j \in 0 .. a - 1 /\ j < t.asize
        BY <3>0, <3>3, <1>0, <1>1, <2>1 DEF InArray
      <4>2. t.array[j] # Nil
        BY <3>3 DEF get
      <4>3. KeyAt(t, j) = j
        BY <4>1, <4>2 DEF KeyAt, ValAt
      <4> QED
        BY <4>1, <4>3
    <3> QED
      BY <2>1, <3>2, <3>3
  <2> QED
    BY <2>1, <2>2 DEF Filled
<1> DEFINE Bad == {i \in a .. End(t) : ~Filled(f[i], t, A, B, M, i)}
<1>4. Bad = {}
  <2> SUFFICES ASSUME Bad # {} PROVE FALSE
    OBVIOUS
  <2>1. PICK i \in Bad : \A m \in Bad : ~(m < i)
    BY LeastIndex, <1>0, <1>1, Bad \in SUBSET Nat
  <2>2. i # a
    BY <1>2, <1>3, <2>1
  <2> DEFINE h == i - 1
  <2>3. h \in a .. End(t) - 1 /\ h \in 0 .. End(t) - 1 /\ h + 1 = i /\ h \notin Bad /\ h \in a .. End(t)
    BY <1>0, <1>1, <2>1, <2>2
  <2> HIDE DEF h
  <2>4. Filled(f[h], t, A, B, M, h)
    BY <2>3
  <2>5. f[h + 1] = SetAgain(f[h], t, h)
    BY <1>2, <2>3
  <2> HIDE DEF Bad
  <2>6. Filled(f[h + 1], t, A, B, M, h + 1)
    BY <2>3, <2>4, <2>5, FilledStep
  <2> QED
    BY <2>1, <2>3, <2>6 DEF Bad
<1>5. End(t) \in a .. End(t)
  BY <1>0, <1>1
<1>6. Filled(f[End(t)], t, A, B, M, End(t))
  BY <1>4, <1>5
<1>7. resize(t, A, B) = f[End(t)]
  BY <1>2 DEF resize, a, e
<1>8. \A j \in Keys :
         get(t, j) = IF \E p \in 0 .. End(t) - 1 : KeyAt(t, p) = j THEN get(t, j) ELSE Nil
  BY Positions
<1> HIDE DEF Bad
<1> QED
  BY <1>6, <1>7, <1>8 DEF Filled

---------------------------------------------------------------------------
(* The push: the array part grows, the hash part keeps its size *)

\* What 31 bits hold is below 2^32.
LEMMA PowSmall == \A b \in 0 .. 31 : 2^b < 2^32
<1> SUFFICES ASSUME NEW b \in 0 .. 31 PROVE 2^b < 2^32
  OBVIOUS
<1>1. PICK c \in 0 .. 32 : c = 32
  OBVIOUS
<1>2. 2^b \in Nat /\ 2^b > 0
  BY PowPositive, b \in 0 .. 32
<1>3. 2 * 2^b <= 2^c
  BY PowMonotone, <1>1, b \in 0 .. 32, b < c
<1>4. 2^c = 2^32
  BY <1>1
<1>5. 2^b < 2^c
  BY <1>2, <1>3, 2^c \in Nat, PowPositive
<1> QED
  BY <1>4, <1>5

\* hbits gives the size of the hash part.
LEMMA HbitsIs ==
    ASSUME NEW t, Shape(t)
    PROVE  /\ hbits(t) \in 0 .. LJ_MAX_HBITS
           /\ Cardinality(DOMAIN t.node) = IF hbits(t) = 0 THEN 0 ELSE 2^hbits(t)
<1>1. PICK h \in 0 .. LJ_MAX_HBITS : t.hmask = 2^h - 1
  BY DEF Shape
<1>2. h \in 0 .. 31 /\ h \in 0 .. 32
  BY DEF LJ_MAX_HBITS
<1>3. 2^h \in Nat /\ 2^h > 0 /\ 2^h < 2^32
  BY <1>2, PowPositive, PowSmall
<1>4. CASE h = 0
  <2>1. t.hmask = 0
    BY <1>1, <1>4, 2^0 = 1
  <2> QED
    BY <2>1, <1>1, <1>4, NodeCount DEF hbits, has_hpart
<1>5. CASE h # 0
  <2>1. 2^h >= 2
    BY <1>2, <1>5, h \in 1 .. 32, PowEven
  <2>2. t.hmask \in Nat /\ 0 < t.hmask /\ t.hmask < 2^32
    BY <1>1, <1>3, <2>1
  <2> DEFINE f == Fls(t.hmask)
  <2> DEFINE g == f + 1
  <2>3. f \in 0 .. 31 /\ 2^f <= t.hmask /\ t.hmask < 2^g
    BY <2>2, FlsFound
  <2> HIDE DEF f
  <2>4. g \in 0 .. 32 /\ f \in 0 .. 32
    BY <2>3
  <2>5. g = f + 1
    OBVIOUS
  <2> HIDE DEF g
  <2>6. 2^f \in Nat /\ 2^g \in Nat /\ 2^g > 0
    BY <2>4, PowPositive
  <2>7. ~(h = f) /\ ~(h < f)
    <3>1. ASSUME h < f PROVE 2 * 2^h <= 2^f
      BY <3>1, <1>2, <2>4, PowMonotone
    <3> QED
      BY <3>1, <1>1, <1>3, <2>3, <2>6
  <2>8. ~(g < h)
    <3>1. ASSUME g < h PROVE 2 * 2^g <= 2^h
      BY <3>1, <1>2, <2>4, PowMonotone
    <3> QED
      BY <3>1, <1>1, <1>3, <2>3, <2>6
  <2>9. h = g
    BY <1>2, <2>4, <2>5, <2>7, <2>8
  <2>10. hbits(t) = h
    BY <2>2, <2>5, <2>9 DEF hbits, has_hpart, f
  <2>11. Cardinality(DOMAIN t.node) = 2^h
    BY <1>1, <1>3, <2>2, NodeCount
  <2> QED
    BY <1>1, <1>5, <2>10, <2>11
<1> QED
  BY <1>4, <1>5

\* The keys with a node, at most one for each.
LEMMA KeysInNodes ==
    ASSUME NEW t, TabOK(t), NEW S, \A j \in S : HasKey(t, j)
    PROVE  IsFiniteSet(S) /\ Cardinality(S) <= Cardinality(DOMAIN t.node)
<1> DEFINE N == {x \in DOMAIN t.node : t.node[x].key \in S}
<1>1. IsFiniteSet(DOMAIN t.node)
  BY NodeCount DEF TabOK
<1>2. IsFiniteSet(N) /\ Cardinality(N) <= Cardinality(DOMAIN t.node)
  BY <1>1, FS_Subset
<1> DEFINE f == [x \in N |-> t.node[x].key]
<1>3. f \in Surjection(N, S)
  BY DEF Surjection, HasKey
<1>4. IsFiniteSet(S) /\ Cardinality(S) <= Cardinality(N)
  BY <1>2, <1>3, FS_Surjection
<1> QED
  BY <1>1, <1>2, <1>4, FS_CardinalityType

\* A live key is in the array or has a node.
LEMMA LivePlaced ==
    ASSUME NEW t, TabOK(t), HashOK, NEW k \in Keys, get(t, k) # Nil, ~InArray(t, k)
    PROVE  HasKey(t, k)
<1>1. get(t, k) \in Vals
  BY GetIs
<1> QED
  BY <1>1, GetIs DEF Holds, HasKey

\* What a store should do: the table is right and gives v for k, the rest as before.
Result(t, w, k, v) ==
    /\ TabOK(w)
    /\ \A j \in Keys : get(w, j) = IF j = k THEN v ELSE get(t, j)
    /\ w.nomm \subseteq t.nomm
    /\ k \in Strs => w.nomm = {}

\* The push stores.
LEMMA PushStores ==
    ASSUME NEW t, TabOK(t), HashOK, NEW k \in Ints, NEW v \in Vals \cup {Nil}, Push(t, k, v)
    PROVE  Result(t, Put(reasize(t, k), k, v), k, v) /\ Put(reasize(t, k), k, v).asize > t.asize
<1> DEFINE p == 2^(Fls(k) + 1)
<1> DEFINE A == Min({p, LJ_MAX_ASIZE})
<1> DEFINE B == hbits(t)
<1> DEFINE M == Hashed(t, A)
<1>1. k \in Nat /\ k > 0 /\ k = t.asize /\ k < LJ_MAX_ASIZE /\ LJ_MAX_ASIZE \in Nat /\ k \in Keys
  BY TableAssumption, SizeNat DEF Push, Keys
<1>2. p \in Nat /\ k < p
  <2>1. k < 2^32
    BY SMT, <1>1 DEF LJ_MAX_ASIZE
  <2>2. Fls(k) \in 0 .. 31 /\ k < 2^(Fls(k) + 1)
    BY <1>1, <2>1, FlsFound
  <2>3. Fls(k) + 1 \in 0 .. 32
    BY <2>2
  <2> QED
    BY <2>2, <2>3, PowPositive
<1> HIDE DEF p
<1>3. A \in Nat /\ A <= LJ_MAX_ASIZE /\ k < A
  BY <1>1, <1>2 DEF Min
<1>4. B \in 0 .. LJ_MAX_HBITS /\ Cardinality(DOMAIN t.node) = IF B = 0 THEN 0 ELSE 2^B
  BY HbitsIs DEF TabOK
<1> HIDE DEF A, B
<1>5. \A j \in M : HasKey(t, j)
  BY <1>1, <1>3, TableAssumption, LivePlaced DEF Hashed, InArray
<1>6. IsFiniteSet(M) /\ Cardinality(M) <= IF B = 0 THEN 0 ELSE 2^B
  BY <1>4, <1>5, KeysInNodes
<1> DEFINE u == resize(t, A, B)
<1>7. u = reasize(t, k)
  BY DEF reasize, A, B, p
<1>8. A \in 0 .. LJ_MAX_ASIZE
  BY <1>1, <1>3
<1>9. /\ TabOK(u) /\ u.asize = A /\ u.nomm \subseteq t.nomm
      /\ \A j \in Keys : get(u, j) = get(t, j)
  <2> HIDE DEF M
  <2>1. Hashed(t, A) \subseteq M
    BY DEF M
  <2> QED
    BY <1>4, <1>6, <1>8, <2>1, ResizeKeeps
<1> HIDE DEF u
<1>10. InArray(u, k)
  BY <1>3, <1>9 DEF InArray
<1>11. Stored(u, Put(u, k, v), k, v)
  BY <1>1, <1>9, <1>10, PutStores
<1> QED
  BY <1>1, <1>3, <1>7, <1>9, <1>11 DEF Stored, Result

---------------------------------------------------------------------------
(* The rehash: the sizes it chooses are enough *)

\* What the bounds on integer keys mean.
LEMMA IntsSmall == \A j \in Ints : j \in Nat /\ j < 2^32 /\ j - 1 < 2^27
<1> SUFFICES ASSUME NEW j \in Ints PROVE j \in Nat /\ j < 2^32 /\ j - 1 < 2^27
  OBVIOUS
<1>1. j \in 0 .. LJ_MAX_ASIZE - 1
  BY TableAssumption
<1> QED
  BY SMT, <1>1 DEF LJ_MAX_ASIZE

\* The array part that best_asize chooses takes the na keys it counts.
LEMMA BestIs ==
    ASSUME NEW ks \in SUBSET Ints
    PROVE  /\ best_asize(ks).asize \in 0 .. LJ_MAX_ASIZE
           /\ \E N \in SUBSET ks :
                 /\ best_asize(ks).na = Cardinality(N)
                 /\ \A j \in N : j < best_asize(ks).asize
<1> DEFINE upto(b) == {j \in ks : Bin(j) <= b}
<1> DEFINE sum(b) == Cardinality({j \in ks : Bin(j) <= b})
<1> DEFINE tried == {b \in 0 .. 27 : 2 * Cardinality(ks) > 2^b /\ sum(b - 1) # Cardinality(ks)}
<1> DEFINE dense == {b \in tried : sum(b) # sum(b - 1) /\ 2 * sum(b) > 2^b}
<1>0. LJ_MAX_ASIZE \in Nat
  BY SizeNat
<1>1. best_asize(ks) = IF dense = {} THEN [asize |-> 0, na |-> 0]
                       ELSE [asize |-> 2 * 2^Max(dense) + 1, na |-> sum(Max(dense))]
  BY DEF best_asize
<1>2. CASE dense = {}
  <2>1. best_asize(ks).asize = 0 /\ best_asize(ks).na = Cardinality({})
    BY <1>1, <1>2, FS_EmptySet
  <2> QED
    BY <1>0, <2>1
<1>3. CASE dense # {}
  <2> DEFINE b == Max(dense)
  <2>1. b \in dense
    <3>1. PICK m \in dense : \A x \in dense : x <= m
      BY <1>3, GreatestIndex, 27 \in Nat, dense \in SUBSET (0 .. 27)
    <3>2. \E y \in dense : \A x \in dense : y >= x
      BY <3>1
    <3> HIDE DEF dense
    <3> QED
      BY <3>2 DEF Max
  <2>2. b \in 0 .. 27 /\ sum(b) # sum(b - 1)
    BY <2>1
  <2>3. best_asize(ks).asize = 2 * 2^b + 1 /\ best_asize(ks).na = Cardinality(upto(b))
    <3> HIDE DEF dense
    <3> QED
      BY <1>1, <1>3
  <2> HIDE DEF b, dense, tried
  <2> DEFINE A == 2 * 2^b + 1
  <2>4. 2^b \in Nat /\ 2^b > 0 /\ 2 * 2^b = 2^(b + 1)
    BY <2>2, b \in 0 .. 32, b \in 0 .. 31, PowPositive, PowDouble
  <2>5. ASSUME NEW j \in ks, j > 2
        PROVE  /\ Bin(j) \in 0 .. 31 /\ 2^Bin(j) <= j - 1
               /\ j - 1 < 2^(Bin(j) + 1) /\ j - 1 \in Nat
    <3>1. j - 1 \in Nat /\ 0 < j - 1 /\ j - 1 < 2^32
      <4>1. j \in Ints
        OBVIOUS
      <4>2. j \in Nat /\ j < 2^32
        BY <4>1, IntsSmall
      <4> QED
        BY SMT, <2>5, <4>2
    <3> QED
      BY <2>5, <3>1, FlsFound DEF Bin
  <2>6. ASSUME NEW j \in upto(b) PROVE j < A
    <3>1. CASE j > 2
      <4>1. Bin(j) \in 0 .. 31 /\ j - 1 < 2^(Bin(j) + 1) /\ Bin(j) <= b /\ j - 1 \in Nat
        BY <2>5, <3>1
      <4> DEFINE c == Bin(j) + 1
      <4> DEFINE d == b + 1
      <4>2. c \in 0 .. 32 /\ d \in 0 .. 32 /\ c <= d
        BY <2>2, <4>1
      <4> HIDE DEF c, d
      <4>3. 2^c \in Nat /\ 2^d \in Nat
        BY <4>2, PowPositive
      <4>4. c = d \/ 2 * 2^c <= 2^d
        <5>1. c = d \/ c < d
          BY <4>2
        <5> QED
          BY <4>2, <5>1, PowMonotone
      <4>5. 2^c <= 2^d
        BY <4>3, <4>4
      <4>6. j - 1 < 2^d /\ A = 2^d + 1
        BY <2>4, <4>1, <4>3, <4>5 DEF c, d
      <4> HIDE DEF A
      <4>7. j \in Int
        BY IntsSmall
      <4> QED
        BY <4>3, <4>6, <4>7
    <3>2. CASE ~(j > 2)
      <4>1. j \in Nat
        BY <1>0, TableAssumption
      <4> QED
        BY <2>4, <3>2, <4>1
    <3> QED
      BY <3>1, <3>2
  <2>7. PICK j \in ks : Bin(j) = b
    <3> SUFFICES ASSUME \A j \in ks : Bin(j) # b PROVE FALSE
      OBVIOUS
    <3>1. \A j \in ks : Bin(j) \in Int
      <4>1. \A j \in ks : j > 2 => Bin(j) \in 0 .. 31
        BY <2>5
      <4>2. \A j \in ks : ~(j > 2) => Bin(j) = 0
        BY DEF Bin
      <4> QED
        BY <4>1, <4>2
    <3>2. upto(b) = upto(b - 1)
      BY <2>2, <3>1
    <3> QED
      BY <2>2, <3>2
  <2>8. b # 27
    <3> SUFFICES ASSUME b = 27 PROVE FALSE
      OBVIOUS
    <3>1. Bin(j) # 0
      BY <2>7
    <3>2. j > 2
      BY <3>1 DEF Bin
    <3>3. 2^27 <= j - 1
      BY <2>5, <2>7, <3>2
    <3>4. j \in Nat /\ j - 1 < 2^27
      BY <2>7, IntsSmall
    <3> QED
      BY SMT, <3>3, <3>4
  <2>9. A \in 0 .. LJ_MAX_ASIZE
    <3>1. PICK c \in 0 .. 32 : c = 27
      OBVIOUS
    <3>2. b \in 0 .. 32 /\ b < c
      BY <2>2, <2>8, <3>1
    <3>3. 2 * 2^b <= 2^c /\ 2^c \in Nat
      BY <3>1, <3>2, PowMonotone, PowPositive
    <3>4. LJ_MAX_ASIZE = 2^c + 1
      BY SMT, <3>1 DEF LJ_MAX_ASIZE
    <3> QED
      BY <2>4, <3>3, <3>4
  <2>10. upto(b) \in SUBSET ks
    OBVIOUS
  <2> HIDE DEF upto, sum, A
  <2> QED
    BY <2>3, <2>6, <2>9, <2>10 DEF A
<1> QED
  BY <1>2, <1>3

\* The hash part that hsize2hbits gives has room for s keys.
LEMMA HbitsEnough ==
    ASSUME NEW s \in Nat, s < 2^32
    PROVE  /\ hsize2hbits(s) \in 0 .. 32
           /\ s <= IF hsize2hbits(s) = 0 THEN 0 ELSE 2^hsize2hbits(s)
<1>1. CASE s = 0
  BY <1>1 DEF hsize2hbits
<1>2. CASE s = 1
  <2>1. hsize2hbits(s) = 1
    BY <1>2 DEF hsize2hbits
  <2>2. PICK c \in 1 .. 32 : c = 1
    OBVIOUS
  <2>3. 2^c >= 2 /\ 2^c \in Nat
    BY <2>2, PowEven, PowPositive, c \in 0 .. 32
  <2>4. hsize2hbits(s) = c /\ s <= 2^c /\ c # 0 /\ c \in 0 .. 32
    BY <1>2, <2>1, <2>2, <2>3
  <2>5. s <= IF c = 0 THEN 0 ELSE 2^c
    BY <2>4
  <2> QED
    BY <2>4, <2>5
<1>3. CASE s > 1
  <2> DEFINE f == Fls(s - 1)
  <2> DEFINE g == f + 1
  <2>1. f \in 0 .. 31 /\ s - 1 < 2^g
    BY <1>3, FlsFound
  <2>2. hsize2hbits(s) = g /\ g # 0 /\ g \in 0 .. 32
    BY <1>3, <2>1 DEF hsize2hbits
  <2> HIDE DEF f, g
  <2>3. 2^g \in Nat
    BY <2>2, PowPositive
  <2> QED
    BY <2>1, <2>2, <2>3
<1> QED
  BY <1>1, <1>2, <1>3

\* A rehash keeps every entry, and there is room for the key that caused it.
LEMMA RehashStores ==
    ASSUME NEW t, TabOK(t), HashOK, NEW k \in Keys, NEW v \in Vals \cup {Nil},
           NeedsRehash(t, k), ~Overflows(t, k)
    PROVE  Result(t, Put(rehash(t, k), k, v), k, v)
<1> DEFINE V == {t.node[n].key : n \in Nodes(t)}
<1> DEFINE L == Slots(t) \cup V \cup {k}
<1> DEFINE ks == L \cap Ints
<1>0. IntKeys(t, k) = ks /\ ks \in SUBSET Ints
  BY DEF IntKeys
<1> DEFINE A == new_asize(t, k)
<1> DEFINE na == best_asize(ks).na
<1> DEFINE B == new_hbits(t, k)
<1> DEFINE s == Total(t) - na
<1>1. A = best_asize(ks).asize /\ B = hsize2hbits(s)
  BY <1>0 DEF new_asize, new_hbits
<1>2. PICK N \in SUBSET ks : na = Cardinality(N) /\ \A j \in N : j < A
  <2> HIDE DEF ks, A
  <2> QED
    BY <1>0, <1>1, BestIs
<1>3. A \in 0 .. LJ_MAX_ASIZE
  BY <1>0, <1>1, BestIs
<1>4. /\ IsFiniteSet(Slots(t)) /\ Cardinality(Slots(t)) <= t.asize
      /\ Cardinality(Slots(t)) \in Nat /\ t.asize \in Nat
  <2>1. t.asize \in Nat /\ DOMAIN t.array = 0 .. t.asize - 1
    BY SizeNat DEF TabOK, Shape
  <2>2. IsFiniteSet(DOMAIN t.array) /\ Cardinality(DOMAIN t.array) <= t.asize
    <3> DEFINE b == t.asize - 1
    <3>1. b \in Int /\ 0 \in Int
      BY <2>1
    <3>2. IsFiniteSet(0 .. b) /\ Cardinality(0 .. b) = IF 0 > b THEN 0 ELSE b - 0 + 1
      <4> HIDE DEF b
      <4> QED
        BY <3>1, FS_Interval
    <3> QED
      BY <2>1, <3>2
  <2>3. Slots(t) \in SUBSET DOMAIN t.array
    BY DEF Slots
  <2>4. /\ IsFiniteSet(Slots(t)) /\ Cardinality(Slots(t)) <= Cardinality(DOMAIN t.array)
    BY <2>2, <2>3, FS_Subset
  <2> QED
    BY <2>1, <2>2, <2>4, FS_CardinalityType
<1>5. /\ IsFiniteSet(Nodes(t)) /\ Cardinality(Nodes(t)) <= Cardinality(DOMAIN t.node)
      /\ Cardinality(Nodes(t)) \in Nat
  <2>1. IsFiniteSet(DOMAIN t.node) /\ Nodes(t) \in SUBSET DOMAIN t.node
    BY NodeCount DEF TabOK, Nodes
  <2> QED
    BY <2>1, FS_Subset, FS_CardinalityType
<1>6. IsFiniteSet(V) /\ Cardinality(V) <= Cardinality(Nodes(t)) /\ Cardinality(V) \in Nat
  <2> DEFINE f == [n \in Nodes(t) |-> t.node[n].key]
  <2>1. f \in Surjection(Nodes(t), V)
    BY DEF Surjection
  <2> QED
    BY <1>5, <2>1, FS_Surjection, FS_CardinalityType
<1> HIDE DEF V
<1>7. IsFiniteSet(L) /\ Cardinality(L) <= Total(t) /\ Cardinality(L) \in Nat
  <2> DEFINE E == Slots(t) \cup V
  <2>1. IsFiniteSet(E) /\ Cardinality(E) = Cardinality(Slots(t)) + Cardinality(V) - Cardinality(Slots(t) \cap V)
    BY <1>4, <1>6, FS_Union
  <2>2. Cardinality(Slots(t) \cap V) \in Nat
    BY <1>4, FS_Subset, FS_CardinalityType
  <2>3. Cardinality(E) <= Cardinality(Slots(t)) + Cardinality(Nodes(t)) /\ Cardinality(E) \in Nat
    BY <1>4, <1>5, <1>6, <2>1, <2>2, FS_CardinalityType
  <2>4. /\ IsFiniteSet(E \cup {k})
        /\ Cardinality(E \cup {k}) = IF k \in E THEN Cardinality(E) ELSE Cardinality(E) + 1
    BY <2>1, FS_AddElement
  <2> HIDE DEF E
  <2>5. L = E \cup {k}
    BY DEF E
  <2> HIDE DEF L
  <2> QED
    BY <1>4, <1>5, <2>3, <2>4, <2>5 DEF Total
<1> DEFINE M == L \ N
<1>8. IsFiniteSet(M) /\ Cardinality(M) = Cardinality(L) - na /\ na \in Nat /\ Cardinality(M) \in Nat
  <2>1. N \in SUBSET L /\ M \in SUBSET L /\ M \cup N = L /\ M \cap N = {}
    OBVIOUS
  <2>2. IsFiniteSet(M) /\ IsFiniteSet(N)
    BY <1>7, <2>1, FS_Subset
  <2> HIDE DEF M, L
  <2>3. Cardinality(L) = Cardinality(M) + Cardinality(N) - Cardinality({})
    BY <2>1, <2>2, FS_Union
  <2> HIDE DEF na
  <2> QED
    BY <1>2, <2>2, <2>3, FS_EmptySet, FS_CardinalityType
<1> HIDE DEF na
<1>9. Total(t) \in Nat /\ Total(t) < 2^32
  <2> DEFINE h == hbits(t)
  <2>1. h \in 0 .. LJ_MAX_HBITS /\ Cardinality(DOMAIN t.node) = IF h = 0 THEN 0 ELSE 2^h
    BY HbitsIs DEF TabOK
  <2> HIDE DEF h
  <2>2. h \in 0 .. 26
    BY <2>1 DEF LJ_MAX_HBITS
  <2>3. PICK c \in 0 .. 32 : c = 27
    OBVIOUS
  <2>4. 2^h \in Nat /\ 2 * 2^h <= 2^c /\ 2^c \in Nat
    BY <2>2, <2>3, PowPositive, PowMonotone, h \in 0 .. 32, h < c
  <2>5. Cardinality(DOMAIN t.node) <= 2^c
    BY <2>1, <2>4
  <2>6. t.asize <= LJ_MAX_ASIZE
    BY SizeNat DEF TabOK
  <2>7. t.asize <= 2^27 + 1
    BY <2>6 DEF LJ_MAX_ASIZE
  <2>8. 2^c = 2^27
    BY <2>3
  <2>9. Cardinality(DOMAIN t.node) \in Nat
    BY <2>1, <2>4
  <2> HIDE DEF L, M, ks
  <2>10. Total(t) <= 1 + t.asize + Cardinality(DOMAIN t.node) /\ Total(t) \in Nat
    BY <1>4, <1>5, <2>9 DEF Total
  <2> QED
    BY SMT, <1>4, <2>5, <2>7, <2>8, <2>9, <2>10
<1> HIDE DEF L, A, B
<1>10. s \in Nat /\ Cardinality(M) <= s /\ s < 2^32
  BY <1>7, <1>8, <1>9
<1> HIDE DEF s
<1>11. Cardinality(M) <= IF B = 0 THEN 0 ELSE 2^B
  <2> HIDE DEF M
  <2>1. B \in 0 .. 32 /\ s <= IF B = 0 THEN 0 ELSE 2^B
    BY <1>1, <1>10, HbitsEnough
  <2>2. 2^B \in Nat
    BY <2>1, PowPositive
  <2> QED
    BY <1>8, <1>10, <2>1, <2>2
<1>12. B \in 0 .. LJ_MAX_HBITS
  <2>1. B \in 0 .. 32 /\ ~(B > LJ_MAX_HBITS)
    BY <1>1, <1>10, HbitsEnough DEF Overflows, B
  <2> QED
    BY <2>1 DEF LJ_MAX_HBITS
<1>13. Hashed(t, A) \subseteq M
  <2> SUFFICES ASSUME NEW j \in Keys, get(t, j) # Nil, ~(j \in Ints /\ j < A) PROVE j \in L
    BY <1>2 DEF Hashed
  <2>1. CASE InArray(t, j)
    <3>1. j \in DOMAIN t.array /\ t.array[j] # Nil
      BY <2>1, TableAssumption DEF InArray, get, TabOK, Shape
    <3> QED
      BY <3>1 DEF L, Slots
  <2>2. CASE ~InArray(t, j)
    <3>1. PICK x \in DOMAIN t.node : t.node[x].key = j /\ t.node[x].val # Nil
      BY <2>2, GetIs, TableAssumption DEF Holds
    <3> QED
      BY <3>1 DEF L, V, Nodes
  <2> QED
    BY <2>1, <2>2
<1>14. k \in M \/ (k \in Ints /\ k < A)
  BY <1>2 DEF L
<1> DEFINE u == resize(t, A, B)
<1>15. u = rehash(t, k)
  BY DEF rehash, A, B
<1>16. /\ TabOK(u) /\ u.asize = A /\ u.nomm \subseteq t.nomm
       /\ Cardinality(DOMAIN u.node) = IF B = 0 THEN 0 ELSE 2^B
       /\ \A j : HasKey(u, j) /\ j # Nil => j \in M
       /\ \A j \in Keys : get(u, j) = get(t, j)
  <2> HIDE DEF M
  <2> QED
    BY <1>3, <1>8, <1>11, <1>12, <1>13, ResizeKeeps
<1> HIDE DEF u, M
<1>17. InArray(u, k) \/ HasKey(u, k) \/ HasRoom(u, k)
  <2> SUFFICES ASSUME ~InArray(u, k), ~HasKey(u, k) PROVE HasRoom(u, k)
    OBVIOUS
  <2>1. k \in M
    BY <1>14, <1>16 DEF InArray
  <2> QED
    BY <1>8, <1>11, <1>16, <2>1, RoomLeft
<1>18. Stored(u, Put(u, k, v), k, v)
  BY <1>16, <1>17, PutStores
<1> QED
  BY <1>15, <1>16, <1>18 DEF Stored, Result

\* Every store does what it should.
LEMMA SetStores ==
    ASSUME NEW t, TabOK(t), HashOK, NEW k \in Keys, NEW v \in Vals \cup {Nil}, ~Overflows(t, k)
    PROVE  Result(t, set(t, k, v), k, v)
<1>1. CASE NeedsRehash(t, k)
  BY <1>1, RehashStores DEF set
<1>2. CASE ~NeedsRehash(t, k)
  <2>1. InArray(t, k) \/ HasKey(t, k) \/ HasRoom(t, k)
    BY <1>2, FindNodeIs DEF NeedsRehash, HasKey
  <2> QED
    BY <1>2, <2>1, PutStores DEF set, Stored, Result
<1> QED
  BY <1>1, <1>2

LEMMA SetIntStores ==
    ASSUME NEW t, TabOK(t), HashOK, NEW k \in Ints, NEW v \in Vals \cup {Nil},
           Push(t, k, v) \/ ~Overflows(t, k)
    PROVE  Result(t, set_int(t, k, v), k, v)
<1>1. CASE Push(t, k, v)
  BY <1>1, PushStores DEF set_int
<1>2. CASE ~Push(t, k, v)
  <2>1. k \in Keys
    BY DEF Keys
  <2> QED
    BY <1>2, <2>1, SetStores DEF set_int
<1> QED
  BY <1>1, <1>2

---------------------------------------------------------------------------
(* The steps *)

\* As hash does not change, neither does what the operators make of a table.
LEMMA GetPrimed ==
    ASSUME hash' = hash, NEW k
    PROVE  get(tab, k)' = get(tab', k)
BY DEF get, FindNode, hash_slot, has_hpart, NodesOf, InArray

LEMMA TabPrimed ==
    ASSUME hash' = hash
    PROVE  TabOK(tab)' <=> TabOK(tab')
<1>1. Shape(tab)' <=> Shape(tab')
  OBVIOUS
<1>2. (LinksInside(tab) /\ Injective(tab) /\ Acyclic(tab) /\ KeysUnique(tab) /\ TargetsKeyed(tab) /\ FreeBelow(tab))'
       <=> (LinksInside(tab') /\ Injective(tab') /\ Acyclic(tab') /\ KeysUnique(tab') /\ TargetsKeyed(tab') /\ FreeBelow(tab'))
  OBVIOUS
<1>3. MainsTaken(tab)' <=> MainsTaken(tab')
  BY DEF MainsTaken, Main, hash_slot
<1>4. Reached(tab)' <=> Reached(tab')
  BY DEF Reached, Main, hash_slot
<1> QED
  BY <1>1, <1>2, <1>3, <1>4 DEF TabOK, Links

\* The keys and the parts of t and w are the same, whatever the values.
SameKeys(t, w) == w.asize = t.asize /\ DOMAIN w.node = DOMAIN t.node /\ KeysStay(t, w)

\* A store to a present key leaves the keys where they are.
LEMMA SetPresent ==
    ASSUME NEW t, TabOK(t), HashOK, NEW k \in Keys, NEW v \in Vals \cup {Nil}, get(t, k) # Nil
    PROVE  SameKeys(t, set(t, k, v))
<1>1. InArray(t, k) \/ HasKey(t, k)
  BY LivePlaced
<1>2. ~NeedsRehash(t, k)
  <2>1. HasKey(t, k) => FindNode(t, k) # NIL_NODE
    BY FindNodeIs DEF HasKey, TabOK, Links, LinksInside, NIL_NODE
  <2> QED
    BY <1>1, <2>1 DEF NeedsRehash
<1>3. Stored(t, Put(t, k, v), k, v) /\ KeysStay(t, Put(t, k, v))
  BY <1>1, PutInArray, PutInNode
<1> QED
  BY <1>2, <1>3 DEF set, Stored, SameKeys

\* So does one of set_int, unless the array part grows.
LEMMA SetIntPresent ==
    ASSUME NEW t, TabOK(t), HashOK, NEW k \in Ints, NEW v \in Vals \cup {Nil}, get(t, k) # Nil
    PROVE  SameKeys(t, set_int(t, k, v)) \/ t.asize < set_int(t, k, v).asize
<1>0. k \in Keys
  BY DEF Keys
<1>1. CASE Push(t, k, v)
  <2>1. Put(reasize(t, k), k, v).asize > t.asize
    BY <1>1, PushStores
  <2> QED
    BY <1>1, <2>1 DEF set_int
<1>2. CASE ~Push(t, k, v)
  BY <1>0, <1>2, SetPresent DEF set_int
<1> QED
  BY <1>1, <1>2

\* What clear_weak_entries leaves of a table.
Cleared(t, D) ==
    [t EXCEPT
        !.array = [i \in DOMAIN @ |-> IF @[i] \in D THEN Nil ELSE @[i]],
        !.node = [n \in DOMAIN @ |->
                    IF @[n].key \in D \/ @[n].val \in D
                    THEN [@[n] EXCEPT !.val = Nil] ELSE @[n]]]

LEMMA ClearedIs ==
    ASSUME NEW t, TabOK(t), HashOK, NEW D \in SUBSET (Objs \cup Vals), NEW w, w = Cleared(t, D)
    PROVE  /\ TabOK(w) /\ SameKeys(t, w) /\ w.nomm = t.nomm
           /\ \A j \in Keys : get(w, j) = IF j \in D \/ get(t, j) \in D THEN Nil ELSE get(t, j)
<1>0. Nil \notin Vals /\ Nil \notin Keys /\ Nil \notin D /\ Ints \cap D = {} /\ Ints \subseteq Nat
  BY TableAssumption DEF Keys
<1> DEFINE arr == [i \in DOMAIN t.array |-> IF t.array[i] \in D THEN Nil ELSE t.array[i]]
<1> DEFINE nodes == [n \in DOMAIN t.node |->
                       IF t.node[n].key \in D \/ t.node[n].val \in D
                       THEN [t.node[n] EXCEPT !.val = Nil] ELSE t.node[n]]
<1>1. /\ DOMAIN w = DOMAIN t /\ w.asize = t.asize /\ w.hmask = t.hmask
      /\ w.freetop = t.freetop /\ w.nomm = t.nomm /\ w.full = t.full
      /\ w.array = arr /\ w.node = nodes
  BY DEF Cleared, TabOK, Shape
<1>2. arr \in [0 .. t.asize - 1 -> Vals \cup {Nil}]
  BY DEF TabOK, Shape
<1>3. \A i \in 0 .. t.asize - 1 : arr[i] = IF t.array[i] \in D THEN Nil ELSE t.array[i]
  BY DEF TabOK, Shape
<1>4. DOMAIN nodes = DOMAIN t.node
  OBVIOUS
<1>5. ASSUME NEW n \in DOMAIN t.node
      PROVE  /\ nodes[n].key = t.node[n].key /\ nodes[n].next = t.node[n].next
             /\ nodes[n].val = IF t.node[n].key \in D \/ t.node[n].val \in D
                               THEN Nil ELSE t.node[n].val
             /\ nodes[n] \in Node
  <2>1. t.node[n] \in Node
    BY DEF TabOK, Shape
  <2> QED
    BY <2>1 DEF Node
<1> HIDE DEF arr, nodes
<1>6. Links(w)
  BY <1>1, <1>4, <1>5, LinksSame DEF TabOK
<1>7. Shape(w)
  BY <1>0, <1>1, <1>2, <1>3, <1>4, <1>5 DEF TabOK, Shape, InArray
<1>8. TabOK(w) /\ SameKeys(t, w)
  BY <1>1, <1>4, <1>5, <1>6, <1>7 DEF TabOK, SameKeys, KeysStay
<1>9. ASSUME NEW j \in Keys
      PROVE  get(w, j) = IF j \in D \/ get(t, j) \in D THEN Nil ELSE get(t, j)
  <2>1. InArray(w, j) <=> InArray(t, j)
    BY <1>1 DEF InArray
  <2>2. CASE InArray(t, j)
    <3>1. j \in 0 .. t.asize - 1 /\ j \notin D
      BY <1>0, <2>2, SizeNat DEF InArray, TabOK
    <3> QED
      BY <1>1, <1>3, <2>1, <2>2, <3>1 DEF get
  <2>3. CASE ~InArray(t, j)
    <3> DEFINE r == IF j \in D \/ get(t, j) \in D THEN Nil ELSE get(t, j)
    <3>1. get(t, j) \in Vals \cup {Nil} /\ get(w, j) \in Vals \cup {Nil}
      BY <1>8, GetIs
    <3>2. ASSUME NEW v \in Vals PROVE get(w, j) = v <=> r = v
      <4>1. get(w, j) = v <=> Holds(w, j, v)
        BY <1>8, <2>1, <2>3, GetIs
      <4>2. get(t, j) = v <=> Holds(t, j, v)
        BY <2>3, GetIs
      <4>3. Holds(w, j, v) <=> Holds(t, j, v) /\ j \notin D /\ v \notin D
        BY <1>0, <1>1, <1>4, <1>5 DEF Holds
      <4> QED
        BY <1>0, <3>1, <4>1, <4>2, <4>3
    <3>3. r \in Vals \cup {Nil}
      BY <3>1
    <3> HIDE DEF r
    <3>4. get(w, j) = r
      BY <3>1, <3>2, <3>3
    <3> QED
      BY <3>4 DEF r
  <2> QED
    BY <2>2, <2>3
<1> QED
  BY <1>1, <1>8, <1>9

---------------------------------------------------------------------------
(* Traversals *)

\* The key that has position i, whether it is live or was deleted.
RawAt(t, i) ==
    IF i < t.asize THEN (IF i \in Ints THEN i ELSE Nil) ELSE t.node[i - t.asize].key

LEMMA RawIs ==
    ASSUME NEW t, TabOK(t), HashOK, NEW i \in 0 .. End(t) - 1
    PROVE  /\ RawAt(t, i) \in Keys \cup {Nil}
           /\ KeyAt(t, i) # Nil => RawAt(t, i) = KeyAt(t, i)
           /\ RawAt(t, i) # Nil => key_index(t, RawAt(t, i)) = i + 1
<1> DEFINE c == Cardinality(DOMAIN t.node)
<1>1. c \in Nat /\ DOMAIN t.node = 0 .. c - 1 /\ t.asize \in Nat /\ End(t) = t.asize + c
  BY NodeCount, FS_CardinalityType, SizeNat DEF TabOK, End
<1> HIDE DEF c
<1>2. Nil \notin Ints /\ Ints \subseteq Keys /\ Nil \notin Keys
  BY TableAssumption DEF Keys
<1>3. CASE i < t.asize
  <2>1. KeyAt(t, i) # Nil => KeyAt(t, i) = i /\ i \in Ints
    <3>1. i \in 0 .. t.asize - 1
      BY <1>1, <1>3
    <3> QED
      BY <1>3, <3>1 DEF KeyAt, ValAt, TabOK, Shape
  <2>2. i \in Ints => key_index(t, i) = i + 1
    BY <1>2, <1>3 DEF key_index, InArray
  <2> QED
    BY <1>2, <1>3, <2>1, <2>2 DEF RawAt
<1>4. CASE ~(i < t.asize)
  <2> DEFINE x == i - t.asize
  <2>1. x \in DOMAIN t.node /\ x \in Nat /\ t.asize + x + 1 = i + 1
    BY <1>1, <1>4
  <2>2. RawAt(t, i) = t.node[x].key
    BY <1>4 DEF RawAt
  <2>3. KeyAt(t, i) # Nil => KeyAt(t, i) = t.node[x].key
    BY <1>4 DEF KeyAt
  <2> HIDE DEF x
  <2>4. t.node[x].key \in Keys \cup {Nil} /\ ~InArray(t, t.node[x].key)
    BY <2>1 DEF TabOK, Shape, Node
  <2>5. t.node[x].key # Nil => FindNode(t, t.node[x].key) = x
    BY <2>1, <2>4, FindNodeIs
  <2>6. t.node[x].key # Nil => key_index(t, t.node[x].key) = i + 1
    BY <2>1, <2>4, <2>5 DEF key_index, NIL_NODE
  <2> QED
    BY <2>2, <2>3, <2>4, <2>6
<1> QED
  BY <1>3, <1>4

\* The search for the successor of k goes on at p.
At(t, k, p) == IF k = Nil THEN p = 0 ELSE p # 0 /\ RawAt(t, p - 1) = k

\* What a traversal has returned is below its position, what it owes is not.
Halfway(t, tr, p) ==
    /\ At(t, tr.key, p)
    /\ \A i \in p .. End(t) - 1 : RawAt(t, i) \notin tr.seen
    /\ \A j \in tr.owed : \E i \in p .. End(t) - 1 : KeyAt(t, i) = j
    /\ p <= t.asize => tr.seen \subseteq Ints \cap (0 .. p - 1)

Trav == [on : BOOLEAN, moved : BOOLEAN, key : Keys \cup {Nil},
         seen : SUBSET Keys, owed : SUBSET Keys]

TravOK(t, tr) ==
    tr \in Trav /\ (tr.on /\ ~tr.moved => \E p \in 0 .. End(t) : Halfway(t, tr, p))

LEMMA AtIndex ==
    ASSUME NEW t, TabOK(t), HashOK, NEW k, NEW p \in 0 .. End(t), At(t, k, p)
    PROVE  key_index(t, k) = p
<1>1. CASE k = Nil
  BY <1>1 DEF At, key_index
<1>2. CASE k # Nil
  <2> DEFINE i == p - 1
  <2>1. End(t) \in Nat
    BY Positions
  <2>2. i \in 0 .. End(t) - 1 /\ RawAt(t, i) = k /\ i + 1 = p
    BY <1>2, <2>1 DEF At
  <2> HIDE DEF i
  <2> QED
    BY <1>2, <2>2, RawIs
<1> QED
  BY <1>1, <1>2

\* As long as the keys stay where they are, so does a traversal; what is deleted
\* is no longer owed.
LEMMA TravStays ==
    ASSUME NEW t, TabOK(t), HashOK, NEW w, TabOK(w), SameKeys(t, w), NEW tr, TravOK(t, tr),
           NEW O \in SUBSET tr.owed, \A j \in O : get(w, j) # Nil
    PROVE  TravOK(w, [tr EXCEPT !.owed = O])
<1> DEFINE tw == [tr EXCEPT !.owed = O]
<1>1. /\ tw \in Trav /\ tw.on = tr.on /\ tw.moved = tr.moved
      /\ tw.key = tr.key /\ tw.seen = tr.seen /\ tw.owed = O
  BY DEF TravOK, Trav
<1> HIDE DEF tw
<1>2. /\ End(w) = End(t) /\ End(t) \in Nat
      /\ \A i \in 0 .. End(t) - 1 : RawAt(w, i) = RawAt(t, i)
  <2> DEFINE c == Cardinality(DOMAIN t.node)
  <2>1. c \in Nat /\ DOMAIN t.node = 0 .. c - 1 /\ t.asize \in Nat /\ End(t) = t.asize + c
    BY NodeCount, FS_CardinalityType, SizeNat DEF TabOK, End
  <2>2. End(w) = End(t)
    BY DEF SameKeys, End
  <2> HIDE DEF c
  <2>3. ASSUME NEW i \in 0 .. End(t) - 1, ~(i < t.asize) PROVE i - t.asize \in DOMAIN t.node
    BY <2>1, <2>3
  <2> QED
    BY <2>1, <2>2, <2>3 DEF SameKeys, KeysStay, RawAt
<1>3. ASSUME tr.on, ~tr.moved PROVE \E p \in 0 .. End(w) : Halfway(w, tw, p)
  <2>1. PICK p \in 0 .. End(t) : Halfway(t, tr, p)
    BY <1>3 DEF TravOK
  <2>2. At(w, tw.key, p)
    <3>1. p # 0 => p - 1 \in 0 .. End(t) - 1
      BY <1>2
    <3> QED
      BY <1>1, <1>2, <2>1, <3>1 DEF Halfway, At
  <2>3. \A i \in p .. End(w) - 1 : RawAt(w, i) \notin tw.seen
    BY <1>1, <1>2, <2>1 DEF Halfway
  <2>4. ASSUME NEW j \in tw.owed PROVE \E i \in p .. End(w) - 1 : KeyAt(w, i) = j
    <3>1. PICK i \in p .. End(t) - 1 : KeyAt(t, i) = j
      BY <1>1, <2>1, <2>4 DEF Halfway
    <3>2. j \in Keys /\ j # Nil /\ get(w, j) # Nil
      BY <1>1, <2>4, TableAssumption DEF Trav, TravOK, Keys
    <3>3. PICK n \in 0 .. End(w) - 1 : KeyAt(w, n) = j
      BY <3>2, Positions
    <3>4. i \in 0 .. End(t) - 1
      BY <1>2
    <3>5. RawAt(w, n) = j /\ RawAt(w, i) = j
      BY <1>2, <3>1, <3>2, <3>3, <3>4, RawIs
    <3>6. key_index(w, j) = n + 1 /\ key_index(w, j) = i + 1
      BY <1>2, <3>2, <3>3, <3>4, <3>5, RawIs
    <3>7. n = i
      BY <3>3, <3>4, <3>6
    <3> QED
      BY <1>2, <3>3, <3>7
  <2>5. p <= w.asize => tw.seen \subseteq Ints \cap (0 .. p - 1)
    BY <1>1, <2>1 DEF Halfway, SameKeys
  <2> QED
    BY <1>2, <2>1, <2>2, <2>3, <2>4, <2>5 DEF Halfway
<1> QED
  BY <1>1, <1>3 DEF TravOK, tw

\* A traversal that is still in the array part stays where it is when that grows:
\* what it returned is in the array part too, what it owes is behind it.
LEMMA TravGrows ==
    ASSUME NEW t, TabOK(t), HashOK, NEW w, TabOK(w), t.asize <= w.asize,
           NEW tr, TravOK(t, tr), tr.key = Nil \/ InArray(t, tr.key),
           NEW O \in SUBSET tr.owed, \A j \in O : get(w, j) # Nil
    PROVE  TravOK(w, [tr EXCEPT !.owed = O])
<1> DEFINE tw == [tr EXCEPT !.owed = O]
<1>1. /\ tw \in Trav /\ tw.on = tr.on /\ tw.moved = tr.moved
      /\ tw.key = tr.key /\ tw.seen = tr.seen /\ tw.owed = O
  BY DEF TravOK, Trav
<1> HIDE DEF tw
<1>2. Nil \notin Ints /\ Nil \notin Keys
  BY TableAssumption DEF Keys
<1>3. ASSUME tr.on, ~tr.moved PROVE \E p \in 0 .. End(w) : Halfway(w, tw, p)
  <2>1. PICK p \in 0 .. End(t) : Halfway(t, tr, p)
    BY <1>3 DEF TravOK
  <2>2. key_index(t, tr.key) = p
    BY <2>1, AtIndex DEF Halfway
  <2>3. /\ End(t) \in Nat /\ End(w) \in Nat /\ t.asize \in Nat /\ w.asize \in Nat
        /\ w.asize <= End(w)
    <3>1. Cardinality(DOMAIN w.node) \in Nat
      BY NodeCount, FS_CardinalityType DEF TabOK
    <3>2. PICK c \in Nat : c = Cardinality(DOMAIN w.node)
      BY <3>1
    <3>3. End(t) \in Nat /\ t.asize \in Nat /\ w.asize \in Nat
      BY Positions, SizeNat DEF TabOK
    <3>4. End(w) = w.asize + c
      BY <3>2 DEF End
    <3> QED
      BY <3>3, <3>4
  <2>4. p \in 0 .. t.asize /\ (tr.key # Nil => tr.key = p - 1 /\ tr.key \in Ints)
    <3>1. CASE tr.key = Nil
      BY <2>2, <2>3, <3>1 DEF key_index
    <3>2. CASE tr.key # Nil
      <4>1. InArray(t, tr.key) /\ tr.key \in Ints /\ tr.key \in Nat /\ tr.key < t.asize
        BY <3>2, IntsSmall DEF InArray
      <4>2. p = tr.key + 1
        BY <2>2, <3>2, <4>1 DEF key_index
      <4> QED
        BY <2>3, <4>1, <4>2
    <3> QED
      BY <3>1, <3>2
  <2>5. tr.seen \subseteq Ints \cap (0 .. p - 1)
    BY <2>1, <2>3, <2>4 DEF Halfway
  <2>6. At(w, tw.key, p)
    <3>1. CASE tr.key = Nil
      BY <1>1, <2>1, <3>1 DEF Halfway, At
    <3>2. CASE tr.key # Nil
      <4>1. p # 0 /\ p - 1 < w.asize /\ p - 1 \in Ints
        BY <2>1, <2>3, <2>4, <3>2 DEF Halfway, At
      <4>2. RawAt(w, p - 1) = tr.key
        BY <2>4, <3>2, <4>1 DEF RawAt
      <4> QED
        BY <1>1, <3>2, <4>1, <4>2 DEF At
    <3> QED
      BY <3>1, <3>2
  <2>7. ASSUME NEW i \in p .. End(w) - 1 PROVE RawAt(w, i) \notin tw.seen
    <3> SUFFICES ASSUME RawAt(w, i) \in Ints \cap (0 .. p - 1) PROVE FALSE
      BY <1>1, <2>5
    <3>1. i \in 0 .. End(w) - 1
      BY <2>3, <2>4
    <3>2. CASE i < w.asize
      BY <1>2, <2>3, <2>4, <3>2 DEF RawAt
    <3>3. CASE ~(i < w.asize)
      <4>1. PICK x : x = i - w.asize
        OBVIOUS
      <4>2. x \in DOMAIN w.node
        <5>1. Cardinality(DOMAIN w.node) \in Nat /\ DOMAIN w.node = 0 .. Cardinality(DOMAIN w.node) - 1
          BY NodeCount, FS_CardinalityType DEF TabOK
        <5>2. PICK c \in Nat : c = Cardinality(DOMAIN w.node)
          BY <5>1
        <5>3. DOMAIN w.node = 0 .. c - 1 /\ End(w) = w.asize + c
          BY <5>1, <5>2 DEF End
        <5> QED
          BY <2>3, <3>1, <3>3, <4>1, <5>3
      <4>3. PICK k : k = w.node[x].key
        OBVIOUS
      <4>4. RawAt(w, i) = k
        BY <3>3, <4>1, <4>3 DEF RawAt
      <4>5. ~InArray(w, k)
        BY <4>2, <4>3 DEF TabOK, Shape
      <4>6. k \in Ints /\ k \in 0 .. p - 1
        BY <4>4
      <4>7. k < w.asize
        BY <2>3, <2>4, <4>6
      <4> QED
        BY <4>5, <4>6, <4>7 DEF InArray
    <3> QED
      BY <3>2, <3>3
  <2>8. ASSUME NEW j \in tw.owed PROVE \E i \in p .. End(w) - 1 : KeyAt(w, i) = j
    <3>1. j \in Keys /\ j # Nil /\ get(w, j) # Nil /\ j \in tr.owed
      BY <1>1, <1>2, <2>8 DEF Trav, TravOK
    <3>2. PICK n \in 0 .. End(w) - 1 : KeyAt(w, n) = j
      BY <3>1, Positions
    <3>3. n >= p
      <4> SUFFICES ASSUME n < p PROVE FALSE
        BY <2>4
      <4>1. n < w.asize /\ n < t.asize
        BY <2>3, <2>4
      <4>2. j = n
        BY <3>1, <3>2, <4>1 DEF KeyAt
      <4>3. j \in Ints
        <5>1. RawAt(w, n) = j
          BY <3>1, <3>2, RawIs
        <5> QED
          BY <3>1, <4>1, <4>2, <5>1 DEF RawAt
      <4>4. PICK i \in p .. End(t) - 1 : KeyAt(t, i) = j
        BY <2>1, <3>1 DEF Halfway
      <4>5. i \in 0 .. End(t) - 1 /\ i # j
        BY <2>4, <4>2
      <4>6. RawAt(t, i) = j
        BY <3>1, <4>4, <4>5, RawIs
      <4>7. key_index(t, j) = i + 1
        BY <3>1, <4>5, <4>6, RawIs
      <4>8. key_index(t, j) = j + 1
        BY <3>1, <4>1, <4>2, <4>3 DEF key_index, InArray
      <4> QED
        BY <4>2, <4>5, <4>7, <4>8
    <3>4. n \in p .. End(w) - 1
      BY <2>4, <3>3
    <3> QED
      BY <3>2, <3>4
  <2>9. p <= w.asize => tw.seen \subseteq Ints \cap (0 .. p - 1)
    BY <1>1, <2>5
  <2>10. p \in 0 .. End(w)
    BY <2>3, <2>4
  <2> QED
    BY <2>6, <2>7, <2>8, <2>9, <2>10 DEF Halfway
<1> QED
  BY <1>1, <1>3 DEF TravOK, tw

\* A traversal begins with everything owed.
LEMMA TravBegins ==
    ASSUME NEW t, TabOK(t), HashOK
    PROVE  TravOK(t, [Idle EXCEPT !.on = TRUE, !.owed = {k \in Keys : get(t, k) # Nil}])
<1>1. End(t) \in Nat
  BY Positions
<1> DEFINE tr == [Idle EXCEPT !.on = TRUE, !.owed = {k \in Keys : get(t, k) # Nil}]
<1>2. tr \in Trav /\ tr.key = Nil /\ tr.seen = {} /\ tr.owed = {k \in Keys : get(t, k) # Nil}
  BY DEF Trav, Idle
<1> HIDE DEF tr
<1>3. Halfway(t, tr, 0)
  BY <1>2, Positions DEF Halfway, At
<1>4. 0 \in 0 .. End(t)
  BY <1>1
<1>5. TravOK(t, tr)
  BY <1>2, <1>3, <1>4 DEF TravOK
<1> QED
  BY <1>5 DEF tr

\* next returns keys.
LEMMA NextKey ==
    ASSUME NEW t, TabOK(t), HashOK, NEW k \in Keys \cup {Nil}, next(t, k) # Nil
    PROVE  next(t, k) \in Keys
<1> DEFINE p == key_index(t, k)
           rest == {i \in p .. End(t) - 1 : KeyAt(t, i) # Nil}
<1>1. rest # {} /\ next(t, k) = KeyAt(t, Min(rest))
  BY DEF next
<1>2. p \in Nat /\ End(t) \in Nat
  <2>1. End(t) \in Nat
    BY Positions
  <2>2. p # INVALID
    BY DEF next
  <2>3. CASE k = Nil
    BY <2>1, <2>3 DEF key_index
  <2>4. CASE k # Nil /\ InArray(t, k)
    <3>1. k \in Nat /\ p = k + 1
      BY <2>4, IntsSmall DEF key_index, InArray
    <3> QED
      BY <2>1, <3>1
  <2>5. CASE k # Nil /\ ~InArray(t, k)
    <3>1. k \in Keys
      BY <2>5
    <3>2. FindNode(t, k) # NIL_NODE /\ p = t.asize + FindNode(t, k) + 1
      BY <2>2, <2>5 DEF key_index
    <3>3. FindNode(t, k) \in DOMAIN t.node
      BY <2>5, <3>1, <3>2, FindNodeIs
    <3>4. FindNode(t, k) \in Nat /\ t.asize \in Nat
      BY <3>3, NodeCount, SizeNat DEF TabOK
    <3> QED
      BY <2>1, <3>2, <3>4
  <2> QED
    BY <2>1, <2>3, <2>4, <2>5
<1> HIDE DEF p
<1>3. rest \in SUBSET Nat
  BY <1>2
<1>4. PICK n \in rest : \A i \in rest : ~(i < n)
  BY <1>1, <1>3, LeastIndex
<1>5. \E y \in rest : \A i \in rest : y <= i
  BY <1>3, <1>4
<1>6. PICK m : m = Min(rest)
  OBVIOUS
<1>7. m \in rest
  <2> HIDE DEF rest
  <2> QED
    BY <1>5, <1>6 DEF Min
<1>8. m \in 0 .. End(t) - 1 /\ KeyAt(t, m) # Nil
  BY <1>2, <1>7
<1>9. RawAt(t, m) \in Keys \cup {Nil} /\ RawAt(t, m) = KeyAt(t, m)
  BY <1>8, RawIs
<1> QED
  BY <1>1, <1>6, <1>8, <1>9

\* Its next key has not been returned; at the end nothing is owed.
LEMMA TravNext ==
    ASSUME NEW t, TabOK(t), HashOK, NEW tr, TravOK(t, tr), tr.on, ~tr.moved
    PROVE  /\ key_index(t, tr.key) # INVALID
           /\ next(t, tr.key) \notin tr.seen
           /\ next(t, tr.key) = Nil => tr.owed = {}
           /\ next(t, tr.key) # Nil =>
                 TravOK(t, [tr EXCEPT !.key = next(t, tr.key),
                                      !.seen = @ \cup {next(t, tr.key)},
                                      !.owed = @ \ {next(t, tr.key)}])
<1>1. PICK p \in 0 .. End(t) : Halfway(t, tr, p)
  BY DEF TravOK
<1>2. key_index(t, tr.key) = p /\ p \in Nat /\ p # INVALID /\ End(t) \in Nat
  BY <1>1, AtIndex, Positions DEF Halfway, INVALID
<1>3. Nil \notin Keys
  BY TableAssumption DEF Keys
<1> DEFINE rest == {i \in p .. End(t) - 1 : KeyAt(t, i) # Nil}
<1> DEFINE k == next(t, tr.key)
<1>4. k = IF rest = {} THEN Nil ELSE KeyAt(t, Min(rest))
  BY <1>2 DEF next
<1> HIDE DEF k
<1>5. CASE rest = {}
  <2>1. tr.owed = {}
    <3>1. ASSUME NEW j \in tr.owed PROVE FALSE
      <4>1. PICK i \in p .. End(t) - 1 : KeyAt(t, i) = j
        BY <1>1, <3>1 DEF Halfway
      <4>2. j # Nil
        BY <1>3, <3>1 DEF TravOK, Trav
      <4> QED
        BY <4>1, <4>2, <1>5
    <3> QED
      BY <3>1
  <2>2. Nil \notin tr.seen
    BY <1>3 DEF TravOK, Trav
  <2> QED
    BY <1>2, <1>4, <1>5, <2>1, <2>2 DEF k
<1>6. CASE rest # {}
  <2> DEFINE m == Min(rest)
  <2>1. m \in rest /\ \A i \in rest : m <= i
    <3>1. PICK n \in rest : \A i \in rest : ~(i < n)
      BY <1>2, <1>6, LeastIndex, rest \in SUBSET Nat
    <3>2. \E y \in rest : \A i \in rest : y <= i
      BY <1>2, <3>1
    <3> HIDE DEF rest
    <3> QED
      BY <3>2 DEF Min
  <2> HIDE DEF m
  <2>2. k = KeyAt(t, m) /\ k # Nil /\ m \in 0 .. End(t) - 1 /\ m \in p .. End(t) - 1
    BY <1>2, <1>4, <1>6, <2>1 DEF m
  <2>3. RawAt(t, m) = k /\ k \in Keys /\ key_index(t, k) = m + 1
    BY <2>2, RawIs, <1>3
  <2>4. k \notin tr.seen
    BY <1>1, <2>2, <2>3 DEF Halfway
  <2> DEFINE u == [tr EXCEPT !.key = k, !.seen = @ \cup {k}, !.owed = @ \ {k}]
  <2>5. u \in Trav /\ u.key = k /\ u.seen = tr.seen \cup {k} /\ u.owed = tr.owed \ {k}
    BY <2>3 DEF TravOK, Trav
  <2> HIDE DEF u
  <2>6. At(t, u.key, m + 1)
    <3>1. m + 1 - 1 = m /\ m + 1 # 0
      BY <2>2
    <3> QED
      BY <2>2, <2>3, <2>5, <3>1 DEF At
  <2>7. ASSUME NEW i \in m + 1 .. End(t) - 1 PROVE RawAt(t, i) \notin u.seen
    <3>1. i \in p .. End(t) - 1 /\ i \in 0 .. End(t) - 1 /\ i # m
      BY <1>2, <2>2
    <3>2. RawAt(t, i) # k
      <4> SUFFICES ASSUME RawAt(t, i) = k PROVE FALSE
        OBVIOUS
      <4>1. key_index(t, k) = i + 1
        BY <2>2, <3>1, RawIs
      <4> QED
        BY <2>2, <2>3, <3>1, <4>1
    <3> QED
      BY <1>1, <2>5, <3>1, <3>2 DEF Halfway
  <2>8. ASSUME NEW j \in u.owed PROVE \E i \in m + 1 .. End(t) - 1 : KeyAt(t, i) = j
    <3>1. PICK i \in p .. End(t) - 1 : KeyAt(t, i) = j
      BY <1>1, <2>5, <2>8 DEF Halfway
    <3>2. j # Nil /\ j # k
      BY <1>3, <2>5, <2>8 DEF TravOK, Trav
    <3>3. m <= i /\ i # m
      BY <2>1, <2>2, <3>1, <3>2
    <3>4. i \in m + 1 .. End(t) - 1
      BY <1>2, <2>2, <3>3
    <3> QED
      BY <3>1, <3>4
  <2>9. m + 1 \in 0 .. End(t)
    BY <1>2, <2>2
  <2>10. ASSUME m + 1 <= t.asize PROVE u.seen \subseteq Ints \cap (0 .. m)
    <3>1. t.asize \in Nat
      BY SizeNat DEF TabOK
    <3>2. m < t.asize /\ p <= t.asize
      BY <1>2, <2>2, <2>10, <3>1
    <3>3. tr.seen \subseteq Ints \cap (0 .. p - 1)
      BY <1>1, <3>2 DEF Halfway
    <3>4. k = m /\ k \in Ints
      BY <1>3, <2>3, <3>2 DEF RawAt
    <3>5. m \in 0 .. m /\ 0 .. p - 1 \subseteq 0 .. m
      BY <1>2, <2>2
    <3> QED
      BY <2>5, <3>3, <3>4, <3>5
  <2>11. TravOK(t, u)
    <3>1. Halfway(t, u, m + 1)
      <4>1. PICK q : q = m + 1
        OBVIOUS
      <4>2. At(t, u.key, q)
        BY <2>6, <4>1
      <4>3. \A i \in q .. End(t) - 1 : RawAt(t, i) \notin u.seen
        BY <2>7, <4>1
      <4>4. \A j \in u.owed : \E i \in q .. End(t) - 1 : KeyAt(t, i) = j
        BY <2>8, <4>1
      <4>5. q <= t.asize => u.seen \subseteq Ints \cap (0 .. q - 1)
        <5>1. q - 1 = m
          BY <2>2, <4>1
        <5> QED
          BY <2>10, <4>1, <5>1
      <4>6. Halfway(t, u, q)
        BY <4>2, <4>3, <4>4, <4>5 DEF Halfway
      <4> QED
        BY <4>1, <4>6
    <3> QED
      BY <2>5, <2>9, <3>1 DEF TravOK
  <2> QED
    BY <1>2, <2>2, <2>4, <2>11 DEF u, k
<1> QED
  BY <1>5, <1>6

---------------------------------------------------------------------------
(* The invariant *)

TypeOK == HashOK /\ TabOK(tab) /\ map \in [Keys -> Vals \cup {Nil}]

TableInv == TypeOK /\ IsMap /\ NommSound /\ TravOK(tab, trav)

\* A new table is right, and empty.
LEMMA NewOK ==
    ASSUME HashOK, NEW A \in 0 .. LJ_MAX_ASIZE, NEW B \in 0 .. LJ_MAX_HBITS
    PROVE  TabOK(new(A, B)) /\ \A j \in Keys : get(new(A, B), j) = Nil
<1> DEFINE e == new(A, B)
<1> DEFINE u == resize_parts(e, A, B)
<1>1. A \in Int
  BY SizeNat
<1>2. /\ e.array = [i \in 0 .. A - 1 |-> Nil] /\ e.asize = A /\ e.nomm = Strs
      /\ DOMAIN e = {"array", "asize", "node", "hmask", "freetop", "nomm", "full"}
  BY DEF new
<1> HIDE DEF e
<1>3. Arrayed(e)
  BY <1>1, <1>2 DEF Arrayed
<1>4. u = e
  <2>1. [i \in 0 .. A - 1 |-> IF i < e.asize THEN e.array[i] ELSE Nil] = e.array
    BY <1>1, <1>2
  <2> QED
    BY <1>2, <2>1 DEF resize_parts, e, new
<1>5. TabOK(u) /\ \A j \in Keys : get(u, j) = IF InArray(u, j) /\ InArray(e, j) THEN get(e, j) ELSE Nil
  BY <1>3, PartsOK
<1>6. ASSUME NEW j \in Keys, InArray(e, j) PROVE get(e, j) = Nil
  <2>1. j \in 0 .. A - 1
    BY <1>1, <1>2, <1>6, TableAssumption, SizeNat DEF InArray
  <2> QED
    BY <1>2, <1>6, <2>1 DEF get
<1> HIDE DEF u
<1> QED
  BY <1>4, <1>5, <1>6 DEF e

LEMMA InitInv == Init => TableInv
<1> SUFFICES ASSUME Init PROVE TableInv
  OBVIOUS
<1>1. HashOK
  BY TableAssumption DEF Init, HashOK, Keys
<1>2. PICK z \in Sizes : tab = new(z[1], z[2])
  BY DEF Init
<1>3. z[1] \in 0 .. LJ_MAX_ASIZE /\ z[2] \in 0 .. LJ_MAX_HBITS
  BY TableAssumption
<1>4. TabOK(tab) /\ \A j \in Keys : get(tab, j) = Nil
  BY <1>1, <1>2, <1>3, NewOK
<1>5. map = [k \in Keys |-> Nil]
  BY DEF Init, Map!Init
<1>6. IsMap /\ NommSound
  BY <1>4, <1>5 DEF IsMap, NommSound, TabOK, Shape, Keys
<1>7. TravOK(tab, trav)
  BY DEF Init, Idle, TravOK, Trav
<1> QED
  BY <1>1, <1>4, <1>5, <1>6, <1>7 DEF TableInv, TypeOK

\* What the steps have to show of the table that they leave.
LEMMA StepInv ==
    ASSUME TableInv, hash' = hash, TabOK(tab'), map' \in [Keys -> Vals \cup {Nil}],
           \A j \in Keys : get(tab', j) = map'[j],
           \A s \in tab'.nomm : get(tab', s) = Nil,
           TravOK(tab', trav')
    PROVE  TableInv'
<1>1. HashOK'
  BY DEF HashOK, TableInv, TypeOK
<1>2. TypeOK'
  BY <1>1, TabPrimed DEF TypeOK
<1>3. IsMap' /\ NommSound'
  BY GetPrimed DEF IsMap, NommSound
<1> QED
  BY <1>2, <1>3 DEF TableInv

\* The two ways to store.
LEMMA StoreInv ==
    ASSUME TableInv, NEW k \in Keys, NEW v \in Vals \cup {Nil}, hash' = hash,
           Map!Store(k, v), trav' = TravAfterStore(k), Result(tab, tab', k, v),
           get(tab, k) # Nil => SameKeys(tab, tab') \/ tab.asize < tab'.asize
    PROVE  TableInv'
<1>1. map' = [map EXCEPT ![k] = v] /\ map \in [Keys -> Vals \cup {Nil}] /\ TabOK(tab) /\ HashOK
  BY DEF Map!Store, TableInv, TypeOK
<1>2. TabOK(tab') /\ map' \in [Keys -> Vals \cup {Nil}]
  BY <1>1 DEF Result
<1>3. \A j \in Keys : get(tab', j) = map'[j]
  BY <1>1 DEF Result, TableInv, IsMap
<1>4. \A s \in tab'.nomm : get(tab', s) = Nil
  <2>1. tab.nomm \subseteq Strs /\ Strs \subseteq Keys
    BY <1>1 DEF TabOK, Shape, Keys
  <2> QED
    BY <2>1 DEF Result, TableInv, NommSound
<1>5. TravOK(tab', trav')
  <2>1. CASE trav.on /\ map[k] # Nil
    <3> DEFINE O == {j \in trav.owed : map'[j] # Nil}
               grew == tab'.asize # tab.asize
               away == trav.key # Nil /\ ~InArray(tab, trav.key)
               tw == [trav EXCEPT !.owed = O]
    <3>1. trav' = [trav EXCEPT !.owed = O, !.moved = @ \/ (grew /\ away)]
      BY <2>1 DEF TravAfterStore
    <3>2. O \in SUBSET trav.owed /\ \A j \in O : get(tab', j) # Nil
      BY <1>3 DEF TableInv, TravOK, Trav
    <3> HIDE DEF O, grew, away
    <3>3. TravOK(tab, trav) /\ trav \in Trav
      BY DEF TableInv, TravOK
    <3>6. tab.asize \in Nat /\ tab'.asize \in Nat
      BY <1>1, <1>2, SizeNat DEF TabOK
    <3>7. SameKeys(tab, tab') \/ tab.asize < tab'.asize
      BY <2>1 DEF TableInv, IsMap
    <3>4. CASE trav.moved \/ (grew /\ away)
      <4>1. trav' \in Trav /\ trav'.moved = TRUE
        BY <3>1, <3>2, <3>3, <3>4 DEF Trav
      <4> QED
        BY <4>1 DEF TravOK
    <3>5. CASE ~(trav.moved \/ (grew /\ away))
      <4>1. trav' = tw
        BY <3>1, <3>3, <3>5 DEF Trav
      <4>2. CASE ~grew
        <5>1. SameKeys(tab, tab')
          BY <3>6, <3>7, <4>2 DEF grew
        <5> QED
          BY <1>1, <1>2, <3>2, <3>3, <4>1, <5>1, TravStays
      <4>3. CASE grew
        <5>1. tab.asize <= tab'.asize /\ (trav.key = Nil \/ InArray(tab, trav.key))
          BY <3>5, <3>6, <3>7, <4>3 DEF SameKeys, grew, away
        <5> QED
          BY <1>1, <1>2, <3>2, <3>3, <4>1, <5>1, TravGrows
      <4> QED
        BY <4>2, <4>3
    <3> QED
      BY <3>4, <3>5
  <2>2. CASE ~(trav.on /\ map[k] # Nil)
    BY <2>2 DEF TravAfterStore, Idle, TravOK, Trav
  <2> QED
    BY <2>1, <2>2
<1> QED
  BY <1>2, <1>3, <1>4, <1>5, StepInv

LEMMA NextInv == TableInv /\ [Next]_vars => TableInv'
<1> SUFFICES ASSUME TableInv, [Next]_vars PROVE TableInv'
  OBVIOUS
<1> USE DEF TableInv, TypeOK
<1>1. ASSUME NEW k \in Keys, NEW v \in Vals \cup {Nil}, Set(k, v) PROVE TableInv'
  <2>1. /\ ~Overflows(tab, k) /\ tab' = set(tab, k, v) /\ Map!Store(k, v)
        /\ trav' = TravAfterStore(k) /\ hash' = hash
    BY <1>1 DEF Set
  <2>2. Result(tab, tab', k, v)
    BY <2>1, SetStores
  <2>3. get(tab, k) # Nil => SameKeys(tab, tab')
    BY <2>1, SetPresent
  <2> QED
    BY <2>1, <2>2, <2>3, StoreInv
<1>2. ASSUME NEW k \in Ints, NEW v \in Vals \cup {Nil}, SetInt(k, v) PROVE TableInv'
  <2>1. /\ Push(tab, k, v) \/ ~Overflows(tab, k)
        /\ tab' = set_int(tab, k, v) /\ Map!Store(k, v)
        /\ trav' = TravAfterStore(k) /\ hash' = hash /\ k \in Keys
    BY <1>2 DEF SetInt, Keys
  <2>2. Result(tab, tab', k, v)
    BY <2>1, SetIntStores
  <2>3. get(tab, k) # Nil => SameKeys(tab, tab') \/ tab.asize < tab'.asize
    BY <2>1, SetIntPresent
  <2> QED
    BY <2>1, <2>2, <2>3, StoreInv
<1>3. ASSUME NEW D \in SUBSET (Objs \cup Vals), ClearWeak(D) PROVE TableInv'
  <2>1. /\ tab' = Cleared(tab, D) /\ hash' = hash
        /\ trav' = [trav EXCEPT !.owed = {j \in @ : map'[j] # Nil}]
        /\ map' = [j \in Keys |-> IF j \in D \/ map[j] \in D THEN Nil ELSE map[j]]
    BY <1>3 DEF ClearWeak, Cleared, Map!Drop
  <2>2. /\ TabOK(tab') /\ SameKeys(tab, tab') /\ tab'.nomm = tab.nomm
        /\ \A j \in Keys : get(tab', j) = IF j \in D \/ get(tab, j) \in D THEN Nil ELSE get(tab, j)
    BY <2>1, ClearedIs
  <2>3. map' \in [Keys -> Vals \cup {Nil}] /\ \A j \in Keys : get(tab', j) = map'[j]
    BY <2>1, <2>2 DEF IsMap
  <2>4. \A s \in tab'.nomm : get(tab', s) = Nil
    BY <2>2 DEF NommSound, TabOK, Shape, Keys
  <2>5. TravOK(tab', trav')
    <3> DEFINE O == {j \in trav.owed : map'[j] # Nil}
    <3>1. trav' = [trav EXCEPT !.owed = O]
      BY <2>1
    <3>2. O \in SUBSET trav.owed /\ \A j \in O : get(tab', j) # Nil
      BY <2>3 DEF TravOK, Trav
    <3> HIDE DEF O
    <3> QED
      BY <2>2, <3>1, <3>2, TravStays
  <2> QED
    BY <2>1, <2>2, <2>3, <2>4, <2>5, StepInv
<1>4. ASSUME NEW s \in Strs, MetaFast(s) PROVE TableInv'
  <2> DEFINE ns == tab.nomm \cup {s}
  <2>1. /\ get(tab, s) = Nil /\ tab' = [tab EXCEPT !.nomm = ns]
        /\ hash' = hash /\ map' = map /\ trav' = trav
    BY <1>4 DEF MetaFast
  <2>2. ns \in SUBSET Strs
    BY DEF TabOK, Shape
  <2>3. /\ DOMAIN tab' = DOMAIN tab /\ tab'.asize = tab.asize /\ tab'.hmask = tab.hmask
        /\ tab'.node = tab.node /\ tab'.freetop = tab.freetop /\ tab'.full = tab.full
        /\ tab'.array = tab.array /\ tab'.nomm = ns
    BY <2>1 DEF TabOK, Shape
  <2> HIDE DEF ns
  <2>4. TabOK(tab')
    <3>1. Links(tab')
      BY <2>3, LinksSame DEF TabOK
    <3> QED
      BY <2>2, <2>3, <3>1 DEF TabOK, Shape, InArray
  <2>5. \A j : get(tab', j) = get(tab, j)
    <3>1. \A j : FindNode(tab', j) = FindNode(tab, j)
      BY <2>3 DEF FindNode, Walk, NodesOf, has_hpart, hash_slot
    <3> QED
      BY <2>3, <3>1 DEF get, InArray
  <2>6. TravOK(tab', trav')
    <3>1. SameKeys(tab, tab')
      BY <2>3 DEF SameKeys, KeysStay
    <3>2. \A j \in trav.owed : trav.on /\ ~trav.moved => get(tab', j) # Nil
      <4> SUFFICES ASSUME NEW j \in trav.owed, trav.on, ~trav.moved PROVE get(tab, j) # Nil
        BY <2>5
      <4>1. PICK p \in 0 .. End(tab) : Halfway(tab, trav, p)
        BY DEF TravOK
      <4>2. PICK i \in p .. End(tab) - 1 : KeyAt(tab, i) = j
        BY <4>1 DEF Halfway
      <4>3. j # Nil /\ Nil \notin Vals
        BY TableAssumption DEF TravOK, Trav, Keys
      <4>4. i \in 0 .. End(tab) - 1
        BY Positions
      <4> QED
        BY <4>2, <4>3, <4>4, Positions
    <3>3. CASE trav.on /\ ~trav.moved
      <4> DEFINE O == trav.owed
      <4>1. trav' = [trav EXCEPT !.owed = O]
        BY <2>1 DEF TravOK, Trav
      <4>2. O \in SUBSET trav.owed /\ \A j \in O : get(tab', j) # Nil
        BY <3>2, <3>3
      <4> HIDE DEF O
      <4> QED
        BY <2>4, <3>1, <4>1, <4>2, TravStays
    <3>4. CASE ~(trav.on /\ ~trav.moved)
      BY <2>1, <3>4 DEF TravOK
    <3> QED
      BY <3>3, <3>4
  <2>7. \A j \in Keys : get(tab', j) = map'[j]
    BY <2>1, <2>5 DEF IsMap
  <2>8. \A x \in tab'.nomm : get(tab', x) = Nil
    BY <2>1, <2>3, <2>5 DEF NommSound, ns
  <2> QED
    BY <2>1, <2>4, <2>6, <2>7, <2>8, StepInv
<1>5. ASSUME Begin PROVE TableInv'
  <2>1. /\ trav' = [Idle EXCEPT !.on = TRUE, !.owed = {k \in Keys : map[k] # Nil}]
        /\ hash' = hash /\ tab' = tab /\ map' = map
    BY <1>5 DEF Begin
  <2>2. {k \in Keys : map[k] # Nil} = {k \in Keys : get(tab, k) # Nil}
    BY DEF IsMap
  <2>3. TravOK(tab', trav')
    BY <2>1, <2>2, TravBegins
  <2> QED
    BY <2>1, <2>3, StepInv DEF IsMap, NommSound
<1>6. ASSUME Next1 PROVE TableInv'
  <2> DEFINE k == next(tab, trav.key)
  <2>1. /\ trav.on /\ hash' = hash /\ tab' = tab /\ map' = map
        /\ trav' = IF k = Nil THEN Idle
                   ELSE [trav EXCEPT !.key = k, !.seen = @ \cup {k}, !.owed = @ \ {k}]
    BY <1>6 DEF Next1
  <2>2. k # Nil => TravOK(tab, [trav EXCEPT !.key = k, !.seen = @ \cup {k}, !.owed = @ \ {k}])
    <3>1. CASE trav.moved
      <4> SUFFICES ASSUME k # Nil
                   PROVE TravOK(tab, [trav EXCEPT !.key = k, !.seen = @ \cup {k}, !.owed = @ \ {k}])
        OBVIOUS
      <4>1. k \in Keys
        BY NextKey DEF TravOK, Trav
      <4> HIDE DEF k
      <4> QED
        BY <3>1, <4>1 DEF TravOK, Trav
    <3>2. CASE ~trav.moved
      BY <2>1, <3>2, TravNext
    <3> QED
      BY <3>1, <3>2
  <2> HIDE DEF k
  <2>3. TravOK(tab', trav')
    <3>1. TravOK(tab, Idle)
      BY DEF Idle, TravOK, Trav
    <3> QED
      BY <2>1, <2>2, <3>1
  <2> QED
    BY <2>1, <2>3, StepInv DEF IsMap, NommSound
<1>7. ASSUME UNCHANGED vars PROVE TableInv'
  BY <1>7, StepInv DEF vars, IsMap, NommSound
<1> QED
  BY <1>1, <1>2, <1>3, <1>4, <1>5, <1>6, <1>7 DEF Next

---------------------------------------------------------------------------
(* The theorems *)

LEMMA Invariant == Spec => []TableInv
  BY InitInv, NextInv, PTL DEF Spec

\* The array part, the hash part with Brent's variation, its rehashes and the
\* pushes of set_int, and clear_weak_entries are a finite map, whatever the hash
\* function, the keys and the sizes.
THEOREM TableIsMap == Spec => []IsMap
<1>1. TableInv => IsMap
  BY DEF TableInv
<1> QED
  BY <1>1, Invariant, PTL

\* The sizes that a rehash chooses hold every entry and the new key: the reinsertion
\* needs no rehash of its own, and neither does the store that follows.
THEOREM RehashAlwaysFits == Spec => []RehashFits
<1>1. TableInv => RehashFits
  BY DEF TableInv, TypeOK, TabOK, Shape, RehashFits
<1> QED
  BY <1>1, Invariant, PTL

\* meta_fast never hides a metamethod that is there.
THEOREM NommIsSound == Spec => []NommSound
<1>1. TableInv => NommSound
  BY DEF TableInv
<1> QED
  BY <1>1, Invariant, PTL

\* next returns each key once, over stores to present keys and the clearing of
\* weak entries, and leaves out none that is still there, unless the array part
\* grows while the traversal is in the hash part.
THEOREM TraversalEachOnce == Spec => []EachOnce
<1>1. TableInv => EachOnce
  BY TravNext DEF TableInv, TypeOK, EachOnce
<1> QED
  BY <1>1, Invariant, PTL

---------------------------------------------------------------------------
(* The length *)

LEMMA Middle ==
    ASSUME NEW a \in Nat, NEW b \in Nat, b - a > 1
    PROVE  (a + b) \div 2 \in Nat /\ a < (a + b) \div 2 /\ (a + b) \div 2 < b
OBVIOUS

\* One step of the binary search on r, where f searches the halves.
Half(f, t, r) ==
    IF r[2] - r[1] <= 1 THEN r[1]
    ELSE IF get_int(t, (r[1] + r[2]) \div 2) = Nil THEN f[<<r[1], (r[1] + r[2]) \div 2>>]
    ELSE f[<<(r[1] + r[2]) \div 2, r[2]>>]

\* The pairs of numbers up to hi that are no more than n apart.
Pairs(hi, n) == {r \in (0 .. hi) \X (0 .. hi) : r[2] - r[1] <= n}

IsSearch(f, t, hi, n) == f = [r \in Pairs(hi, n) |-> Half(f, t, r)]

\* The search is a function of the pair.
LEMMA BorderDef ==
    ASSUME NEW t, NEW lo, NEW hi \in Nat
    PROVE  \E f : /\ \A r \in (0 .. hi) \X (0 .. hi) : f[r] = Half(f, t, r)
                  /\ Border(t, lo, hi) = f[<<lo, hi>>]
<1> DEFINE Bad == {n \in Nat : ~\E f : IsSearch(f, t, hi, n)}
<1>1. Bad = {}
  <2> SUFFICES ASSUME Bad # {} PROVE FALSE
    OBVIOUS
  <2>1. PICK n \in Bad : \A m \in Bad : ~(m < n)
    BY LeastIndex, Bad \in SUBSET Nat
  <2>2. n # 0
    <3> SUFFICES ASSUME n = 0 PROVE FALSE
      OBVIOUS
    <3> DEFINE f == [r \in Pairs(hi, 0) |-> r[1]]
    <3>1. \A r \in Pairs(hi, 0) : Half(f, t, r) = r[1]
      BY DEF Half, Pairs
    <3>2. f = [r \in Pairs(hi, 0) |-> Half(f, t, r)]
      BY <3>1
    <3> HIDE DEF f
    <3>3. IsSearch(f, t, hi, 0)
      BY <3>2 DEF IsSearch
    <3> QED
      BY <3>3, <2>1
  <2> DEFINE m == n - 1
  <2>3. m \in Nat /\ m < n /\ n = m + 1
    BY <2>1, <2>2
  <2> HIDE DEF m
  <2>4. PICK f : IsSearch(f, t, hi, m)
    BY <2>1, <2>3
  <2> DEFINE g == [r \in Pairs(hi, n) |-> Half(f, t, r)]
  <2>5. ASSUME NEW r \in Pairs(hi, m) PROVE f[r] = g[r]
    <3>1. r \in Pairs(hi, n)
      BY <2>3 DEF Pairs
    <3> QED
      BY <3>1, <2>4 DEF IsSearch
  <2>6. ASSUME NEW r \in Pairs(hi, n) PROVE Half(f, t, r) = Half(g, t, r)
    <3> DEFINE a == r[1]
    <3> DEFINE b == r[2]
    <3> DEFINE c == (r[1] + r[2]) \div 2
    <3>1. a \in 0 .. hi /\ b \in 0 .. hi /\ b - a <= n
      BY DEF Pairs
    <3>2. CASE b - a <= 1
      BY <3>2 DEF Half
    <3>3. CASE ~(b - a <= 1)
      <4>1. c \in Nat /\ a < c /\ c < b
        <5> HIDE DEF a, b
        <5>1. b - a > 1 /\ a \in Nat /\ b \in Nat
          BY <3>1, <3>3
        <5>2. c = (a + b) \div 2
          BY DEF a, b
        <5> HIDE DEF c
        <5> QED
          BY <5>1, <5>2, Middle
      <4> HIDE DEF a, b, c, g
      <4>2. <<a, c>> \in Pairs(hi, m) /\ <<c, b>> \in Pairs(hi, m)
        BY <2>3, <3>1, <4>1 DEF Pairs
      <4>3. f[<<a, c>>] = g[<<a, c>>] /\ f[<<c, b>>] = g[<<c, b>>]
        BY <2>5, <4>2
      <4> QED
        BY <3>3, <4>3 DEF Half, a, b, c
    <3> QED
      BY <3>2, <3>3
  <2>7. g = [r \in Pairs(hi, n) |-> Half(g, t, r)]
    BY <2>6
  <2> HIDE DEF g
  <2>8. IsSearch(g, t, hi, n)
    BY <2>7 DEF IsSearch
  <2> QED
    BY <2>1, <2>8
<1> DEFINE w == CHOOSE f : f = [r \in (0 .. hi) \X (0 .. hi) |-> Half(f, t, r)]
<1>2. Pairs(hi, hi) = (0 .. hi) \X (0 .. hi)
  BY DEF Pairs
<1>3. w = [r \in (0 .. hi) \X (0 .. hi) |-> Half(w, t, r)]
  <2>1. \E f : f = [r \in (0 .. hi) \X (0 .. hi) |-> Half(f, t, r)]
    <3>1. PICK f : IsSearch(f, t, hi, hi)
      BY <1>1
    <3>2. f = [r \in (0 .. hi) \X (0 .. hi) |-> Half(f, t, r)]
      BY <1>2, <3>1 DEF IsSearch
    <3> QED
      BY <3>2
  <2> QED
    BY <2>1
<1>4. Border(t, lo, hi) = w[<<lo, hi>>]
  BY DEF Border, Half
<1> HIDE DEF w
<1>5. \A r \in (0 .. hi) \X (0 .. hi) : w[r] = Half(w, t, r)
  BY <1>3
<1> QED
  BY <1>4, <1>5

IsBorder(t, r) ==
    /\ r = 0 \/ get_int(t, r) # Nil
    /\ get_int(t, r + 1) = Nil

\* The binary search ends at a border.
LEMMA BorderFound ==
    ASSUME NEW t, NEW lo \in Nat, NEW hi \in Nat, lo < hi,
           lo = 0 \/ get_int(t, lo) # Nil, get_int(t, hi) = Nil
    PROVE  IsBorder(t, Border(t, lo, hi))
<1>1. PICK f : /\ \A r \in (0 .. hi) \X (0 .. hi) : f[r] = Half(f, t, r)
               /\ Border(t, lo, hi) = f[<<lo, hi>>]
  BY BorderDef
<1> DEFINE Open(a, b) == a < b /\ (a = 0 \/ get_int(t, a) # Nil) /\ get_int(t, b) = Nil
<1> DEFINE Bad == {d \in Nat : \E a, b \in 0 .. hi : b - a = d /\ Open(a, b) /\ ~IsBorder(t, f[<<a, b>>])}
<1>2. Bad = {}
  <2> SUFFICES ASSUME Bad # {} PROVE FALSE
    OBVIOUS
  <2>1. PICK d \in Bad : \A e \in Bad : ~(e < d)
    BY LeastIndex, Bad \in SUBSET Nat
  <2>2. PICK a \in 0 .. hi, b \in 0 .. hi : b - a = d /\ Open(a, b) /\ ~IsBorder(t, f[<<a, b>>])
    BY <2>1
  <2> DEFINE c == (a + b) \div 2
  <2>3. f[<<a, b>>] = IF b - a <= 1 THEN a
                      ELSE IF get_int(t, c) = Nil THEN f[<<a, c>>] ELSE f[<<c, b>>]
    BY <1>1, <2>2 DEF Half
  <2>4. CASE b - a <= 1
    <3>1. b = a + 1
      BY <2>2, <2>4
    <3> QED
      BY <2>2, <2>3, <2>4, <3>1 DEF IsBorder
  <2>5. CASE ~(b - a <= 1)
    <3>1. c \in Nat /\ a < c /\ c < b
      BY <2>5, Middle
    <3> HIDE DEF c
    <3>2. c \in 0 .. hi /\ c - a \in Nat /\ b - c \in Nat /\ c - a < d /\ b - c < d
      BY <2>2, <3>1
    <3>3. c - a \notin Bad /\ b - c \notin Bad
      <4> HIDE DEF Bad
      <4> QED
        BY <2>1, <3>2
    <3>4. CASE get_int(t, c) = Nil
      <4>1. Open(a, c)
        BY <2>2, <3>1, <3>4
      <4> HIDE DEF Open
      <4>2. IsBorder(t, f[<<a, c>>])
        BY <3>2, <3>3, <4>1
      <4> QED
        BY <2>2, <2>3, <2>5, <3>4, <4>2
    <3>5. CASE get_int(t, c) # Nil
      <4>1. Open(c, b)
        BY <2>2, <3>1, <3>5
      <4> HIDE DEF Open
      <4>2. IsBorder(t, f[<<c, b>>])
        BY <3>2, <3>3, <4>1
      <4> QED
        BY <2>2, <2>3, <2>5, <3>5, <4>2
    <3> QED
      BY <3>4, <3>5
  <2> QED
    BY <2>4, <2>5
<1>3. hi - lo \in Nat /\ lo \in 0 .. hi /\ hi \in 0 .. hi /\ Open(lo, hi)
  OBVIOUS
<1> HIDE DEF Open
<1>4. IsBorder(t, f[<<lo, hi>>])
  BY <1>2, <1>3
<1> QED
  BY <1>1, <1>4

\* No integer is a key that is not in the array part if there is no hash part.
LEMMA NoHashPart ==
    ASSUME NEW t, TabOK(t), ~has_hpart(t), NEW x \in Nat, x >= t.asize
    PROVE  get_int(t, x) = Nil
<1>1. ~InArray(t, x)
  BY SizeNat DEF InArray, TabOK
<1> QED
  BY <1>1 DEF get_int, get, FindNode

\* From a key that is in use, doubling finds a number that is not a key.
LEMMA LenHashIs ==
    ASSUME NEW t, NEW top \in Nat, top = 0 \/ get_int(t, top) # Nil
    PROVE  IsBorder(t, len_hash(t, top))
<1> DEFINE m(d) == (top + 1) * 2^d
<1> DEFINE Fine(d) == get_int(t, m(d)) = Nil /\ \A e \in 0 .. d - 1 : get_int(t, m(e)) # Nil
<1> DEFINE Z == {d \in 0 .. 30 : get_int(t, m(d)) = Nil}
<1>1. \A d \in 0 .. 32 : m(d) \in Nat /\ 2^d \in Nat /\ m(d) >= 2^d
  <2>1. \A x \in Nat : (top + 1) * x \in Nat /\ (top + 1) * x >= x
    <3> SUFFICES ASSUME NEW x \in Nat PROVE (top + 1) * x \in Nat /\ (top + 1) * x >= x
      OBVIOUS
    <3>1. top * x \in Nat
      OBVIOUS
    <3>2. (top + 1) * x = top * x + x
      OBVIOUS
    <3> QED
      BY <3>1, <3>2
  <2> QED
    BY <2>1, PowPositive
<1>2. Z # {}
  <2>1. PICK c \in 0 .. 30 : c = 28
    OBVIOUS
  <2>2. m(c) \in Nat /\ m(c) >= 2^c /\ 2^c \in Nat
    BY <1>1, c \in 0 .. 32
  <2>3. 2^c = 2^28
    BY <2>1
  <2> DEFINE x == m(c)
  <2> HIDE DEF x
  <2>4. x \notin Ints
    <3> SUFFICES ASSUME x \in Ints PROVE FALSE
      OBVIOUS
    <3>1. x \in Nat /\ x - 1 < 2^27
      BY IntsSmall
    <3>2. x >= 2^28
      BY <2>2, <2>3 DEF x
    <3> QED
      BY SMT, <3>1, <3>2
  <2>5. get_int(t, x) = Nil
    BY <2>4 DEF get_int
  <2> QED
    BY <2>5 DEF x
<1>3. PICK z \in Z : \A e \in Z : ~(e < z)
  BY <1>2, LeastIndex, Z \in SUBSET Nat
<1>4. z \in 0 .. 30 /\ Fine(z)
  BY <1>3
<1> DEFINE d == CHOOSE d \in 0 .. 30 : Fine(d)
<1>5. d \in 0 .. 30 /\ Fine(d)
  <2> HIDE DEF Fine
  <2> QED
    BY <1>4
<1> DEFINE lo == IF d = 0 THEN top ELSE m(d - 1)
<1>6. len_hash(t, top) = Border(t, lo, m(d))
  BY DEF len_hash
<1> HIDE DEF d
<1>7. lo \in Nat /\ m(d) \in Nat /\ lo < m(d) /\ (lo = 0 \/ get_int(t, lo) # Nil) /\ get_int(t, m(d)) = Nil
  <2>1. CASE d = 0
    <3>1. m(0) = top + 1
      BY 2^0 = 1
    <3> QED
      BY <1>5, <2>1, <3>1
  <2>2. CASE d # 0
    <3> DEFINE e == d - 1
    <3>1. e \in 0 .. 31 /\ d = e + 1 /\ e \in 0 .. d - 1 /\ e \in 0 .. 32 /\ d \in 0 .. 32
      BY <1>5, <2>2
    <3>2. lo = m(e)
      BY <2>2
    <3>3. get_int(t, m(e)) # Nil /\ get_int(t, m(d)) = Nil
      BY <1>5, <3>1
    <3> HIDE DEF e
    <3>4. 2^d = 2 * 2^e /\ 2^e \in Nat /\ 2^e > 0
      BY <3>1, PowDouble, PowPositive
    <3>5. m(d) = 2 * m(e)
      <4>1. \A x \in Nat : (top + 1) * (2 * x) = 2 * ((top + 1) * x)
        OBVIOUS
      <4> QED
        BY <3>4, <4>1
    <3>6. m(e) \in Nat /\ m(e) >= 2^e /\ m(d) \in Nat
      BY <1>1, <3>1
    <3> HIDE DEF m, lo
    <3>7. m(e) < m(d)
      BY <3>4, <3>5, <3>6
    <3> QED
      BY <3>2, <3>3, <3>6, <3>7
  <2> QED
    BY <2>1, <2>2
<1> HIDE DEF lo, m
<1> QED
  BY <1>6, <1>7, BorderFound

LEMMA LenIs ==
    ASSUME NEW t, TabOK(t)
    PROVE  IsBorder(t, len(t))
<1> DEFINE hi == IF t.asize = 0 THEN 0 ELSE t.asize - 1
<1>1. t.asize \in Nat /\ hi \in Nat /\ (hi = 0 \/ hi = t.asize - 1) /\ hi + 1 >= t.asize
  BY SizeNat DEF TabOK
<1>2. len(t) = IF hi > 0 /\ t.array[hi] = Nil THEN Border(t, 0, hi)
               ELSE IF ~has_hpart(t) THEN hi ELSE len_hash(t, hi)
  BY DEF len
<1>3. hi > 0 => hi < t.asize /\ hi \in 0 .. t.asize - 1
  BY <1>1
<1> HIDE DEF hi
<1>4. hi > 0 => get_int(t, hi) = IF hi \in Ints THEN t.array[hi] ELSE Nil
  BY <1>3 DEF get_int, get, InArray
<1>5. CASE hi > 0 /\ t.array[hi] = Nil
  <2>1. get_int(t, hi) = Nil
    BY <1>4, <1>5
  <2> QED
    BY <1>1, <1>2, <1>5, <2>1, BorderFound
<1>6. CASE ~(hi > 0 /\ t.array[hi] = Nil)
  <2>1. hi = 0 \/ get_int(t, hi) # Nil
    BY <1>1, <1>3, <1>4, <1>6 DEF TabOK, Shape
  <2>2. CASE has_hpart(t)
    BY <1>1, <1>2, <1>6, <2>1, <2>2, LenHashIs
  <2>3. CASE ~has_hpart(t)
    <3>1. get_int(t, hi + 1) = Nil
      BY <1>1, <2>3, NoHashPart
    <3> QED
      BY <1>2, <1>6, <2>1, <2>3, <3>1 DEF IsBorder
  <2> QED
    BY <2>2, <2>3
<1> QED
  BY <1>5, <1>6

\* The length is a border: the binary searches and the doubling end where a key is
\* in use and the next is not, or at 0.
THEOREM LengthIsBorder == Spec => []LenIsBorder
<1>1. TableInv => LenIsBorder
  BY LenIs DEF TableInv, TypeOK, LenIsBorder, IsBorder
<1> QED
  BY <1>1, Invariant, PTL

\* What get says of the table is the map beside it.
LEMMA LayoutIs ==
    ASSUME TableInv
    PROVE  map = [k \in Keys |-> get(tab, k)]
  BY DEF TableInv, TypeOK, IsMap

\* Each step of the layout is a step of the map, or none.
LEMMA StepMaps ==
    ASSUME TableInv, TableInv', [Next]_vars
    PROVE  [Layout!Next]_([k \in Keys |-> get(tab, k)])
<1> DEFINE now == [k \in Keys |-> get(tab, k)]
<1>1. map = now /\ map' = now'
  <2>1. map = [k \in Keys |-> get(tab, k)]
    BY LayoutIs
  <2>2. map' = [k \in Keys |-> get(tab, k)']
    BY DEF TableInv, TypeOK, IsMap
  <2> QED
    BY <2>1, <2>2
<1>2. CASE UNCHANGED map
  BY <1>1, <1>2
<1>3. ASSUME NEW k \in Keys, NEW v \in Vals \cup {Nil}, map' = [map EXCEPT ![k] = v]
      PROVE  Layout!Next
  <2>1. now' = [now EXCEPT ![k] = v]
    BY <1>1, <1>3
  <2>2. Layout!Store(k, v)
    BY <2>1 DEF Layout!Store
  <2> QED
    BY <1>3, <2>2 DEF Layout!Next
<1>4. ASSUME NEW D \in SUBSET (Objs \cup Vals), ClearWeak(D)
      PROVE  Layout!Next
  <2>1. map' = [k \in Keys |-> IF k \in D \/ map[k] \in D THEN Nil ELSE map[k]]
    BY <1>4 DEF ClearWeak, Map!Drop
  <2>2. now' = [k \in Keys |-> IF k \in D \/ now[k] \in D THEN Nil ELSE now[k]]
    BY <1>1, <2>1
  <2>3. Layout!Drop(D)
    BY <2>2 DEF Layout!Drop
  <2> QED
    BY <1>4, <2>3 DEF Layout!Next
<1>5. CASE \E k \in Keys, v \in Vals \cup {Nil} : Set(k, v)
  BY <1>3, <1>5 DEF Set, Map!Store
<1>6. CASE \E k \in Ints, v \in Vals \cup {Nil} : SetInt(k, v)
  BY <1>3, <1>6 DEF SetInt, Map!Store, Keys
<1>7. CASE \E D \in SUBSET (Objs \cup Vals) : ClearWeak(D)
  BY <1>4, <1>7
<1>8. CASE \E s \in Strs : MetaFast(s)
  BY <1>2, <1>8 DEF MetaFast
<1>9. CASE Begin \/ Next1 \/ UNCHANGED vars
  BY <1>2, <1>9 DEF Begin, Next1, vars
<1> QED
  BY <1>5, <1>6, <1>7, <1>8, <1>9 DEF Next

\* The array part, the hash part and everything that moves between them implement
\* the finite map of TableMap, whatever the hash function and the sizes.
THEOREM TableImplements == Spec => ImplementsMap
<1>1. Init => Layout!Init
  <2> SUFFICES ASSUME Init PROVE Layout!Init
    OBVIOUS
  <2>1. TableInv
    BY InitInv
  <2>2. map = [k \in Keys |-> Nil]
    BY DEF Init, Map!Init
  <2> QED
    BY <2>1, <2>2, LayoutIs DEF Layout!Init
<1>2. TableInv /\ TableInv' /\ [Next]_vars => [Layout!Next]_([k \in Keys |-> get(tab, k)])
  BY StepMaps
<1> QED
  BY <1>1, <1>2, Invariant, PTL DEF Spec, ImplementsMap, Layout!Spec
=============================================================================
