----------------------------- MODULE TableMap -----------------------------
(***************************************************************************)
(* What a Lua table promises to its users: a finite map.  The layout that  *)
(* implements it is in LuaTable.                                           *)
(***************************************************************************)
CONSTANTS Keys, Nil,
    Objs, Vals  \* what the collector frees

VARIABLE map

Init == map = [k \in Keys |-> Nil]

\* t[k] = v.
Store(k, v) == map' = [map EXCEPT ![k] = v]

\* The collector drops the entries of a weak table with an object of D.
Drop(D) == map' = [k \in Keys |-> IF k \in D \/ map[k] \in D THEN Nil ELSE map[k]]

Next ==
    \/ \E k \in Keys, v \in Vals \cup {Nil} : Store(k, v)
    \/ \E D \in SUBSET (Objs \cup Vals) : Drop(D)

Spec == Init /\ [][Next]_map
===========================================================================
