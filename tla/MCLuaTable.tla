---------------------------- MODULE MCLuaTable ----------------------------
(* Small instances of LuaTable. *)
EXTENDS LuaTable, TLC

CONSTANTS s, o

\* The integers 1 .. 3, a string and an object, which share the nodes of a hash
\* part of up to four in three ways.
MCHashes == {
    (1 :> 0) @@ (2 :> 1) @@ (3 :> 0) @@ (s :> 0) @@ (o :> 1),
    (1 :> 3) @@ (2 :> 2) @@ (3 :> 1) @@ (s :> 1) @@ (o :> 3),
    (1 :> 0) @@ (2 :> 2) @@ (3 :> 2) @@ (s :> 3) @@ (o :> 2)}
MCSizes == {<<0, 0>>, <<2, 1>>, <<2, 2>>}

\* The values are only stored and compared.
Symmetry == Permutations(Vals)

===========================================================================
