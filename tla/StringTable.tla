---------------------------- MODULE StringTable ----------------------------
(***************************************************************************)
(* What string interning promises: equal strings share one id for as long  *)
(* as they live, an id is never given out twice, and only a collection     *)
(* takes a string away (the empty string never).                           *)
(***************************************************************************)
EXTENDS Naturals

CONSTANTS Strings, EmptyStr

VARIABLES
    ids,    \* the ids of the live strings, by content
    used    \* how many ids were given out

tableVars == <<ids, used>>

TableInit ==
    /\ ids = [s \in {EmptyStr} |-> 1]
    /\ used = 1

\* Interning a live string answers its id and changes nothing.
Add(s) ==
    /\ s \in Strings \ DOMAIN ids
    /\ used' = used + 1
    /\ ids' = [x \in DOMAIN ids \cup {s} |-> IF x = s THEN used + 1 ELSE ids[x]]

Free(s) ==
    /\ s \in DOMAIN ids \ {EmptyStr}
    /\ ids' = [x \in DOMAIN ids \ {s} |-> ids[x]]
    /\ UNCHANGED used

TableNext == \E s \in Strings : Add(s) \/ Free(s)

TableSpec == TableInit /\ [][TableNext]_tableVars
=============================================================================
