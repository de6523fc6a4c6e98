-------------------------- MODULE MCGcFinalizers --------------------------
(* Small instances of GcFinalizers for TLC.                                *)
EXTENDS GcFinalizers

\* Between two cycles: a proxy is only held by its own metatable, which is
\* weak and in _G (u = newproxy(true); mt = getmetatable(u); mt[1] = u;
\* u = nil).
ProxyInWeakTable(u, mt) ==
    /\ alloc = {Globals, Main, mt, u}
    /\ refs = [o \in Obj |-> IF o \in {Globals, u} THEN {mt}
                             ELSE IF o = mt THEN {u} ELSE {}]
    /\ marked = {} /\ color = [o \in Obj |-> "W0"]
    /\ gcState = "Pause" /\ cw = 0
    /\ gray = {} /\ grayagain = {} /\ gcweak = {}
    /\ pool = 1 /\ swept = {} /\ full = "no" /\ chain = <<Main>>
    /\ mmudata = <<>> /\ finalized = {} /\ calls = <<>> /\ ran = {}
    /\ forced = FALSE /\ misjudged = FALSE

MCInit == FinInit \/ \E u \in UData, mt \in Weak \cap GcMeta : ProxyInWeakTable(u, mt)

MCSpec == MCInit /\ [][FinNext]_allVars

\* Bound: nothing is asked of the states that follow a lapse.
BeforeLapse == ~forced /\ ~misjudged
=============================================================================
