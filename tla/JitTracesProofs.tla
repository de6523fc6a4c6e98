-------------------------- MODULE JitTracesProofs --------------------------
(***************************************************************************)
(* The properties of JitTraces for any program, any number of traces and   *)
(* exits and any parameters of the compiler.                               *)
(*                                                                         *)
(* They are inductive only together with what a recording may rely on      *)
(* while it runs (RecOK): its number stays free, the header of a root      *)
(* stays unpatched, and the parent of a side trace stays as it was unless  *)
(* everything is flushed; and with what jit.flush leaves behind (LeftOK):  *)
(* headers that stay patched and never get a trace again.                  *)
(***************************************************************************)
EXTENDS JitTraces, CountLemmas

TraceRec ==
    [start : Headers, root : TraceNo \cup {0}, link : TraceNo \cup {0}, nchild : Nat,
     count : [ExitNo -> Nat], side : [ExitNo -> TraceNo \cup {0}]]

Recording ==
    [no : TraceNo, start : Headers, parent : TraceNo \cup {0}, exitno : ExitNo,
     root : TraceNo \cup {0}]

JitTypeOK ==
    /\ op \in [Headers -> {"hot", "inert", "jit"}]
    /\ opd \in [Headers -> TraceNo \cup {0}]
    /\ jfori \subseteq ForL
    /\ trace \in [TraceNo -> TraceRec \cup {NoTrace}]
    /\ rec \in Recording \cup {NoRec}
    /\ left \subseteq Headers

\* What a recording finds when it stops.
RecOK ==
    rec # NoRec =>
        /\ ~Live(rec.no)
        /\ rec.parent = 0 => op[rec.start] = "hot" /\ ~HasRootTrace(rec.start)
        /\ rec.parent # 0 =>
             \/ \A n \in TraceNo : ~Live(n)         \* flushed in the meantime
             \/ /\ Live(rec.parent) /\ IsRoot(rec.root) /\ rec.root = RootOf(rec.parent)
                /\ trace[rec.parent].side[rec.exitno] = 0

\* A header that jit.flush left is patched, and no root trace starts at it.
LeftOK == \A h \in left : op[h] = "jit" /\ ~HasRootTrace(h)

JitInv == JitTypeOK /\ RecOK /\ LeftOK /\ EntryLive /\ LinksLive /\ CompiledOnce

---------------------------------------------------------------------------
(* The registry *)

\* trace_findfree answers a free number.
LEMMA FindFreeIsFree ==
  ASSUME JitTypeOK, FreeNos # {}
  PROVE  FindFree \in TraceNo /\ ~Live(FindFree)
<1>1. FreeNos \in SUBSET Nat
  BY JitAssumption DEF FreeNos, TraceNo
<1>2. \E k \in FreeNos : \A j \in FreeNos : ~(j < k)
  BY <1>1, LeastIndex
<1>3. \E k \in FreeNos : \A j \in FreeNos : k <= j
  BY <1>1, <1>2
<1>4. FindFree \in FreeNos
  BY <1>3 DEF FindFree
<1> QED
  BY <1>4 DEF FreeNos, Live

\* A trace that is registered is a trace.
LEMMA LiveIsTrace ==
  ASSUME JitTypeOK, NEW n, Live(n)
  PROVE  n \in TraceNo /\ trace[n] \in TraceRec
  BY DEF JitTypeOK, Live

\* A record with a root of at least 0 is registered.
LEMMA TraceIsLive ==
  ASSUME NEW t \in TraceRec
  PROVE  t # NoTrace
<1>1. t.root \in TraceNo \cup {0}
  BY DEF TraceRec
<1>2. t.root \in Nat
  BY <1>1, JitAssumption DEF TraceNo
<1>3. NoTrace.root = -1
  BY DEF NoTrace
<1> QED
  BY <1>2, <1>3

\* The record of a finished trace is well typed.
LEMMA NewTraceType ==
  ASSUME NEW h \in Headers, NEW root \in TraceNo \cup {0}, NEW link \in TraceNo \cup {0}
  PROVE  NewTrace(h, root, link) \in TraceRec
<1>1. [e \in ExitNo |-> 0] \in [ExitNo -> Nat] /\ [e \in ExitNo |-> 0] \in [ExitNo -> TraceNo \cup {0}]
  OBVIOUS
<1> QED
  BY <1>1 DEF NewTrace, TraceRec

\* At the start nothing is recorded or compiled.
LEMMA InitJitInv == JitInit => JitInv
<1> SUFFICES ASSUME JitInit PROVE JitInv
  OBVIOUS
<1>1. \A n \in TraceNo : ~Live(n)
  BY DEF JitInit, Live
<1>2. JitTypeOK
  BY DEF JitInit, JitTypeOK
<1>3. RecOK
  BY DEF JitInit, RecOK
<1>4. EntryLive
  BY JitAssumption DEF JitInit, EntryLive
<1>5. LinksLive /\ CompiledOnce
  BY <1>1 DEF LinksLive, CompiledOnce, IsRoot
<1>6. LeftOK
  BY DEF JitInit, LeftOK
<1> QED
  BY <1>2, <1>3, <1>4, <1>5, <1>6 DEF JitInv

---------------------------------------------------------------------------
(* Hot headers and aborts *)

\* trace_abort changes at most the header: it is blacklisted.
LEMMA AbortRootOp ==
  ASSUME NEW h, NEW e, AbortRoot(h, e)
  PROVE  op' = op \/ op' = [op EXCEPT ![h] = "inert"]
  BY DEF AbortRoot, PenaltyPc, Blacklisted

\* Blacklisting a header that counts disturbs no trace.
LEMMA BlacklistKeeps ==
  ASSUME JitInv, NEW h \in Headers, op[h] = "hot",
         op' = op \/ op' = [op EXCEPT ![h] = "inert"],
         UNCHANGED <<opd, jfori, trace, left>>, rec' \in Recording \cup {NoRec}
  PROVE  JitTypeOK' /\ LeftOK' /\ EntryLive' /\ LinksLive' /\ CompiledOnce'
<1>0. JitTypeOK /\ LeftOK /\ EntryLive /\ LinksLive /\ CompiledOnce
  BY DEF JitInv
<1>1. \A x \in Headers : op'[x] = op[x] \/ (x = h /\ op'[x] = "inert")
  BY <1>0 DEF JitTypeOK
<1>2. JitTypeOK'
  BY <1>0 DEF JitTypeOK
<1>3. EntryLive'
  BY <1>0, <1>1, JitAssumption DEF EntryLive, IsRoot, Live
<1>4. LinksLive'
  BY <1>0 DEF LinksLive, StaleNos, IsRoot, RootOf, Live
<1>5. \A n \in TraceNo : IsRoot(n) => trace[n].start \in Headers
  BY <1>0, LiveIsTrace DEF IsRoot, TraceRec
<1>6. CompiledOnce'
  BY <1>0, <1>1, <1>5 DEF CompiledOnce, IsRoot, Live
<1>7. LeftOK'
  BY <1>0, <1>1 DEF JitTypeOK, LeftOK, HasRootTrace, IsRoot, Live
<1> QED
  BY <1>2, <1>3, <1>4, <1>6, <1>7

\* A hot loop or call starts a root trace under the lowest free number.
LEMMA HotStartKeeps ==
  ASSUME JitInv, NEW h \in Headers, HotStart(h)
  PROVE  JitInv'
<1>0. JitTypeOK /\ op[h] = "hot" /\ FreeNos # {}
  BY DEF JitInv, HotStart, CanRecord, HotCount
<1>1. FindFree \in TraceNo /\ ~Live(FindFree)
  BY <1>0, FindFreeIsFree
<1>2. 0 \in ExitNo
  BY JitAssumption DEF ExitNo
<1>3. rec' = [no |-> FindFree, start |-> h, parent |-> 0, exitno |-> 0, root |-> 0]
  BY DEF HotStart
<1>4. rec' \in Recording
  BY <1>1, <1>2, <1>3 DEF Recording
<1>5. JitTypeOK' /\ LeftOK' /\ EntryLive' /\ LinksLive' /\ CompiledOnce'
  BY <1>0, <1>4, BlacklistKeeps DEF HotStart
<1>6. RecOK'
  <2>1. rec'.no = FindFree /\ rec'.start = h /\ rec'.parent = 0
    BY <1>3
  <2>2. ~Live(rec.no)'
    BY <1>1, <2>1 DEF HotStart, Live
  <2>3. op'[h] = "hot" /\ ~HasRootTrace(h)'
    BY <1>0 DEF HotStart, CanRecord, HasRootTrace, IsRoot, Live
  <2> QED
    BY <2>1, <2>2, <2>3 DEF RecOK
<1> QED
  BY <1>5, <1>6 DEF JitInv

\* A header that is not recorded: its prototype is not compiled, or the set-up
\* fails and is penalised.
LEMMA HotNoJitKeeps ==
  ASSUME JitInv, NEW h \in Headers, HotNoJit(h) \/ HotSetupFails(h)
  PROVE  JitInv'
<1>1. op' = op \/ op' = [op EXCEPT ![h] = "inert"]
  BY AbortRootOp DEF HotNoJit, HotSetupFails
<1>2. op[h] = "hot" /\ rec = NoRec /\ UNCHANGED <<opd, jfori, trace, rec, left>>
  BY DEF HotNoJit, HotSetupFails, CanRecord, HotCount
<1>3. JitTypeOK' /\ LeftOK' /\ EntryLive' /\ LinksLive' /\ CompiledOnce'
  BY <1>1, <1>2, BlacklistKeeps DEF JitInv, JitTypeOK
<1>4. RecOK'
  BY <1>2 DEF RecOK
<1> QED
  BY <1>3, <1>4 DEF JitInv

\* An aborted root recording penalises its own header, which still counts.
LEMMA RecAbortKeeps ==
  ASSUME JitInv, NEW e, RecAbort(e)
  PROVE  JitInv'
<1>1. /\ rec \in Recording /\ rec' = NoRec
      /\ UNCHANGED <<opd, jfori, trace, left>>
  BY DEF JitInv, JitTypeOK, RecAbort
<1>2. JitTypeOK' /\ LeftOK' /\ EntryLive' /\ LinksLive' /\ CompiledOnce'
  <2>1. CASE rec.parent = 0
    <3>1. rec.start \in Headers /\ op[rec.start] = "hot"
      BY <1>1, <2>1 DEF JitInv, RecOK, Recording, RecAbort
    <3>2. op' = op \/ op' = [op EXCEPT ![rec.start] = "inert"]
      BY <2>1, AbortRootOp DEF RecAbort
    <3> QED
      BY <1>1, <3>1, <3>2, BlacklistKeeps
  <2>2. CASE rec.parent # 0
    <3>1. op' = op
      BY <2>2 DEF RecAbort
    <3> QED
      BY <1>1, <3>1 DEF JitInv, JitTypeOK, LeftOK, EntryLive, LinksLive, CompiledOnce, StaleNos,
                        HasRootTrace, IsRoot, RootOf, Live
  <2> QED
    BY <2>1, <2>2
<1>3. RecOK'
  BY <1>1 DEF RecOK
<1> QED
  BY <1>2, <1>3 DEF JitInv

---------------------------------------------------------------------------
(* Registering a trace *)

\* What a new trace links to: nothing, itself, a registered trace or the
\* number in a header that jit.flush left.
LEMMA LinksAreLive ==
  ASSUME JitInv, rec # NoRec, NEW link \in Links
  PROVE  /\ link \in TraceNo \cup {0}
         /\ link \in {0, rec.no} \/ Live(link) \/ link \in StaleNos
<1>1. rec \in Recording
  BY DEF JitInv, JitTypeOK
<1>2. rec.no \in TraceNo
  BY <1>1 DEF Recording
<1>3. \A h \in Headers : op[h] = "jit" => opd[h] \in TraceNo \cup {0} /\ (Live(opd[h]) \/ opd[h] \in StaleNos)
  BY DEF JitInv, JitTypeOK, EntryLive, IsRoot, StaleNos
<1>4. link \in {0, rec.no} \/ \E h \in Headers : op[h] = "jit" /\ link = opd[h]
  BY DEF Links
<1> QED
  BY <1>2, <1>3, <1>4 DEF Live

\* A finished root trace takes its number and patches its header.
LEMMA StopRootKeeps ==
  ASSUME JitInv, NEW link, StopRoot(link)
  PROVE  JitInv'
<1> DEFINE n0 == rec.no
           h0 == rec.start
           t0 == NewTrace(h0, 0, link)
<1>0. JitTypeOK /\ RecOK /\ LeftOK /\ EntryLive /\ LinksLive /\ CompiledOnce
  BY DEF JitInv
<1>1. rec # NoRec /\ rec \in Recording /\ n0 \in TraceNo /\ h0 \in Headers /\ rec.parent = 0
  BY <1>0 DEF StopRoot, JitTypeOK, Recording
<1>2. ~Live(n0) /\ op[h0] = "hot" /\ ~HasRootTrace(h0)
  BY <1>0, <1>1 DEF RecOK
<1>3. link \in TraceNo \cup {0} /\ (link \in {0, n0} \/ Live(link) \/ link \in StaleNos)
  BY <1>1, LinksAreLive DEF StopRoot
<1>4. t0 \in TraceRec /\ t0 # NoTrace
  BY <1>1, <1>3, NewTraceType, TraceIsLive
<1>5. /\ t0.start = h0 /\ t0.root = 0 /\ t0.link = link
      /\ \A e \in ExitNo : t0.side[e] = 0
  BY DEF NewTrace
<1>6. \A n \in TraceNo : trace'[n] = IF n = n0 THEN t0 ELSE trace[n]
  BY <1>0, <1>1 DEF StopRoot, JitTypeOK
<1>7. \A h \in Headers : /\ op'[h] = IF h = h0 THEN "jit" ELSE op[h]
                         /\ opd'[h] = IF h = h0 THEN n0 ELSE opd[h]
  BY <1>0, <1>1 DEF StopRoot, JitTypeOK
<1>8. \A n : Live(n)' <=> Live(n) \/ n = n0
  BY <1>1, <1>4, <1>6 DEF Live
<1>9. \A n : IsRoot(n)' <=> IsRoot(n) \/ n = n0
  BY <1>1, <1>2, <1>5, <1>6, <1>8 DEF IsRoot, Live
<1>10. JitTypeOK'
  <2>1. trace' \in [TraceNo -> TraceRec \cup {NoTrace}]
    BY <1>0, <1>1, <1>4 DEF StopRoot, JitTypeOK
  <2>2. op' \in [Headers -> {"hot", "inert", "jit"}] /\ opd' \in [Headers -> TraceNo \cup {0}]
    BY <1>0, <1>1 DEF StopRoot, JitTypeOK
  <2> QED
    BY <1>0, <2>1, <2>2 DEF StopRoot, JitTypeOK
<1>11. RecOK'
  BY DEF StopRoot, RecOK
<1>12. EntryLive'
  <2>1. ASSUME NEW h \in Headers \ left', op'[h] = "jit"
        PROVE  IsRoot(opd[h])' /\ trace'[opd'[h]].start = h
    <3>1. CASE h = h0
      BY <1>1, <1>5, <1>6, <1>7, <1>9, <3>1
    <3>2. CASE h # h0
      <4>1. op[h] = "jit" /\ opd'[h] = opd[h] /\ IsRoot(opd[h]) /\ trace[opd[h]].start = h
        BY <1>0, <1>7, <2>1, <3>2 DEF EntryLive, StopRoot
      <4> QED
        BY <1>2, <1>6, <1>9, <4>1 DEF IsRoot, Live
    <3> QED
      BY <3>1, <3>2
  <2>2. \A h \in ForL : h \in jfori' <=> op'[h] = "jit"
    BY <1>0, <1>7, JitAssumption DEF StopRoot, EntryLive
  <2> QED
    BY <2>1, <2>2 DEF EntryLive
<1>13. LinksLive'
  <2> SUFFICES ASSUME NEW n \in TraceNo, Live(n)'
               PROVE  /\ trace'[n].link # 0 => Live(trace[n].link)' \/ trace'[n].link \in StaleNos'
                      /\ IsRoot(RootOf(n))'
                      /\ \A e \in ExitNo : trace'[n].side[e] # 0 =>
                            Live(trace[n].side[e])' /\ RootOf(trace[n].side[e])' = RootOf(n)'
    BY DEF LinksLive
  <2>0. StaleNos' = StaleNos
    BY <1>0, <1>2, <1>7 DEF StopRoot, StaleNos, LeftOK, JitTypeOK
  <2>1. CASE n = n0
    BY <1>1, <1>3, <1>5, <1>6, <1>8, <1>9, <2>0, <2>1 DEF RootOf
  <2>2. CASE n # n0
    <3>1. Live(n) /\ trace'[n] = trace[n]
      BY <1>6, <1>8, <2>2
    <3>2. /\ trace[n].link # 0 => Live(trace[n].link) \/ trace[n].link \in StaleNos
          /\ IsRoot(RootOf(n))
          /\ \A e \in ExitNo : trace[n].side[e] # 0 =>
                Live(trace[n].side[e]) /\ RootOf(trace[n].side[e]) = RootOf(n)
      BY <1>0, <3>1 DEF LinksLive
    <3>3. RootOf(n)' = RootOf(n)
      BY <3>1 DEF RootOf
    <3>4. ASSUME NEW e \in ExitNo, trace[n].side[e] # 0
          PROVE  RootOf(trace[n].side[e])' = RootOf(n)'
      <4>2. Live(trace[n].side[e])
        BY <3>2, <3>4
      <4>3. trace'[trace[n].side[e]] = trace[trace[n].side[e]]
        BY <1>2, <1>6, <4>2 DEF Live
      <4> QED
        BY <3>1, <3>2, <3>3, <3>4, <4>3 DEF RootOf
    <3> QED
      BY <1>8, <1>9, <2>0, <3>1, <3>2, <3>3, <3>4
  <2> QED
    BY <2>1, <2>2
<1>14. CompiledOnce'
  <2>1. \A n \in TraceNo : IsRoot(n) => trace[n].start # h0 /\ trace[n].start \in Headers
    BY <1>0, <1>2, LiveIsTrace DEF HasRootTrace, IsRoot, TraceRec
  <2>2. \A n \in TraceNo : IsRoot(n) => trace'[n] = trace[n]
    BY <1>2, <1>6 DEF IsRoot
  <2> QED
    BY <1>0, <1>1, <1>5, <1>6, <1>7, <1>9, <2>1, <2>2 DEF CompiledOnce
<1>15. LeftOK'
  BY <1>0, <1>2, <1>5, <1>6, <1>7, <1>9 DEF StopRoot, LeftOK, HasRootTrace, IsRoot, JitTypeOK
<1> QED
  BY <1>10, <1>11, <1>12, <1>13, <1>14, <1>15 DEF JitInv

\* The registry after trace_stop of a side trace, field by field: the new
\* trace, the parent with its exit linked, the root with one more child.
LEMMA StopSideTraces ==
  ASSUME JitInv, NEW link, StopSide(link), Live(rec.parent), Live(rec.root)
  PROVE  /\ rec \in Recording /\ ~Live(rec.no)
         /\ IsRoot(rec.root) /\ rec.root = RootOf(rec.parent)
         /\ trace[rec.parent].side[rec.exitno] = 0
         /\ trace' \in [TraceNo -> TraceRec \cup {NoTrace}]
         /\ trace'[rec.no] = NewTrace(rec.start, rec.root, link)
         /\ \A n : Live(n)' <=> Live(n) \/ n = rec.no
         /\ \A n : Live(n) =>
              /\ trace'[n].start = trace[n].start /\ trace'[n].root = trace[n].root
              /\ trace'[n].link = trace[n].link
              /\ trace'[n].nchild = IF n = rec.root THEN trace[n].nchild + 1 ELSE trace[n].nchild
              /\ \A e \in ExitNo : trace'[n].side[e] =
                   IF n = rec.parent /\ e = rec.exitno THEN rec.no ELSE trace[n].side[e]
<1> DEFINE n0 == rec.no
           p == rec.parent
           r == rec.root
           e0 == rec.exitno
           t0 == NewTrace(rec.start, r, link)
           kept == [trace EXCEPT ![n0] = t0]
           linked == [kept EXCEPT ![p].side[e0] = n0, ![p].count[e0] = Done]
           tp == [trace[p] EXCEPT !.side[e0] = n0, !.count[e0] = Done]
           tr == [linked[r] EXCEPT !.nchild = @ + 1]
<1>0. JitTypeOK /\ RecOK
  BY DEF JitInv
<1>1. /\ rec # NoRec /\ rec \in Recording /\ rec.parent # 0
      /\ n0 \in TraceNo /\ p \in TraceNo /\ r \in TraceNo /\ e0 \in ExitNo /\ rec.start \in Headers
  BY <1>0 DEF StopSide, JitTypeOK, Recording, Live
<1>2. ~Live(n0) /\ IsRoot(r) /\ r = RootOf(p) /\ trace[p].side[e0] = 0
  BY <1>0, <1>1 DEF RecOK
<1>3. n0 # p /\ n0 # r
  BY <1>2
<1>4. link \in TraceNo \cup {0}
  BY <1>1, LinksAreLive DEF StopSide
<1>5. t0 \in TraceRec /\ t0 # NoTrace
  BY <1>1, <1>4, NewTraceType, TraceIsLive
<1>6. trace[p] \in TraceRec /\ trace[r] \in TraceRec
  BY <1>0, LiveIsTrace
<1>7. trace' = [linked EXCEPT ![r].nchild = @ + 1]
  BY DEF StopSide, SideOwner
<1>8. \A n \in TraceNo : kept[n] = IF n = n0 THEN t0 ELSE trace[n]
  BY <1>0, <1>1 DEF JitTypeOK
<1>9. kept \in [TraceNo -> TraceRec \cup {NoTrace}]
  BY <1>0, <1>1, <1>5 DEF JitTypeOK
<1>10. /\ DOMAIN linked = TraceNo
       /\ \A n \in TraceNo : linked[n] = IF n = p THEN tp ELSE kept[n]
  BY <1>1, <1>3, <1>8, <1>9
<1>11. Done \in Nat
  BY JitAssumption
<1>12. /\ tp \in TraceRec /\ tp.start = trace[p].start /\ tp.root = trace[p].root
       /\ tp.link = trace[p].link /\ tp.nchild = trace[p].nchild
       /\ \A e \in ExitNo : tp.side[e] = IF e = e0 THEN n0 ELSE trace[p].side[e]
  BY <1>1, <1>6, <1>11 DEF TraceRec
<1> HIDE DEF t0, kept, tp, linked
<1>13. \A n \in TraceNo : trace'[n] = IF n = r THEN tr ELSE linked[n]
  BY <1>1, <1>7, <1>10
<1>14. linked[r] \in TraceRec
  BY <1>1, <1>3, <1>6, <1>8, <1>10, <1>12
<1>15. /\ tr \in TraceRec /\ tr.start = linked[r].start /\ tr.root = linked[r].root
       /\ tr.link = linked[r].link /\ tr.side = linked[r].side /\ tr.nchild = linked[r].nchild + 1
  BY <1>14 DEF TraceRec
<1> HIDE DEF tr
<1>16. trace' \in [TraceNo -> TraceRec \cup {NoTrace}]
  <2>1. trace' = [n \in TraceNo |-> trace'[n]]
    BY <1>7, <1>10 DEF tr
  <2>2. \A n \in TraceNo : trace'[n] \in TraceRec \cup {NoTrace}
    BY <1>9, <1>10, <1>12, <1>13, <1>15
  <2> QED
    BY <2>1, <2>2
<1>17. trace'[n0] = t0
  BY <1>1, <1>3, <1>8, <1>10, <1>13
<1>18. \A n \in TraceNo : n # n0 /\ n # p /\ n # r => trace'[n] = trace[n]
  BY <1>8, <1>10, <1>13
<1>19. trace'[p] # NoTrace /\ trace'[r] # NoTrace
  BY <1>1, <1>10, <1>12, <1>13, <1>15, TraceIsLive
<1>20. \A n : Live(n)' <=> Live(n) \/ n = n0
  BY <1>1, <1>5, <1>17, <1>18, <1>19 DEF Live
<1>21. ASSUME NEW n, Live(n)
       PROVE  /\ trace'[n].start = trace[n].start /\ trace'[n].root = trace[n].root
              /\ trace'[n].link = trace[n].link
              /\ trace'[n].nchild = IF n = r THEN trace[n].nchild + 1 ELSE trace[n].nchild
              /\ \A e \in ExitNo : trace'[n].side[e] =
                   IF n = p /\ e = e0 THEN n0 ELSE trace[n].side[e]
  <2>1. n \in TraceNo /\ n # n0
    BY <1>2, <1>21 DEF Live
  <2>2. linked[n] = IF n = p THEN tp ELSE trace[n]
    BY <1>8, <1>10, <2>1
  <2>3. CASE n = r
    BY <1>12, <1>13, <1>15, <2>1, <2>2, <2>3
  <2>4. CASE n # r
    BY <1>12, <1>13, <2>1, <2>2, <2>4
  <2> QED
    BY <2>3, <2>4
<1> QED
  BY <1>1, <1>2, <1>16, <1>17, <1>20, <1>21 DEF t0

\* A finished side trace takes its number and patches the exit it began at.
LEMMA StopSideKeeps ==
  ASSUME JitInv, NEW link, StopSide(link)
  PROVE  JitInv'
<1>0. JitTypeOK /\ RecOK /\ LeftOK /\ EntryLive /\ LinksLive /\ CompiledOnce
  BY DEF JitInv
<1>1. rec' = NoRec /\ UNCHANGED <<op, opd, jfori, left>>
  BY DEF StopSide
<1>2. RecOK'
  BY <1>1 DEF RecOK
<1>3. CASE ~(Live(rec.parent) /\ Live(rec.root))
  <2>1. UNCHANGED trace
    BY <1>3 DEF StopSide
  <2> QED
    BY <1>0, <1>1, <1>2, <2>1 DEF JitInv, JitTypeOK, LeftOK, EntryLive, LinksLive, CompiledOnce,
                                  StaleNos, HasRootTrace, IsRoot, RootOf, Live
<1>4. CASE Live(rec.parent) /\ Live(rec.root)
  <2> DEFINE n0 == rec.no
             t0 == NewTrace(rec.start, rec.root, link)
  <2>1. /\ rec \in Recording /\ ~Live(n0)
        /\ IsRoot(rec.root) /\ rec.root = RootOf(rec.parent)
        /\ trace' \in [TraceNo -> TraceRec \cup {NoTrace}]
        /\ trace'[n0] = t0
    BY <1>4, StopSideTraces
  <2>2. \A n : Live(n)' <=> Live(n) \/ n = n0
    BY <1>4, StopSideTraces
  <2>3. \A n : Live(n) =>
           /\ trace'[n].start = trace[n].start /\ trace'[n].root = trace[n].root
           /\ trace'[n].link = trace[n].link
           /\ \A e \in ExitNo : trace'[n].side[e] =
                IF n = rec.parent /\ e = rec.exitno THEN n0 ELSE trace[n].side[e]
    BY <1>4, StopSideTraces
  <2>4. /\ t0.root = rec.root /\ t0.link = link
        /\ \A e \in ExitNo : t0.side[e] = 0
    BY DEF NewTrace
  <2>5. rec # NoRec /\ rec.root # 0
    BY <2>1, JitAssumption DEF IsRoot, Live, TraceNo, StopSide
  <2>6. \A n : IsRoot(n)' <=> IsRoot(n)
    BY <2>1, <2>2, <2>3, <2>4, <2>5 DEF IsRoot
  <2>7. JitTypeOK'
    BY <1>0, <1>1, <2>1 DEF JitTypeOK
  <2>8. EntryLive'
    BY <1>0, <1>1, <2>3, <2>6 DEF EntryLive, IsRoot
  <2>9. CompiledOnce'
    BY <1>0, <1>1, <2>3, <2>6 DEF CompiledOnce, IsRoot
  <2>10. link \in {0, n0} \/ Live(link) \/ link \in StaleNos
    BY <2>5, LinksAreLive DEF StopSide
  <2>11. LinksLive'
    <3> SUFFICES ASSUME NEW n \in TraceNo, Live(n)'
                 PROVE  /\ trace'[n].link # 0 => Live(trace[n].link)' \/ trace'[n].link \in StaleNos'
                        /\ IsRoot(RootOf(n))'
                        /\ \A e \in ExitNo : trace'[n].side[e] # 0 =>
                              Live(trace[n].side[e])' /\ RootOf(trace[n].side[e])' = RootOf(n)'
      BY DEF LinksLive
    <3>0. StaleNos' = StaleNos
      BY <1>1 DEF StaleNos
    <3>1. CASE n = n0
      BY <2>1, <2>2, <2>4, <2>5, <2>6, <2>10, <3>0, <3>1 DEF RootOf
    <3>2. CASE n # n0
      <4>1. Live(n)
        BY <2>2, <3>2
      <4>2. /\ trace[n].link # 0 => Live(trace[n].link) \/ trace[n].link \in StaleNos
            /\ IsRoot(RootOf(n))
            /\ \A e \in ExitNo : trace[n].side[e] # 0 =>
                  Live(trace[n].side[e]) /\ RootOf(trace[n].side[e]) = RootOf(n)
        BY <1>0, <4>1 DEF LinksLive
      <4>3. RootOf(n)' = RootOf(n)
        BY <2>3, <4>1 DEF RootOf
      <4>5. ASSUME NEW e \in ExitNo, trace'[n].side[e] # 0
            PROVE  Live(trace[n].side[e])' /\ RootOf(trace[n].side[e])' = RootOf(n)'
        <5>1. CASE n = rec.parent /\ e = rec.exitno
          <6>1. trace'[n].side[e] = n0
            BY <2>3, <4>1, <5>1
          <6>2. RootOf(trace[n].side[e])' = rec.root
            BY <2>1, <2>4, <2>5, <6>1 DEF RootOf
          <6> QED
            BY <2>1, <2>2, <4>3, <5>1, <6>1, <6>2
        <5>2. CASE ~(n = rec.parent /\ e = rec.exitno)
          <6>1. trace'[n].side[e] = trace[n].side[e]
            BY <2>3, <4>1, <5>2
          <6>3. Live(trace[n].side[e])
            BY <4>2, <4>5, <6>1
          <6>4. RootOf(trace[n].side[e])' = RootOf(trace[n].side[e])
            BY <2>3, <6>1, <6>3 DEF RootOf
          <6> QED
            BY <2>2, <4>2, <4>3, <4>5, <6>1, <6>3, <6>4
        <5> QED
          BY <5>1, <5>2
      <4> QED
        BY <2>2, <2>3, <2>6, <3>0, <4>1, <4>2, <4>3, <4>5
    <3> QED
      BY <3>1, <3>2
  <2>12. LeftOK'
    BY <1>0, <1>1, <2>3, <2>6 DEF LeftOK, HasRootTrace, IsRoot
  <2> QED
    BY <1>2, <2>7, <2>8, <2>9, <2>11, <2>12 DEF JitInv
<1> QED
  BY <1>3, <1>4

---------------------------------------------------------------------------
(* Flushing and executing *)

\* A flush reverts every patched header, as each has a registered root, but
\* not those that jit.flush left.
LEMMA FlushKeeps ==
  ASSUME JitInv, NEW h, JForlFlush(h)
  PROVE  JitInv'
<1> DEFINE H == {trace[n].start : n \in {m \in TraceNo : IsRoot(m)}}
<1>0. JitTypeOK /\ LeftOK /\ EntryLive
  BY DEF JitInv
<1>1. /\ op' = [x \in Headers |-> IF x \in H THEN "hot" ELSE op[x]]
      /\ opd' = [x \in Headers |-> IF x \in H THEN 0 ELSE opd[x]]
      /\ jfori' = jfori \ H
      /\ trace' = [n \in TraceNo |-> NoTrace]
      /\ rec' = rec /\ left' = left
      /\ rec # NoRec => rec.parent # 0
  BY DEF JForlFlush, FlushAll, Reverted, Flushed
<1>2. \A n : ~Live(n)' /\ ~IsRoot(n)'
  BY <1>1 DEF Live, IsRoot
<1>3. /\ \A x \in Headers \ left : op[x] = "jit" => x \in H
      /\ \A x \in left : x \notin H
  BY <1>0 DEF EntryLive, LeftOK, HasRootTrace, IsRoot, Live
<1> HIDE DEF H
<1>4. JitTypeOK'
  BY <1>0, <1>1 DEF JitTypeOK
<1>5. RecOK'
  BY <1>1, <1>2 DEF RecOK
<1>6. EntryLive'
  BY <1>0, <1>1, <1>3, JitAssumption DEF EntryLive
<1>7. LinksLive' /\ CompiledOnce'
  BY <1>2 DEF LinksLive, CompiledOnce
<1>8. LeftOK'
  BY <1>0, <1>1, <1>2, <1>3 DEF LeftOK, HasRootTrace, JitTypeOK
<1> QED
  BY <1>4, <1>5, <1>6, <1>7, <1>8 DEF JitInv

\* jit.flush adds the patched headers to those it left; a recording goes on
\* with the registry empty.
LEMMA JitFlushKeeps ==
  ASSUME JitInv, JitFlush
  PROVE  JitInv'
<1>0. JitTypeOK /\ RecOK /\ EntryLive
  BY DEF JitInv
<1>1. /\ UNCHANGED <<op, opd, jfori, rec>>
      /\ trace' = [n \in TraceNo |-> NoTrace]
      /\ left' = left \cup {h \in Headers : op[h] = "jit"}
  BY DEF JitFlush, Flushed
<1>2. \A n : ~Live(n)' /\ ~IsRoot(n)'
  BY <1>1 DEF Live, IsRoot
<1>3. JitTypeOK'
  BY <1>0, <1>1 DEF JitTypeOK
<1>4. RecOK'
  BY <1>0, <1>1, <1>2 DEF RecOK, HasRootTrace
<1>5. LeftOK'
  BY <1>1, <1>2 DEF JitInv, LeftOK, HasRootTrace
<1>6. EntryLive'
  BY <1>0, <1>1 DEF EntryLive
<1>7. LinksLive' /\ CompiledOnce'
  BY <1>2 DEF LinksLive, CompiledOnce
<1> QED
  BY <1>3, <1>4, <1>5, <1>6, <1>7 DEF JitInv

\* trace_exec changes nothing of a trace but the counts of its exits.
LEMMA ExitTraces ==
  ASSUME JitInv, NEW h, NEW n, NEW e \in ExitNo, TraceExit(h, n, e)
  PROVE  /\ trace' \in [TraceNo -> TraceRec \cup {NoTrace}]
         /\ \A m : Live(m)' <=> Live(m)
         /\ \A m : Live(m) =>
              /\ trace'[m].start = trace[m].start /\ trace'[m].root = trace[m].root
              /\ trace'[m].link = trace[m].link /\ trace'[m].nchild = trace[m].nchild
              /\ trace'[m].side = trace[m].side
<1> DEFINE c == trace[n].count[e] + 1
           tn == [trace[n] EXCEPT !.count[e] = c]
<1>0. JitTypeOK /\ Live(n)
  BY DEF JitInv, TraceExit
<1>1. n \in TraceNo /\ trace[n] \in TraceRec
  BY <1>0, LiveIsTrace
<1>2. trace[n].count \in [ExitNo -> Nat]
  BY <1>1 DEF TraceRec
<1>3. c \in Nat
  BY <1>2
<1> HIDE DEF c
<1>4. /\ tn \in TraceRec /\ tn.start = trace[n].start /\ tn.root = trace[n].root
      /\ tn.link = trace[n].link /\ tn.nchild = trace[n].nchild /\ tn.side = trace[n].side
  BY <1>1, <1>3 DEF TraceRec
<1>5. trace' = trace \/ trace' = [trace EXCEPT ![n] = tn]
  BY DEF TraceExit, c
<1> HIDE DEF tn
<1>6. \A m \in TraceNo : trace'[m] = trace[m] \/ (m = n /\ trace'[m] = tn)
  BY <1>0, <1>5 DEF JitTypeOK
<1>7. trace' \in [TraceNo -> TraceRec \cup {NoTrace}]
  BY <1>0, <1>1, <1>4, <1>5 DEF JitTypeOK
<1>8. tn # NoTrace
  BY <1>4, TraceIsLive
<1> QED
  BY <1>0, <1>4, <1>6, <1>7, <1>8 DEF Live

\* Leaving a trace counts the exit; it may flush a loop or start a side trace.
LEMMA TraceExitKeeps ==
  ASSUME JitInv, NEW h, NEW n, NEW e \in ExitNo, TraceExit(h, n, e)
  PROVE  JitInv'
<1>0. JitTypeOK /\ RecOK /\ LeftOK /\ EntryLive /\ LinksLive /\ CompiledOnce /\ Live(n)
  BY DEF JitInv, TraceExit
<1>1. /\ trace' \in [TraceNo -> TraceRec \cup {NoTrace}]
      /\ \A m : Live(m)' <=> Live(m)
      /\ \A m : Live(m) =>
           /\ trace'[m].start = trace[m].start /\ trace'[m].root = trace[m].root
           /\ trace'[m].link = trace[m].link /\ trace'[m].side = trace[m].side
  BY ExitTraces
<1>2. \A m : IsRoot(m)' <=> IsRoot(m)
  BY <1>1 DEF IsRoot
<1>3. n \in TraceNo /\ IsRoot(RootOf(n)) /\ trace[n].start \in Headers
  BY <1>0, LiveIsTrace DEF LinksLive, TraceRec
<1> DEFINE h0 == trace[RootOf(n)].start
<1>4. h0 \in Headers
  BY <1>0, <1>3, LiveIsTrace DEF IsRoot, TraceRec
<1>5. \/ op' = [op EXCEPT ![h0] = "inert"] /\ opd' = [opd EXCEPT ![h0] = 0] /\ jfori' = jfori \ {h0}
      \/ UNCHANGED <<op, opd, jfori>>
  BY DEF TraceExit, FlushBlacklist, FlushedOp
<1>15. left' = left /\ h0 \notin left
  BY <1>0, <1>3 DEF TraceExit, LeftOK, HasRootTrace, IsRoot, Live
<1> HIDE DEF h0
<1>6. \A x \in Headers :
        \/ op'[x] = op[x] /\ opd'[x] = opd[x] /\ (x \in jfori' <=> x \in jfori)
        \/ op'[x] = "inert" /\ x \notin jfori'
  BY <1>0, <1>4, <1>5 DEF JitTypeOK
<1>7. \/ UNCHANGED rec
      \/ /\ rec' = [no |-> FindFree, start |-> trace[n].start, parent |-> n, exitno |-> e, root |-> RootOf(n)]
         /\ FreeNos # {} /\ trace[n].side[e] = 0
  BY DEF TraceExit
<1>8. FreeNos # {} => FindFree \in TraceNo /\ ~Live(FindFree)
  BY <1>0, FindFreeIsFree
<1>9. JitTypeOK'
  <2>1. op' \in [Headers -> {"hot", "inert", "jit"}] /\ opd' \in [Headers -> TraceNo \cup {0}]
        /\ jfori' \subseteq ForL
    BY <1>0, <1>4, <1>5 DEF JitTypeOK
  <2>2. rec' \in Recording \cup {NoRec}
    BY <1>0, <1>3, <1>7, <1>8 DEF JitTypeOK, Recording, IsRoot, Live
  <2> QED
    BY <1>0, <1>1, <1>15, <2>1, <2>2 DEF JitTypeOK
<1>10. EntryLive'
  BY <1>0, <1>1, <1>2, <1>6, <1>15, JitAssumption DEF EntryLive, IsRoot
<1>16. \A x \in left : op'[x] = op[x] /\ opd'[x] = opd[x]
  BY <1>0, <1>5, <1>15 DEF JitTypeOK
<1>17. LeftOK'
  BY <1>0, <1>1, <1>2, <1>15, <1>16 DEF LeftOK, HasRootTrace, IsRoot
<1>18. StaleNos' = StaleNos
  BY <1>15, <1>16 DEF StaleNos
<1>11. CompiledOnce'
  <2>1. \A m \in TraceNo : IsRoot(m) => trace[m].start \in Headers
    BY <1>0, LiveIsTrace DEF IsRoot, TraceRec
  <2>2. \A m \in TraceNo : IsRoot(m) => op'[trace[m].start] # "hot"
    BY <1>0, <1>6, <2>1 DEF CompiledOnce
  <2> QED
    BY <1>0, <1>1, <1>2, <2>2 DEF CompiledOnce, IsRoot
<1>12. \A m : Live(m) => RootOf(m)' = RootOf(m)
  BY <1>1 DEF RootOf
<1>13. LinksLive'
  <2> SUFFICES ASSUME NEW m \in TraceNo, Live(m)'
               PROVE  /\ trace'[m].link # 0 => Live(trace[m].link)' \/ trace'[m].link \in StaleNos'
                      /\ IsRoot(RootOf(m))'
                      /\ \A x \in ExitNo : trace'[m].side[x] # 0 =>
                            Live(trace[m].side[x])' /\ RootOf(trace[m].side[x])' = RootOf(m)'
    BY DEF LinksLive
  <2>1. Live(m) /\ RootOf(m)' = RootOf(m)
    BY <1>1, <1>12
  <2>2. /\ trace[m].link # 0 => Live(trace[m].link) \/ trace[m].link \in StaleNos
        /\ IsRoot(RootOf(m))
        /\ \A x \in ExitNo : trace[m].side[x] # 0 =>
              Live(trace[m].side[x]) /\ RootOf(trace[m].side[x]) = RootOf(m)
    BY <1>0, <2>1 DEF LinksLive
  <2> QED
    BY <1>1, <1>2, <1>12, <1>18, <2>1, <2>2
<1>14. RecOK'
  <2>1. CASE UNCHANGED rec
    <3> SUFFICES ASSUME rec # NoRec PROVE RecOK'
      BY <2>1 DEF RecOK
    <3>1. rec.parent # 0 /\ ~Live(rec.no)
      BY <1>0 DEF TraceExit, Enters, RecOK
    <3>2. /\ Live(rec.parent) /\ IsRoot(rec.root) /\ rec.root = RootOf(rec.parent)
          /\ trace[rec.parent].side[rec.exitno] = 0
      BY <1>0, <1>3, <3>1 DEF RecOK
    <3> QED
      BY <1>1, <1>2, <1>12, <2>1, <3>1, <3>2 DEF RecOK
  <2>2. CASE /\ rec' = [no |-> FindFree, start |-> trace[n].start, parent |-> n, exitno |-> e, root |-> RootOf(n)]
             /\ FreeNos # {} /\ trace[n].side[e] = 0
    <3>1. /\ rec'.no = FindFree /\ rec'.parent = n /\ rec'.exitno = e /\ rec'.root = RootOf(n)
      BY <2>2
    <3>2. n # 0
      BY <1>3, JitAssumption DEF TraceNo
    <3>3. ~Live(rec.no)'
      BY <1>1, <1>8, <2>2, <3>1
    <3>4. /\ Live(rec.parent)' /\ IsRoot(rec.root)' /\ rec'.root = RootOf(rec.parent)'
      BY <1>0, <1>1, <1>2, <1>3, <1>12, <3>1
    <3>5. trace'[rec'.parent].side[rec'.exitno] = 0
      BY <1>0, <1>1, <2>2, <3>1
    <3> QED
      BY <3>1, <3>2, <3>3, <3>4, <3>5 DEF RecOK
  <2> QED
    BY <1>7, <2>1, <2>2
<1> QED
  BY <1>9, <1>10, <1>11, <1>13, <1>14, <1>17 DEF JitInv

---------------------------------------------------------------------------
(* The invariant *)

\* JitInv is inductive.
LEMMA JitNextKeeps == JitInv /\ [JitNext]_jitVars => JitInv'
<1> SUFFICES ASSUME JitInv, [JitNext]_jitVars PROVE JitInv'
  OBVIOUS
<1>1. ASSUME UNCHANGED <<op, opd, jfori, trace, rec, left>> PROVE JitInv'
  BY <1>1 DEF JitInv, JitTypeOK, RecOK, LeftOK, EntryLive, LinksLive, CompiledOnce, StaleNos,
              HasRootTrace, IsRoot, RootOf, Live
<1>2. CASE UNCHANGED jitVars
  BY <1>1, <1>2 DEF jitVars
<1>3. CASE SetMetatable
  BY <1>1, <1>3 DEF SetMetatable
<1>4. CASE \E h \in Headers : HotNoJit(h)
  BY <1>4, HotNoJitKeeps
<1>5. CASE \E h \in Headers : HotStart(h)
  BY <1>5, HotStartKeeps
<1>6. CASE \E h \in Headers : HotSetupFails(h)
  BY <1>6, HotNoJitKeeps
<1>7. CASE \E e \in TraceErrors : RecAbort(e)
  BY <1>7, RecAbortKeeps
<1>8. CASE \E n \in TraceNo \cup {0} : StopRoot(n)
  BY <1>8, StopRootKeeps
<1>9. CASE \E n \in TraceNo \cup {0} : StopSide(n)
  BY <1>9, StopSideKeeps
<1>10. CASE \E h \in Headers : JForlFlush(h)
  BY <1>10, FlushKeeps
<1>11. CASE \E h \in Headers : \E n \in Reach(opd[h]), e \in ExitNo : TraceExit(h, n, e)
  BY <1>11, TraceExitKeeps
<1>12. CASE JitFlush
  BY <1>12, JitFlushKeeps
<1>13. CASE \E h \in Headers : \E n \in Reach(opd[h]) : EnterFreed(h, n)
  BY <1>1, <1>13 DEF EnterFreed
<1> QED
  BY <1>2, <1>3, <1>4, <1>5, <1>6, <1>7, <1>8, <1>9, <1>10, <1>11, <1>12, <1>13 DEF JitNext

\* JitInv holds in every state: what a running recording relies on is never
\* taken from it, whatever is aborted, entered, blacklisted or flushed.
THEOREM RecordingSafe == JitSpec => []JitInv
  BY InitJitInv, JitNextKeeps, PTL DEF JitSpec

---------------------------------------------------------------------------
(* Counting side traces *)

SidesOf(r) == {n \in TraceNo : Live(n) /\ trace[n].root = r}
ExitsTo(r) == {x \in TraceNo \X ExitNo : Live(x[1]) /\ trace[x[1]].side[x[2]] \in SidesOf(r)}

Counted(r) ==
    /\ trace[r].nchild = Cardinality(SidesOf(r))
    /\ Cardinality(ExitsTo(r)) = Cardinality(SidesOf(r))

\* SideCount, one root at a time.
LEMMA SideCountParts == SideCount <=> \A r \in TraceNo : IsRoot(r) => Counted(r)
  BY DEF SideCount, Counted, SidesOf, ExitsTo

\* What SideCount counts is finite.
LEMMA CountsFinite ==
  ASSUME NEW r
  PROVE  IsFiniteSet(SidesOf(r)) /\ IsFiniteSet(ExitsTo(r))
<1>1. IsFiniteSet(TraceNo) /\ IsFiniteSet(ExitNo)
  <2>1. MaxTrace \in Int /\ LastExit \in Int
    BY JitAssumption
  <2> QED
    BY <2>1, FS_Interval DEF TraceNo, ExitNo
<1>2. IsFiniteSet(TraceNo \X ExitNo)
  BY <1>1, FS_Product
<1>3. SidesOf(r) \in SUBSET TraceNo /\ ExitsTo(r) \in SUBSET (TraceNo \X ExitNo)
  BY DEF SidesOf, ExitsTo
<1> QED
  BY <1>1, <1>2, <1>3, FS_Subset

\* A step that keeps the tree of every trace keeps the counts.
LEMMA SameTreesCount ==
  ASSUME SideCount,
         \A n : Live(n)' <=> Live(n),
         \A n : Live(n) => /\ trace'[n].root = trace[n].root /\ trace'[n].nchild = trace[n].nchild
                           /\ trace'[n].side = trace[n].side
  PROVE  SideCount'
<1>1. ASSUME NEW r \in TraceNo, IsRoot(r)' PROVE Counted(r)'
  <2>1. IsRoot(r) /\ trace'[r].nchild = trace[r].nchild
    BY <1>1 DEF IsRoot
  <2>2. SidesOf(r)' = SidesOf(r)
    BY DEF SidesOf
  <2>3. ExitsTo(r)' = ExitsTo(r)
    BY <2>2 DEF ExitsTo
  <2> QED
    BY <2>1, <2>2, <2>3, SideCountParts DEF Counted
<1> QED
  BY <1>1 DEF SideCount, Counted, SidesOf, ExitsTo

\* A new root has no side traces yet: its number was nobody's root.
LEMMA StopRootCounts ==
  ASSUME JitInv, SideCount, NEW link, StopRoot(link)
  PROVE  SideCount'
<1> DEFINE n0 == rec.no
           t0 == NewTrace(rec.start, 0, link)
<1>0. JitTypeOK /\ RecOK /\ LinksLive
  BY DEF JitInv
<1>1. rec # NoRec /\ rec \in Recording /\ n0 \in TraceNo /\ rec.start \in Headers
  BY <1>0 DEF StopRoot, JitTypeOK, Recording
<1>2. ~Live(n0)
  BY <1>0, <1>1 DEF RecOK
<1>3. link \in TraceNo \cup {0}
  BY <1>1, LinksAreLive DEF StopRoot
<1>4. t0 # NoTrace
  BY <1>1, <1>3, NewTraceType, TraceIsLive
<1>5. t0.root = 0 /\ t0.nchild = 0 /\ \A e \in ExitNo : t0.side[e] = 0
  BY DEF NewTrace
<1>6. \A n \in TraceNo : trace'[n] = IF n = n0 THEN t0 ELSE trace[n]
  BY <1>0, <1>1 DEF StopRoot, JitTypeOK
<1> HIDE DEF t0
<1>7. \A n : Live(n)' <=> Live(n) \/ n = n0
  BY <1>1, <1>4, <1>6 DEF Live
<1>8. \A n : Live(n) => trace'[n] = trace[n]
  BY <1>2, <1>6 DEF Live
<1>9. 0 \notin TraceNo
  BY JitAssumption DEF TraceNo
<1>10. ASSUME NEW r \in TraceNo
       PROVE  SidesOf(r)' = SidesOf(r) /\ ExitsTo(r)' = ExitsTo(r)
  <2>1. SidesOf(r)' = SidesOf(r)
    BY <1>1, <1>2, <1>5, <1>6, <1>7, <1>8, <1>9 DEF SidesOf
  <2>2. 0 \notin SidesOf(r)
    BY <1>9 DEF SidesOf
  <2> QED
    BY <1>1, <1>2, <1>5, <1>6, <1>7, <1>8, <2>1, <2>2 DEF ExitsTo
<1>11. ASSUME NEW r \in TraceNo, IsRoot(r)' PROVE Counted(r)'
  <2>1. CASE r = n0
    <3>1. SidesOf(r) = {}
      BY <1>0, <1>2, <1>9, <2>1 DEF SidesOf, LinksLive, RootOf, IsRoot
    <3>2. ExitsTo(r) = {}
      BY <3>1 DEF ExitsTo
    <3> QED
      BY <1>5, <1>6, <1>10, <2>1, <3>1, <3>2, FS_EmptySet DEF Counted
  <2>2. CASE r # n0
    <3>1. IsRoot(r) /\ trace'[r] = trace[r]
      BY <1>6, <1>7, <1>11, <2>2 DEF IsRoot
    <3> QED
      BY <1>10, <3>1, SideCountParts DEF Counted
  <2> QED
    BY <2>1, <2>2
<1> QED
  BY <1>11 DEF SideCount, Counted, SidesOf, ExitsTo

\* A side trace adds one to its root's tree and takes one free exit; the
\* other trees do not change.
LEMMA StopSideCounts ==
  ASSUME JitInv, SideCount, NEW link, StopSide(link)
  PROVE  SideCount'
<1>1. CASE ~(Live(rec.parent) /\ Live(rec.root))
  <2>1. UNCHANGED trace
    BY <1>1 DEF StopSide
  <2> QED
    BY <2>1, SameTreesCount DEF Live
<1>2. CASE Live(rec.parent) /\ Live(rec.root)
  <2> DEFINE n0 == rec.no
             t0 == NewTrace(rec.start, rec.root, link)
             x0 == <<rec.parent, rec.exitno>>
  <2>1. /\ rec \in Recording /\ ~Live(n0) /\ IsRoot(rec.root)
        /\ trace[rec.parent].side[rec.exitno] = 0 /\ trace'[n0] = t0
    BY <1>2, StopSideTraces
  <2>2. \A n : Live(n)' <=> Live(n) \/ n = n0
    BY <1>2, StopSideTraces
  <2>3. \A n : Live(n) =>
           /\ trace'[n].root = trace[n].root
           /\ trace'[n].nchild = IF n = rec.root THEN trace[n].nchild + 1 ELSE trace[n].nchild
           /\ \A e \in ExitNo : trace'[n].side[e] =
                IF n = rec.parent /\ e = rec.exitno THEN n0 ELSE trace[n].side[e]
    BY <1>2, StopSideTraces
  <2>4. t0.root = rec.root /\ \A e \in ExitNo : t0.side[e] = 0
    BY DEF NewTrace
  <2> HIDE DEF t0
  <2>5. n0 \in TraceNo /\ rec.exitno \in ExitNo /\ rec.parent \in TraceNo /\ rec.root \in TraceNo
    BY <1>2, <2>1 DEF Recording, Live
  <2>6. 0 \notin TraceNo
    BY JitAssumption DEF TraceNo
  <2>7. ASSUME NEW r \in TraceNo, IsRoot(r)' PROVE Counted(r)'
    <3>1. r # n0 /\ IsRoot(r)
      BY <2>1, <2>2, <2>3, <2>4, <2>5, <2>6, <2>7 DEF IsRoot
    <3>2. Counted(r) /\ IsFiniteSet(SidesOf(r)) /\ IsFiniteSet(ExitsTo(r))
      BY <3>1, CountsFinite, SideCountParts
    <3>3. n0 \notin SidesOf(r) /\ 0 \notin SidesOf(r)
      BY <2>1, <2>6 DEF SidesOf
    <3>4. CASE r = rec.root
      <4>1. SidesOf(r)' = SidesOf(r) \cup {n0}
        BY <2>1, <2>2, <2>3, <2>4, <2>5, <3>4 DEF SidesOf
      <4>2. x0 \notin ExitsTo(r)
        BY <2>1, <3>3 DEF ExitsTo
      <4>3. ExitsTo(r)' = ExitsTo(r) \cup {x0}
        <5>1. ASSUME NEW n \in TraceNo, NEW e \in ExitNo
              PROVE  <<n, e>> \in ExitsTo(r)' <=> <<n, e>> \in ExitsTo(r) \/ <<n, e>> = x0
          <6>1. CASE n = n0
            BY <1>2, <2>1, <2>4, <2>6, <3>3, <4>1, <6>1 DEF ExitsTo
          <6>2. CASE n = rec.parent /\ e = rec.exitno
            <7>1. trace'[n].side[e] = n0 /\ Live(n)'
              BY <1>2, <2>2, <2>3, <6>2
            <7> QED
              BY <4>1, <6>2, <7>1 DEF ExitsTo
          <6>3. CASE n # n0 /\ ~(n = rec.parent /\ e = rec.exitno)
            <7>1. (Live(n)' <=> Live(n)) /\ (Live(n) => trace'[n].side[e] = trace[n].side[e])
              BY <2>2, <2>3, <6>3
            <7>2. Live(n) => trace[n].side[e] # n0
              BY <2>1, <2>5, <2>6 DEF JitInv, LinksLive
            <7> QED
              BY <4>1, <6>3, <7>1, <7>2 DEF ExitsTo
          <6> QED
            BY <6>1, <6>2, <6>3
        <5>2. ExitsTo(r) \subseteq TraceNo \X ExitNo /\ ExitsTo(r)' \subseteq TraceNo \X ExitNo
              /\ x0 \in TraceNo \X ExitNo
          BY <2>5 DEF ExitsTo
        <5> QED
          BY <5>1, <5>2
      <4>4. trace'[r].nchild = trace[r].nchild + 1
        BY <2>3, <3>1, <3>4 DEF IsRoot
      <4>5. Cardinality(SidesOf(r)') = Cardinality(SidesOf(r)) + 1
        BY <3>2, <3>3, <4>1, FS_AddElement
      <4>6. Cardinality(ExitsTo(r)') = Cardinality(ExitsTo(r)) + 1
        BY <3>2, <4>2, <4>3, FS_AddElement
      <4> QED
        BY <3>2, <4>4, <4>5, <4>6 DEF Counted
    <3>5. CASE r # rec.root
      <4>1. SidesOf(r)' = SidesOf(r)
        BY <2>1, <2>2, <2>3, <2>4, <3>5 DEF SidesOf
      <4>2. ExitsTo(r)' = ExitsTo(r)
        <5>1. ASSUME NEW n \in TraceNo, NEW e \in ExitNo
              PROVE  <<n, e>> \in ExitsTo(r)' <=> <<n, e>> \in ExitsTo(r)
          <6>1. CASE n = n0
            BY <2>1, <2>4, <3>3, <4>1, <6>1 DEF ExitsTo
          <6>2. CASE n = rec.parent /\ e = rec.exitno
            BY <1>2, <2>1, <2>2, <2>3, <3>3, <4>1, <6>2 DEF ExitsTo
          <6>3. CASE n # n0 /\ ~(n = rec.parent /\ e = rec.exitno)
            <7>1. (Live(n)' <=> Live(n)) /\ (Live(n) => trace'[n].side[e] = trace[n].side[e])
              BY <2>2, <2>3, <6>3
            <7> QED
              BY <4>1, <7>1 DEF ExitsTo
          <6> QED
            BY <6>1, <6>2, <6>3
        <5>2. ExitsTo(r) \subseteq TraceNo \X ExitNo /\ ExitsTo(r)' \subseteq TraceNo \X ExitNo
          BY DEF ExitsTo
        <5> QED
          BY <5>1, <5>2
      <4>3. trace'[r].nchild = trace[r].nchild
        BY <2>3, <3>1, <3>5 DEF IsRoot
      <4> QED
        BY <3>2, <4>1, <4>2, <4>3 DEF Counted
    <3> QED
      BY <3>4, <3>5
  <2> QED
    BY <2>7 DEF SideCount, Counted, SidesOf, ExitsTo
<1> QED
  BY <1>1, <1>2

\* No step makes a root's child counter differ from its side traces.
LEMMA CountsKept == JitInv /\ SideCount /\ [JitNext]_jitVars => SideCount'
<1> SUFFICES ASSUME JitInv, SideCount, [JitNext]_jitVars PROVE SideCount'
  OBVIOUS
<1>1. ASSUME UNCHANGED trace PROVE SideCount'
  BY <1>1, SameTreesCount DEF Live
<1>2. CASE UNCHANGED jitVars
  BY <1>1, <1>2 DEF jitVars
<1>3. CASE SetMetatable \/ \E h \in Headers : HotNoJit(h) \/ HotStart(h) \/ HotSetupFails(h)
  BY <1>1, <1>3 DEF SetMetatable, HotNoJit, HotStart, HotSetupFails
<1>4. CASE \E e \in TraceErrors : RecAbort(e)
  BY <1>1, <1>4 DEF RecAbort
<1>5. CASE \E n \in TraceNo \cup {0} : StopRoot(n)
  BY <1>5, StopRootCounts
<1>6. CASE \E n \in TraceNo \cup {0} : StopSide(n)
  BY <1>6, StopSideCounts
<1>7. CASE \E h \in Headers : JForlFlush(h)
  <2>1. \A n \in TraceNo : ~IsRoot(n)'
    BY <1>7 DEF JForlFlush, FlushAll, Flushed, IsRoot, Live
  <2> QED
    BY <2>1 DEF SideCount
<1>8. CASE \E h \in Headers : \E n \in Reach(opd[h]), e \in ExitNo : TraceExit(h, n, e)
  BY <1>8, ExitTraces, SameTreesCount
<1>9. CASE JitFlush
  <2>1. \A n \in TraceNo : ~IsRoot(n)'
    BY <1>9 DEF JitFlush, Flushed, IsRoot, Live
  <2> QED
    BY <2>1 DEF SideCount
<1>10. CASE \E h \in Headers : \E n \in Reach(opd[h]) : EnterFreed(h, n)
  BY <1>1, <1>10 DEF EnterFreed
<1> QED
  BY <1>2, <1>3, <1>4, <1>5, <1>6, <1>7, <1>8, <1>9, <1>10 DEF JitNext

---------------------------------------------------------------------------
(* Results *)

\* A patched header names the registered root trace recorded from it, through
\* aborts, blacklisting and both flushes that mend the bytecode, for any set
\* of loops and functions; the headers that jit.flush or debug.sethook came
\* upon are set apart, for good (LeftOK).  FORI is patched exactly while its
\* FORL is, in them too.
THEOREM EntriesLive == JitSpec => []EntryLive
  BY RecordingSafe, PTL DEF JitInv

\* Whatever machine code jumps to on its own is registered, or the number of
\* a Root link recorded off a header that jit.flush left; side traces stay
\* within the tree of their root.
THEOREM JumpsLive == JitSpec => []LinksLive
  BY RecordingSafe, PTL DEF JitInv

\* trace_start never compiles a loop that has a root trace.
THEOREM NeverTwice == JitSpec => []CompiledOnce
  BY RecordingSafe, PTL DEF JitInv

\* nchild, which maxside bounds, is the number of side traces in the tree,
\* each linked from exactly one exit.
THEOREM ChildrenCounted == JitSpec => []SideCount
<1>1. JitInit => SideCount
  <2> SUFFICES ASSUME JitInit PROVE \A r \in TraceNo : ~IsRoot(r)
    BY SideCountParts
  <2> QED
    BY DEF JitInit, IsRoot, Live
<1> QED
  BY RecordingSafe, CountsKept, <1>1, PTL DEF JitSpec
=============================================================================
