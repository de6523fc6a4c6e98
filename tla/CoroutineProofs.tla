-------------------------- MODULE CoroutineProofs --------------------------
(***************************************************************************)
(* StatusChain holds for any number of coroutines and any nesting.  It is  *)
(* inductive together with the types of status and chain: a resume appends *)
(* a suspended thread, which is not on the chain; the end of a resume, by  *)
(* return, error or yield, removes the last thread, which is not Main and  *)
(* so has a resumer.                                                       *)
(*                                                                         *)
(* DepthExact needs more (DepthInv): threads off the chain have no frames, *)
(* coroutines on it started at depth 0, and no call from C is among the    *)
(* frames that a suspended coroutine will go on with.                      *)
(*                                                                         *)
(* YieldPasses is about one long step: a yield unwinds the frames from the *)
(* top down, each rewrites the note of the one above, and the last note    *)
(* counts.  EveryNote is the induction, over the frames it unwinds to.     *)
(***************************************************************************)
EXTENDS Coroutine, CountLemmas

CoInv == CoTypeOK /\ StatusChain

\* The main thread runs alone at the start.
LEMMA InitCoInv == CoInit => CoInv
  <1> SUFFICES ASSUME CoInit PROVE CoInv
    OBVIOUS
  <1> USE DEF CoInit, Threads
  <1>1. CoTypeOK
    BY DEF CoTypeOK, Statuses
  <1>2. StatusChain
    BY CoAssumption DEF StatusChain, Cur
  <1> QED
    BY <1>1, <1>2 DEF CoInv

\* A coroutine that is left by the running thread gets the status s, and the
\* thread below it runs again: what GoOn and Yield do.
LEMMA LeavePreserves ==
  ASSUME CoInv, Cur # Main,
         NEW s \in {"Dead", "Suspended"},
         status' = [status EXCEPT ![Cur] = s, ![Resumer] = "Running"],
         chain' = Below
  PROVE  CoInv'
  <1> DEFINE n == Len(chain)
  <1>1. n \in Nat /\ n > 1 /\ chain \in Seq(Threads) /\ chain[1] = Main
    BY DEF CoInv, CoTypeOK, StatusChain, Cur
  <1>2. /\ chain' \in Seq(Threads) /\ Len(chain') = n - 1
        /\ \A i \in 1 .. n - 1 : chain'[i] = chain[i]
    BY <1>1 DEF Below
  <1>3. \A i, j \in 1 .. n : chain[i] = chain[j] => i = j
    BY DEF CoInv, StatusChain
  <1>4. /\ Cur = chain[n] /\ Resumer = chain[n - 1]
        /\ Cur \in Threads /\ Resumer \in Threads /\ Cur # Resumer
    BY <1>1, <1>3 DEF Cur, Resumer
  <1>5. Cur' = Resumer
    BY <1>1, <1>2 DEF Cur, Resumer
  <1>6. CoTypeOK'
    <2>1. s \in Statuses /\ "Running" \in Statuses
      BY DEF Statuses
    <2>2. status' \in [Threads -> Statuses]
      BY <2>1 DEF CoInv, CoTypeOK
    <2> QED
      BY <1>1, <1>2, <2>2 DEF CoTypeOK
  <1>7. \A t \in Threads : status'[t] =
           IF t = Cur THEN s ELSE IF t = Resumer THEN "Running" ELSE status[t]
    BY <1>4 DEF CoInv, CoTypeOK
  <1>8. ASSUME NEW t \in Threads
        PROVE  /\ (status'[t] = "Running" <=> t = Cur')
               /\ (status'[t] \in {"Running", "Normal"} <=> \E i \in 1 .. Len(chain') : chain'[i] = t)
    <2>1. /\ (status[t] = "Running" <=> t = Cur)
          /\ (status[t] \in {"Running", "Normal"} <=> \E i \in 1 .. n : chain[i] = t)
      BY DEF CoInv, StatusChain
    <2>2. (\E i \in 1 .. Len(chain') : chain'[i] = t)
             <=> (\E i \in 1 .. n : chain[i] = t) /\ t # Cur
      BY <1>1, <1>2, <1>3, <1>4
    <2>3. \E i \in 1 .. n : chain[i] = Resumer
      BY <1>1, <1>4
    <2> QED
      BY <1>4, <1>5, <1>7, <2>1, <2>2, <2>3
  <1>9. \A i, j \in 1 .. Len(chain') : chain'[i] = chain'[j] => i = j
    BY <1>1, <1>2, <1>3
  <1>10. chain'[1] = Main
    BY <1>1, <1>2
  <1> QED
    BY <1>6, <1>8, <1>9, <1>10 DEF CoInv, StatusChain

\* Return and Unwind, as far as the scheduler can see.
LEMMA GoOnPreserves ==
  ASSUME CoInv, NEW fr, NEW err, GoOn(fr, err)
  PROVE  CoInv'
  <1>1. CASE UNCHANGED <<status, chain>>
    BY <1>1 DEF CoInv, CoTypeOK, StatusChain, Cur
  <1>2. CASE /\ Cur # Main
             /\ status' = [status EXCEPT ![Cur] = "Dead", ![Resumer] = "Running"]
             /\ chain' = Below
    BY <1>2, LeavePreserves
  <1> QED
    BY <1>1, <1>2 DEF GoOn

\* A yield hands control back to the resumer.
LEMMA YieldPreserves ==
  ASSUME CoInv, NEW n, Yield(n)
  PROVE  CoInv'
  <1>1. /\ Cur # Main
        /\ status' = [status EXCEPT ![Cur] = "Suspended", ![Resumer] = "Running"]
        /\ chain' = Below
    BY DEF Yield
  <1> QED
    BY <1>1, LeavePreserves

\* A new coroutine is suspended and on no chain.
LEMMA CreatePreserves ==
  ASSUME CoInv, NEW co \in Co, Create(co)
  PROVE  CoInv'
  <1>1. /\ status[co] = "None" /\ chain' = chain /\ co \in Threads
        /\ status' = [status EXCEPT ![co] = "Suspended"]
    BY DEF Create, Threads
  <1>2. CoTypeOK'
    BY <1>1 DEF CoInv, CoTypeOK, Statuses
  <1>3. \A t \in Threads : status'[t] = IF t = co THEN "Suspended" ELSE status[t]
    BY <1>1 DEF CoInv, CoTypeOK
  <1>4. Cur' = Cur
    BY <1>1 DEF Cur
  <1>5. StatusChain'
    BY <1>1, <1>3, <1>4 DEF CoInv, StatusChain
  <1> QED
    BY <1>2, <1>5 DEF CoInv

\* A resume makes the coroutine the running thread, on top of the chain.
LEMMA ResumePreserves ==
  ASSUME CoInv, NEW co \in Co, NEW wrap, Resume(co, wrap)
  PROVE  CoInv'
  <1> DEFINE n == Len(chain)
  <1>1. /\ n \in Nat /\ n > 0 /\ chain \in Seq(Threads) /\ chain[1] = Main
        /\ co \in Threads /\ status[co] = "Suspended"
        /\ Cur = chain[n] /\ Cur \in Threads
    BY DEF CoInv, CoTypeOK, StatusChain, Cur, Resume, MayResume, Threads
  <1>2. \A i \in 1 .. n : chain[i] # co
    BY <1>1 DEF CoInv, StatusChain
  <1>3. CASE /\ status' = [status EXCEPT ![co] = "Running", ![Cur] = "Normal"]
             /\ chain' = Append(chain, co)
    <2>1. /\ chain' \in Seq(Threads) /\ Len(chain') = n + 1
          /\ chain'[n + 1] = co /\ \A i \in 1 .. n : chain'[i] = chain[i]
      BY <1>1, <1>3
    <2>2. co # Cur
      BY <1>1, <1>2
    <2>3. \A t \in Threads : status'[t] =
             IF t = Cur THEN "Normal" ELSE IF t = co THEN "Running" ELSE status[t]
      BY <1>1, <1>3, <2>2 DEF CoInv, CoTypeOK
    <2>4. Cur' = co
      BY <1>1, <2>1 DEF Cur
    <2>5. CoTypeOK'
      BY <1>1, <1>3, <2>1 DEF CoInv, CoTypeOK, Statuses
    <2>6. ASSUME NEW t \in Threads
          PROVE  /\ (status'[t] = "Running" <=> t = Cur')
                 /\ (status'[t] \in {"Running", "Normal"} <=> \E i \in 1 .. Len(chain') : chain'[i] = t)
      <3>1. /\ (status[t] = "Running" <=> t = Cur)
            /\ (status[t] \in {"Running", "Normal"} <=> \E i \in 1 .. n : chain[i] = t)
        BY DEF CoInv, StatusChain
      <3>2. (\E i \in 1 .. Len(chain') : chain'[i] = t)
               <=> (\E i \in 1 .. n : chain[i] = t) \/ t = co
        BY <1>1, <2>1
      <3> QED
        BY <1>1, <2>2, <2>3, <2>4, <3>1, <3>2
    <2>7. \A i, j \in 1 .. Len(chain') : chain'[i] = chain'[j] => i = j
      BY <1>1, <1>2, <2>1 DEF CoInv, StatusChain
    <2> QED
      BY <1>1, <2>1, <2>5, <2>6, <2>7 DEF CoInv, StatusChain
  <1>4. CASE status' = [status EXCEPT ![co] = "Dead"] /\ chain' = chain
    <2>1. \A t \in Threads : status'[t] = IF t = co THEN "Dead" ELSE status[t]
      BY <1>1, <1>4 DEF CoInv, CoTypeOK
    <2>2. CoTypeOK' /\ Cur' = Cur
      BY <1>1, <1>4 DEF CoInv, CoTypeOK, Statuses, Cur
    <2>3. StatusChain'
      BY <1>1, <1>2, <1>4, <2>1, <2>2 DEF CoInv, StatusChain
    <2> QED
      BY <2>2, <2>3 DEF CoInv
  <1> QED
    BY <1>3, <1>4 DEF Resume

\* CoInv is inductive.
LEMMA CoNextPreserves == CoInv /\ [CoNext]_coVars => CoInv'
  <1> SUFFICES ASSUME CoInv, [CoNext]_coVars PROVE CoInv'
    OBVIOUS
  <1>1. ASSUME UNCHANGED <<status, chain>> PROVE CoInv'
    BY <1>1 DEF CoInv, CoTypeOK, StatusChain, Cur
  <1>2. CASE UNCHANGED coVars
    BY <1>1, <1>2 DEF coVars
  <1>3. CASE Call \/ (\E kind \in {"pcall", "xpcall", "exec"} : CallC(kind)) \/ Error \/ YieldFails
    BY <1>1, <1>3 DEF Call, CallC, Error, YieldFails
  <1>4. CASE \E co \in Co : ResumeFails(co)
    BY <1>1, <1>4 DEF ResumeFails
  <1>5. CASE Return \/ Unwind
    BY <1>5, GoOnPreserves DEF Return, Unwind
  <1>6. CASE \E n \in NYields : Yield(n)
    BY <1>6, YieldPreserves
  <1>7. CASE \E co \in Co : Create(co)
    BY <1>7, CreatePreserves
  <1>8. CASE \E co \in Co, wrap \in BOOLEAN : Resume(co, wrap)
    BY <1>8, ResumePreserves
  <1> QED
    BY <1>2, <1>3, <1>4, <1>5, <1>6, <1>7, <1>8 DEF CoNext

\* For any number of coroutines: one thread runs, its resumers are normal,
\* nobody else is, and no thread is in two nested resumes (do_resume).
THEOREM Scheduling == CoSpec => []StatusChain
  <1>1. CoInv => StatusChain
    BY DEF CoInv
  <1> QED
    BY InitCoInv, CoNextPreserves, <1>1, PTL DEF CoSpec

---------------------------------------------------------------------------
(* c_depth *)

Kinds == LuaKinds \cup CKinds
Plain == Kinds \ Counted
Active(t) == status[t] \in {"Running", "Normal"}

DepthInv ==
    /\ frames \in [Threads -> Seq(Kinds)]
    /\ cdepth \in [Threads -> Int] /\ cbase \in [Threads -> Int]
    /\ DOMAIN susp = Threads
    /\ \A t \in Threads :
         /\ Active(t) <=> frames[t] # <<>>
         /\ cdepth[t] = Depth(frames[t]) + (IF Active(t) THEN 1 ELSE 0)
         /\ susp[t].how = "Start" \/ susp[t].frames \in Seq(Plain)
    /\ \A co \in Co : Active(co) => cbase[co] = 1

\* The depth is a number.
LEMMA DepthType ==
  ASSUME NEW fr \in Seq(Kinds)
  PROVE  /\ IsFiniteSet({i \in 1 .. Len(fr) : fr[i] \in Counted})
         /\ Depth(fr) \in Nat
<1> DEFINE D == {i \in 1 .. Len(fr) : fr[i] \in Counted}
           n == Len(fr)
<1>1. D \in SUBSET (1 .. n) /\ n \in Nat /\ 1 \in Int /\ n \in Int
  OBVIOUS
<1> HIDE DEF D, n
<1>2. IsFiniteSet(1 .. n)
  BY <1>1, FS_Interval
<1>3. IsFiniteSet(D)
  BY <1>1, <1>2, FS_Subset
<1>4. Cardinality(D) \in Nat
  BY <1>3, FS_CardinalityType
<1> QED
  BY <1>3, <1>4 DEF Depth, D

\* A frame more counts itself if it is a call from C.
LEMMA DepthAppend ==
  ASSUME NEW fr \in Seq(Kinds), NEW k \in Kinds
  PROVE  /\ Append(fr, k) \in Seq(Kinds) /\ Append(fr, k) # <<>>
         /\ Depth(Append(fr, k)) = Depth(fr) + (IF k \in Counted THEN 1 ELSE 0)
<1> DEFINE n == Len(fr)
           g == Append(fr, k)
           D == {i \in 1 .. Len(fr) : fr[i] \in Counted}
           E == {i \in 1 .. Len(g) : g[i] \in Counted}
<1>1. g \in Seq(Kinds) /\ Len(g) = n + 1 /\ n \in Nat /\ g[n + 1] = k
      /\ \A i \in 1 .. n : g[i] = fr[i]
  OBVIOUS
<1>2. g # <<>>
  BY <1>1
<1>3. IsFiniteSet(D) /\ Depth(fr) = Cardinality(D) /\ Depth(g) = Cardinality(E) /\ Depth(fr) \in Nat
  BY DepthType DEF Depth
<1> HIDE DEF g
<1>4. CASE k \in Counted
  <2>1. E = D \cup {n + 1} /\ n + 1 \notin D
    BY <1>1, <1>4
  <2>2. Cardinality(E) = Cardinality(D) + 1
    BY <1>3, <2>1, FS_AddElement
  <2> QED
    BY <1>1, <1>2, <1>3, <1>4, <2>2 DEF g
<1>5. CASE k \notin Counted
  <2>1. E = D
    BY <1>1, <1>5
  <2> HIDE DEF D, E
  <2>2. Depth(g) = Depth(fr) + 0
    BY <1>3, <2>1
  <2> QED
    BY <1>1, <1>2, <1>5, <2>2 DEF g
<1> QED
  BY <1>4, <1>5

\* There is none exactly when no call from C is among the frames.
LEMMA DepthZero ==
  ASSUME NEW fr \in Seq(Kinds)
  PROVE  Depth(fr) = 0 <=> fr \in Seq(Plain)
<1> DEFINE D == {i \in 1 .. Len(fr) : fr[i] \in Counted}
<1>1. IsFiniteSet(D) /\ Depth(fr) = Cardinality(D)
  BY DepthType DEF Depth
<1>2. Cardinality(D) = 0 <=> D = {}
  BY <1>1, FS_EmptySet
<1>3. D = {} <=> fr \in Seq(Plain)
  <2>1. \A i \in 1 .. Len(fr) : fr[i] \in Kinds
    OBVIOUS
  <2>2. ASSUME D = {} PROVE fr \in Seq(Plain)
    <3>1. \A i \in 1 .. Len(fr) : fr[i] \in Plain
      BY <2>1, <2>2 DEF Plain
    <3> QED
      BY <3>1
  <2>3. ASSUME fr \in Seq(Plain) PROVE D = {}
    <3>1. \A i \in 1 .. Len(fr) : fr[i] \in Plain
      BY <2>3
    <3> QED
      BY <3>1 DEF Plain
  <2> QED
    BY <2>2, <2>3
<1> QED
  BY <1>1, <1>2, <1>3

\* Taking the top frame off leaves frames.
LEMMA PopType ==
  ASSUME NEW S, NEW fr \in Seq(S)
  PROVE  /\ Pop(fr) \in Seq(S)
         /\ fr # <<>> => Top(fr) \in S /\ fr = Append(Pop(fr), Top(fr))
<1> DEFINE n == Len(fr)
<1>1. n \in Nat
  OBVIOUS
<1>2. Pop(fr) \in Seq(S) /\ (n > 0 => Len(Pop(fr)) = n - 1 /\ \A i \in 1 .. n - 1 : Pop(fr)[i] = fr[i])
  <2>1. CASE n > 0
    <3>1. n - 1 \in 0 .. n
      BY <1>1, <2>1
    <3>2. PICK m \in 0 .. n : m = n - 1
      BY <3>1
    <3>3. /\ SubSeq(fr, 1, m) \in Seq(S) /\ Len(SubSeq(fr, 1, m)) = m
          /\ \A i \in 1 .. m : SubSeq(fr, 1, m)[i] = fr[i]
      BY <1>1
    <3> QED
      BY <3>2, <3>3 DEF Pop
  <2>2. CASE n = 0
    <3>1. Pop(fr) = <<>>
      BY <2>2 DEF Pop
    <3> QED
      BY <2>2, <3>1
  <2> QED
    BY <1>1, <2>1, <2>2
<1>3. ASSUME fr # <<>>
      PROVE  Top(fr) \in S /\ fr = Append(Pop(fr), Top(fr))
  <2>1. n > 0
    BY <1>1, <1>3
  <2>2. Top(fr) \in S /\ Top(fr) = fr[n]
    BY <1>1, <2>1 DEF Top
  <2> QED
    BY <1>1, <1>2, <2>1, <2>2
<1> QED
  BY <1>2, <1>3

\* A returning C function finds a Lua function or none below it.
LEMMA TrimCType ==
  ASSUME NEW fr \in Seq(Kinds)
  PROVE  TrimC(fr) \in Seq(Kinds)
<1> DEFINE n == Len(fr)
           lua == {i \in 1 .. n : fr[i] \in LuaKinds}
           last == CHOOSE i \in lua \cup {0} : \A j \in lua : j <= i
<1>1. n \in Nat
  OBVIOUS
<1>2. PICK k \in lua \cup {0} : \A j \in lua \cup {0} : j <= k
  <2>1. lua \cup {0} \in SUBSET (0 .. n) /\ lua \cup {0} # {}
    BY <1>1
  <2> HIDE DEF lua, n
  <2> QED
    BY <1>1, <2>1, GreatestIndex
<1>3. last \in lua \cup {0}
  <2> HIDE DEF lua
  <2> QED
    BY <1>2
<1> HIDE DEF last
<1>4. last \in 0 .. n
  BY <1>1, <1>3
<1>5. SubSeq(fr, 1, last) \in Seq(Kinds)
  BY <1>1, <1>4
<1> QED
  BY <1>5 DEF TrimC, last

\* The frame that yield unwinds to is one of the frames.
LEMMA StopIn ==
  ASSUME NEW fr \in Seq(Kinds), fr # <<>>
  PROVE  Stop(fr, 1) \in 1 .. Len(fr)
<1> DEFINE n == Len(fr)
           J == {k \in 1 .. n : k = n \/ fr[k + 1] \in CKinds}
           P(k) == /\ k = n \/ fr[k + 1] \in CKinds
                   /\ \A j \in 1 .. k - 1 : fr[j + 1] \notin CKinds
<1>1. n \in Nat /\ n > 0
  OBVIOUS
<1>2. J \in SUBSET Nat /\ J # {}
  BY <1>1
<1>3. PICK k \in J : \A j \in J : ~(j < k)
  BY <1>2, LeastIndex
<1>4. k \in 1 .. n /\ P(k)
  <2>1. k \in 1 .. n /\ (k = n \/ fr[k + 1] \in CKinds)
    OBVIOUS
  <2>2. ASSUME NEW j \in 1 .. k - 1 PROVE fr[j + 1] \notin CKinds
    <3>1. j \in 1 .. n /\ j < k
      BY <1>1, <2>1
    <3> QED
      BY <1>3, <3>1
  <2> QED
    BY <2>1, <2>2
<1>5. Stop(fr, 1) = CHOOSE x \in 1 .. n : P(x)
  BY DEF Stop
<1> HIDE DEF P
<1> QED
  BY <1>4, <1>5

\* What the invariants say of the running thread.
LEMMA CurFacts ==
  ASSUME CoInv, DepthInv
  PROVE  /\ Cur \in Threads /\ Active(Cur)
         /\ frames[Cur] \in Seq(Kinds) /\ frames[Cur] # <<>>
         /\ Depth(frames[Cur]) \in Nat /\ cdepth[Cur] = Depth(frames[Cur]) + 1
         /\ Cur # Main => Cur \in Co /\ cbase[Cur] = 1
<1>1. Cur \in Threads
  BY DEF CoInv, CoTypeOK, Cur
<1>2. status[Cur] = "Running"
  BY <1>1 DEF CoInv, StatusChain
<1>3. Active(Cur)
  BY <1>2 DEF Active
<1>4. frames[Cur] \in Seq(Kinds) /\ frames[Cur] # <<>>
  BY <1>1, <1>3 DEF DepthInv
<1>5. Depth(frames[Cur]) \in Nat
  BY <1>4, DepthType
<1>6. cdepth[Cur] = Depth(frames[Cur]) + 1
  BY <1>1, <1>3 DEF DepthInv
<1>7. Cur # Main => Cur \in Co /\ cbase[Cur] = 1
  BY <1>1, <1>3 DEF DepthInv, Threads
<1> QED
  BY <1>1, <1>3, <1>4, <1>5, <1>6, <1>7

\* The running thread goes on with other frames.
Goes(g) ==
    /\ frames' = [frames EXCEPT ![Cur] = g]
    /\ cdepth' = [cdepth EXCEPT ![Cur] = Depth(g) + 1]
    /\ UNCHANGED <<status, susp, cbase>>

\* A step of the running thread alone only has to keep its own count.
LEMMA StayKeeps ==
  ASSUME CoInv, DepthInv, NEW g \in Seq(Kinds), g # <<>>, Goes(g)
  PROVE  DepthInv'
<1> DEFINE d == Depth(g) + 1
<1>0. d \in Int /\ frames' = [frames EXCEPT ![Cur] = g] /\ cdepth' = [cdepth EXCEPT ![Cur] = d]
      /\ UNCHANGED <<status, susp, cbase>>
  <2>1. Depth(g) \in Nat
    BY DepthType
  <2> QED
    BY <2>1 DEF Goes
<1>1. Cur \in Threads /\ Active(Cur) /\ d = Depth(g) + 1
  BY CurFacts
<1> HIDE DEF d
<1>2. /\ frames' \in [Threads -> Seq(Kinds)] /\ cdepth' \in [Threads -> Int] /\ cbase' \in [Threads -> Int]
      /\ DOMAIN susp' = Threads
      /\ \A t \in Threads : frames'[t] = (IF t = Cur THEN g ELSE frames[t])
      /\ \A t \in Threads : cdepth'[t] = (IF t = Cur THEN d ELSE cdepth[t])
  BY <1>0, <1>1 DEF DepthInv
<1>3. \A t : Active(t)' <=> Active(t)
  BY <1>0 DEF Active
<1>4. ASSUME NEW t \in Threads
      PROVE  /\ Active(t)' <=> frames'[t] # <<>>
             /\ cdepth'[t] = Depth(frames'[t]) + (IF Active(t)' THEN 1 ELSE 0)
             /\ susp'[t].how = "Start" \/ susp'[t].frames \in Seq(Plain)
  BY <1>0, <1>1, <1>2, <1>3 DEF DepthInv
<1>5. \A co \in Co : Active(co)' => cbase'[co] = 1
  BY <1>0, <1>3 DEF DepthInv
<1> QED
  BY <1>2, <1>4, <1>5 DEF DepthInv

\* The running coroutine is left, and its resumer runs again.
LEMMA LeaveKeeps ==
  ASSUME CoInv, DepthInv, Cur # Main,
         NEW s \in {"Dead", "Suspended"},
         status' = [status EXCEPT ![Cur] = s, ![Resumer] = "Running"],
         frames' = [frames EXCEPT ![Cur] = <<>>], cdepth' = [cdepth EXCEPT ![Cur] = 0],
         cbase' = cbase, DOMAIN susp' = Threads,
         \A t \in Threads : susp'[t].how = "Start" \/ susp'[t].frames \in Seq(Plain)
  PROVE  DepthInv'
<1> DEFINE n == Len(chain)
<1>1. n \in Nat /\ n > 1 /\ chain \in Seq(Threads)
  BY DEF CoInv, CoTypeOK, StatusChain, Cur
<1>2. /\ Cur = chain[n] /\ Resumer = chain[n - 1]
      /\ Cur \in Threads /\ Resumer \in Threads /\ Cur # Resumer
  BY <1>1 DEF Cur, Resumer, CoInv, StatusChain
<1>3. Active(Resumer)
  <2>1. \E i \in 1 .. n : chain[i] = Resumer
    BY <1>1, <1>2
  <2> QED
    BY <1>2, <2>1 DEF CoInv, StatusChain, Active
<1>4. \A t \in Threads : status'[t] =
         IF t = Cur THEN s ELSE IF t = Resumer THEN "Running" ELSE status[t]
  BY <1>2 DEF CoInv, CoTypeOK
<1>5. \A t \in Threads : Active(t)' <=> Active(t) /\ t # Cur
  BY <1>3, <1>4 DEF Active
<1>6. /\ frames' \in [Threads -> Seq(Kinds)] /\ cdepth' \in [Threads -> Int] /\ cbase' \in [Threads -> Int]
      /\ \A t \in Threads : frames'[t] = (IF t = Cur THEN <<>> ELSE frames[t])
      /\ \A t \in Threads : cdepth'[t] = (IF t = Cur THEN 0 ELSE cdepth[t])
  BY <1>2 DEF DepthInv
<1>7. Depth(<<>>) = 0
  <2>1. <<>> \in Seq(Kinds) /\ <<>> \in Seq(Plain)
    OBVIOUS
  <2> QED
    BY <2>1, DepthZero
<1>8. ASSUME NEW t \in Threads
      PROVE  /\ Active(t)' <=> frames'[t] # <<>>
             /\ cdepth'[t] = Depth(frames'[t]) + (IF Active(t)' THEN 1 ELSE 0)
  <2>1. CASE t = Cur
    BY <1>5, <1>6, <1>7, <2>1
  <2>2. CASE t # Cur
    BY <1>5, <1>6, <2>2 DEF DepthInv
  <2> QED
    BY <2>1, <2>2
<1>9. \A co \in Co : Active(co)' => cbase'[co] = 1
  BY <1>5 DEF DepthInv, Threads
<1> QED
  BY <1>6, <1>8, <1>9 DEF DepthInv

\* Return and Unwind, whatever frames are left.
LEMMA GoOnKeeps ==
  ASSUME CoInv, DepthInv, NEW fr \in Seq(Kinds), NEW err, GoOn(fr, err), UNCHANGED <<susp, cbase>>
  PROVE  DepthInv'
<1>1. Depth(fr) \in Nat
  BY DepthType
<1>2. DepthAfter(Cur, fr) = Depth(fr) + 1
  BY <1>1, CurFacts DEF DepthAfter
<1>3. CASE fr # <<>>
  <2>1. Goes(fr)
    BY <1>2, <1>3 DEF GoOn, Goes
  <2> QED
    BY <1>3, <2>1, StayKeeps
<1>4. <<>> \in Seq(Plain) /\ <<>> \in Seq(Kinds) /\ <<"lua">> \in Seq(Plain) /\ <<"lua">> \in Seq(Kinds)
  BY DEF Plain, Kinds, LuaKinds, CKinds, Counted
<1>5. Depth(<<>>) = 0 /\ Depth(<<"lua">>) = 0
  BY <1>4, DepthZero
<1>6. CASE fr = <<>> /\ Cur = Main
  <2>1. PICK g : g = <<"lua">>
    OBVIOUS
  <2>2. g \in Seq(Kinds) /\ g # <<>> /\ Depth(g) + 1 = 1
    BY <1>4, <1>5, <2>1
  <2>3. DepthAfter(Cur, fr) = 1
    BY <1>2, <1>5, <1>6
  <2>4. Goes(g)
    BY <1>6, <2>1, <2>2, <2>3 DEF GoOn, Goes
  <2> QED
    BY <2>2, <2>4, StayKeeps
<1>7. CASE fr = <<>> /\ Cur # Main
  <2>1. /\ frames' = [frames EXCEPT ![Cur] = <<>>]
        /\ cdepth' = [cdepth EXCEPT ![Cur] = DepthAfter(Cur, fr) - 1]
        /\ status' = [status EXCEPT ![Cur] = "Dead", ![Resumer] = "Running"]
    BY <1>7 DEF GoOn
  <2>2. DepthAfter(Cur, fr) - 1 = 0
    BY <1>2, <1>5, <1>7
  <2>3. DOMAIN susp' = Threads /\ \A t \in Threads : susp'[t].how = "Start" \/ susp'[t].frames \in Seq(Plain)
    BY DEF DepthInv
  <2> QED
    BY <1>7, <2>1, <2>2, <2>3, LeaveKeeps
<1> QED
  BY <1>3, <1>6, <1>7

\* A return leaves one activation and counts it down.
LEMMA ReturnKeeps ==
  ASSUME CoInv, DepthInv, Return
  PROVE  DepthInv'
<1> DEFINE fr == frames[Cur]
           rest == IF Top(fr) \in LuaKinds THEN Pop(fr) ELSE fr
<1>1. fr \in Seq(Kinds)
  BY CurFacts
<1>2. rest \in Seq(Kinds)
  BY <1>1, PopType
<1>3. PICK g \in Seq(Kinds) : g = TrimC(rest)
  BY <1>2, TrimCType
<1>4. GoOn(TrimC(rest), FALSE) /\ UNCHANGED <<susp, cbase>>
  BY DEF Return
<1> HIDE DEF rest
<1>5. GoOn(g, FALSE)
  BY <1>3, <1>4 DEF GoOn
<1> QED
  BY <1>4, <1>5, GoOnKeeps

\* An error or a yield leaves every activation it unwinds, counting each.
LEMMA UnwindKeeps ==
  ASSUME CoInv, DepthInv, Unwind
  PROVE  DepthInv'
<1> DEFINE fr == frames[Cur]
           rest == Pop(fr)
<1>1. fr \in Seq(Kinds) /\ "handler" \in Kinds
  BY CurFacts DEF Kinds, CKinds
<1>2. rest \in Seq(Kinds)
  BY <1>1, PopType
<1>3. Pop(rest) \in Seq(Kinds)
  BY <1>2, PopType
<1>4. PICK g1 \in Seq(Kinds), g2 \in Seq(Kinds), g3 \in Seq(Kinds), g4 \in Seq(Kinds) :
         g1 = rest /\ g2 = TrimC(rest) /\ g3 = Append(fr, "handler") /\ g4 = TrimC(Pop(rest))
  BY <1>1, <1>2, <1>3, TrimCType, DepthAppend
<1>5. /\ GoOn(rest, TRUE) \/ GoOn(TrimC(rest), FALSE) \/ GoOn(Append(fr, "handler"), FALSE)
         \/ GoOn(TrimC(Pop(rest)), FALSE) \/ GoOn(rest, FALSE)
      /\ UNCHANGED <<susp, cbase>>
  BY DEF Unwind
<1>6. GoOn(g1, TRUE) \/ GoOn(g2, FALSE) \/ GoOn(g3, FALSE) \/ GoOn(g4, FALSE) \/ GoOn(g1, FALSE)
  <2> HIDE DEF rest
  <2>1. CASE GoOn(rest, TRUE)
    BY <1>4, <2>1 DEF GoOn
  <2>2. CASE GoOn(TrimC(rest), FALSE)
    BY <1>4, <2>2 DEF GoOn
  <2>3. CASE GoOn(Append(fr, "handler"), FALSE)
    BY <1>4, <2>3 DEF GoOn
  <2>4. CASE GoOn(TrimC(Pop(rest)), FALSE)
    BY <1>4, <2>4 DEF GoOn
  <2>5. CASE GoOn(rest, FALSE)
    BY <1>4, <2>5 DEF GoOn
  <2> QED
    BY <1>5, <2>1, <2>2, <2>3, <2>4, <2>5
<1> QED
  BY <1>5, <1>6, GoOnKeeps

\* A Lua call stays within the activation of execute.
LEMMA CallKeeps ==
  ASSUME CoInv, DepthInv, Call
  PROVE  DepthInv'
<1> DEFINE fr == frames[Cur]
<1>1. fr \in Seq(Kinds) /\ Cur \in Threads /\ cdepth[Cur] = Depth(fr) + 1 /\ Depth(fr) \in Nat
  BY CurFacts
<1>2. "lua" \in Kinds /\ "lua" \notin Counted
  BY DEF Kinds, LuaKinds, Counted
<1>3. PICK g : g = Append(fr, "lua")
  OBVIOUS
<1>4. g \in Seq(Kinds) /\ g # <<>> /\ Depth(g) = Depth(fr) + 0
  BY <1>1, <1>2, <1>3, DepthAppend
<1>5. /\ frames' = [frames EXCEPT ![Cur] = g]
      /\ cdepth' = cdepth /\ UNCHANGED <<status, susp, cbase>>
  BY <1>3 DEF Call
<1>6. cdepth = [cdepth EXCEPT ![Cur] = Depth(g) + 1]
  <2>1. Depth(g) + 1 = cdepth[Cur]
    BY <1>1, <1>4
  <2> QED
    BY <1>1, <2>1 DEF DepthInv
<1>7. Goes(g)
  BY <1>5, <1>6 DEF Goes
<1> QED
  BY <1>4, <1>7, StayKeeps

\* The frame on top of fr, perhaps now as a tail call, is not a call from C
\* if it was none.
LEMMA TailDepth ==
  ASSUME NEW fr \in Seq(Kinds), fr # <<>>,
         NEW top \in {Top(fr)} \cup (IF Top(fr) = "lua" THEN {"tail"} ELSE {})
  PROVE  /\ Append(Pop(fr), top) \in Seq(Kinds) /\ Append(Pop(fr), top) # <<>>
         /\ Depth(Append(Pop(fr), top)) = Depth(fr)
<1>1. Pop(fr) \in Seq(Kinds) /\ Top(fr) \in Kinds /\ fr = Append(Pop(fr), Top(fr))
  BY PopType
<1>2. top \in Kinds /\ (top \in Counted <=> Top(fr) \in Counted)
  BY <1>1 DEF Kinds, LuaKinds, Counted
<1>3. Depth(fr) = Depth(Pop(fr)) + (IF Top(fr) \in Counted THEN 1 ELSE 0)
  BY <1>1, DepthAppend
<1> QED
  BY <1>1, <1>2, <1>3, DepthAppend

\* A call through C enters execute once more and counts it.
LEMMA CallCKeeps ==
  ASSUME CoInv, DepthInv, NEW kind \in {"pcall", "xpcall", "exec"}, CallC(kind)
  PROVE  DepthInv'
<1> DEFINE fr == frames[Cur]
           up == IF kind \in Counted THEN 1 ELSE 0
<1>1. fr \in Seq(Kinds) /\ fr # <<>> /\ Cur \in Threads /\ cdepth[Cur] = Depth(fr) + 1 /\ Depth(fr) \in Nat
  BY CurFacts
<1>2. kind \in Kinds /\ up \in Nat
  BY DEF Kinds, CKinds
<1>3. Depth(<<kind>>) = up
  <2>1. <<>> \in Seq(Kinds) /\ <<>> \in Seq(Plain) /\ Append(<<>>, kind) = <<kind>>
    OBVIOUS
  <2>2. Depth(<<>>) = 0
    BY <2>1, DepthZero
  <2>3. PICK e : e = <<>>
    OBVIOUS
  <2>4. Depth(Append(e, kind)) = Depth(e) + up
    BY <1>2, <2>1, <2>3, DepthAppend
  <2> QED
    BY <1>2, <2>1, <2>2, <2>3, <2>4
<1>4. PICK top \in {Top(fr)} \cup (IF Top(fr) = "lua" THEN {"tail"} ELSE {}) :
         frames' = [frames EXCEPT ![Cur] = Append(Append(Pop(fr), top), kind)]
  BY DEF CallC
<1>5. PICK h : h = Append(Pop(fr), top)
  OBVIOUS
<1>6. h \in Seq(Kinds) /\ Depth(h) = Depth(fr)
  BY <1>1, <1>5, TailDepth
<1>7. PICK g : g = Append(h, kind)
  OBVIOUS
<1>8. g \in Seq(Kinds) /\ g # <<>> /\ Depth(g) = Depth(h) + up
  BY <1>2, <1>6, <1>7, DepthAppend
<1>9. /\ cdepth' = [cdepth EXCEPT ![Cur] = cdepth[Cur] + Depth(<<kind>>)]
      /\ UNCHANGED <<status, susp, cbase>>
  BY DEF CallC
<1>10. cdepth[Cur] + Depth(<<kind>>) = Depth(g) + 1
  <2> HIDE DEF up, fr
  <2> QED
    BY <1>1, <1>2, <1>3, <1>6, <1>8
<1>11. Goes(g)
  BY <1>4, <1>5, <1>7, <1>9, <1>10 DEF Goes
<1> QED
  BY <1>8, <1>11, StayKeeps

\* What is left of the frames of a coroutine that may yield has no call from C.
LEMMA YieldKeeps ==
  ASSUME CoInv, DepthInv, NEW n, Yield(n)
  PROVE  DepthInv'
<1> DEFINE t == Cur
           fr == frames[t]
<1>1. /\ fr \in Seq(Kinds) /\ fr # <<>> /\ t \in Threads /\ t # Main /\ cbase[t] = 1
      /\ cdepth[t] = Depth(fr) + 1 /\ Depth(fr) \in Nat /\ cdepth[t] = cbase[t]
  BY CurFacts DEF Yield
<1>2. Depth(fr) = 0
  BY <1>1
<1>3. PICK top \in {Top(fr)} \cup (IF Top(fr) = "lua" THEN {"tail"} ELSE {}) :
         LET at == Append(Pop(fr), top)
             keep == Stop(at, 1)
             c == Noted(at, n)
             slot == FuncSlot(at, keep)
         IN  /\ susp' = [susp EXCEPT ![t] =
                    [how |-> c.how, frames |-> SubSeq(at, 1, keep), protected |-> c.protected,
                     vals |-> [i \in 1 .. n |-> c.st[slot + i - 1]], at |-> at]]
             /\ frames' = [frames EXCEPT ![t] = <<>>]
  BY DEF Yield
<1> DEFINE at == Append(Pop(fr), top)
           keep == Stop(at, 1)
           left == SubSeq(at, 1, keep)
<1>4. at \in Seq(Kinds) /\ at # <<>> /\ Depth(at) = 0
  BY <1>1, <1>2, TailDepth
<1>5. at \in Seq(Plain) /\ keep \in 1 .. Len(at)
  BY <1>4, DepthZero, StopIn
<1>6. left \in Seq(Plain)
  <2> HIDE DEF at, keep
  <2>1. keep \in 0 .. Len(at)
    BY <1>5
  <2>2. SubSeq(at, 1, keep) \in Seq(Plain)
    BY <1>5, <2>1
  <2> QED
    BY <2>2
<1> DEFINE c == Noted(at, n)
           slot == FuncSlot(at, keep)
           r == [how |-> c.how, frames |-> left, protected |-> c.protected,
                 vals |-> [i \in 1 .. n |-> c.st[slot + i - 1]], at |-> at]
<1>7. susp' = [susp EXCEPT ![t] = r] /\ r.frames = left
  <2>1. r.frames = left
    <3> HIDE DEF c, slot, left, at
    <3> QED
      OBVIOUS
  <2>2. susp' = [susp EXCEPT ![t] = r]
    BY <1>3, Zenon
  <2> QED
    BY <2>1, <2>2
<1> HIDE DEF left, r
<1>8. /\ DOMAIN susp' = Threads
      /\ \A x \in Threads : susp'[x].how = "Start" \/ susp'[x].frames \in Seq(Plain)
  BY <1>1, <1>6, <1>7 DEF DepthInv
<1>9. /\ frames' = [frames EXCEPT ![Cur] = <<>>]
      /\ cdepth' = [cdepth EXCEPT ![Cur] = cdepth[Cur] - 1]
      /\ status' = [status EXCEPT ![Cur] = "Suspended", ![Resumer] = "Running"]
      /\ cbase' = cbase
  BY <1>3 DEF Yield
<1>10. cdepth' = [cdepth EXCEPT ![Cur] = 0]
  <2>1. cdepth[Cur] - 1 = 0
    BY <1>1, <1>2
  <2> QED
    BY <1>9, <2>1
<1> QED
  BY <1>1, <1>8, <1>9, <1>10, LeaveKeeps

\* A new coroutine leaves the frames and depths of the others alone.
LEMMA CreateKeeps ==
  ASSUME CoInv, DepthInv, NEW co \in Co, Create(co)
  PROVE  DepthInv'
<1>1. /\ co \in Threads /\ status[co] = "None"
      /\ status' = [status EXCEPT ![co] = "Suspended"]
      /\ UNCHANGED <<frames, susp, cdepth, cbase>>
  BY DEF Create, Threads
<1>2. \A t \in Threads : Active(t)' <=> Active(t)
  BY <1>1 DEF CoInv, CoTypeOK, Active
<1>3. Co \subseteq Threads
  BY DEF Threads
<1> QED
  BY <1>1, <1>2, <1>3 DEF DepthInv

\* A resume starts at depth 1, with frames that hold no call from C.
LEMMA ResumeKeeps ==
  ASSUME CoInv, DepthInv, NEW co \in Co, NEW wrap, Resume(co, wrap)
  PROVE  DepthInv'
<1> DEFINE how == susp[co].how
           fr == IF how = "Start" THEN <<"lua">>
                 ELSE IF how = "Call" THEN susp[co].frames
                 ELSE Pop(susp[co].frames)
<1>1. /\ co \in Threads /\ Co \subseteq Threads /\ status[co] = "Suspended"
      /\ Cur \in Threads /\ Active(Cur) /\ status \in [Threads -> Statuses]
  BY CurFacts DEF CoInv, CoTypeOK, Resume, MayResume, Threads
<1>2. ~Active(co) /\ co # Cur
  BY <1>1 DEF Active
<1>3. cdepth[co] = 0 /\ frames[co] = <<>>
  <2>1. Depth(<<>>) = 0
    <3>1. <<>> \in Seq(Kinds) /\ <<>> \in Seq(Plain)
      OBVIOUS
    <3> QED
      BY <3>1, DepthZero
  <2>2. frames[co] = <<>> /\ cdepth[co] = Depth(frames[co]) + 0
    BY <1>1, <1>2 DEF DepthInv
  <2> QED
    BY <2>1, <2>2
<1>4. fr \in Seq(Plain)
  <2>1. <<"lua">> \in Seq(Plain)
    BY DEF Plain, Kinds, LuaKinds, CKinds, Counted
  <2>2. ASSUME how # "Start" PROVE susp[co].frames \in Seq(Plain) /\ Pop(susp[co].frames) \in Seq(Plain)
    <3>1. susp[co].frames \in Seq(Plain)
      BY <1>1, <2>2 DEF DepthInv
    <3> QED
      BY <3>1, PopType
  <2> QED
    BY <2>1, <2>2
<1>5. /\ susp' = [susp EXCEPT ![co] = Start]
      /\ cbase' = [cbase EXCEPT ![co] = 1]
      /\ frames' = [frames EXCEPT ![co] = fr]
      /\ \/ /\ fr # <<>>
            /\ status' = [status EXCEPT ![co] = "Running", ![Cur] = "Normal"]
            /\ cdepth' = [cdepth EXCEPT ![co] = 1]
         \/ /\ fr = <<>>
            /\ status' = [status EXCEPT ![co] = "Dead"]
            /\ UNCHANGED cdepth
  BY <1>3 DEF Resume
<1> HIDE DEF fr
<1>6. fr \in Seq(Kinds) /\ Depth(fr) = 0
  <2>1. fr \in Seq(Kinds)
    BY <1>4 DEF Plain
  <2> QED
    BY <1>4, <2>1, DepthZero
<1>7. /\ DOMAIN susp' = Threads
      /\ \A t \in Threads : susp'[t].how = "Start" \/ susp'[t].frames \in Seq(Plain)
  BY <1>1, <1>5 DEF DepthInv, Start
<1>8. /\ cbase' \in [Threads -> Int] /\ frames' \in [Threads -> Seq(Kinds)]
      /\ \A t \in Threads : cbase'[t] = IF t = co THEN 1 ELSE cbase[t]
      /\ \A t \in Threads : frames'[t] = IF t = co THEN fr ELSE frames[t]
  BY <1>1, <1>5, <1>6 DEF DepthInv
<1>9. CASE fr # <<>>
  <2>1. \A t \in Threads : Active(t)' <=> Active(t) \/ t = co
    BY <1>1, <1>2, <1>5, <1>9 DEF Active
  <2>2. /\ cdepth' \in [Threads -> Int]
        /\ \A t \in Threads : cdepth'[t] = IF t = co THEN 1 ELSE cdepth[t]
    BY <1>1, <1>5, <1>9 DEF DepthInv
  <2>3. ASSUME NEW t \in Threads
        PROVE  /\ Active(t)' <=> frames'[t] # <<>>
               /\ cdepth'[t] = Depth(frames'[t]) + (IF Active(t)' THEN 1 ELSE 0)
    <3>1. CASE t = co
      BY <1>6, <1>8, <1>9, <2>1, <2>2, <3>1
    <3>2. CASE t # co
      BY <1>8, <2>1, <2>2, <3>2 DEF DepthInv
    <3> QED
      BY <3>1, <3>2
  <2>4. \A x \in Co : Active(x)' => cbase'[x] = 1
    BY <1>1, <1>8, <2>1 DEF DepthInv
  <2> QED
    BY <1>7, <1>8, <2>2, <2>3, <2>4 DEF DepthInv
<1>10. CASE fr = <<>>
  <2>1. \A t \in Threads : Active(t)' <=> Active(t)
    BY <1>1, <1>2, <1>5, <1>10 DEF Active
  <2>2. cdepth' = cdepth /\ frames' = frames
    BY <1>1, <1>3, <1>5, <1>10 DEF DepthInv
  <2>3. \A x \in Co : Active(x)' => cbase'[x] = 1
    BY <1>1, <1>8, <2>1 DEF DepthInv
  <2> QED
    BY <1>7, <1>8, <2>1, <2>2, <2>3 DEF DepthInv
<1> QED
  BY <1>9, <1>10

\* The main thread starts with the count of its frames.
LEMMA InitDepth ==
  ASSUME CoInit
  PROVE  DepthInv
<1>1. <<>> \in Seq(Plain) /\ <<>> \in Seq(Kinds) /\ <<"lua">> \in Seq(Plain) /\ <<"lua">> \in Seq(Kinds)
  BY DEF Plain, Kinds, LuaKinds, CKinds, Counted
<1>2. Depth(<<>>) = 0 /\ Depth(<<"lua">>) = 0
  BY <1>1, DepthZero
<1>3. /\ frames \in [Threads -> Seq(Kinds)]
      /\ cdepth \in [Threads -> Int] /\ cbase \in [Threads -> Int] /\ DOMAIN susp = Threads
  BY <1>1 DEF CoInit
<1>4. ASSUME NEW t \in Threads
      PROVE  /\ Active(t) <=> frames[t] # <<>>
             /\ cdepth[t] = Depth(frames[t]) + (IF Active(t) THEN 1 ELSE 0)
             /\ susp[t].how = "Start"
  <2>1. CASE t = Main
    BY <1>2, <2>1 DEF CoInit, Active, Start
  <2>2. CASE t # Main
    BY <1>2, <2>2 DEF CoInit, Active, Start
  <2> QED
    BY <2>1, <2>2
<1>5. \A co \in Co : ~Active(co)
  BY CoAssumption DEF CoInit, Active, Threads
<1> QED
  BY <1>3, <1>4, <1>5 DEF DepthInv

\* DepthInv is inductive, next to CoInv.
LEMMA CoNextKeeps ==
  ASSUME CoInv, DepthInv, [CoNext]_coVars
  PROVE  DepthInv'
<1>1. ASSUME UNCHANGED <<status, frames, susp, cdepth, cbase>> PROVE DepthInv'
  BY <1>1 DEF DepthInv, Active
<1>2. CASE UNCHANGED coVars
  BY <1>1, <1>2 DEF coVars
<1>3. CASE Call
  BY <1>3, CallKeeps
<1>4. CASE \E kind \in {"pcall", "xpcall", "exec"} : CallC(kind)
  BY <1>4, CallCKeeps
<1>5. CASE Return
  BY <1>5, ReturnKeeps
<1>6. CASE Unwind
  BY <1>6, UnwindKeeps
<1>7. CASE \E n \in NYields : Yield(n)
  BY <1>7, YieldKeeps
<1>8. CASE \E co \in Co : Create(co)
  BY <1>8, CreateKeeps
<1>9. CASE \E co \in Co, wrap \in BOOLEAN : Resume(co, wrap)
  BY <1>9, ResumeKeeps
<1>10. CASE Error \/ YieldFails
  BY <1>1, <1>10 DEF Error, YieldFails
<1>11. CASE \E co \in Co : ResumeFails(co)
  BY <1>1, <1>11 DEF ResumeFails
<1> QED
  BY <1>2, <1>3, <1>4, <1>5, <1>6, <1>7, <1>8, <1>9, <1>10, <1>11 DEF CoNext

\* c_depth counts the calls from C exactly, and a coroutine may yield exactly
\* when there are none, after any number of errors, yields and resumes.
THEOREM DepthIsExact == CoSpec => []DepthExact
<1>1. CoInv /\ DepthInv => DepthExact
  <2> SUFFICES ASSUME CoInv, DepthInv PROVE DepthExact
    OBVIOUS
  <2>1. \A t \in Threads :
          cdepth[t] = Depth(frames[t]) + (IF status[t] \in {"Running", "Normal"} THEN 1 ELSE 0)
    BY DEF DepthInv, Active
  <2>2. Cur # Main => (cdepth[Cur] = cbase[Cur] <=> Depth(frames[Cur]) = 0)
    BY CurFacts
  <2> QED
    BY <2>1, <2>2 DEF DepthExact
<1>2. CoInit => CoInv /\ DepthInv
  BY InitCoInv, InitDepth
<1>3. CoInv /\ DepthInv /\ [CoNext]_coVars => CoInv' /\ DepthInv'
  BY CoNextPreserves, CoNextKeeps
<1> QED
  BY <1>1, <1>2, <1>3, PTL DEF CoSpec

---------------------------------------------------------------------------
(* Yields *)

\* What Stop promises, for any frame to start from.
LEMMA StopAt ==
  ASSUME NEW fr \in Seq(Kinds), NEW i \in 1 .. Len(fr)
  PROVE  /\ Stop(fr, i) \in i .. Len(fr)
         /\ Stop(fr, i) = Len(fr) \/ fr[Stop(fr, i) + 1] \in CKinds
         /\ \A j \in i .. Stop(fr, i) - 1 : fr[j + 1] \notin CKinds
<1> DEFINE n == Len(fr)
           J == {k \in i .. n : k = n \/ fr[k + 1] \in CKinds}
           P(k) == /\ k = n \/ fr[k + 1] \in CKinds
                   /\ \A j \in i .. k - 1 : fr[j + 1] \notin CKinds
<1>1. n \in Nat /\ i \in Nat /\ i <= n
  OBVIOUS
<1>2. J \in SUBSET Nat /\ J # {}
  BY <1>1
<1>3. PICK k \in J : \A j \in J : ~(j < k)
  BY <1>2, LeastIndex
<1>4. k \in i .. n /\ P(k)
  <2>1. k \in i .. n /\ (k = n \/ fr[k + 1] \in CKinds)
    OBVIOUS
  <2>2. ASSUME NEW j \in i .. k - 1 PROVE fr[j + 1] \notin CKinds
    <3>1. j \in i .. n /\ j < k
      BY <1>1, <2>1
    <3> QED
      BY <1>3, <3>1
  <2> QED
    BY <2>1, <2>2
<1>5. Stop(fr, i) = CHOOSE x \in i .. n : P(x)
  BY DEF Stop
<1>6. Stop(fr, i) \in i .. n /\ P(Stop(fr, i))
  <2> HIDE DEF P
  <2> QED
    BY <1>4, <1>5
<1> QED
  BY <1>6

\* A frame calls at a higher slot than the frames below it.
LEMMA FuncSlotGrows ==
  ASSUME NEW fr \in Seq(Kinds), NEW i \in 1 .. Len(fr)
  PROVE  /\ FuncSlot(fr, i) \in Nat
         /\ FuncSlot(fr, i) <= FuncSlot(fr, Len(fr))
<1> DEFINE n == Len(fr)
           L(m) == {k \in 1 .. m : fr[k] \in LuaKinds}
<1>1. n \in Nat /\ i \in Nat /\ i <= n /\ 1 \in Int /\ n \in Int /\ i \in Int
  OBVIOUS
<1>2. L(i) \in SUBSET (1 .. i) /\ L(i) \in SUBSET L(n) /\ L(n) \in SUBSET (1 .. n)
  BY <1>1
<1>3. FuncSlot(fr, i) = 2 * i + 1 * Cardinality(L(i)) /\ FuncSlot(fr, n) = 2 * n + 1 * Cardinality(L(n))
  BY DEF FuncSlot, Locals
<1> HIDE DEF L, n
<1>4. IsFiniteSet(L(i)) /\ IsFiniteSet(L(n))
  BY <1>1, <1>2, FS_Interval, FS_Subset
<1>5. Cardinality(L(i)) \in Nat /\ Cardinality(L(n)) \in Nat /\ Cardinality(L(i)) <= Cardinality(L(n))
  BY <1>2, <1>4, FS_CardinalityType, FS_Subset
<1>6. PICK ci \in Nat : ci = Cardinality(L(i))
  BY <1>5
<1>7. PICK cn \in Nat : cn = Cardinality(L(n))
  BY <1>5
<1>8. FuncSlot(fr, i) = 2 * i + ci /\ FuncSlot(fr, n) = 2 * n + cn /\ ci <= cn
  BY <1>3, <1>5, <1>6, <1>7
<1> QED
  BY <1>1, <1>8 DEF n

\* The first note, by the frame that called yield.
FirstNote(fr, n) ==
    [how |-> "Start",
     st |-> [s \in 0 .. FuncSlot(fr, Len(fr)) + 1 + n |->
               IF s > FuncSlot(fr, Len(fr)) + 1 THEN s - FuncSlot(fr, Len(fr)) - 1 ELSE 0],
     protected |-> FALSE, value_slot |-> 0]

\* up[i] is what frame i notes, for the frames from m up.
IsNotes(up, fr, n, m) ==
    up = [i \in m .. Len(fr) |->
            IF i = Len(fr) THEN Capture(fr, i, FirstNote(fr, n), n)
            ELSE Capture(fr, i, Protect(fr, i + 1, up[Stop(fr, i + 1)]), n)]

\* The frames note the yield one after the other, from the top down.
LEMMA NotedDef ==
  ASSUME NEW fr \in Seq(Kinds), fr # <<>>, NEW n
  PROVE  \E up : /\ up[Len(fr)] = Capture(fr, Len(fr), FirstNote(fr, n), n)
                 /\ \A i \in 1 .. Len(fr) - 1 :
                      up[i] = Capture(fr, i, Protect(fr, i + 1, up[Stop(fr, i + 1)]), n)
                 /\ Noted(fr, n) = up[Stop(fr, 1)]
<1> DEFINE N == Len(fr)
           Bad == {m \in 1 .. N : ~\E up : IsNotes(up, fr, n, m)}
<1>0. N \in Nat /\ N > 0
  OBVIOUS
<1>1. Bad = {}
  <2> SUFFICES ASSUME Bad # {} PROVE FALSE
    OBVIOUS
  <2>0. Bad \in SUBSET (0 .. N)
    BY <1>0
  <2>1. PICK m \in Bad : \A j \in Bad : j <= m
    <3> HIDE DEF Bad, N
    <3> QED
      BY <1>0, <2>0, GreatestIndex
  <2>2. m # N
    <3> SUFFICES ASSUME m = N PROVE FALSE
      OBVIOUS
    <3>1. IsNotes([i \in N .. N |-> Capture(fr, N, FirstNote(fr, n), n)], fr, n, N)
      BY <1>0 DEF IsNotes
    <3> QED
      BY <3>1, <2>1
  <2>3. m \in 1 .. N /\ m + 1 \in 1 .. N /\ m + 1 \notin Bad
    BY <1>0, <2>1, <2>2
  <2>4. PICK f : IsNotes(f, fr, n, m + 1)
    BY <2>3
  <2> DEFINE note(u, i) == Capture(fr, i, Protect(fr, i + 1, u[Stop(fr, i + 1)]), n)
             g == [i \in m .. N |-> IF i = m THEN note(f, m) ELSE f[i]]
             h == [i \in m .. N |-> IF i = N THEN Capture(fr, i, FirstNote(fr, n), n) ELSE note(g, i)]
  <2>5. \A i \in m + 1 .. N : f[i] = IF i = N THEN Capture(fr, i, FirstNote(fr, n), n) ELSE note(f, i)
    BY <2>4 DEF IsNotes
  <2>6. ASSUME NEW i \in m .. N, i # N PROVE note(g, i) = note(f, i)
    <3>1. i + 1 \in 1 .. N /\ i + 1 > m
      BY <2>3, <2>6
    <3>2. Stop(fr, i + 1) \in i + 1 .. N
      BY <3>1, StopAt
    <3>3. Stop(fr, i + 1) \in m .. N /\ Stop(fr, i + 1) # m
      BY <2>3, <3>1, <3>2
    <3>4. g[Stop(fr, i + 1)] = f[Stop(fr, i + 1)]
      BY <3>3
    <3> QED
      BY <3>4
  <2> HIDE DEF note
  <2>7. \A i \in m .. N : g[i] = h[i]
    <3> SUFFICES ASSUME NEW i \in m .. N PROVE g[i] = h[i]
      OBVIOUS
    <3>1. CASE i = m
      BY <3>1, <2>2, <2>6
    <3>2. CASE i # m
      <4>1. i \in m + 1 .. N
        BY <3>2, <2>3
      <4> QED
        BY <3>2, <4>1, <2>5, <2>6
    <3> QED
      BY <3>1, <3>2
  <2>8. g = h
    BY <2>7
  <2>9. IsNotes(g, fr, n, m)
    BY <2>8 DEF IsNotes, note
  <2> QED
    BY <2>1, <2>9
<1> DEFINE w == CHOOSE up : IsNotes(up, fr, n, 1)
<1>2. IsNotes(w, fr, n, 1)
  BY <1>0, <1>1
<1>3. Noted(fr, n) = w[Stop(fr, 1)]
  BY DEF Noted, IsNotes, FirstNote
<1> HIDE DEF w
<1>4. \A i \in 1 .. N : w[i] = IF i = N THEN Capture(fr, i, FirstNote(fr, n), n)
                               ELSE Capture(fr, i, Protect(fr, i + 1, w[Stop(fr, i + 1)]), n)
  BY <1>2 DEF IsNotes
<1> QED
  BY <1>0, <1>3, <1>4

\* The values 1, ..., n are in st from slot src on.
Holds(st, D, src, n) ==
    DOMAIN st = 0 .. D /\ \A j \in 1 .. n : st[src + j - 1] = j

\* Moving the values keeps them.
LEMMA MoveHolds ==
  ASSUME NEW st, NEW D \in Nat, NEW src \in Nat, NEW dst \in Nat, NEW n \in Nat,
         dst + n - 1 <= D, Holds(st, D, src, n)
  PROVE  Holds(Move(st, src, dst, n), D, dst, n)
<1> DEFINE m == Move(st, src, dst, n)
<1>1. DOMAIN m = 0 .. D
  BY DEF Move, Holds
<1>2. \A s \in 0 .. D : m[s] = IF s \in dst .. dst + n - 1 THEN st[src + s - dst] ELSE st[s]
  BY DEF Move, Holds
<1> HIDE DEF m
<1>3. ASSUME NEW j \in 1 .. n PROVE m[dst + j - 1] = j
  <2>1. PICK s : s = dst + j - 1
    OBVIOUS
  <2>2. s \in 0 .. D /\ s \in dst .. dst + n - 1 /\ src + s - dst = src + j - 1
    BY <2>1
  <2>3. m[s] = st[src + j - 1]
    BY <1>2, <2>2
  <2> QED
    BY <2>1, <2>3 DEF Holds
<1> QED
  BY <1>1, <1>3 DEF Holds, m

\* c notes a yield of n values at the slot of frame i.
Noting(c, fr, i, n, prot) ==
    /\ c = [how |-> "Call", st |-> c.st, protected |-> prot, value_slot |-> FuncSlot(fr, i)]
    /\ Holds(c.st, FuncSlot(fr, Len(fr)) + 1 + n, FuncSlot(fr, i), n)

\* The frame that called yield finds the values above its slot.
LEMMA FirstNoting ==
  ASSUME NEW fr \in Seq(Kinds), fr # <<>>, NEW n \in Nat, fr[Len(fr)] \in {"lua", "pcall"}
  PROVE  Noting(Capture(fr, Len(fr), FirstNote(fr, n), n), fr, Len(fr), n, FALSE)
<1> DEFINE N == Len(fr)
           f == FuncSlot(fr, N)
           st == FirstNote(fr, n).st
           r == [how |-> "Call", st |-> Move(st, f + 2, f, n), protected |-> FALSE, value_slot |-> f]
<1>1. f \in Nat
  BY FuncSlotGrows
<1>2. st = [s \in 0 .. f + 1 + n |-> IF s > f + 1 THEN s - f - 1 ELSE 0]
  BY DEF FirstNote
<1>3. Capture(fr, N, FirstNote(fr, n), n) = r
  <2>1. FirstNote(fr, n).how = "Start"
    BY DEF FirstNote
  <2> QED
    BY <2>1 DEF Capture, SuspendCall, CallCSuspend
<1> HIDE DEF f, st
<1>4. Holds(st, f + 1 + n, f + 2, n)
  <2>1. ASSUME NEW j \in 1 .. n PROVE st[f + 2 + j - 1] = j
    <3>1. PICK s : s = f + 2 + j - 1
      OBVIOUS
    <3>2. s \in 0 .. f + 1 + n /\ s > f + 1 /\ s - f - 1 = j
      BY <1>1, <3>1
    <3> QED
      BY <1>2, <3>1, <3>2
  <2> QED
    BY <1>2, <2>1 DEF Holds
<1>5. Holds(Move(st, f + 2, f, n), f + 1 + n, f, n)
  BY <1>1, <1>4, MoveHolds
<1>6. r = [how |-> "Call", st |-> r.st, protected |-> FALSE, value_slot |-> f]
      /\ Holds(r.st, f + 1 + n, f, n)
  BY <1>5
<1> QED
  BY <1>3, <1>6 DEF Noting, f

\* A Lua function that called pcall notes it as protected, with the values
\* at its own slot: suspend_call looks for them where pcall says.
LEMMA NextNoting ==
  ASSUME NEW fr \in Seq(Kinds), NEW n \in Nat, NEW i \in 1 .. Len(fr) - 1, NEW k \in i + 1 .. Len(fr),
         fr[i] = "lua", fr[i + 1] = "pcall",
         NEW c, NEW prot, Noting(c, fr, k, n, prot)
  PROVE  Noting(Capture(fr, i, Protect(fr, i + 1, c), n), fr, i, n, TRUE)
<1> DEFINE f == FuncSlot(fr, i)
           g == FuncSlot(fr, k)
           top == FuncSlot(fr, Len(fr))
           p == [how |-> "Call", st |-> c.st, protected |-> TRUE, value_slot |-> g]
           r == [how |-> "Call", st |-> Move(c.st, g, f, n), protected |-> TRUE, value_slot |-> f]
<1>1. i \in 1 .. Len(fr) /\ k \in 1 .. Len(fr)
  OBVIOUS
<1>2. f \in Nat /\ g \in Nat /\ top \in Nat /\ f <= top
  BY <1>1, FuncSlotGrows
<1>3. Protect(fr, i + 1, c) = p
  <2>1. PICK st : st = c.st
    OBVIOUS
  <2>2. c = [how |-> "Call", st |-> st, protected |-> prot, value_slot |-> g]
    BY <2>1 DEF Noting
  <2>3. Protect(fr, i + 1, c) = [c EXCEPT !.how = "Call", !.protected = TRUE,
                                   !.value_slot = IF c.how = "Call" THEN @ ELSE FuncSlot(fr, i + 1)]
    BY Zenon DEF Protect
  <2> HIDE DEF g
  <2>4. c.how = "Call"
    BY <2>2
  <2>5. Protect(fr, i + 1, c) = [how |-> "Call", st |-> st, protected |-> TRUE, value_slot |-> g]
    BY <2>2, <2>3, <2>4
  <2> QED
    BY <2>1, <2>5
<1>4. Capture(fr, i, p, n) = r
  BY DEF Capture, SuspendCall
<1> HIDE DEF f, g, top
<1>5. Holds(c.st, top + 1 + n, g, n)
  BY DEF Noting, g, top
<1>6. Holds(Move(c.st, g, f, n), top + 1 + n, f, n)
  BY <1>2, <1>5, MoveHolds
<1>7. r = [how |-> "Call", st |-> r.st, protected |-> TRUE, value_slot |-> f]
      /\ Holds(r.st, top + 1 + n, f, n)
  BY <1>6
<1> QED
  BY <1>3, <1>4, <1>7 DEF Noting, f, top

\* Where Stop ends among Lua calls and pcalls.
LEMMA PassableStop ==
  ASSUME NEW fr \in Seq(Kinds), Passable(fr), NEW i \in 1 .. Len(fr)
  PROVE  /\ Stop(fr, i) \in i .. Len(fr)
         /\ Stop(fr, i) < Len(fr) => fr[Stop(fr, i) + 1] = "pcall" /\ fr[Stop(fr, i)] = "lua"
         /\ \A j \in i + 1 .. Stop(fr, i) : fr[j] # "pcall"
<1> DEFINE k == Stop(fr, i)
<1>1. /\ k \in i .. Len(fr)
      /\ k = Len(fr) \/ fr[k + 1] \in CKinds
      /\ \A j \in i .. k - 1 : fr[j + 1] \notin CKinds
  BY StopAt
<1> HIDE DEF k
<1>2. ASSUME k < Len(fr) PROVE fr[k + 1] = "pcall" /\ fr[k] = "lua"
  <2>1. PICK p : p = k + 1
    OBVIOUS
  <2>2. p \in 1 .. Len(fr) /\ p - 1 = k /\ fr[p] \in CKinds
    BY <1>1, <1>2, <2>1
  <2>3. fr[p] = "pcall" /\ fr[p - 1] = "lua"
    BY <2>2 DEF Passable, CKinds
  <2> QED
    BY <2>1, <2>2, <2>3
<1>3. ASSUME NEW j \in i + 1 .. k PROVE fr[j] # "pcall"
  <2>1. PICK x : x = j - 1
    OBVIOUS
  <2>2. x \in i .. k - 1 /\ x + 1 = j
    BY <1>1, <2>1
  <2>3. fr[x + 1] \notin CKinds
    BY <1>1, <2>2
  <2> QED
    BY <2>2, <2>3 DEF CKinds
<1> QED
  BY <1>1, <1>2, <1>3 DEF k

\* Every frame that yield unwinds to notes the values at its own slot, as
\* protected exactly if a pcall is among the frames above it.
LEMMA EveryNote ==
  ASSUME NEW fr \in Seq(Kinds), fr # <<>>, Passable(fr), NEW n \in Nat
  PROVE  Noting(Noted(fr, n), fr, Stop(fr, 1), n, Stop(fr, 1) < Len(fr))
<1> DEFINE N == Len(fr)
           At(i) == i = N \/ (fr[i + 1] = "pcall" /\ fr[i] = "lua")
<1>0. N \in Nat /\ N > 0 /\ N \in 1 .. N /\ 1 \in 1 .. N
  OBVIOUS
<1>1. PICK up : /\ up[N] = Capture(fr, N, FirstNote(fr, n), n)
                /\ \A i \in 1 .. N - 1 :
                     up[i] = Capture(fr, i, Protect(fr, i + 1, up[Stop(fr, i + 1)]), n)
                /\ Noted(fr, n) = up[Stop(fr, 1)]
  BY NotedDef
<1> DEFINE Bad == {i \in 1 .. N : At(i) /\ ~Noting(up[i], fr, i, n, i < N)}
<1>2. Bad = {}
  <2> SUFFICES ASSUME Bad # {} PROVE FALSE
    OBVIOUS
  <2>0. Bad \in SUBSET (0 .. N)
    BY <1>0
  <2>1. PICK i \in Bad : \A j \in Bad : j <= i
    <3> HIDE DEF Bad, N
    <3> QED
      BY <1>0, <2>0, GreatestIndex
  <2>2. CASE i = N
    <3>1. fr[N] \in {"lua", "pcall"}
      BY <1>0 DEF Passable
    <3>2. Noting(up[N], fr, N, n, FALSE)
      BY <1>1, <3>1, FirstNoting
    <3>3. (N < N) = FALSE
      BY <1>0
    <3> QED
      BY <2>1, <2>2, <3>2, <3>3
  <2>3. CASE i # N
    <3>1. i \in 1 .. N - 1 /\ fr[i + 1] = "pcall" /\ fr[i] = "lua" /\ i + 1 \in 1 .. N
      BY <1>0, <2>1, <2>3
    <3>2. PICK k : k = Stop(fr, i + 1)
      OBVIOUS
    <3>3. k \in i + 1 .. N /\ (k < N => fr[k + 1] = "pcall" /\ fr[k] = "lua")
      BY <3>1, <3>2, PassableStop
    <3>4. k \in 1 .. N /\ At(k) /\ ~(k <= i)
      BY <3>1, <3>3
    <3>5. Noting(up[k], fr, k, n, k < N)
      BY <2>1, <3>4
    <3>6. Noting(Capture(fr, i, Protect(fr, i + 1, up[k]), n), fr, i, n, TRUE)
      BY <3>1, <3>3, <3>5, NextNoting
    <3>7. up[i] = Capture(fr, i, Protect(fr, i + 1, up[k]), n)
      BY <1>1, <3>1, <3>2
    <3>8. (i < N) = TRUE
      BY <3>1
    <3> QED
      BY <2>1, <3>6, <3>7, <3>8
  <2> QED
    BY <2>2, <2>3
<1>3. PICK s : s = Stop(fr, 1)
  OBVIOUS
<1>4. s \in 1 .. N /\ At(s)
  BY <1>0, <1>3, PassableStop
<1> HIDE DEF At
<1>5. Noting(up[s], fr, s, n, s < N)
  BY <1>2, <1>4
<1> QED
  BY <1>1, <1>3, <1>5

\* The values lie where the resumer reads them.
Delivered(r) == \A i \in DOMAIN r.vals : r.vals[i] = i

Pcalls(at) == {i \in 1 .. Len(at) : at[i] = "pcall"}

\* What YieldPasses says of a yield through Lua calls and pcalls ...
PassesCall(r) ==
    /\ r.how = "Call"
    /\ r.protected <=> Pcalls(r.at) # {}
    /\ Pcalls(r.at) = {} => r.frames = r.at
    /\ Pcalls(r.at) = {Len(r.at)} => r.frames = Pop(r.at)
    /\ Delivered(r)

\* ... and of one by a tail call.
PassesTail(r) == r.how = "Return" /\ r.frames = r.at /\ Delivered(r)

\* What YieldPasses says of one suspended coroutine.
Passes(r) ==
    /\ Passable(r.at) => PassesCall(r)
    /\ TailYield(r.at) /\ 3 \notin DOMAIN r.vals => PassesTail(r)

\* What Yield leaves in suspend.
Suspended(at, n) ==
    [how |-> Noted(at, n).how, frames |-> SubSeq(at, 1, Stop(at, 1)),
     protected |-> Noted(at, n).protected,
     vals |-> [i \in 1 .. n |-> Noted(at, n).st[FuncSlot(at, Stop(at, 1)) + i - 1]], at |-> at]

\* A yield through Lua calls and pcalls passes.
LEMMA SuspendedPasses ==
  ASSUME NEW at \in Seq(Kinds), at # <<>>, Passable(at), NEW n \in Nat
  PROVE  PassesCall(Suspended(at, n))
<1> DEFINE N == Len(at)
           s == Stop(at, 1)
           c == Noted(at, n)
           f == FuncSlot(at, s)
           left == SubSeq(at, 1, s)
           vals == [i \in 1 .. n |-> c.st[f + i - 1]]
           pcalls == {i \in 1 .. N : at[i] = "pcall"}
<1>0. N \in Nat /\ 1 \in 1 .. N
  OBVIOUS
<1>1. /\ s \in 1 .. N
      /\ s < N => at[s + 1] = "pcall"
      /\ \A j \in 2 .. s : at[j] # "pcall"
  BY <1>0, PassableStop
<1>2. Noting(c, at, s, n, s < N)
  BY EveryNote
<1>3. c.how = "Call" /\ c.protected = (s < N) /\ Holds(c.st, FuncSlot(at, N) + 1 + n, f, n)
  <2>1. c = [how |-> "Call", st |-> c.st, protected |-> s < N, value_slot |-> f]
        /\ Holds(c.st, FuncSlot(at, N) + 1 + n, f, n)
    BY <1>2 DEF Noting
  <2>2. PICK x : x = c.st
    OBVIOUS
  <2> HIDE DEF c, s, f, N
  <2>3. c = [how |-> "Call", st |-> x, protected |-> s < N, value_slot |-> f]
    BY <2>1, <2>2
  <2> QED
    BY <2>1, <2>3
<1>4. left \in Seq(Kinds) /\ Len(left) = s /\ (s = N => left = at)
  <2> HIDE DEF s
  <2>1. s \in 0 .. N
    BY <1>1
  <2>2. left \in Seq(Kinds) /\ Len(left) = s /\ \A i \in 1 .. s : left[i] = at[i]
    BY <2>1
  <2> QED
    BY <2>2
<1>5. at[1] # "pcall"
  BY <1>0 DEF Passable
<1>6. \A i \in pcalls : s < i
  <2> HIDE DEF s
  <2> SUFFICES ASSUME NEW i \in 1 .. N, at[i] = "pcall", ~(s < i) PROVE FALSE
    BY <1>1
  <2>1. i # 1
    BY <1>5
  <2>2. i \in 2 .. s
    BY <1>1, <2>1
  <2> QED
    BY <1>1, <2>2
<1>7. pcalls # {} <=> s < N
  <2> HIDE DEF s
  <2>1. ASSUME s < N PROVE pcalls # {}
    <3>1. s + 1 \in 1 .. N /\ at[s + 1] = "pcall"
      BY <1>1, <2>1
    <3> QED
      BY <3>1
  <2>2. ASSUME pcalls # {} PROVE s < N
    <3>1. PICK i \in pcalls : s < i
      BY <1>6, <2>2
    <3> QED
      BY <1>1, <3>1
  <2> QED
    BY <2>1, <2>2
<1>8. \A i \in DOMAIN vals : vals[i] = i
  BY <1>3 DEF Holds
<1> DEFINE r == Suspended(at, n)
<1>9. /\ r.how = c.how /\ r.frames = left /\ r.protected = c.protected
      /\ r.vals = vals /\ r.at = at
  <2>1. r = [how |-> c.how, frames |-> left, protected |-> c.protected, vals |-> vals, at |-> at]
    BY DEF Suspended
  <2> HIDE DEF r, c, left, vals
  <2> QED
    BY <2>1
<1> HIDE DEF c, left, vals, s, r
<1>10. pcalls = {} => left = at
  BY <1>1, <1>4, <1>7
<1>11. pcalls = {N} => left = Pop(at)
  <2> SUFFICES ASSUME pcalls = {N} PROVE left = Pop(at)
    OBVIOUS
  <2>1. s < N
    BY <1>7
  <2>2. \A x \in 1 .. N : at[x] = "pcall" => x = N
    OBVIOUS
  <2>3. s + 1 \in 1 .. N /\ at[s + 1] = "pcall"
    BY <1>1, <2>1
  <2>4. s + 1 = N
    BY <2>2, <2>3
  <2>5. s = N - 1
    BY <1>0, <1>1, <2>4
  <2> QED
    BY <2>5 DEF left, Pop
<1>12. r.protected <=> pcalls # {}
  BY <1>3, <1>7, <1>9
<1>13. pcalls = Pcalls(r.at)
  BY <1>9 DEF Pcalls
<1>14. Delivered(r)
  BY <1>8, <1>9 DEF Delivered
<1>15. Pcalls(r.at) = {} => r.frames = r.at
  BY <1>9, <1>10, <1>13
<1>16. Pcalls(r.at) = {Len(r.at)} => r.frames = Pop(r.at)
  BY <1>9, <1>11, <1>13
<1> HIDE DEF pcalls
<1>17. PassesCall(r)
  BY <1>3, <1>9, <1>12, <1>13, <1>14, <1>15, <1>16 DEF PassesCall
<1> QED
  BY <1>17 DEF r

\* A value that lies two slots above a slot is moved down to it.
LEMMA MoveTwo ==
  ASSUME NEW D \in Nat, NEW f \in Nat, NEW n \in Nat, n <= 2, f + 1 + n <= D,
         NEW st, DOMAIN st = 0 .. D, \A j \in 1 .. n : st[f + 1 + j] = j
  PROVE  LET m == Move(st, f + 2, f, n)
         IN  /\ DOMAIN m = 0 .. D
             /\ \A j \in 1 .. n : m[f + 1 + j] = j /\ m[f + j - 1] = j
<1> DEFINE m == Move(st, f + 2, f, n)
<1>1. /\ DOMAIN m = 0 .. D
      /\ \A s \in 0 .. D : m[s] = IF s \in f .. f + n - 1 THEN st[f + 2 + s - f] ELSE st[s]
  BY DEF Move
<1> HIDE DEF m
<1>2. ASSUME NEW j \in 1 .. n PROVE m[f + 1 + j] = j /\ m[f + j - 1] = j
  <2>1. PICK x : x = f + 1 + j
    OBVIOUS
  <2>2. PICK y : y = f + j - 1
    OBVIOUS
  <2>3. /\ x \in 0 .. D /\ x \notin f .. f + n - 1
        /\ y \in 0 .. D /\ y \in f .. f + n - 1 /\ f + 2 + y - f = x
    BY <2>1, <2>2
  <2>4. m[x] = st[x] /\ m[y] = st[x]
    BY <1>1, <2>3
  <2> QED
    BY <2>1, <2>2, <2>4
<1> QED
  BY <1>1, <1>2 DEF m

\* A tail call of yield: suspend_return moves what call_c has moved before.
LEMMA SuspendedReturns ==
  ASSUME NEW at \in Seq(Kinds), at # <<>>, TailYield(at), NEW n \in Nat, n <= 2
  PROVE  PassesTail(Suspended(at, n))
<1> DEFINE N == Len(at)
           f == FuncSlot(at, N)
           D == f + 1 + n
           st == FirstNote(at, n).st
           m1 == Move(st, f + 2, f, n)
           m2 == Move(m1, f + 2, f, n)
           r == [how |-> "Return", st |-> m2, protected |-> FALSE, value_slot |-> f]
           vals == [i \in 1 .. n |-> m2[f + i - 1]]
<1>0. N \in Nat /\ N > 0 /\ 1 \in 1 .. N /\ N \in 1 .. N
  OBVIOUS
<1>1. f \in Nat
  BY <1>0, FuncSlotGrows
<1>2. Stop(at, 1) = N
  <2>1. PICK s : s = Stop(at, 1)
    OBVIOUS
  <2>2. s \in 1 .. N /\ (s = N \/ at[s + 1] \in CKinds)
    BY <1>0, <2>1, StopAt
  <2>3. \A i \in 1 .. N : at[i] \in {"lua", "tail"}
    BY <1>0 DEF TailYield, Top
  <2>4. ASSUME s # N PROVE FALSE
    <3>1. s + 1 \in 1 .. N
      BY <1>0, <2>2, <2>4
    <3> QED
      BY <2>2, <2>3, <2>4, <3>1 DEF CKinds
  <2> QED
    BY <2>1, <2>4
<1>3. Noted(at, n) = Capture(at, N, FirstNote(at, n), n)
  BY <1>2, NotedDef
<1>4. Capture(at, N, FirstNote(at, n), n) = r
  <2>1. at[N] = "tail"
    BY DEF TailYield, Top
  <2> QED
    BY <2>1 DEF Capture, SuspendReturn, CallCSuspend
<1>5. st = [s \in 0 .. D |-> IF s > f + 1 THEN s - f - 1 ELSE 0]
  BY DEF FirstNote
<1> HIDE DEF f, st
<1>6. DOMAIN st = 0 .. D /\ \A j \in 1 .. n : st[f + 1 + j] = j
  <2>1. ASSUME NEW j \in 1 .. n PROVE st[f + 1 + j] = j
    <3>1. PICK s : s = f + 1 + j
      OBVIOUS
    <3>2. s \in 0 .. D /\ s > f + 1 /\ s - f - 1 = j
      BY <1>1, <3>1
    <3> QED
      BY <1>5, <3>1, <3>2
  <2> QED
    BY <1>5, <2>1
<1>7. D \in Nat /\ f + 1 + n <= D
  BY <1>1
<1> HIDE DEF D
<1>8. DOMAIN m1 = 0 .. D /\ \A j \in 1 .. n : m1[f + 1 + j] = j /\ m1[f + j - 1] = j
  BY <1>1, <1>6, <1>7, MoveTwo
<1> HIDE DEF m1
<1>9. \A j \in 1 .. n : m2[f + 1 + j] = j /\ m2[f + j - 1] = j
  BY <1>1, <1>7, <1>8, MoveTwo
<1> HIDE DEF m2
<1>10. SubSeq(at, 1, N) = at
  BY <1>0
<1> DEFINE q == Suspended(at, n)
<1>11. q = [how |-> "Return", frames |-> at, protected |-> FALSE, vals |-> vals, at |-> at]
  <2>1. PICK c : c = Noted(at, n)
    OBVIOUS
  <2>2. c = r
    BY <1>3, <1>4, <2>1
  <2>3. c.how = "Return" /\ c.st = m2 /\ c.protected = FALSE
    BY <2>2
  <2> QED
    BY <1>2, <1>10, <2>1, <2>3 DEF Suspended, f
<1> HIDE DEF q
<1>12. PICK v : v = vals
  OBVIOUS
<1>13. \A i \in DOMAIN v : v[i] = i
  BY <1>9, <1>12
<1> HIDE DEF vals
<1>14. q.how = "Return" /\ q.frames = at /\ q.vals = v /\ q.at = at
  BY <1>11, <1>12
<1>15. PassesTail(q)
  BY <1>13, <1>14 DEF PassesTail, Delivered
<1> QED
  BY <1>15 DEF q

\* YieldPasses for every thread: what is inductive.
YieldInv == \A t \in Threads : susp[t] = Start \/ Passes(susp[t])

\* A yield notes what Passes asks for, and nobody else's note changes.
LEMMA YieldNotes ==
  ASSUME CoInv, DepthInv, YieldInv, NEW n \in Nat, Yield(n)
  PROVE  YieldInv'
<1> DEFINE t == Cur
           fr == frames[t]
<1>1. fr \in Seq(Kinds) /\ fr # <<>> /\ t \in Threads
  BY CurFacts
<1>2. PICK top \in {Top(fr)} \cup (IF Top(fr) = "lua" THEN {"tail"} ELSE {}) :
         susp' = [susp EXCEPT ![t] = Suspended(Append(Pop(fr), top), n)]
  BY DEF Yield, Suspended
<1>3. PICK at : at = Append(Pop(fr), top)
  OBVIOUS
<1>4. at \in Seq(Kinds) /\ at # <<>>
  BY <1>1, <1>3, TailDepth
<1>5. PICK r : r = Suspended(at, n)
  OBVIOUS
<1>6. r.at = at
  BY <1>5 DEF Suspended
<1>7. Passes(r)
  <2>1. Passable(at) => PassesCall(r)
    BY <1>4, <1>5, SuspendedPasses
  <2>2. ASSUME TailYield(at), 3 \notin DOMAIN r.vals PROVE PassesTail(r)
    <3>1. DOMAIN r.vals = 1 .. n
      BY <1>5 DEF Suspended
    <3>2. n <= 2
      BY <2>2, <3>1
    <3> QED
      BY <1>4, <1>5, <2>2, <3>2, SuspendedReturns
  <2> QED
    BY <1>6, <2>1, <2>2 DEF Passes
<1>8. susp' = [susp EXCEPT ![t] = r]
  BY <1>2, <1>3, <1>5
<1> HIDE DEF t
<1>9. \A x \in Threads : susp'[x] = IF x = t THEN r ELSE susp[x]
  BY <1>8 DEF DepthInv
<1> QED
  BY <1>7, <1>9 DEF YieldInv

\* Nothing else writes a note: a resume takes it.
LEMMA NotesKept ==
  ASSUME CoInv, DepthInv, YieldInv, [CoNext]_coVars
  PROVE  YieldInv'
<1>1. ASSUME susp' = susp PROVE YieldInv'
  BY <1>1 DEF YieldInv
<1>2. CASE \E n \in NYields : Yield(n)
  BY <1>2, CoAssumption, YieldNotes
<1>3. CASE \E co \in Co, wrap \in BOOLEAN : Resume(co, wrap)
  <2>1. PICK co \in Co, wrap \in BOOLEAN : Resume(co, wrap)
    BY <1>3
  <2>2. susp' = [susp EXCEPT ![co] = Start]
    BY <2>1 DEF Resume
  <2>3. \A x \in Threads : susp'[x] = Start \/ susp'[x] = susp[x]
    BY <2>2 DEF DepthInv
  <2> QED
    BY <2>3 DEF YieldInv
<1>4. CASE UNCHANGED coVars
  BY <1>1, <1>4 DEF coVars
<1>5. CASE Call \/ (\E kind \in {"pcall", "xpcall", "exec"} : CallC(kind)) \/ Return \/ Error \/ Unwind \/ YieldFails
  BY <1>1, <1>5 DEF Call, CallC, Return, Error, Unwind, YieldFails
<1>6. CASE (\E co \in Co : Create(co)) \/ (\E co \in Co : ResumeFails(co))
  BY <1>1, <1>6 DEF Create, ResumeFails
<1> QED
  BY <1>2, <1>3, <1>4, <1>5, <1>6 DEF CoNext

\* A yield in any number of Lua calls and pcalls delivers its values in order
\* and notes whether it was protected; outside pcalls it is continued by the
\* frames it was made in, as yield called by pcall is by pcall's caller; and a
\* tail call of yield delivers two values (suspend_call, suspend_return,
\* call_c, lib_pcall).
THEOREM YieldsPass == CoSpec => []YieldPasses
<1>1. YieldInv => YieldPasses
  <2> SUFFICES ASSUME YieldInv PROVE YieldPasses
    OBVIOUS
  <2>1. ASSUME NEW co \in Co, susp[co] # Start
        PROVE  Passes(susp[co])
    BY <2>1 DEF YieldInv, Threads
  <2> QED
    BY <2>1 DEF YieldPasses, Passes, PassesCall, PassesTail, Delivered, Pcalls
<1>2. CoInit => CoInv /\ DepthInv /\ YieldInv
  <2>1. CoInit => YieldInv
    BY DEF CoInit, YieldInv
  <2> QED
    BY <2>1, InitCoInv, InitDepth
<1>3. CoInv /\ DepthInv /\ YieldInv /\ [CoNext]_coVars => CoInv' /\ DepthInv' /\ YieldInv'
  BY CoNextPreserves, CoNextKeeps, NotesKept
<1> QED
  BY <1>1, <1>2, <1>3, PTL DEF CoSpec
=============================================================================
