----------------------------- MODULE Coroutine -----------------------------
(***************************************************************************)
(* Coroutines (stdlib/coroutine.rs) as the interpreter runs them: resume   *)
(* is a nested run of the interpreter on another stack, yield an error     *)
(* value that unwinds it after the frame that called yield was noted in    *)
(* LuaState::suspend, and protected calls catch errors on the way.         *)
(*                                                                         *)
(* A thread's frames are a sequence of kinds:                              *)
(*   "lua"      a Lua function                                             *)
(*   "tail"     a Lua function that has tail-called a C function           *)
(*   "pcall", "xpcall"  a protected call (execute_yieldable)               *)
(*   "exec"     a call from C: a sort comparison, a finalizer, a hook      *)
(*   "handler"  xpcall's message handler (execute_link)                    *)
(* A frame of C on top stands for a C function that it calls.  Functions   *)
(* that coroutines start with are Lua functions: one that starts with a C  *)
(* function panics when it yields (call_c reads slot 0 as a function, or   *)
(* resume_continue meets no frame).                                        *)
(***************************************************************************)
EXTENDS Integers, Sequences, FiniteSets

CONSTANTS
    Co,             \* coroutines
    Main,           \* the main thread
    MaxResumeDepth, \* MAX_RESUME_DEPTH
    NYields,        \* how many values a yield may pass
    MaxFrames       \* bound: frames of one thread

ASSUME CoAssumption ==
    /\ Main \notin Co
    /\ MaxResumeDepth \in Nat /\ MaxFrames \in Nat
    /\ NYields \subseteq Nat

VARIABLES
    status,     \* LuaState::status, "None" before creation
    frames,     \* the frames on the thread's stack
    susp,       \* LuaState::suspend
    cdepth,     \* LuaState::c_depth
    cbase,      \* LuaState::c_base
    chain,      \* the threads in nested do_resume calls, cur_l last
    wrapped,    \* the coroutines that were resumed by wrap_call
    raising     \* LuaError::Runtime is on its way through the running thread

coVars == <<status, frames, susp, cdepth, cbase, chain, wrapped, raising>>

Threads == Co \cup {Main}
LuaKinds == {"lua", "tail"}
CKinds == {"pcall", "xpcall", "exec", "handler"}
Counted == {"exec", "handler"}      \* execute and execute_link

Cur == chain[Len(chain)]
Top(fr) == fr[Len(fr)]
Pop(fr) == SubSeq(fr, 1, Len(fr) - 1)
Below == SubSeq(chain, 1, Len(chain) - 1)
Resumer == chain[Len(chain) - 1]

\* Frames that have counted themselves in c_depth.
Depth(fr) == Cardinality({i \in 1 .. Len(fr) : fr[i] \in Counted})

\* fr without the C frames on top: what a returning C function goes back to.
TrimC(fr) ==
    LET lua == {i \in 1 .. Len(fr) : fr[i] \in LuaKinds}
        last == CHOOSE i \in lua \cup {0} : \A j \in lua : j <= i
    IN  SubSeq(fr, 1, last)

Start == [how |-> "Start"]

---------------------------------------------------------------------------
(* Calls, returns and errors in the running thread *)

\* Mutant: execute returns an error before it counts down.
DepthAfter_Leaks(t, fr) ==
    IF raising THEN cdepth[t] ELSE cdepth[t] - Depth(frames[t]) + Depth(fr)

\* c_depth of t after execute and execute_link were left, or the handler called.
DepthAfter(t, fr) == cdepth[t] - Depth(frames[t]) + Depth(fr)

\* The running thread goes on with frames fr, with an error or without.
\* With none left the coroutine is finished and its resumer continues.
\* (The host calls Main again.)
GoOn(fr, err) ==
    LET t == Cur IN
    \/ /\ fr # <<>>
       /\ frames' = [frames EXCEPT ![t] = fr]
       /\ cdepth' = [cdepth EXCEPT ![t] = DepthAfter(t, fr)]
       /\ raising' = err
       /\ UNCHANGED <<status, chain>>
    \/ /\ fr = <<>> /\ t = Main
       /\ frames' = [frames EXCEPT ![t] = <<"lua">>]
       /\ cdepth' = [cdepth EXCEPT ![t] = DepthAfter(t, fr)]
       /\ raising' = FALSE
       /\ UNCHANGED <<status, chain>>
    \/ /\ fr = <<>> /\ t # Main
       /\ frames' = [frames EXCEPT ![t] = <<>>]
       /\ cdepth' = [cdepth EXCEPT ![t] = DepthAfter(t, fr) - 1]
       /\ status' = [status EXCEPT ![t] = "Dead", ![Resumer] = "Running"]
       /\ chain' = Below
       /\ raising' = (err /\ t \in wrapped)

\* A Lua function is called, by Lua or by the C frame on top.
Call ==
    /\ ~raising
    /\ Top(frames[Cur]) # "tail"
    /\ Len(frames[Cur]) < MaxFrames
    /\ frames' = [frames EXCEPT ![Cur] = Append(@, "lua")]
    /\ UNCHANGED <<status, susp, cdepth, cbase, chain, wrapped, raising>>

\* pcall or xpcall, or a C function that calls back, is called; in a Lua
\* function perhaps as a tail call.
CallC(kind) ==
    LET fr == frames[Cur] IN
    /\ ~raising
    /\ Top(fr) # "tail"
    /\ Len(fr) < MaxFrames
    /\ \E top \in {Top(fr)} \cup (IF Top(fr) = "lua" THEN {"tail"} ELSE {}) :
         frames' = [frames EXCEPT ![Cur] = Append(Append(Pop(fr), top), kind)]
    /\ cdepth' = [cdepth EXCEPT ![Cur] = @ + Depth(<<kind>>)]
    /\ UNCHANGED <<status, susp, cbase, chain, wrapped, raising>>

\* A function returns, and with it the C functions that were waiting for it.
Return ==
    LET fr == frames[Cur] IN
    /\ ~raising
    /\ GoOn(TrimC(IF Top(fr) \in LuaKinds THEN Pop(fr) ELSE fr), FALSE)
    /\ UNCHANGED <<susp, cbase, wrapped>>

Error ==
    /\ ~raising
    /\ raising' = TRUE
    /\ UNCHANGED <<status, frames, susp, cdepth, cbase, chain, wrapped>>

\* One frame less.  pcall, and xpcall without a function for a handler,
\* return false; a failing handler makes xpcall return too; table.foreach
\* and load's reader drop the error of the function they call.
Unwind ==
    LET fr == frames[Cur] rest == Pop(fr) IN
    /\ raising
    /\ \/ Top(fr) \in LuaKinds /\ GoOn(rest, TRUE)
       \/ Top(fr) \in {"pcall", "xpcall"} /\ GoOn(TrimC(rest), FALSE)
       \/ Top(fr) = "xpcall" /\ GoOn(Append(fr, "handler"), FALSE)
       \/ Top(fr) = "handler" /\ GoOn(TrimC(Pop(rest)), FALSE)
       \/ Top(fr) = "exec" /\ GoOn(rest, TRUE)
       \/ Top(fr) = "exec" /\ GoOn(rest, FALSE)
    /\ UNCHANGED <<susp, cbase, wrapped>>

---------------------------------------------------------------------------
(* Yield: where the values and the resume point end up *)

\* The stack slot at which frame i of fr calls: a Lua function at its first
\* register above its locals, a C function at its base; slot 0 holds the
\* coroutine's function.
Locals == 1
FuncSlot(fr, i) ==
    2 * i + Locals * Cardinality({k \in 1 .. i : fr[k] \in LuaKinds})

\* Copy n values from src down to dst.
Move(st, src, dst, n) ==
    [s \in DOMAIN st |-> IF s \in dst .. dst + n - 1 THEN st[src + s - dst] ELSE st[s]]

\* Suspend::Call as call_c notes it.
CallCSuspend(c, f, n) ==
    [how |-> "Call", st |-> Move(c.st, f + 2, f, n),
     protected |-> c.how = "Call" /\ c.protected, value_slot |-> f]

\* Mutant: the values are looked for where the call was made.
SuspendCall_Slot(c, f, n) ==
    LET prot == c.how = "Call" /\ c.protected IN
    [how |-> "Call", st |-> Move(c.st, f + 2, f, n),
     protected |-> prot, value_slot |-> f]

\* suspend_call: the values of a yield in a pcall are where pcall says.
SuspendCall(c, f, n) ==
    LET prot == c.how = "Call" /\ c.protected IN
    [how |-> "Call", st |-> Move(c.st, IF prot THEN c.value_slot ELSE f + 2, f, n),
     protected |-> prot, value_slot |-> f]

\* suspend_return, after call_c.
SuspendReturn(c, f, n) ==
    [how |-> "Return", st |-> Move(CallCSuspend(c, f, n).st, f + 2, f, n),
     protected |-> FALSE, value_slot |-> f]

\* Frame i of fr notes that the function it called yielded.
Capture(fr, i, c, n) ==
    IF fr[i] = "lua" THEN SuspendCall(c, FuncSlot(fr, i), n)
    ELSE IF fr[i] = "tail" THEN SuspendReturn(c, FuncSlot(fr, i), n)
    ELSE CallCSuspend(c, FuncSlot(fr, i), n)

\* lib_pcall rewrites what was noted below it, lib_xpcall does not.
Protect(fr, i, c) ==
    IF fr[i] = "pcall"
      THEN [c EXCEPT !.how = "Call", !.protected = TRUE,
                     !.value_slot = IF c.how = "Call" THEN @ ELSE FuncSlot(fr, i)]
      ELSE c

\* The frame at or above i that yield unwinds to first: it called C code.
Stop(fr, i) ==
    CHOOSE k \in i .. Len(fr) :
        /\ k = Len(fr) \/ fr[k + 1] \in CKinds
        /\ \A j \in i .. k - 1 : fr[j + 1] \notin CKinds

\* What suspend holds after the frames from the top down to i noted the yield.
Noted(fr, n) ==
    LET top == FuncSlot(fr, Len(fr))
        st0 == [s \in 0 .. top + 1 + n |-> IF s > top + 1 THEN s - top - 1 ELSE 0]
        start == [how |-> "Start", st |-> st0, protected |-> FALSE, value_slot |-> 0]
        up[i \in 1 .. Len(fr)] ==
            IF i = Len(fr) THEN Capture(fr, i, start, n)
            ELSE Capture(fr, i, Protect(fr, i + 1, up[Stop(fr, i + 1)]), n)
    IN  up[Stop(fr, 1)]

\* lib_yield passes 1, ..., n.  The frames above the outermost protected call
\* are gone with the Rust frames that ran them; the resumer reads the values
\* at the noted slot.
Yield(n) ==
    LET t == Cur fr == frames[t] IN
    /\ ~raising
    /\ t # Main /\ Top(fr) # "tail"
    /\ cdepth[t] = cbase[t]
    /\ \E top \in {Top(fr)} \cup (IF Top(fr) = "lua" THEN {"tail"} ELSE {}) :
         LET at == Append(Pop(fr), top)
             keep == Stop(at, 1)
             c == Noted(at, n)
             slot == FuncSlot(at, keep)
         IN  /\ susp' = [susp EXCEPT ![t] =
                    [how |-> c.how, frames |-> SubSeq(at, 1, keep), protected |-> c.protected,
                     vals |-> [i \in 1 .. n |-> c.st[slot + i - 1]], at |-> at]]
             /\ frames' = [frames EXCEPT ![t] = <<>>]
    /\ cdepth' = [cdepth EXCEPT ![t] = @ - 1]
    /\ status' = [status EXCEPT ![t] = "Suspended", ![Resumer] = "Running"]
    /\ chain' = Below
    /\ UNCHANGED <<cbase, wrapped, raising>>

\* A yield with a call from C below it raises an error.
YieldFails ==
    /\ ~raising
    /\ Cur # Main /\ cdepth[Cur] # cbase[Cur]
    /\ raising' = TRUE
    /\ UNCHANGED <<status, frames, susp, cdepth, cbase, chain, wrapped>>

---------------------------------------------------------------------------
(* Create and resume *)

Create(co) ==
    /\ ~raising
    /\ status[co] = "None"
    /\ status' = [status EXCEPT ![co] = "Suspended"]
    /\ UNCHANGED <<frames, susp, cdepth, cbase, chain, wrapped, raising>>

\* Mutant: only dead coroutines are refused.
MayResume_Alive(co) == status[co] \notin {"None", "Dead"} /\ cdepth[Cur] < MaxResumeDepth

\* do_resume's checks.
MayResume(co) == status[co] = "Suspended" /\ cdepth[Cur] < MaxResumeDepth

\* coroutine.resume returns false then, a wrap function raises.
ResumeFails(co) ==
    /\ ~raising
    /\ status[co] # "None" /\ ~MayResume(co)
    /\ raising' = TRUE
    /\ UNCHANGED <<status, frames, susp, cdepth, cbase, chain, wrapped>>

\* do_resume up to the first instruction of the coroutine.
Resume(co, wrap) ==
    LET how == susp[co].how
        fr == IF how = "Start" THEN <<"lua">>
              ELSE IF how = "Call" THEN susp[co].frames
              ELSE Pop(susp[co].frames)         \* resume_finish
    IN
    /\ ~raising
    /\ MayResume(co)
    /\ susp' = [susp EXCEPT ![co] = Start]
    /\ cbase' = [cbase EXCEPT ![co] = cdepth[co] + 1]
    /\ wrapped' = IF wrap THEN wrapped \cup {co} ELSE wrapped \ {co}
    /\ frames' = [frames EXCEPT ![co] = fr]
    /\ \/ /\ fr # <<>>
          /\ status' = [status EXCEPT ![co] = "Running", ![Cur] = "Normal"]
          /\ chain' = Append(chain, co)
          /\ cdepth' = [cdepth EXCEPT ![co] = @ + 1]
       \/ /\ fr = <<>>                          \* the resume values are its results
          /\ status' = [status EXCEPT ![co] = "Dead"]
          /\ UNCHANGED <<chain, cdepth>>
    /\ UNCHANGED raising

---------------------------------------------------------------------------
(* Specification *)

CoInit ==
    /\ status = [t \in Threads |-> IF t = Main THEN "Running" ELSE "None"]
    /\ frames = [t \in Threads |-> IF t = Main THEN <<"lua">> ELSE <<>>]
    /\ susp = [t \in Threads |-> Start]
    /\ cdepth = [t \in Threads |-> IF t = Main THEN 1 ELSE 0]
    /\ cbase = [t \in Threads |-> 0]
    /\ chain = <<Main>>
    /\ wrapped = {}
    /\ raising = FALSE

CoNext ==
    \/ Call
    \/ \E kind \in {"pcall", "xpcall", "exec"} : CallC(kind)
    \/ Return
    \/ Error
    \/ Unwind
    \/ \E n \in NYields : Yield(n)
    \/ YieldFails
    \/ \E co \in Co : Create(co)
    \/ \E co \in Co : ResumeFails(co)
    \/ \E co \in Co, wrap \in BOOLEAN : Resume(co, wrap)

CoSpec == CoInit /\ [][CoNext]_coVars

---------------------------------------------------------------------------
(* Properties *)

Statuses == {"None", "Suspended", "Running", "Normal", "Dead"}

\* The types that the proof of StatusChain needs.
CoTypeOK ==
    /\ status \in [Threads -> Statuses]
    /\ chain \in Seq(Threads) /\ Len(chain) > 0

\* The scheduler's bookkeeping: cur_l is the one running thread, its resumers
\* are normal, nobody else is either, and no thread is resumed twice; whatever
\* mixture of returns, errors, rethrown errors and yields ended the resumes.
StatusChain ==
    /\ \A t \in Threads :
         /\ status[t] = "Running" <=> t = Cur
         /\ status[t] \in {"Running", "Normal"} <=> \E i \in 1 .. Len(chain) : chain[i] = t
    /\ \A i, j \in 1 .. Len(chain) : chain[i] = chain[j] => i = j
    /\ chain[1] = Main

\* c_depth is exact: a thread that is not being run has none left over, and a
\* running coroutine may yield exactly when no call from C is among its frames,
\* after any number of errors caught by it or by others and of resumes.
DepthExact ==
    /\ \A t \in Threads : cdepth[t] = Depth(frames[t]) + (IF status[t] \in {"Running", "Normal"} THEN 1 ELSE 0)
    /\ Cur # Main => (cdepth[Cur] = cbase[Cur] <=> Depth(frames[Cur]) = 0)

\* Lua calls, and pcalls that Lua functions make.
Passable(fr) ==
    \A i \in 1 .. Len(fr) : fr[i] = "lua" \/ (i > 1 /\ fr[i] = "pcall" /\ fr[i - 1] = "lua")

\* Lua calls, the last of which ends in `return coroutine.yield(...)`.
TailYield(fr) ==
    Top(fr) = "tail" /\ \A i \in 1 .. Len(fr) - 1 : fr[i] = "lua"

\* A yield in any number of Lua calls and of pcalls that Lua functions make
\* hands its values to the resumer and notes whether the resume values are to
\* follow pcall's `true`.  Outside pcalls it is continued by the frames it was
\* made in, and pcall(coroutine.yield, ...) by the caller of pcall.  A tail
\* call of yield returns the resume values from the frame that made it; its
\* values are moved twice, which two of them survive.
YieldPasses ==
    \A co \in Co : susp[co] # Start =>
        LET at == susp[co].at
            vals == susp[co].vals
            pcalls == {i \in 1 .. Len(at) : at[i] = "pcall"}
        IN  /\ Passable(at) =>
                 /\ susp[co].how = "Call"
                 /\ susp[co].protected <=> pcalls # {}
                 /\ pcalls = {} => susp[co].frames = at
                 /\ pcalls = {Len(at)} => susp[co].frames = Pop(at)
                 /\ \A i \in DOMAIN vals : vals[i] = i
            /\ TailYield(at) /\ 3 \notin DOMAIN vals =>
                 /\ susp[co].how = "Return"
                 /\ susp[co].frames = at
                 /\ \A i \in DOMAIN vals : vals[i] = i
=============================================================================
