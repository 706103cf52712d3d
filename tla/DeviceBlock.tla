---------------------------- MODULE DeviceBlock ----------------------------
(***************************************************************************)
(* The threads of one block inside the device headers' functions: the      *)
(* reducing barriers over a word of workgroup storage, and the atomics, of *)
(* which atomicInc and atomicDec are compare-and-swap loops.                *)
(* include/cuda/__vcx_cuda_runtime_wrapper.h, __vcx_cuda_atomics.h;         *)
(* include/hip/__vcx_hip_runtime_wrapper.h and hip/__vcx_hip_atomics.h say  *)
(* the same of HIP.                                                        *)
(*                                                                         *)
(* A kernel is a sequence of calls that every thread makes in order:       *)
(* [op |-> the reduction, or "atomic", fn |-> each thread's atomic          *)
(* function, v |-> each thread's predicate or operand].  A step is at most  *)
(* one access to shared or global memory, with the arrival at the barrier  *)
(* that follows it.                                                        *)
(***************************************************************************)
EXTENDS Integers, Sequences, FiniteSets

CONSTANTS Threads,   \* the threads of the block
          Zero,      \* the one whose threadIdx is 0, 0, 0
          WordSize,  \* 2^32
          Kernels    \* the kernels to run

Word == 0 .. WordSize - 1
Loops == {"inc", "dec"}
Fns == Loops \cup {"add", "sub", "exch", "min", "max"}
Reductions == {"count", "and", "or"}

ASSUME ThreadsAssumption == IsFiniteSet(Threads) /\ Zero \in Threads
ASSUME WordAssumption == WordSize \in Nat /\ Cardinality(Threads) < WordSize
ASSUME EvenAssumption == WordSize % 2 = 0
ASSUME KernelsAssumption ==
  \A k \in Kernels :
    k \in Seq([op : Reductions \cup {"atomic"}, fn : [Threads -> Fns], v : [Threads -> Word]])

VARIABLES kernel,   \* the calls
          at,       \* how many calls each thread has returned from
          pc,       \* where in its call each thread is
          bar,      \* how many barriers each thread has arrived at
          word,     \* __vcx_sync_word
          cell,     \* the word of global memory the atomics update
          reg,      \* each thread's local: r, or old
          ret       \* what each thread's last call returned

vars == <<kernel, at, pc, bar, word, cell, reg, ret>>

Call(t) == kernel[at[t] + 1]
Calls(t, ops) == pc[t] = "idle" /\ at[t] < Len(kernel) /\ Call(t).op \in ops
Goto(t, where) == pc' = [pc EXCEPT ![t] = where]
Returns(t, value) ==
  /\ Goto(t, "idle")
  /\ at' = [at EXCEPT ![t] = @ + 1]
  /\ ret' = [ret EXCEPT ![t] = value]

\* __syncthreads: a thread goes on when every thread has arrived as often as it.
MayPass(t) == \A u \in Threads : bar[u] >= bar[t]
Arrive(t, where) == Goto(t, where) /\ bar' = [bar EXCEPT ![t] = @ + 1]

\* The word holds anything when the block begins.
Init ==
  /\ kernel \in Kernels
  /\ at = [t \in Threads |-> 0]
  /\ pc = [t \in Threads |-> "idle"]
  /\ bar = [t \in Threads |-> 0]
  /\ word \in Word
  /\ cell \in Word
  /\ reg = [t \in Threads |-> 0]
  /\ ret = [t \in Threads |-> 0]

-----------------------------------------------------------------------------
(* __vcx_sync_reduce *)

\* Entry, up to the first barrier.
Enter(t) ==
  /\ Calls(t, Reductions)
  /\ Arrive(t, "clear")
  /\ UNCHANGED <<kernel, at, word, cell, reg, ret>>

\* Clear without the barrier after it
ClearOnly(t) ==
  /\ pc[t] = "clear"
  /\ MayPass(t)
  /\ word' = IF t # Zero THEN word ELSE IF Call(t).op = "and" THEN 1 ELSE 0
  /\ Goto(t, "add")
  /\ UNCHANGED <<kernel, at, bar, cell, reg, ret>>

Clear(t) ==
  /\ pc[t] = "clear"
  /\ MayPass(t)
  /\ word' = IF t # Zero THEN word ELSE IF Call(t).op = "and" THEN 1 ELSE 0
  /\ Arrive(t, "add")
  /\ UNCHANGED <<kernel, at, cell, reg, ret>>

\* The atomicAdd, atomicAnd and atomicOr of the three reductions.
Contributed(old, op, p) ==
  CASE op = "count" /\ p # 0 -> (old + 1) % WordSize
    [] op = "and" /\ p = 0 -> 0
    [] op = "or" /\ p # 0 -> IF old % 2 = 0 THEN old + 1 ELSE old
    [] OTHER -> old

Contribute(t) ==
  /\ pc[t] = "add"
  /\ MayPass(t)
  /\ word' = Contributed(word, Call(t).op, Call(t).v[t])
  /\ Arrive(t, "read")
  /\ UNCHANGED <<kernel, at, cell, reg, ret>>

ReadWord(t) ==
  /\ pc[t] = "read"
  /\ MayPass(t)
  /\ reg' = [reg EXCEPT ![t] = word]
  /\ Arrive(t, "leave")
  /\ UNCHANGED <<kernel, at, word, cell, ret>>

Leave(t) ==
  /\ pc[t] = "leave"
  /\ MayPass(t)
  /\ Returns(t, reg[t])
  /\ UNCHANGED <<kernel, bar, word, cell, reg>>

-----------------------------------------------------------------------------
(* The atomics *)

\* The functions the hardware has an instruction for.
Rmw(fn, old, v) ==
  CASE fn = "add" -> (old + v) % WordSize
    [] fn = "sub" -> (old + -v) % WordSize
    [] fn = "exch" -> v
    [] fn = "min" -> IF v < old THEN v ELSE old
    [] fn = "max" -> IF v > old THEN v ELSE old

Atomic(t) ==
  /\ Calls(t, {"atomic"})
  /\ Call(t).fn[t] \notin Loops
  /\ cell' = Rmw(Call(t).fn[t], cell, Call(t).v[t])
  /\ Returns(t, cell)
  /\ UNCHANGED <<kernel, bar, word, reg>>

\* What atomicInc and atomicDec ask to be stored over seen.
Wanted(fn, seen, v) ==
  IF fn = "inc" THEN (IF seen >= v THEN 0 ELSE seen + 1)
  ELSE IF seen = 0 \/ seen > v THEN v ELSE seen - 1

\* atomicInc and atomicDec up to the loop.
Load(t) ==
  /\ Calls(t, {"atomic"})
  /\ Call(t).fn[t] \in Loops
  /\ reg' = [reg EXCEPT ![t] = cell]
  /\ Goto(t, "cas")
  /\ UNCHANGED <<kernel, at, bar, word, cell, ret>>

\* Cas that stores whatever it finds
CasBlind(t) ==
  /\ pc[t] = "cas"
  /\ cell' = Wanted(Call(t).fn[t], reg[t], Call(t).v[t])
  /\ Returns(t, reg[t])
  /\ UNCHANGED <<kernel, bar, word, reg>>

\* Cas that keeps what it saw before the loop
CasStale(t) ==
  /\ pc[t] = "cas"
  /\ IF cell = reg[t]
     THEN /\ cell' = Wanted(Call(t).fn[t], reg[t], Call(t).v[t])
          /\ Returns(t, reg[t])
     ELSE UNCHANGED <<at, pc, cell, ret>>
  /\ UNCHANGED <<kernel, bar, word, reg>>

\* One turn of the loop: the exchange, and the test of what it answered.
Cas(t) ==
  /\ pc[t] = "cas"
  /\ reg' = [reg EXCEPT ![t] = cell]
  /\ IF cell = reg[t]
     THEN /\ cell' = Wanted(Call(t).fn[t], reg[t], Call(t).v[t])
          /\ Returns(t, cell)
     ELSE UNCHANGED <<at, pc, cell, ret>>
  /\ UNCHANGED <<kernel, bar, word>>

-----------------------------------------------------------------------------
Step(t) ==
  \/ Enter(t) \/ Clear(t) \/ Contribute(t) \/ ReadWord(t) \/ Leave(t)
  \/ Atomic(t) \/ Load(t) \/ Cas(t)

Next == \E t \in Threads : Step(t)

Spec == Init /\ [][Next]_vars

\* A resident block's threads are all scheduled: one that can go on does.
Fairness == \A t \in Threads : WF_vars(Step(t))

-----------------------------------------------------------------------------
(* Properties *)

\* The threads' state has the shape the headers' locals and words give it.
TypeOK ==
  /\ kernel \in Seq([op : Reductions \cup {"atomic"}, fn : [Threads -> Fns],
                     v : [Threads -> Word]])
  /\ at \in [Threads -> 0 .. Len(kernel)]
  /\ pc \in [Threads -> {"idle", "clear", "add", "read", "leave", "cas"}]
  /\ bar \in [Threads -> Nat]
  /\ word \in Word
  /\ cell \in Word
  /\ reg \in [Threads -> Word]
  /\ ret \in [Threads -> Word]

\* The plain accesses to __vcx_sync_word: thread 0's store and each load.
Stores(t) == t = Zero /\ pc[t] = "clear" /\ MayPass(t)
Loads(t) == pc[t] = "read" /\ MayPass(t)
Updates(t) == pc[t] = "add" /\ MayPass(t)

\* "every thread arrives, thread 0 clears the word, every thread adds or ands
\* or ors its predicate in, and every thread reads the result before the word
\* is reused": two accesses to the word that conflict, one of them not atomic,
\* are never both next, from one call to another of any reduction.
NoRace ==
  \A t, u \in Threads :
    t # u => ~(Stores(t) /\ (Loads(u) \/ Updates(u))) /\ ~(Loads(t) /\ Updates(u))

InReduction(t) == pc[t] \in {"clear", "add", "read", "leave"}

Abstract == INSTANCE DeviceCalls WITH
  entered <- [t \in Threads |-> IF InReduction(t) THEN at[t] + 1 ELSE at[t]]

\* The functions are atomic to their callers: atomicInc and atomicDec take
\* effect in one step whatever other threads store between their load and
\* their exchange, and a reducing barrier holds every thread until all are in
\* and answers all with the reduction of that call's predicates.
ImplementsCalls == Abstract!Spec

\* Every thread returns from every call: no barrier waits for a thread that
\* waits elsewhere, and no compare-and-swap loop is kept going for ever.
AllReturn == <>(\A t \in Threads : at[t] = Len(kernel))
-----------------------------------------------------------------------------
(* The inductive invariant behind TypeOK, NoRace and ImplementsCalls *)

\* How many of a kernel's first k calls are reductions.
Rounds(ker, k) == Cardinality({j \in 1 .. k : ker[j].op # "atomic"})

\* How many of a reduction's barriers a thread at p has arrived at.
Phase(p) ==
  IF p = "clear" THEN 1 ELSE IF p = "add" THEN 2 ELSE IF p = "read" THEN 3
  ELSE IF p = "leave" THEN 4 ELSE 0

\* What the word holds once the threads in S have contributed to call c.
Gathered(c, S) ==
  IF c.op = "count" THEN Cardinality({u \in S : c.v[u] # 0})
  ELSE IF c.op = "and" THEN (IF \A u \in S : c.v[u] # 0 THEN 1 ELSE 0)
  ELSE IF \E u \in S : c.v[u] # 0 THEN 1 ELSE 0

\* The threads that have contributed to the reduction thread 0 is in.
Contributors == {u \in Threads : bar[u] >= 4 * Rounds(kernel, at[Zero]) + 3}

InCall(t) ==
  /\ InReduction(t) => at[t] < Len(kernel) /\ Call(t).op # "atomic"
  /\ pc[t] = "cas" => at[t] < Len(kernel) /\ Call(t).op = "atomic" /\ Call(t).fn[t] \in Loops

\* A thread's arrivals are those of its reductions; it is at most one barrier
\* ahead of any other, and level at best when it waits at none.
Lag(t) ==
  /\ bar[t] = 4 * Rounds(kernel, at[t]) + Phase(pc[t])
  /\ \A u \in Threads : bar[t] <= bar[u] + (IF InReduction(t) THEN 1 ELSE 0)

WordInv ==
  pc[Zero] \in {"add", "read", "leave"} => word = Gathered(Call(Zero), Contributors)

IInv ==
  /\ TypeOK
  /\ \A t \in Threads : InCall(t) /\ Lag(t)
  /\ WordInv
  /\ \A t \in Threads : pc[t] = "leave" => reg[t] = Gathered(Call(t), Threads)
=============================================================================
