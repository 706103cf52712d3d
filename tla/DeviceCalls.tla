---------------------------- MODULE DeviceCalls ----------------------------
(***************************************************************************)
(* What the device headers promise the threads of one block: an atomic     *)
(* function reads and updates its word in one step, and a reducing barrier *)
(* lets no thread out before every thread is in and answers them all with  *)
(* the reduction of their predicates.                                      *)
(***************************************************************************)
EXTENDS Integers, Sequences, FiniteSets

CONSTANTS Threads,   \* the threads of the block
          WordSize,  \* 2^32: words are the numbers below it
          Kernels    \* the sequences of calls the block may run

VARIABLES kernel,    \* the calls, which every thread makes in order
          at,        \* how many of them each thread has returned from
          entered,   \* how many of them each thread has entered
          cell,      \* the word of global memory the atomic functions update
          ret        \* what each thread's last call returned

vars == <<kernel, at, entered, cell, ret>>

\* The threads whose predicate is true: any number but 0.
Trues(c) == {t \in Threads : c.v[t] # 0}

Reduction(c) ==
  CASE c.op = "count" -> Cardinality(Trues(c))
    [] c.op = "and" -> IF Trues(c) = Threads THEN 1 ELSE 0
    [] c.op = "or" -> IF Trues(c) # {} THEN 1 ELSE 0

\* What an atomic function leaves in a word that held old.
Update(fn, old, v) ==
  CASE fn = "add" -> (old + v) % WordSize
    [] fn = "sub" -> (old - v) % WordSize
    [] fn = "exch" -> v
    [] fn = "min" -> IF old < v THEN old ELSE v
    [] fn = "max" -> IF old < v THEN v ELSE old
    [] fn = "inc" -> IF old < v THEN old + 1 ELSE 0
    [] fn = "dec" -> IF old \in 1 .. v THEN old - 1 ELSE v

Call(t) == kernel[at[t] + 1]
MayCall(t) == at[t] < Len(kernel) /\ entered[t] = at[t]
Returns(t, value) ==
  /\ at' = [at EXCEPT ![t] = @ + 1]
  /\ ret' = [ret EXCEPT ![t] = value]

Init ==
  /\ kernel \in Kernels
  /\ at = [t \in Threads |-> 0]
  /\ entered = [t \in Threads |-> 0]
  /\ cell \in 0 .. WordSize - 1
  /\ ret = [t \in Threads |-> 0]

Enter(t) ==
  /\ MayCall(t)
  /\ Call(t).op # "atomic"
  /\ entered' = [entered EXCEPT ![t] = @ + 1]
  /\ UNCHANGED <<kernel, at, cell, ret>>

Leave(t) ==
  /\ entered[t] = at[t] + 1
  /\ \A u \in Threads : entered[u] > at[t]
  /\ Returns(t, Reduction(Call(t)))
  /\ UNCHANGED <<kernel, entered, cell>>

Atomic(t) ==
  /\ MayCall(t)
  /\ Call(t).op = "atomic"
  /\ cell' = Update(Call(t).fn[t], cell, Call(t).v[t])
  /\ Returns(t, cell)
  /\ entered' = [entered EXCEPT ![t] = @ + 1]
  /\ UNCHANGED kernel

Next == \E t \in Threads : Enter(t) \/ Leave(t) \/ Atomic(t)

Spec == Init /\ [][Next]_vars
=============================================================================
