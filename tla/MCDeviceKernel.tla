-------------------------- MODULE MCDeviceKernel --------------------------
(* Three threads that mix reducing barriers and atomics, and a warp of eight. *)
EXTENDS DeviceKernel

T == {0, 1, 2}
Each(a, b, c) == [t \in T |-> CASE t = 0 -> a [] t = 1 -> b [] t = 2 -> c]
Reduce(op, v) == [op |-> op, fn |-> Each("add", "add", "add"), v |-> v]
Atomics(fn, v) == [op |-> "atomic", fn |-> fn, v |-> v]

\* Every predicate of 0, 1 and 2 in one call, after and before one of another kind.
Predicates == {Each(a, b, c) : a, b, c \in 0 .. 2}

ReduceKernels ==
  {<<Reduce(op, v), Reduce(next, Each(2, 0, 1))>> :
     op \in Reductions, next \in Reductions, v \in Predicates}

AtomicKernels ==
  {<<Atomics(Each(f, g, "inc"), Each(2, 3, 1)), Reduce("or", Each(0, 1, 0)),
     Atomics(Each("dec", f, g), Each(3, 2, 2))>> : f, g \in Fns}

MCKernels == ReduceKernels \cup AtomicKernels \cup {<<>>}

\* Every shuffle, with every argument.
Requests == [kind : Kinds, arg : 0 .. UMax, width : Widths]

\* The kernel without calls opens with any one of them.
MCOpening(k) == IF k = <<>> THEN {<<s>> : s \in Requests} ELSE {<<>>}
=============================================================================
