--------------------------- MODULE MCCudaProgram ---------------------------
(* Programs of a few units for TLC. *)
EXTENDS CudaProgram

Im(kind, sm, len) == [kind |-> kind, sm |-> sm, len |-> len]

\* Images out of order, one too new for the device and one of another kind, with
\* payloads that end on, before and after a multiple of eight.
Several ==
  <<Im("ptx", 70, 8), Im("elf", 75, 5), Im("ptx", 75, 7), Im("ptx", 90, 3), Im("ptx", 52, 1)>>
MCEmbeds == {[u \in Units |-> Several]}

\* The kernel k is in a header: both a and b register its stub.
MCKernels == ("a" :> <<"k">>) @@ ("b" :> <<"k">>) @@ ("c" :> <<>>)
MCVars == ("a" :> <<>>) @@ ("b" :> <<>>) @@ ("c" :> <<"vc">>)
MCSM == 0 :> 75

\* The objects of b were met in another order than they are declared in, and
\* the second of them is an array.
MCLink == <<"a", "b", "c">>
At(x, pos) == [x |-> x, pos |-> pos]
MCDynamicInits == ("a" :> <<>>) @@ ("b" :> <<At("y", 2), At("x", 1)>>) @@ ("c" :> <<>>)
=============================================================================
