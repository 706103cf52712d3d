--------------------------- MODULE MCCudaRuntime ---------------------------
(* A program of one unit, whose launches nest and throw, for TLC. *)
EXTENDS CudaRuntime, TLC

OneKernel == "a" :> <<"ka">>
NoVars == "a" :> <<>>
OneImage == {[u \in Units |-> <<[kind |-> "ptx", sm |-> 52, len |-> 3]>>]}
MCSM == 0 :> 75
=============================================================================
