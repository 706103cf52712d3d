--------------------------- MODULE DeviceKernel ---------------------------
(***************************************************************************)
(* A kernel as a warp and its block run it: a warp's shuffles, which its    *)
(* lanes make together, and then the calls of DeviceBlock.                  *)
(***************************************************************************)
EXTENDS DeviceBlock, WarpShuffle

CONSTANT Opening(_)  \* the sequences of shuffles [kind, arg, width] a kernel may open with

VARIABLES shuffles,  \* the shuffles still to come
          last,      \* the last one carried out, if any
          lanes      \* whose value each lane holds

warp == <<shuffles, last, lanes>>
NoShuffle == [kind |-> "none", arg |-> 0, width |-> 1]

\* Each lane starts with a value of its own.
KInit ==
  /\ Init
  /\ shuffles \in Opening(kernel)
  /\ last = NoShuffle
  /\ lanes = [l \in Lanes |-> l]

\* __shfl_sync and its kin with a full mask: every lane takes the value that
\* another holds before the shuffle.
Shuffle ==
  /\ shuffles # <<>>
  /\ LET s == Head(shuffles)
     IN  /\ lanes' = [l \in Lanes |-> lanes[ReadFrom(s.kind, l, s.arg, s.width)]]
         /\ last' = s
  /\ shuffles' = Tail(shuffles)
  /\ UNCHANGED vars

KNext ==
  \/ Shuffle
  \/ shuffles = <<>> /\ Next /\ UNCHANGED warp

KSpec == KInit /\ [][KNext]_<<vars, warp>> /\ WF_<<vars, warp>>(Shuffle) /\ Fairness

-----------------------------------------------------------------------------
(* Properties *)

\* "The lane a width-w shuffle reads from: srcLane within this lane's segment of
\* w lanes for idx, this lane's index XOR laneMask for xor, and the lane delta
\* away for up and down, which read their own value where the delta leaves the
\* segment" (__vcx_cuda_warp.h:45): so it is for every lane and argument, but for
\* two.  A lane whose index XOR laneMask lies in a later segment reads its own
\* value (:66), and one for which lane + delta passes the unsigned range reads the
\* lane the sum comes round to, below its own (:61).
ShuffleReads ==
  [][shuffles' # shuffles =>
       lanes' = [l \in Lanes |-> lanes[Source(last'.kind, l, last'.arg, last'.width)]]]_warp
=============================================================================
