---------------------------- MODULE WarpShuffle ----------------------------
(***************************************************************************)
(* The lane a shuffle of a sub-warp width reads from, as unsigned          *)
(* arithmetic on lane numbers.  include/cuda/__vcx_cuda_warp.h; HIP's       *)
(* __shfl, __shfl_up, __shfl_down and __shfl_xor compute the same lanes.    *)
(***************************************************************************)
EXTENDS Integers, FiniteSets
LOCAL INSTANCE Bitwise
LOCAL INSTANCE FiniteSetsExt

CONSTANTS WarpSize,  \* lanes of a warp
          Bits       \* the width of unsigned: 32

Lanes == 0 .. WarpSize - 1
U(n) == n % 2^Bits
UMax == 2^Bits - 1
Inverted(n) == UMax - n

\* The first and the last lane of lane's segment.
Base(lane, width) == lane & Inverted(U(width - 1))
Top(lane, width) == lane | U(width - 1)

IdxLane(lane, srcLane, width) == Base(lane, width) | (srcLane & U(width - 1))

\* UpLane that stops at the warp's first lane only
UpLaneAcross(lane, delta, width) ==
  IF delta > lane THEN lane ELSE U(lane - delta)

UpLane(lane, delta, width) ==
  IF U(lane - delta) < Base(lane, width) \/ delta > lane THEN lane ELSE U(lane - delta)

DownLane(lane, delta, width) ==
  IF U(lane + delta) > Top(lane, width) THEN lane ELSE U(lane + delta)

XorLane(lane, laneMask, width) ==
  LET j == lane ^^ laneMask
  IN  IF j > Top(lane, width) THEN lane ELSE j

Kinds == {"idx", "up", "down", "xor"}

ReadFrom(kind, lane, arg, width) ==
  CASE kind = "idx" -> IdxLane(lane, arg, width)
    [] kind = "up" -> UpLane(lane, arg, width)
    [] kind = "down" -> DownLane(lane, arg, width)
    [] kind = "xor" -> XorLane(lane, arg, width)

-----------------------------------------------------------------------------
(* The lanes that are read, over segments and places in them *)

Widths == {w \in 1 .. WarpSize : \E n \in 0 .. WarpSize : w = 2^n}
Segment(lane, width) == lane \div width
Place(lane, width) == lane % width
LaneAt(segment, place, width) == segment * width + place

BitOf(n, i) == (n \div 2^i) % 2
Flipped(n, mask) ==
  MapThenSumSet(LAMBDA i : ((BitOf(n, i) + BitOf(mask, i)) % 2) * 2^i, 0 .. Bits - 1)

\* The header's comment, which says "this lane's index XOR laneMask" and nothing of
\* a lane in a later segment, nor of a sum past the unsigned range.
Source(kind, lane, arg, width) ==
  LET s == Segment(lane, width)
      p == Place(lane, width)
      flipped == Flipped(lane, arg)
  IN  CASE kind = "idx" -> LaneAt(s, arg % width, width)
        [] kind = "up" -> IF arg <= p THEN lane - arg ELSE lane
        [] kind = "down" -> IF p + arg < width THEN lane + arg
                            ELSE IF lane + arg > UMax THEN lane + arg - (UMax + 1)
                            ELSE lane
        [] kind = "xor" -> IF Segment(flipped, width) <= s THEN flipped ELSE lane
=============================================================================
