--------------------------- MODULE MCHeaderCache ---------------------------
(* Two units with one scanner setting and one with another; two routes to   *)
(* one header, one of them on a filesystem that cannot be shared.           *)
EXTENDS HeaderCache

CONSTANTS u1, u2, u3, r1, r2, d1, cxx, cuda

MCDisplayOf == [r \in Routes |-> d1]
MCModeOf == [u \in Units |-> IF u = u3 THEN cuda ELSE cxx]
MCShareable == {r1}
=============================================================================
