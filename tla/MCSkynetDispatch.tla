-------------------------- MODULE MCSkynetDispatch --------------------------
EXTENDS SkynetDispatch
CONSTANTS a, b, w1, w2, t1
BootOne == <<a>>
WeightsOneAll == [w \in Worker |-> IF w = w1 THEN -1 ELSE 0]
=============================================================================
