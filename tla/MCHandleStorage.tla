-------------------------- MODULE MCHandleStorage --------------------------
EXTENDS HandleStorage, TLC
\* Context addresses are interchangeable.
CtxSymmetry == Permutations(Ctx)
=============================================================================
