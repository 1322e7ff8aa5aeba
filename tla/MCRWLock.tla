------------------------------ MODULE MCRWLock ------------------------------
(* Three threads: two writers and a reader, two readers and a writer, ... *)
EXTENDS RWLock
=============================================================================
