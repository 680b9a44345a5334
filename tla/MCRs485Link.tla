----------------------------- MODULE MCRs485Link -----------------------------
(* Bytes of sixteen values in the order of the code: sizes, ids, marks.    *)
EXTENDS Rs485Link

MCNoise == {0, 2, 5, 8, 9}
=============================================================================
