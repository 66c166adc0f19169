---------------------------- MODULE MCNdkThread ----------------------------
(* Instances of NdkThread for TLC. *)
EXTENDS NdkThread

CONSTANTS w1, w2

TwoWorkers == {w1, w2}

\* A handle whose low half happens to be a valid slot, one far behind pt and
\* a negative one.
ClobberedValues == {0, 7, -3}
=============================================================================
