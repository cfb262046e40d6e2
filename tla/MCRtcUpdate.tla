----------------------------- MODULE MCRtcUpdate -----------------------------
(* Values for the constants of RtcUpdate that a .cfg cannot write.         *)
EXTENDS RtcUpdate

(* A minute of two seconds, an hour that starts again after one.           *)
MCHighest == [f \in Shown |-> 1]
=============================================================================
