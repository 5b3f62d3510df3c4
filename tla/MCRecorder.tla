----------------------------- MODULE MCRecorder -----------------------------
(* A ring of three and five collectives, in any order of completion. What was *)
(* marked before the second is lost when a poll meets it, again and again     *)
(* while it is in the ring, and those behind it wait; the fourth, marked      *)
(* first, costs a poll the third, and keeps it once from the fifth.           *)
EXTENDS Recorder, TLC
=============================================================================
