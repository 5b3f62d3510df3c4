-------------------------- MODULE MCTailCollector --------------------------
(* Three lines, one of them not JSON, appended to a file while it is         *)
(* followed; and a file that was there before.                               *)
EXTENDS TailCollector
MCLines == <<<<"good", "bad", "good">>, <<"good">>>>
MCExisting == <<0, 1>>
=============================================================================
