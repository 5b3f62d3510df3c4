------------------------ MODULE MCAgentBrokenStream -------------------------
(* One live collector with more to record than the channels hold, and a     *)
(* connection that breaks once.                                             *)
EXTENDS Agent
MCEmits == <<4>>
MCCap == [events |-> 1, merged |-> 1, out |-> 1, wire |-> 1]
=============================================================================
