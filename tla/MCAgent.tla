------------------------------ MODULE MCAgent -------------------------------
EXTENDS Agent
MCEmits == <<2, 1>>
MCCap == [events |-> 1, merged |-> 1, out |-> 1, wire |-> 1]
=============================================================================
