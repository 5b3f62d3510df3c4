------------------------------ MODULE MCSampler ------------------------------
(* A healthy GPU and a slow one; every call works, or one of them fails. *)
EXTENDS Sampler
Fine == [kind |-> "gpu", throttle |-> {}, clock |-> 100, procs |-> 1,
         sbe |-> 0, dbe |-> 0, util |-> 90, mem |-> 50]
MCHardware == {[gpu |-> Fine, pcie |-> 4],
               [gpu |-> [Fine EXCEPT !.clock = 60, !.procs = 2], pcie |-> 1]}
MCFailures == {{}} \cup {{c} : c \in Calls}
=============================================================================
