--------------------------------- MODULE Flows ---------------------------------
(* The events of several sources in one sequence: what of it is whose, and    *)
(* what a source gives in order. Only is SelectSeq for a set of elements; as  *)
(* a recursive function it can be reasoned about (module FlowLemmas).         *)
EXTENDS Integers, Sequences

(* Picked(q, T)[n]: those of the first n elements of q that are in T. *)
Picked(q, T) ==
    LET f[n \in 0..Len(q)] == IF n = 0 THEN <<>>
                              ELSE IF q[n] \in T THEN Append(f[n - 1], q[n]) ELSE f[n - 1]
    IN  f

(* The elements of q that are in T, in the order of q. *)
Only(q, T) == Picked(q, T)[Len(q)]

(* Events a + 1 to b of source s. *)
Between(s, a, b) == [i \in 1..(b - a) |-> <<s, a + i>>]
=============================================================================
