---------------------------- MODULE MCRingBuffer ----------------------------
(* RingBuffer on a buffer asked for 3 slots, which rounds up to 4.          *)
EXTENDS RingBuffer

(* NewRingBuffer keeps at least what it is asked for, at least one slot, and *)
(* less than twice as much (ringbuffer.go:21-27).                            *)
ASSUME RoundingUp ==
    \A c \in -2..70 : LET want == IF c < 1 THEN 1 ELSE c
                          size == 2 ^ Len64(want - 1)
                      IN  want <= size /\ size < 2 * want
=============================================================================
