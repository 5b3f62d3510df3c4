------------------------------ MODULE Recorder ------------------------------
(* shim/gfr_torch.py, Recorder, inside the training process: a daemon thread  *)
(* (Thread) polls every interval; stop, called by the training loop (Main),   *)
(* sets the flag, waits for the thread for five seconds at most, and polls    *)
(* once more itself. A poll dumps PyTorch's ring of collectives, converts the *)
(* entries that completed and are not in _seen, and appends to the file.      *)
(*                                                                            *)
(* A collective is its number. The hardware sample of a poll is module        *)
(* Sampler's. The interpreter lock makes each lookup and each insertion in    *)
(* _seen a step. A daemon thread that dies with the process is one that takes *)
(* no further step. failed, last, unreached and overtaken are history.        *)
EXTENDS Integers, Sequences, SequencesExt, FiniteSets, Flows

CONSTANTS Thread, Main, NoKey,
          RingCap,    \* how many collectives PyTorch's ring keeps
          Unreadable, \* collectives whose entry raises before it is marked
          Bad,        \* collectives whose entry raises after it is marked
          MaxLaunched \* bound: collectives launched

ASSUME RecorderAssumption ==
    /\ Thread # Main /\ RingCap \in Nat \ {0} /\ MaxLaunched \in Nat
    /\ Unreadable \cup Bad \subseteq 1..MaxLaunched /\ NoKey \notin 1..MaxLaunched

Pollers == {Thread, Main}

VARIABLES launched,  \* collectives 1..launched were launched
          completed, \* those that finished
          stopSet,   \* _stop
          pc,        \* where each poller is
          dump,      \* the completed entries of its dump it has still to convert
          key,       \* the entry it found not to be in _seen
          out,       \* what it has converted and not written
          seen,      \* _seen
          file,      \* the collectives in the file
          failed,    \* failed[p]: those p marked and then lost to an exception
          last,      \* what the ring showed as completed when Main dumped it
          unreached, \* those of last that Main's poll never got to
          overtaken  \* the wait for the thread timed out

jobVars == <<launched, completed>>
vars == <<launched, completed, stopSet, pc, dump, key, out, seen, file, failed, last, unreached, overtaken>>

Init == /\ launched = 0 /\ completed = {}
        /\ stopSet = FALSE
        /\ pc = [p \in Pollers |-> IF p = Main THEN "run" ELSE "wait"]
        /\ dump = [p \in Pollers |-> <<>>]
        /\ key = [p \in Pollers |-> NoKey]
        /\ out = [p \in Pollers |-> <<>>]
        /\ seen = {} /\ file = <<>>
        /\ failed = [p \in Pollers |-> {}]
        /\ last = {} /\ unreached = {} /\ overtaken = FALSE

----------------------------------------------------------------------------
(* The job. Collectives of different groups may finish out of order. *)

Launch == /\ launched < MaxLaunched
          /\ launched' = launched + 1
          /\ UNCHANGED completed

Complete(k) == completed' = completed \cup {k} /\ UNCHANGED launched

Job == /\ Launch \/ \E k \in (1..launched) \ completed : Complete(k)
       /\ UNCHANGED <<stopSet, pc, dump, key, out, seen, file, failed, last, unreached, overtaken>>

(* Mutant: entries in flight are converted too. *)
InRingAny == Only([k \in 1..launched |-> k], (1..launched) \ (1..(launched - RingCap)))
(* What a dump of the ring shows as completed, oldest first. *)
InRing == Only([k \in 1..launched |-> k], completed \ (1..(launched - RingCap)))

----------------------------------------------------------------------------
(* poll_once. *)

GoTo(p, l) == pc' = [pc EXCEPT ![p] = l]

(* What an exception keeps Main's poll from, once and for all. *)
Unreached(p, ks) == unreached' = IF p = Main THEN unreached \cup ks ELSE unreached

(* The dump; when it fails there is nothing to convert. *)
Dump(p, entries) ==
    /\ pc[p] = "dump"
    /\ GoTo(p, "convert")
    /\ dump' = [dump EXCEPT ![p] = entries]
    /\ last' = IF p = Main THEN Range(InRing) ELSE last
    /\ Unreached(p, Range(InRing) \ Range(entries))
    /\ UNCHANGED <<jobVars, stopSet, key, out, seen, file, failed, overtaken>>

(* Mutant: entries of earlier dumps are not recognised. *)
KnownNever(k) == FALSE
Known(k) == k \in seen
(* Is the next entry in _seen? *)
Look(p) ==
    /\ pc[p] = "convert" /\ dump[p] # <<>> /\ Head(dump[p]) \notin Unreadable
    /\ dump' = [dump EXCEPT ![p] = Tail(@)]
    /\ IF Known(Head(dump[p])) THEN UNCHANGED <<pc, key>>
       ELSE key' = [key EXCEPT ![p] = Head(dump[p])] /\ GoTo(p, "mark")
    /\ UNCHANGED <<jobVars, stopSet, out, seen, file, failed, last, unreached, overtaken>>

(* Its number cannot even be read: the poll loses all it had marked and ends. *)
(* The entry stays unmarked and stops every poll that meets it again.         *)
LookRaises(p) ==
    /\ pc[p] = "convert" /\ dump[p] # <<>> /\ Head(dump[p]) \in Unreadable
    /\ failed' = [failed EXCEPT ![p] = @ \cup Range(out[p])]
    /\ out' = [out EXCEPT ![p] = <<>>]
    /\ dump' = [dump EXCEPT ![p] = <<>>]
    /\ Unreached(p, Range(dump[p]))
    /\ UNCHANGED <<jobVars, stopSet, pc, key, seen, file, last, overtaken>>

(* It is marked, then converted. *)
Mark(p) ==
    /\ pc[p] = "mark" /\ key[p] \notin Bad
    /\ seen' = seen \cup {key[p]}
    /\ out' = [out EXCEPT ![p] = Append(@, key[p])]
    /\ key' = [key EXCEPT ![p] = NoKey] /\ GoTo(p, "convert")
    /\ UNCHANGED <<jobVars, stopSet, dump, file, failed, last, unreached, overtaken>>

(* Its conversion raises: the poll loses all it had marked, and the rest of  *)
(* the dump is left for the next, if there is one.                           *)
MarkRaises(p) ==
    /\ pc[p] = "mark" /\ key[p] \in Bad
    /\ seen' = seen \cup {key[p]}
    /\ failed' = [failed EXCEPT ![p] = @ \cup Range(out[p]) \cup {key[p]}]
    /\ out' = [out EXCEPT ![p] = <<>>]
    /\ dump' = [dump EXCEPT ![p] = <<>>]
    /\ Unreached(p, Range(dump[p]))
    /\ key' = [key EXCEPT ![p] = NoKey] /\ GoTo(p, "convert")
    /\ UNCHANGED <<jobVars, stopSet, file, last, overtaken>>

Done(p) == IF p = Main THEN "returned" ELSE "wait"
Write(p) ==
    /\ pc[p] = "convert" /\ dump[p] = <<>>
    /\ file' = file \o out[p]
    /\ out' = [out EXCEPT ![p] = <<>>]
    /\ GoTo(p, Done(p))
    /\ UNCHANGED <<jobVars, stopSet, dump, key, seen, failed, last, unreached, overtaken>>

(* Mutant: stop returns as if it had flushed. *)
DiedQuietly(p) == IF p = Main THEN "returned" ELSE "dead"
(* An exception leaves poll_once: the thread is dead, or stop raises. *)
Died(p) == IF p = Main THEN "raised" ELSE "dead"
(* The file cannot be opened, or not all can be written. *)
WriteFails(p, n) ==
    /\ pc[p] = "convert" /\ dump[p] = <<>> /\ n <= Len(out[p])
    /\ file' = file \o SubSeq(out[p], 1, n)
    /\ failed' = [failed EXCEPT ![p] = @ \cup Range(SubSeq(out[p], n + 1, Len(out[p])))]
    /\ out' = [out EXCEPT ![p] = <<>>]
    /\ GoTo(p, Died(p))
    /\ UNCHANGED <<jobVars, stopSet, dump, key, seen, last, unreached, overtaken>>

Poll(p) == \/ Dump(p, InRing) \/ Dump(p, <<>>)
           \/ Look(p) \/ LookRaises(p) \/ Mark(p) \/ MarkRaises(p) \/ Write(p)
           \/ \E n \in 0..RingCap : WriteFails(p, n)

----------------------------------------------------------------------------
(* _run and stop. *)

Tick == /\ pc[Thread] = "wait"
        /\ GoTo(Thread, IF stopSet THEN "ended" ELSE "dump")
        /\ UNCHANGED <<jobVars, stopSet, dump, key, out, seen, file, failed, last, unreached, overtaken>>

Stop == /\ pc[Main] = "run"
        /\ stopSet' = TRUE
        /\ GoTo(Main, "join")
        /\ UNCHANGED <<jobVars, dump, key, out, seen, file, failed, last, unreached, overtaken>>

Alive == pc[Thread] \notin {"ended", "dead"}
Joined == /\ pc[Main] = "join" /\ ~Alive
          /\ GoTo(Main, "dump")
          /\ UNCHANGED <<jobVars, stopSet, dump, key, out, seen, file, failed, last, unreached, overtaken>>
JoinTimesOut == /\ pc[Main] = "join" /\ Alive
                /\ overtaken' = TRUE
                /\ GoTo(Main, "dump")
                /\ UNCHANGED <<jobVars, stopSet, dump, key, out, seen, file, failed, last, unreached>>

Next == Job \/ Tick \/ Stop \/ Joined \/ JoinTimesOut \/ \E p \in Pollers : Poll(p)

Spec == Init /\ [][Next]_vars

----------------------------------------------------------------------------

(* Types; a poller has a key in hand only between looking and marking; the   *)
(* file holds completed collectives.                                         *)
TypeOK ==
    /\ launched \in 0..MaxLaunched /\ completed \subseteq 1..launched
    /\ stopSet = (pc[Main] # "run") /\ overtaken \in BOOLEAN
    /\ pc[Thread] \in {"wait", "dump", "convert", "mark", "ended", "dead"}
    /\ pc[Main] \in {"run", "join", "dump", "convert", "mark", "returned", "raised"}
    /\ \A p \in Pollers : /\ (pc[p] = "mark") = (key[p] # NoKey)
                          /\ pc[p] \notin {"convert", "mark"} => dump[p] = <<>> /\ out[p] = <<>>
                          /\ Range(dump[p]) \cup Range(out[p]) \cup failed[p] \subseteq completed
    /\ Range(file) \subseteq seen /\ seen \subseteq completed /\ last \subseteq completed
    /\ unreached \subseteq last

Copies(k) == Len(Only(file \o out[Thread] \o out[Main], {k}))

(* A collective that was marked as seen is in the file or on its way there,  *)
(* or an exception cost it: it can never be had again. It is there once,     *)
(* however often it was dumped, unless stop overtook the thread              *)
(* (gfr_torch.py:55-69, 158-168, 177-181, test_shim.py:26-30).               *)
OneCopy ==
    \A k \in seen :
        LET lost == k \in failed[Thread] \cup failed[Main]
        IN  /\ lost \/ Copies(k) >= 1
            /\ overtaken \/ Copies(k) = IF lost THEN 0 ELSE 1

(* When stop returns, what had completed when it dumped the ring is in the   *)
(* file (gfr_torch.py:177-181, "final flush"), but for three things: what    *)
(* the thread lost, or marked and still has in hand because it was           *)
(* overtaken; what stop's own poll had marked when a later entry raised,     *)
(* which is lost; and what that entry, or a dump that failed, kept the poll  *)
(* from, which nobody will look at again. poll_once swallows the last two    *)
(* (gfr_torch.py:66-77, 158-161), so stop returns as if all were well; but   *)
(* nothing else can make it leave out anything: an entry of its dump raised, *)
(* or the dump gave nothing.                                                 *)
FinalFlush ==
    pc[Main] = "returned" =>
        /\ last \subseteq Range(file) \cup failed[Thread] \cup failed[Main] \cup unreached
                       \cup (IF overtaken THEN Range(out[Thread]) ELSE {})
        /\ failed[Main] \cup unreached # {} =>
               \/ unreached = last /\ failed[Main] = {}
               \/ \E k \in last : k \in Unreadable \/ k \in Bad \cap failed[Main]
=============================================================================
