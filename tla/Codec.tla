-------------------------------- MODULE Codec --------------------------------
(* internal/trace and internal/transport/convert.go: the two forms an event   *)
(* takes outside a process, a line of a JSONL trace and a message of the      *)
(* stream. Names of fields are those of the events on both sides; what each   *)
(* form leaves out (a zero) and puts back is modelled.                        *)
EXTENDS Integers, Sequences, SequencesExt, Functions

(* The types of event, by the tag of their lines. *)
TypeOf == [gpu |-> "gpu_metric", nccl |-> "nccl_collective", pcie |-> "pcie_bandwidth",
           nvlink |-> "nvlink", thermal |-> "thermal"]

(* The fields of each type, in a line and in its protocol message. *)
LineFields == [gpu |-> {"util", "mem", "sbe", "dbe", "clock", "throttle", "procs"},
               nccl |-> {"seq", "dur"}, pcie |-> {"read", "write"},
               nvlink |-> {"bw"}, thermal |-> {"active"}]
(* Mutant: a field was added to the events and not to the messages. *)
MessageFieldsOld == [LineFields EXCEPT !.gpu = @ \ {"procs"}]
MessageFields == LineFields

Zero(f) == CASE f = "throttle" -> {} [] f = "active" -> FALSE [] OTHER -> 0
NonZero(e, fs) == {f \in fs \cap DOMAIN e : e[f] # Zero(f)}
(* The fields fs, those that are missing from body being zero. *)
Filled(body, fs) == [f \in fs |-> IF f \in DOMAIN body THEN body[f] ELSE Zero(f)]

----------------------------------------------------------------------------
(* Lines. *)

OmitEmpty == {"clock", "throttle", "procs"}
Blank == [type |-> "blank"]
Torn == [type |-> "torn"] \* not JSON: the writer died in it

(* One line of Write. *)
Encode(e) ==
    LET fs == LineFields[e.kind]
    IN  [type |-> TypeOf[e.kind], ts |-> e.ts, rank |-> e.rank,
         event |-> Restrict(e, (fs \ OmitEmpty) \cup NonZero(e, fs))]
Write(evs) == [i \in DOMAIN evs |-> Encode(evs[i])]

Decodes(l) == l.type \in Range(TypeOf)
Decode(l) ==
    LET k == CHOOSE k \in DOMAIN TypeOf : TypeOf[k] = l.type
    IN  [kind |-> k, ts |-> l.ts, rank |-> l.rank] @@ Filled(l.event, LineFields[k])

(* Read: blank lines are skipped, one bad line fails the whole trace. *)
Read(lines) ==
    LET full == SelectSeq(lines, LAMBDA l : l # Blank)
    IN  IF \A i \in DOMAIN full : Decodes(full[i])
        THEN [ok |-> TRUE, events |-> [i \in DOMAIN full |-> Decode(full[i])]]
        ELSE [ok |-> FALSE, events |-> <<>>]

----------------------------------------------------------------------------
(* Messages. A proto3 message carries no zero. *)

ToProto(e) == [ts |-> e.ts, rank |-> e.rank, payload |-> e.kind,
               body |-> Restrict(e, NonZero(e, MessageFields[e.kind]))]

FromProto(m) == [kind |-> m.payload, ts |-> m.ts, rank |-> m.rank]
                @@ Filled(m.body, LineFields[m.payload])
=============================================================================
