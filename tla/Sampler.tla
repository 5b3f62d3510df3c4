------------------------------- MODULE Sampler -------------------------------
(* shim/gfr_torch.py, NVMLSampler, feeding the attribution rules: one GPU is  *)
(* read call by call, and each call may fail by itself (unsupported, or not   *)
(* permitted). What a failed call leaves in the event is _try's default. The  *)
(* history readings tells which calls failed for the sample of which instant. *)
EXTENDS Attribution

CONSTANTS Hardware, \* what the GPU may be like: [gpu : GPU, pcie : Nat]
          Failures  \* which of Calls may fail together

Calls == {"util", "sbe", "dbe", "clock", "throttle", "procs", "pcie"}

(* _try: what fn returns, or the default. *)
Try(failed, call, value, default) == IF call \in failed THEN default ELSE value

(* NVMLSampler.sample. Utilisation and memory are one call. *)
Sample(h, failed) ==
    <<[kind |-> "gpu",
       throttle |-> Try(failed, "throttle", h.gpu.throttle, {}),
       clock |-> Try(failed, "clock", h.gpu.clock, 0),
       procs |-> Try(failed, "procs", h.gpu.procs, 0),
       sbe |-> Try(failed, "sbe", h.gpu.sbe, 0), dbe |-> Try(failed, "dbe", h.gpu.dbe, 0),
       util |-> Try(failed, "util", h.gpu.util, 0), mem |-> Try(failed, "util", h.gpu.mem, 0)]>>
    \o Try(failed, "pcie", <<[kind |-> "pcie", bw |-> h.pcie]>>, <<>>)

VARIABLE readings \* the calls that failed at each instant sampled

Unsampled == Init /\ readings = <<>>

(* One poll of the recorder, one instant after the last, and Attribute again. *)
Poll(h, failed) ==
    LET t == Len(readings)
        evs == Sample(h, failed)
    IN  /\ t <= MaxTime
        /\ rankEvents' = rankEvents \o [i \in DOMAIN evs |-> [ts |-> t, is |-> evs[i]]]
        /\ report' = Attribute(rankEvents', Lo, EndNs)
        /\ readings' = Append(readings, failed)

Polls == \E h \in Hardware, failed \in Failures : Poll(h, failed)

SampledSpec == Unsampled /\ [][Polls]_<<vars, readings>>

----------------------------------------------------------------------------

CallsFor(c) == CASE c = "host_stall" -> {"util"}
                 [] c = "memory_pressure" -> {"util"}
                 [] c = "clock_reduced" -> {"clock"}
                 [] c = "gpu_contention" -> {"procs"}
                 [] c = "pcie_bandwidth_drop" -> {"pcie"}
                 [] OTHER -> {}

(* What engine.go:64-67 says: "Rules never fire on absent data". A cause that *)
(* is found rests on a reading of the window that did not fail.              *)
NeverFiresOnAbsentData ==
    \A c \in Range(Causes) : Fires(c) =>
        \E t \in Lo..EndNs : t < Len(readings) /\ CallsFor(c) \cap readings[t + 1] = {}
=============================================================================
