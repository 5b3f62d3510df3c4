----------------------------- MODULE Correlator -----------------------------
(* internal/correlator/correlator.go, the store half: events are ingested in *)
(* any order, kept per rank in time order, grouped per collective, and       *)
(* trimmed to the lookback window. Each call holds the mutex throughout, so  *)
(* a call is one step. Detection reads the groups this module keeps.         *)
(*                                                                           *)
(* arrived is history. An event of a collective has a key (process group and *)
(* sequence number); NoKey marks the other kinds.                            *)
EXTENDS Integers, Sequences, SequencesExt, FiniteSets, Flows

CONSTANTS Rank, Key, NoKey,
          Inputs,    \* the events that may arrive: [rank, ts, key, dur]
          Lookbacks, \* the lookback windows configured; 0 or less: no trimming
          MaxArrivals \* bound: calls of IngestEvent

ASSUME CorrelatorAssumption ==
    /\ NoKey \notin Key /\ MaxArrivals \in Nat /\ Lookbacks \subseteq Int
    /\ Inputs \subseteq [rank : Rank, ts : Nat, key : Key \cup {NoKey}, dur : Nat]

VARIABLES lookback,   \* cfg.Lookback
          rankEvents, \* rankEvents[r]: the events of rank r, oldest first
          groups,     \* groups[k][r]: rank r's event of collective k
          newestNs,   \* the largest timestamp seen
          arrived

vars == <<lookback, rankEvents, groups, newestNs, arrived>>

Init == /\ lookback \in Lookbacks
        /\ rankEvents = [r \in Rank |-> <<>>]
        /\ groups = <<>>
        /\ newestNs = 0
        /\ arrived = <<>>

(* sort.Search over a slice in time order: how many events come before the   *)
(* first with the property, ts > t or ts >= t.                               *)
Before(evs, t) == Cardinality({i \in DOMAIN evs : evs[i].ts < t})
UpThrough(evs, t) == Cardinality({i \in DOMAIN evs : evs[i].ts <= t})

(* Mutant: an event goes before those of its own timestamp. *)
InsertBeforeEqual(evs, e) == InsertAt(evs, Before(evs, e.ts) + 1, e)
Insert(evs, e) == InsertAt(evs, UpThrough(evs, e.ts) + 1, e)

(* m[k] = v, for a Go map. *)
Put(m, k, v) == [j \in DOMAIN m \cup {k} |-> IF j = k THEN v ELSE m[j]]
GroupOf(gs, k) == IF k \in DOMAIN gs THEN gs[k] ELSE <<>>

(* Mutant: the first event of a collective from a rank is kept. *)
JoinKeepsFirst(gs, e) ==
    IF e.key = NoKey \/ e.rank \in DOMAIN GroupOf(gs, e.key) THEN gs
    ELSE Put(gs, e.key, Put(GroupOf(gs, e.key), e.rank, e))

(* Mutant: events of every kind are grouped. *)
JoinAnyKind(gs, e) == Put(gs, e.key, Put(GroupOf(gs, e.key), e.rank, e))

(* The collective's group with rank's event in it, whatever was there. *)
Join(gs, e) ==
    IF e.key = NoKey THEN gs ELSE Put(gs, e.key, Put(GroupOf(gs, e.key), e.rank, e))

NewestOf(g) == Max({0} \cup {g[r].ts : r \in DOMAIN g})
Cutoff(newest) == newest - lookback

(* A group stays while its newest member is in the window. *)
LiveKeys(gs, newest) == {k \in DOMAIN gs : NewestOf(gs[k]) >= Cutoff(newest)}

(* trimLocked *)
TrimEvents(evs, newest) ==
    IF lookback <= 0 THEN evs
    ELSE SubSeq(evs, Before(evs, Cutoff(newest)) + 1, Len(evs))
TrimGroups(gs, newest) ==
    IF lookback <= 0 THEN gs ELSE Restrict(gs, LiveKeys(gs, newest))

IngestEvent(e) ==
    /\ newestNs' = IF e.ts > newestNs THEN e.ts ELSE newestNs
    /\ rankEvents' = [r \in Rank |->
           TrimEvents(IF r = e.rank THEN Insert(rankEvents[r], e) ELSE rankEvents[r], newestNs')]
    /\ groups' = TrimGroups(Join(groups, e), newestNs')
    /\ arrived' = Append(arrived, e)
    /\ UNCHANGED lookback

(* EventsForRank: the copy handed to attribution. *)
EventsForRank(r, since) ==
    LET evs == rankEvents[r] IN SubSeq(evs, Before(evs, since) + 1, Len(evs))

Next == Len(arrived) < MaxArrivals /\ \E e \in Inputs : IngestEvent(e)

Spec == Init /\ [][Next]_vars

----------------------------------------------------------------------------

(* Types: the groups are a partial map of partial maps of what arrived. *)
TypeOK ==
    /\ lookback \in Lookbacks /\ newestNs \in Nat
    /\ \A r \in Rank : \A e \in Range(rankEvents[r]) : e \in Inputs /\ e.rank = r
    /\ DOMAIN groups \subseteq Key
    /\ \A k \in DOMAIN groups :
           /\ DOMAIN groups[k] \subseteq Rank /\ groups[k] # <<>>
           /\ \A r \in DOMAIN groups[k] : groups[k][r] \in {e \in Inputs : e.key = k /\ e.rank = r}

InWindow(t) == lookback <= 0 \/ t >= Cutoff(newestNs)

At(t) == {e \in Inputs : e.ts = t}
From(r) == {e \in Inputs : e.rank = r}

(* In whatever order events arrive, and however often the window has moved   *)
(* on between them, a rank's history is exactly what arrived from it and is  *)
(* in the window, in time order and, at one instant, in order of arrival:    *)
(* each trim and each binary search relies on the order the others left      *)
(* (correlator.go:80-95, 112-122, 280-287).                                  *)
HistoryExact ==
    \A r \in Rank : \A since \in 0..(newestNs + 1) :
        LET evs == EventsForRank(r, since)
        IN  /\ \A i, j \in DOMAIN evs : i < j => evs[i].ts <= evs[j].ts
            /\ \A t \in {e.ts : e \in Inputs} :
                   Only(evs, At(t)) = IF t >= since /\ InWindow(t)
                                      THEN Only(arrived, At(t) \cap From(r)) ELSE <<>>

Reported(k, r) == Only(arrived, {e \in From(r) : e.key = k})

(* A rank stands in a collective's group with its latest report only, so a   *)
(* duplicate never counts twice; every report still in the window is there;  *)
(* and no collective that all its reporters have left behind is scored, late *)
(* arrivals notwithstanding (correlator.go:80-81, 97-105, 123-133).          *)
GroupsHoldTheLatest ==
    /\ \A k \in DOMAIN groups : \E r \in DOMAIN groups[k] : InWindow(groups[k][r].ts)
    /\ \A k \in Key : \A r \in Rank :
           LET there == k \in DOMAIN groups /\ r \in DOMAIN groups[k]
           IN  /\ there => Reported(k, r) # <<>> /\ groups[k][r] = Last(Reported(k, r))
               /\ Reported(k, r) # <<>> /\ InWindow(Last(Reported(k, r)).ts) => there
=============================================================================
