---------------------------- MODULE TailCollector ----------------------------
(* internal/collector/tail.go: the goroutine that follows the files a glob   *)
(* matches, against the shim that appends to them, an operator who truncates *)
(* or removes them, the agent that takes the events, and Stop.               *)
(*                                                                           *)
(* A line is written in two pieces, its head and, with the newline, its      *)
(* tail: a read may end between them. Sizes and offsets count pieces. A path *)
(* names a file (a handle keeps the file when the path goes away), and gen   *)
(* tells the successive contents of a file apart: the code does not know it. *)
EXTENDS Integers, Sequences, SequencesExt, Flows

CONSTANTS Lines,       \* Lines[p]: the lines written to path p, "good" or "bad"
          Existing,    \* Existing[p]: how many of them before Start
          ChanCap,     \* capacity of the events channel
          MaxRotations \* bound: truncations and removals

ASSUME TailAssumption ==
    /\ Lines \in Seq(Seq({"good", "bad"}))
    /\ \A p \in DOMAIN Lines : Existing[p] \in 0..Len(Lines[p])
    /\ ChanCap \in Nat \ {0} /\ MaxRotations \in Nat

Path == DOMAIN Lines

VARIABLES
    disk,   \* the files: disk[f] is [gen, data], data a sequence of pieces
    name,   \* name[p]: the file at path p, 0 for none
    wr,     \* wr[p]: lines written, file held while a line is half written
    rot,    \* rotations so far
    st,     \* st[p], the tailState: offset, partial line; and whose content the
            \* offset belongs to, and whether it was used on another
    tl,     \* the goroutine: control point, paths left, file read, bytes in hand
    chan,   \* events waiting in the channel
    emitted,\* history: every event put in the channel
    ctl     \* context cancelled; Stop: "idle", "waiting" or "returned"

vars == <<disk, name, wr, rot, st, tl, chan, emitted, ctl>>
files == <<disk, name, wr, rot>>

(* The pieces of the first k lines. *)
FirstLines(k) == [i \in 1..(2 * k) |-> <<(i + 1) \div 2, IF i % 2 = 1 THEN "head" ELSE "tail">>]

Init == /\ disk = [p \in Path |-> [gen |-> 0, data |-> FirstLines(Existing[p])]]
        /\ name = [p \in Path |-> IF Existing[p] > 0 THEN p ELSE 0]
        /\ wr = [p \in Path |-> [n |-> Existing[p], file |-> 0]]
        /\ rot = 0
        /\ st = [p \in Path |-> [off |-> 0, partial |-> <<>>, gen |-> 0, misread |-> FALSE]]
        /\ tl = [at |-> "glob", todo |-> <<>>, file |-> 0, buf |-> <<>>]
        /\ chan = 0 /\ emitted = <<>>
        /\ ctl = [done |-> FALSE, stop |-> "idle"]

----------------------------------------------------------------------------
(* The writer, and whoever rotates its files. *)

(* open(path, "a"): an absent file is created. *)
WriteHead(p) ==
    /\ wr[p].file = 0 /\ wr[p].n < Len(Lines[p])
    /\ LET d == IF name[p] = 0 THEN Append(disk, [gen |-> rot, data |-> <<>>]) ELSE disk
           f == IF name[p] = 0 THEN Len(d) ELSE name[p]
       IN  /\ disk' = [d EXCEPT ![f].data = Append(@, <<wr[p].n + 1, "head">>)]
           /\ name' = [name EXCEPT ![p] = f]
           /\ wr' = [wr EXCEPT ![p] = [n |-> @.n + 1, file |-> f]]
    /\ UNCHANGED <<rot, st, tl, chan, emitted, ctl>>

WriteTail(p) ==
    /\ wr[p].file # 0
    /\ disk' = [disk EXCEPT ![wr[p].file].data = Append(@, <<wr[p].n, "tail">>)]
    /\ wr' = [wr EXCEPT ![p].file = 0]
    /\ UNCHANGED <<name, rot, st, tl, chan, emitted, ctl>>

Truncate(p) ==
    /\ name[p] # 0 /\ rot < MaxRotations
    /\ disk' = [disk EXCEPT ![name[p]] = [gen |-> rot + 1, data |-> <<>>]]
    /\ rot' = rot + 1
    /\ UNCHANGED <<name, wr, st, tl, chan, emitted, ctl>>

(* Removed or renamed away; the next write makes a new file. *)
Unlink(p) ==
    /\ name[p] # 0 /\ rot < MaxRotations
    /\ name' = [name EXCEPT ![p] = 0]
    /\ rot' = rot + 1
    /\ UNCHANGED <<disk, wr, st, tl, chan, emitted, ctl>>

----------------------------------------------------------------------------
(* The goroutine of Start. *)

Cur == Head(tl.todo)
NextFile(t) == [t EXCEPT !.at = "open", !.todo = Tail(@), !.file = 0, !.buf = <<>>]

(* filepath.Glob: the paths that exist, in order. *)
Glob == /\ tl.at = "glob"
        /\ tl' = [tl EXCEPT !.at = "open",
                            !.todo = Only([p \in Path |-> p], {p \in Path : name[p] # 0})]
        /\ UNCHANGED <<files, st, chan, emitted, ctl>>

Fresh(s) == [s EXCEPT !.off = 0, !.partial = <<>>]
OpenAs(Reset(_, _)) ==
    /\ tl.at = "open" /\ tl.todo # <<>>
    /\ IF name[Cur] = 0
       THEN tl' = NextFile(tl) /\ UNCHANGED st
       ELSE /\ tl' = [tl EXCEPT !.at = "read", !.file = name[Cur]]
            /\ st' = [st EXCEPT ![Cur] = IF Reset(Len(disk[name[Cur]].data), @.off)
                                         THEN Fresh(@) ELSE @]
    /\ UNCHANGED <<files, chan, emitted, ctl>>

(* Mutant: a file that has not grown is taken for truncated. *)
OpenResetsOnEqual == OpenAs(LAMBDA size, off : size <= off)
(* Mutant: no check of the size. *)
OpenNeverResets == OpenAs(LAMBDA size, off : FALSE)
(* os.Open and Stat: a file shorter than the offset was truncated or rotated. *)
Open == OpenAs(LAMBDA size, off : size < off)

(* Seek and ReadAll: everything from the offset on. *)
Read == /\ tl.at = "read"
        /\ LET s == st[Cur]
               d == disk[tl.file]
               data == SubSeq(d.data, s.off + 1, Len(d.data))
               g == IF s.off = 0 THEN d.gen ELSE s.gen
           IN  /\ st' = [st EXCEPT ![Cur] = [@ EXCEPT !.off = s.off + Len(data), !.gen = g,
                                                      !.misread = g # d.gen /\ s.off <= Len(d.data)]]
               /\ tl' = IF data = <<>> THEN NextFile(tl)
                        ELSE [tl EXCEPT !.at = "emit", !.buf = s.partial \o data]
        /\ UNCHANGED <<files, chan, emitted, ctl>>

Newlines(b) == {i \in DOMAIN b : b[i][2] = "tail"}
Newline(b) == CHOOSE i \in Newlines(b) : \A j \in Newlines(b) : i <= j
Line(b) == SubSeq(b, 1, Newline(b))
After(b) == SubSeq(b, Newline(b) + 1, Len(b))

(* DecodeLine: a whole line decodes if it is good; a head spliced to another *)
(* line's tail may; nothing else does.                                       *)
Whole(l) == Len(l) = 2 /\ l[1][1] = l[2][1]
Spliced(l) == Len(l) = 2 /\ l[1][1] # l[2][1] /\ l[1][2] = "head"
Decodes(l) == Whole(l) /\ Lines[Cur][l[1][1]] = "good"
Event(l) == <<Cur, l[1][1], l[2][1]>>

Skip == /\ tl.at = "emit" /\ Newlines(tl.buf) # {} /\ ~Decodes(Line(tl.buf))
        /\ tl' = [tl EXCEPT !.buf = After(@)]
        /\ UNCHANGED <<files, st, chan, emitted, ctl>>

CanEmit == /\ tl.at = "emit" /\ Newlines(tl.buf) # {}
           /\ Decodes(Line(tl.buf)) \/ Spliced(Line(tl.buf))
Put == /\ emitted' = Append(emitted, Event(Line(tl.buf)))
       /\ chan' = chan + 1
       /\ tl' = [tl EXCEPT !.buf = After(@)]
       /\ UNCHANGED <<files, st, ctl>>

(* Mutant: the send does not wait for room. *)
EmitUnbounded == CanEmit /\ Put
Emit == CanEmit /\ chan < ChanCap /\ Put

(* Mutant: a send without a case for the context. *)
EmitCancelNever == FALSE
EmitCancel == /\ CanEmit /\ ctl.done
              /\ tl' = [tl EXCEPT !.at = "exited"]
              /\ UNCHANGED <<files, st, chan, emitted, ctl>>

(* Mutant: the unfinished line is forgotten. *)
HoldForgets == /\ tl.at = "emit" /\ Newlines(tl.buf) = {}
               /\ st' = [st EXCEPT ![Cur].partial = <<>>]
               /\ tl' = NextFile(tl)
               /\ UNCHANGED <<files, chan, emitted, ctl>>
(* What has no newline yet is held. *)
Hold == /\ tl.at = "emit" /\ Newlines(tl.buf) = {}
        /\ st' = [st EXCEPT ![Cur].partial = tl.buf]
        /\ tl' = NextFile(tl)
        /\ UNCHANGED <<files, chan, emitted, ctl>>

(* After the last file: the next tick, or the context. *)
Tick == /\ tl.at = "open" /\ tl.todo = <<>>
        /\ tl' = [tl EXCEPT !.at = "glob"]
        /\ UNCHANGED <<files, st, chan, emitted, ctl>>
Exit == /\ tl.at = "open" /\ tl.todo = <<>> /\ ctl.done
        /\ tl' = [tl EXCEPT !.at = "exited"]
        /\ UNCHANGED <<files, st, chan, emitted, ctl>>

----------------------------------------------------------------------------

(* The agent takes an event. *)
Take == chan > 0 /\ chan' = chan - 1 /\ UNCHANGED <<files, st, tl, emitted, ctl>>

(* The caller's context ends. *)
Cancel == /\ ~ctl.done
          /\ ctl' = [ctl EXCEPT !.done = TRUE]
          /\ UNCHANGED <<files, st, tl, chan, emitted>>

Stop == /\ ctl.stop = "idle"
        /\ ctl' = [done |-> TRUE, stop |-> "waiting"]
        /\ UNCHANGED <<files, st, tl, chan, emitted>>
StopReturn == /\ ctl.stop = "waiting" /\ tl.at = "exited"
              /\ ctl' = [ctl EXCEPT !.stop = "returned"]
              /\ UNCHANGED <<files, st, tl, chan, emitted>>

TailStep == Glob \/ Open \/ Read \/ Skip \/ Emit \/ EmitCancel \/ Hold \/ Tick \/ Exit

Next == \/ \E p \in Path : WriteHead(p) \/ WriteTail(p) \/ Truncate(p) \/ Unlink(p)
        \/ TailStep \/ Take \/ Cancel \/ Stop \/ StopReturn

(* The goroutine runs; a select whose context stays done chooses it in the   *)
(* end; the agent takes events while the context lives, and nobody has to    *)
(* take any after that.                                                      *)
Fairness == /\ WF_vars(TailStep) /\ SF_vars(Exit) /\ SF_vars(EmitCancel)
            /\ WF_vars(~ctl.done /\ Take) /\ WF_vars(StopReturn)

Spec == Init /\ [][Next]_vars
FairSpec == Spec /\ Fairness

----------------------------------------------------------------------------

TypeOK ==
    /\ \A f \in DOMAIN disk : disk[f].gen \in 0..MaxRotations
    /\ name \in [Path -> 0..Len(disk)] /\ rot \in 0..MaxRotations
    /\ \A p \in Path : /\ wr[p].n \in 0..Len(Lines[p]) /\ wr[p].file \in 0..Len(disk)
                       /\ st[p].off \in Nat /\ st[p].misread \in BOOLEAN
                       /\ Len(st[p].partial) <= st[p].off
    /\ tl.at \in {"glob", "open", "read", "emit", "exited"} /\ tl.file \in 0..Len(disk)
    /\ chan \in 0..ChanCap
    /\ ctl \in [done : BOOLEAN, stop : {"idle", "waiting", "returned"}]

EmittedFrom(p) == Only(emitted, {<<p, n, n>> : n \in 1..Len(Lines[p])})

(* Whatever is truncated, removed or rewritten under it, and wherever a read *)
(* ends, the collector never emits a line twice nor a path's lines out of    *)
(* the order they were written in (tail.go:79-120).                          *)
InOrderOnce ==
    \A p \in Path : LET es == EmittedFrom(p)
                    IN  \A i, j \in DOMAIN es : i < j => es[i][2] < es[j][2]

(* The good lines that are whole in a run of pieces. *)
LineOf(m, n) == <<<<m, "head">>, <<n, "tail">>>>
Neighbours(b) == IF b = <<>> THEN <<>> ELSE [i \in 1..(Len(b) - 1) |-> <<b[i], b[i + 1]>>]
GoodLines(p, b) ==
    Only(Neighbours(b), {LineOf(n, n) : n \in {m \in 1..Len(Lines[p]) : Lines[p][m] = "good"}})
Content(p) == IF name[p] = 0 THEN <<>> ELSE disk[name[p]].data
Pending(p) == IF tl.at = "emit" /\ Cur = p THEN tl.buf ELSE st[p].partial

(* While the offset belongs to the file that is there, every good line up to *)
(* it was emitted or is in hand, and no line was made of pieces of two: what *)
(* a read cut in half is neither lost nor misread (tail.go:17-20, 95-118).   *)
Here(p) == /\ name[p] # 0 /\ st[p].off > 0 /\ st[p].gen = disk[name[p]].gen
           /\ tl.at # "exited"
SentOf(p) == Only(emitted, {p} \X {Content(p)[i][1] : i \in DOMAIN Content(p)} \X Nat)
ConsumedIsEmitted ==
    \A p \in Path :
        Here(p) => [i \in DOMAIN SentOf(p) |-> LineOf(SentOf(p)[i][2], SentOf(p)[i][3])]
                       \o GoodLines(p, Pending(p))
                   = GoodLines(p, SubSeq(Content(p), 1, st[p].off))

OnDisk(p, n) == LineOf(n, n) \in Range(GoodLines(p, Content(p)))
Sent(p, n) == <<p, n, n>> \in Range(emitted)

(* Every complete line reaches the channel in the end, after a truncation    *)
(* too, provided that the collector could notice it: that a read did not find *)
(* the new content as long as the offset in the old (tail.go:56-76, 85-87).  *)
EveryLineEmitted ==
    \A p \in Path : \A n \in 1..Len(Lines[p]) :
        OnDisk(p, n) ~> (Sent(p, n) \/ ~OnDisk(p, n) \/ ctl.done \/ st[p].misread)

(* Stop returns, even when the channel is full and nobody takes from it any  *)
(* more, and wherever in a round it finds the goroutine (tail.go:112-116,    *)
(* 122-130).                                                                 *)
StopReturns == (ctl.stop = "waiting") ~> (ctl.stop = "returned")
=============================================================================
