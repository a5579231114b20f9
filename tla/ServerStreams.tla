---------------------------- MODULE ServerStreams ----------------------------
(***************************************************************************)
(* The streams of apxd: Logs and Events over one journalctl child each     *)
(* (internal/machine/{journal,events}.go), the apxctl commands that read   *)
(* them, and the end of Serve, which waits for them (internal/apid/        *)
(* server.go).                                                             *)
(*                                                                         *)
(* Simplifications:                                                        *)
(*   - a record is known by its place in the journal and its kind: "event" *)
(*     and "plain" records differ in EventPredicate only, an "odd" one is  *)
(*     no map of strings to parseJournalLine (journalctl prints binary and *)
(*     repeated fields as lists), a "long" line is beyond the scanner's    *)
(*     4 MiB;                                                              *)
(*   - a pipe holds one record; --since and the unit filter choose the     *)
(*     records, which the journal of the model already is;                 *)
(*   - gRPC buffers nothing: Send delivers, fails, or waits for a client   *)
(*     that is there and does not read.                                    *)
(***************************************************************************)
EXTENDS Integers, Sequences

CONSTANTS
    Streams,     \* handlers of Logs and Events, each with its client
    Kinds,       \* what the journal holds, of "event", "plain", "odd" and "long" records
    TailLines,   \* what -n asks of journalctl
    MaxRecords,  \* bound: records in the journal
    MaxFaults    \* bound: failing starts, dying children, crashes of apxd

ASSUME StreamsAssumption ==
    /\ Kinds \subseteq {"event", "plain", "odd", "long"}
    /\ TailLines \in Nat \ {0} /\ MaxRecords \in Nat /\ MaxFaults \in Nat

VARIABLES
    journal,     \* kinds of the records, oldest first
    server,      \* what Serve does: serving, draining in GracefulStop, or stopped
    client,      \* none, reading, stalled (there, but not reading) or gone
    kind,        \* logs, follow (logs -f) or events
    pc,          \* where the handler is
    child,       \* its journalctl: none, running, exited, or reaped by Wait
    next,        \* the record the child writes next
    pipe,        \* the record in the pipe, 0 when there is none
    from,        \* history: the first record journalctl -n writes
    sent,        \* history: the records the client got
    exit,        \* how apxctl ended: none, ok or error
    faults

chan == <<child, next, pipe>>
view == <<from, sent, exit>>
vars == <<journal, server, client, kind, pc, chan, view, faults>>

-----------------------------------------------------------------------------
Last == Len(journal)
Follows(s) == kind[s] \in {"follow", "events"}
Cancelled(s) == client[s] = "gone"
Open(s) == pc[s] \notin {"idle", "done"}
Faulty == faults < MaxFaults /\ faults' = faults + 1
Set(f, s, v) == [f EXCEPT ![s] = v]

Each(v) == [s \in Streams |-> v]
Init == /\ journal = <<>> /\ server = "serving" /\ faults = 0
        /\ client = Each("none") /\ kind = Each("logs") /\ pc = Each("idle")
        /\ child = Each("none") /\ next = Each(0) /\ pipe = Each(0)
        /\ from = Each(0) /\ sent = Each(<<>>)
        /\ exit = Each("none")

-----------------------------------------------------------------------------
\* journalctl -n.
FirstOfTail == IF Last > TailLines THEN Last - TailLines + 1 ELSE 1

\* apxctl opens a stream, and the handler looks for journalctl and starts it: the
\* child, its pipe and the goroutine that kills it on cancellation.
StreamJournal(s, k) ==
    /\ server = "serving" /\ pc[s] = "idle" /\ kind' = Set(kind, s, k)
    /\ \/ /\ pc' = Set(pc, s, "scan") /\ client' = Set(client, s, "reading")
          /\ child' = Set(child, s, "running")
          /\ from' = Set(from, s, FirstOfTail)
          /\ next' = Set(next, s, from'[s]) /\ UNCHANGED <<faults, exit>>
       \/ /\ Faulty /\ pc' = Set(pc, s, "done") /\ exit' = Set(exit, s, "error")
          /\ UNCHANGED <<client, child, next, from>>
    /\ UNCHANGED <<journal, server, pipe, sent>>
Logs(s) == StreamJournal(s, "logs") \/ StreamJournal(s, "follow")
Events(s) == StreamJournal(s, "events")

\* journalctl writes what there is, and without -f exits after it.
ChildWrites(s) ==
    /\ child[s] = "running" /\ pipe[s] = 0 /\ next[s] <= Last
    /\ pipe' = Set(pipe, s, next[s]) /\ next' = Set(next, s, next[s] + 1)
    /\ UNCHANGED <<journal, server, client, kind, pc, child, view, faults>>

ChildExits(s) ==
    /\ child[s] = "running" /\ child' = Set(child, s, "exited")
    /\ IF ~Follows(s) /\ next[s] > Last THEN UNCHANGED faults ELSE Faulty
    /\ UNCHANGED <<journal, server, client, kind, pc, next, pipe, view>>

\* What a stream passes on: records that parse; for events, those of the predicate.
parseJournalLine(r) == journal[r] \in {"event", "plain"}
EventPredicate(r) == journal[r] = "event"
Wanted(s, r) == parseJournalLine(r) /\ (kind[s] = "events" => EventPredicate(r))

\* Mutant: what Scan returned is not looked at, and what it left is emitted.
MutantScan(s) ==
    /\ pc[s] = "scan" /\ (pipe[s] # 0 \/ child[s] # "running") /\ pc' = Set(pc, s, "emit")
    /\ UNCHANGED <<journal, server, client, kind, chan, view, faults>>

\* sc.Scan: a record, skipped if it cannot be parsed or is no event; a line that is
\* too long; or the end of the pipe.
Scan(s) ==
    LET r == pipe[s] IN
    /\ pc[s] = "scan"
    /\ \/ /\ r # 0 /\ Wanted(s, r) /\ pc' = Set(pc, s, "emit") /\ UNCHANGED pipe
       \/ /\ r # 0 /\ ~Wanted(s, r) /\ journal[r] # "long" /\ pipe' = Set(pipe, s, 0)
          /\ UNCHANGED pc
       \/ /\ r # 0 /\ journal[r] = "long"
          /\ pc' = Set(pc, s, "toolong") /\ UNCHANGED pipe
       \/ /\ r = 0 /\ child[s] # "running"
          /\ pc' = Set(pc, s, "wait") /\ UNCHANGED pipe
    /\ UNCHANGED <<journal, server, client, kind, child, next, view, faults>>

\* emit: Send waits for the client, and fails when it is gone.
Send(s) == Set(sent, s, Append(sent[s], pipe[s]))
MutantEmit(s) ==
    /\ pc[s] = "emit" /\ client[s] # "stalled"
    /\ pc' = Set(pc, s, "scan") /\ pipe' = Set(pipe, s, 0)
    /\ sent' = IF Cancelled(s) THEN sent ELSE Send(s)
    /\ UNCHANGED <<journal, server, client, kind, child, next, from, exit, faults>>
Emit(s) ==
    /\ pc[s] = "emit" /\ client[s] # "stalled"
    /\ \/ /\ Cancelled(s) /\ pc' = Set(pc, s, "abort") /\ UNCHANGED <<sent, pipe>>
       \/ /\ ~Cancelled(s) /\ pc' = Set(pc, s, "scan") /\ pipe' = Set(pipe, s, 0)
          /\ sent' = Send(s)
    /\ UNCHANGED <<journal, server, client, kind, child, next, from, exit, faults>>

Killed(s) == IF child[s] = "running" THEN Set(child, s, "exited") ELSE child

\* The two paths that kill before Wait: emit failed, or the scanner did.
MutantKillChild(s) ==
    /\ pc[s] \in {"abort", "toolong"} /\ child' = IF pc[s] = "abort" THEN Killed(s) ELSE child
    /\ pc' = Set(pc, s, IF pc[s] = "abort" THEN "fail" ELSE "wait")
    /\ UNCHANGED <<journal, server, client, kind, next, pipe, view, faults>>
KillChild(s) ==
    /\ pc[s] \in {"abort", "toolong"} /\ child' = Killed(s)
    /\ pc' = Set(pc, s, IF pc[s] = "abort" THEN "fail" ELSE "wait")
    /\ UNCHANGED <<journal, server, client, kind, next, pipe, view, faults>>

\* The Recv loop of apxctl: EOF is the normal end, any other status an error.
newLogsCmd(s) == IF Cancelled(s) THEN exit
                 ELSE Set(exit, s, IF pc[s] = "wait" THEN "ok" ELSE "error")

\* cmd.Wait returns when the child has exited; the stream ends, with an error only
\* when emit failed.
Reap(s) ==
    /\ pc[s] \in {"wait", "fail"} /\ child[s] = "exited"
    /\ child' = Set(child, s, "reaped") /\ pc' = Set(pc, s, "done") /\ pipe' = Set(pipe, s, 0)
    /\ exit' = newLogsCmd(s)
    /\ UNCHANGED <<journal, server, client, kind, next, from, sent, faults>>

\* The goroutine beside the reader kills on cancellation. It ends with the reader,
\* and killing a child that was reaped meanwhile does nothing.
MutantKiller(s) ==
    /\ pc[s] = "emit" /\ Cancelled(s) /\ child[s] = "running" /\ child' = Killed(s)
    /\ UNCHANGED <<journal, server, client, kind, pc, next, pipe, view, faults>>
Killer(s) ==
    /\ Open(s) /\ Cancelled(s) /\ child[s] = "running" /\ child' = Killed(s)
    /\ UNCHANGED <<journal, server, client, kind, pc, next, pipe, view, faults>>

-----------------------------------------------------------------------------
\* The client: an interrupt, a lost connection or a failing write to stdout ends it.
\* gRPC reports the interrupt as a status, which is no context.Canceled.
ClientLeaves(s) ==
    /\ client[s] \in {"reading", "stalled"} /\ Open(s)
    /\ client' = Set(client, s, "gone") /\ exit' = Set(exit, s, "error")
    /\ UNCHANGED <<journal, server, kind, pc, chan, from, sent, faults>>

ClientStalls(s) ==
    /\ client[s] = "reading" /\ Open(s) /\ client' = Set(client, s, "stalled")
    /\ UNCHANGED <<journal, server, kind, pc, chan, view, faults>>
ClientReads(s) ==
    /\ client[s] = "stalled" /\ client' = Set(client, s, "reading")
    /\ UNCHANGED <<journal, server, kind, pc, chan, view, faults>>

Log(k) == /\ Last < MaxRecords /\ journal' = Append(journal, k)
          /\ UNCHANGED <<server, client, kind, pc, chan, view, faults>>

\* SIGTERM: GracefulStop refuses new streams and returns when the open ones have.
Drain == /\ server = "serving" /\ server' = "draining"
         /\ UNCHANGED <<journal, client, kind, pc, chan, view, faults>>
MutantServeReturns == /\ server = "draining" /\ server' = "stopped"
                      /\ UNCHANGED <<journal, client, kind, pc, chan, view, faults>>
ServeReturns == /\ server = "draining" /\ \A s \in Streams : ~Open(s)
                /\ server' = "stopped"
                /\ UNCHANGED <<journal, client, kind, pc, chan, view, faults>>

\* systemd takes the whole control group, after a crash or TimeoutStopSec, and
\* starts apxd again.
Restart == /\ \/ server = "stopped" /\ UNCHANGED faults
              \/ server # "stopped" /\ Faulty
           /\ server' = "serving" /\ UNCHANGED journal
           /\ client' = Each("none") /\ kind' = Each("logs") /\ pc' = Each("idle")
           /\ child' = Each("none") /\ next' = Each(0)
           /\ pipe' = Each(0) /\ from' = Each(0)
           /\ sent' = Each(<<>>) /\ exit' = Each("none")

-----------------------------------------------------------------------------
HandlerStep(s) == Scan(s) \/ Emit(s) \/ KillChild(s) \/ Reap(s) \/ Killer(s)
Next ==
    \/ \E s \in Streams :
          \/ Logs(s) \/ Events(s) \/ ChildWrites(s) \/ ChildExits(s)
          \/ HandlerStep(s) \/ ClientLeaves(s) \/ ClientStalls(s) \/ ClientReads(s)
    \/ \E k \in Kinds : Log(k)
    \/ Drain \/ ServeReturns \/ Restart
Spec == Init /\ [][Next]_vars

\* The goroutines of apxd run, journalctl writes what there is and exits when it is
\* done, GracefulStop returns when it can. Clients owe nothing.
FairSpec == /\ Spec /\ WF_vars(ServeReturns)
            /\ \A s \in Streams : /\ WF_vars(Scan(s) \/ Emit(s) \/ KillChild(s) \/ Reap(s))
                                 /\ WF_vars(Killer(s))
                                 /\ WF_vars(ChildWrites(s))
                                 /\ WF_vars(ChildExits(s) /\ ~Follows(s) /\ next[s] > Last)

-----------------------------------------------------------------------------
TypeOK ==
    /\ journal \in Seq(Kinds) /\ Last <= MaxRecords
    /\ server \in {"serving", "draining", "stopped"} /\ faults \in 0..MaxFaults
    /\ client \in [Streams -> {"none", "reading", "stalled", "gone"}]
    /\ kind \in [Streams -> {"logs", "follow", "events"}]
    /\ pc \in [Streams -> {"idle", "scan", "emit", "abort", "toolong", "wait", "fail", "done"}]
    /\ child \in [Streams -> {"none", "running", "exited", "reaped"}]
    /\ next \in [Streams -> 0..MaxRecords + 1] /\ from \in [Streams -> 0..MaxRecords + 1]
    /\ pipe \in [Streams -> 0..MaxRecords]
    /\ exit \in [Streams -> {"none", "ok", "error"}]
    /\ sent \in [Streams -> Seq(1..MaxRecords)]

Got(s) == {sent[s][i] : i \in 1..Len(sent[s])}
InOrder(s) == \A i, j \in 1..Len(sent[s]) : i < j => sent[s][i] < sent[s][j]

\* What a client has is what it asked for, in the journal's order and each record once,
\* from the first of its tail and without a hole, as long as its stream is open and when
\* it ended well: no record is lost to the reader, the goroutine that kills the child,
\* or a failed Send the handler survives (StreamJournal's loop). A record that does not
\* parse is not sent, and a line beyond the buffer is the end of a stream that ended well.
NoHoles ==
    \A s \in Streams : Open(s) \/ exit[s] = "ok" =>
        /\ InOrder(s)
        /\ Got(s) = {r \in from[s]..next[s] - 1 : r # pipe[s] /\ Wanted(s, r)}

\* No journalctl outlives its handler, and none outlives Serve: every path of
\* StreamJournal past Start ends in Wait, and GracefulStop waits for the handlers.
ChildrenReaped ==
    \A s \in Streams : /\ pc[s] = "done" => child[s] \in {"none", "reaped"}
                       /\ server = "stopped" => child[s] \in {"none", "reaped"}

\* "child killed when the client disconnects" (docs/ARCHITECTURE.md): a stream whose
\* client is gone ends, whatever its handler was waiting for.
CancelledEnds == \A s \in Streams : Cancelled(s) /\ Open(s) ~> ~Open(s)

\* Serve returns after SIGTERM if, from some time on, no stream that is still open
\* follows the journal or waits for a client that does not read.
DrainEnds ==
    <>[](\A s \in Streams : Open(s) => ~Follows(s) /\ client[s] # "stalled")
        => (server = "draining" ~> server # "draining")
=============================================================================
