------------------------- MODULE ServerStreamsProofs -------------------------
(***************************************************************************)
(* For any number of streams, records and failures: what the handlers keep *)
(* has its type, no journalctl outlives its handler or Serve, and a client *)
(* that is served gets its records in order and without a hole.            *)
(***************************************************************************)
EXTENDS ServerStreams, TLAPS

-----------------------------------------------------------------------------
(* Types. A handler that is about to send has a record. *)

Steps == {"idle", "scan", "emit", "abort", "toolong", "wait", "fail", "done"}
Children == {"none", "running", "exited", "reaped"}

Typed == TypeOK /\ \A s \in Streams : pc[s] = "emit" => pipe[s] # 0

LEMMA Bounds == /\ MaxRecords \in Nat /\ MaxFaults \in Nat /\ TailLines \in Nat \ {0}
                /\ Kinds \subseteq {"event", "plain", "odd", "long"}
  BY StreamsAssumption DEF StreamsAssumption

LEMMA LastTyped == TypeOK => Last \in 0..MaxRecords
  BY Bounds DEF TypeOK, Last

LEMMA SetTyped ==
  ASSUME NEW D, NEW s \in Streams, NEW f \in [Streams -> D], NEW v \in D
  PROVE  /\ Set(f, s, v) \in [Streams -> D] /\ Set(f, s, v)[s] = v
         /\ \A t \in Streams \ {s} : Set(f, s, v)[t] = f[t]
  BY DEF Set

LEMMA KilledTyped == ASSUME TypeOK, NEW s \in Streams PROVE Killed(s) \in [Streams -> Children]
  BY DEF TypeOK, Killed, Set, Children

LEMMA FaultTyped == ASSUME TypeOK, Faulty PROVE faults' \in 0..MaxFaults
  BY Bounds DEF TypeOK, Faulty

LEMMA InitTyped == Init => Typed
  <1> SUFFICES ASSUME Init PROVE Typed
    OBVIOUS
  <1>1. /\ client \in [Streams -> {"none", "reading", "stalled", "gone"}]
        /\ kind \in [Streams -> {"logs", "follow", "events"}]
        /\ pc \in [Streams -> Steps] /\ child \in [Streams -> Children]
        /\ exit \in [Streams -> {"none", "ok", "error"}]
    BY DEF Init, Each, Steps, Children
  <1>2. /\ next \in [Streams -> 0..MaxRecords + 1] /\ from \in [Streams -> 0..MaxRecords + 1]
        /\ pipe \in [Streams -> 0..MaxRecords]
    BY Bounds DEF Init, Each
  <1>3. journal \in Seq(Kinds) /\ Last <= MaxRecords /\ faults \in 0..MaxFaults
    BY Bounds DEF Init, Last
  <1>4. sent \in [Streams -> Seq(1..MaxRecords)]
    BY DEF Init, Each
  <1> QED
    BY <1>1, <1>2, <1>3, <1>4 DEF Init, Each, Typed, TypeOK, Steps, Children

LEMMA StartTyped == ASSUME Typed, NEW s \in Streams, Logs(s) \/ Events(s) PROVE Typed'
  <1>1. PICK k \in {"logs", "follow", "events"} : StreamJournal(s, k)
    BY DEF Logs, Events
  <1>2. kind' \in [Streams -> {"logs", "follow", "events"}]
    BY <1>1 DEF StreamJournal, Typed, TypeOK, Set
  <1>3. UNCHANGED <<journal, server, pipe, sent>>
    BY <1>1 DEF StreamJournal
  <1>4. CASE Faulty /\ pc' = Set(pc, s, "done") /\ exit' = Set(exit, s, "error")
             /\ UNCHANGED <<client, child, next, from>>
    <2>1. faults' \in 0..MaxFaults /\ exit' \in [Streams -> {"none", "ok", "error"}]
      BY <1>4, FaultTyped DEF Typed, TypeOK, Set
    <2>2. pc' \in [Streams -> Steps] /\ pc'[s] = "done" /\ \A t \in Streams \ {s} : pc'[t] = pc[t]
      BY <1>4 DEF Typed, TypeOK, Set, Steps
    <2> QED
      BY <1>2, <1>3, <1>4, <2>1, <2>2 DEF Typed, TypeOK, Steps, Last
  <1>5. CASE /\ pc' = Set(pc, s, "scan") /\ client' = Set(client, s, "reading")
             /\ child' = Set(child, s, "running")
             /\ from' = Set(from, s, FirstOfTail)
             /\ next' = Set(next, s, from'[s]) /\ UNCHANGED <<faults, exit>>
    <2>1. FirstOfTail \in 0..MaxRecords + 1
      BY LastTyped, Bounds DEF FirstOfTail, Typed
    <2>2. from' \in [Streams -> 0..MaxRecords + 1] /\ from'[s] \in 0..MaxRecords + 1
      <3>1. from' = Set(from, s, FirstOfTail) /\ from \in [Streams -> 0..MaxRecords + 1]
        BY <1>5 DEF Typed, TypeOK
      <3> QED
        BY <2>1, <3>1 DEF Set
    <2>3. next' \in [Streams -> 0..MaxRecords + 1]
      BY <1>5, <2>2, SetTyped DEF Typed, TypeOK
    <2>4. /\ client' \in [Streams -> {"none", "reading", "stalled", "gone"}]
          /\ child' \in [Streams -> Children]
      BY <1>5 DEF Typed, TypeOK, Set, Children
    <2>5. pc' \in [Streams -> Steps] /\ pc'[s] = "scan" /\ \A t \in Streams \ {s} : pc'[t] = pc[t]
      BY <1>5 DEF Typed, TypeOK, Set, Steps
    <2> QED
      BY <1>2, <1>3, <1>5, <2>2, <2>3, <2>4, <2>5 DEF Typed, TypeOK, Steps, Children, Last
  <1> QED
    BY <1>1, <1>4, <1>5 DEF StreamJournal

LEMMA ChildTyped ==
  ASSUME Typed, NEW s \in Streams, ChildWrites(s) \/ ChildExits(s) \/ Killer(s) PROVE Typed'
  <1>1. CASE ChildWrites(s)
    <2>1. next[s] \in 0..Last /\ Last \in 0..MaxRecords
      BY <1>1, LastTyped DEF ChildWrites, Typed, TypeOK
    <2>2. next[s] \in 0..MaxRecords /\ next[s] + 1 \in 0..MaxRecords + 1
      BY <2>1, Bounds
    <2>3. pipe' \in [Streams -> 0..MaxRecords] /\ next' \in [Streams -> 0..MaxRecords + 1]
      BY <1>1, <2>2 DEF ChildWrites, Typed, TypeOK, Set
    <2>4. ASSUME NEW t \in Streams, pc[t] = "emit" PROVE pipe'[t] # 0
      BY <1>1, <2>4 DEF ChildWrites, Typed, TypeOK, Set
    <2> QED
      BY <1>1, <2>3, <2>4 DEF ChildWrites, view, Typed, TypeOK, Last
  <1>2. CASE ChildExits(s)
    <2>1. faults' \in 0..MaxFaults /\ child' \in [Streams -> Children]
      BY <1>2, FaultTyped DEF ChildExits, Typed, TypeOK, Set, Children
    <2> QED
      BY <1>2, <2>1 DEF ChildExits, view, Typed, TypeOK, Last, Children
  <1>3. CASE Killer(s)
    <2>1. child' \in [Streams -> Children]
      BY <1>3, KilledTyped DEF Killer, Typed
    <2> QED
      BY <1>3, <2>1 DEF Killer, view, Typed, TypeOK, Last, Children
  <1> QED
    BY <1>1, <1>2, <1>3

LEMMA HandlerTyped == ASSUME Typed, NEW s \in Streams, HandlerStep(s) PROVE Typed'
  <1>1. CASE Scan(s)
    <2>1. pipe' = pipe \/ pipe' = Set(pipe, s, 0)
      BY <1>1 DEF Scan
    <2>4. \E step \in {"scan", "emit", "toolong", "wait"} : pc' = Set(pc, s, step)
      <3>1. pc = Set(pc, s, "scan")
        <4>1. pc[s] = "scan"
          BY <1>1 DEF Scan
        <4> QED
          BY <4>1 DEF Typed, TypeOK, Set
      <3>2. pc' = pc \/ pc' = Set(pc, s, "emit") \/ pc' = Set(pc, s, "toolong") \/ pc' = Set(pc, s, "wait")
        BY <1>1, Zenon DEF Scan
      <3> QED
        BY <3>1, <3>2
    <2>2. pc' \in [Streams -> Steps] /\ pipe' \in [Streams -> 0..MaxRecords]
      <3>1. pipe' \in [Streams -> 0..MaxRecords]
        <4>1. 0 \in 0..MaxRecords
          BY Bounds
        <4>2. pipe \in [Streams -> 0..MaxRecords]
          BY DEF Typed, TypeOK
        <4> QED
          BY <2>1, <4>1, <4>2 DEF Set
      <3>2. pc' \in [Streams -> Steps]
        BY <2>4 DEF Typed, TypeOK, Set, Steps
      <3> QED
        BY <3>1, <3>2
    <2>3. ASSUME NEW t \in Streams, pc'[t] = "emit" PROVE pipe'[t] # 0
      BY <1>1, <2>3 DEF Scan, Typed, TypeOK, Set
    <2> QED
      BY <1>1, <2>2, <2>3 DEF Scan, view, Typed, TypeOK, Steps, Last
  <1>2. CASE Emit(s)
    <2>1. CASE Cancelled(s)
      <3>1. pc' \in [Streams -> Steps] /\ \A t \in Streams : pc'[t] = "emit" => pc[t] = "emit"
        BY <1>2, <2>1 DEF Emit, Typed, TypeOK, Set, Steps
      <3> QED
        BY <1>2, <2>1, <3>1 DEF Emit, Typed, TypeOK, Steps, Last
    <2>2. CASE ~Cancelled(s)
      <3>1. pc' = Set(pc, s, "scan") /\ pipe' = Set(pipe, s, 0) /\ sent' = Send(s)
        BY <1>2, <2>2 DEF Emit
      <3>2. pc' \in [Streams -> Steps] /\ pipe' \in [Streams -> 0..MaxRecords]
        BY <3>1, Bounds DEF Typed, TypeOK, Set, Steps
      <3>3. \A t \in Streams : pc'[t] = "emit" => pc[t] = "emit" /\ pipe'[t] = pipe[t]
        BY <3>1 DEF Typed, TypeOK, Set
      <3>4. pipe[s] \in 1..MaxRecords
        BY <1>2 DEF Emit, Typed, TypeOK
      <3>5. Append(sent[s], pipe[s]) \in Seq(1..MaxRecords)
        BY <3>4 DEF Typed, TypeOK
      <3>6. sent' \in [Streams -> Seq(1..MaxRecords)]
        BY <3>1, <3>5 DEF Send, Set, Typed, TypeOK
      <3> QED
        BY <1>2, <3>2, <3>3, <3>6 DEF Emit, Typed, TypeOK, Steps, Last
    <2> QED
      BY <2>1, <2>2
  <1>3. CASE KillChild(s)
    <2>1. child' \in [Streams -> Children]
      BY <1>3, KilledTyped DEF KillChild, Typed
    <2>2. pc' \in [Streams -> Steps] /\ \A t \in Streams : pc'[t] = "emit" => pc[t] = "emit"
      BY <1>3 DEF KillChild, Typed, TypeOK, Set, Steps
    <2> QED
      BY <1>3, <2>1, <2>2 DEF KillChild, view, Typed, TypeOK, Steps, Children, Last
  <1>4. CASE Reap(s)
    <2>1. child' \in [Streams -> Children] /\ exit' \in [Streams -> {"none", "ok", "error"}]
      BY <1>4 DEF Reap, newLogsCmd, Typed, TypeOK, Set, Children
    <2>2. pc' \in [Streams -> Steps] /\ pipe' \in [Streams -> 0..MaxRecords]
      BY <1>4, Bounds DEF Reap, Typed, TypeOK, Set, Steps
    <2>3. \A t \in Streams : pc'[t] = "emit" => pc[t] = "emit" /\ pipe'[t] = pipe[t]
      BY <1>4 DEF Reap, Typed, TypeOK, Set
    <2> QED
      BY <1>4, <2>1, <2>2, <2>3 DEF Reap, Typed, TypeOK, Steps, Children, Last
  <1> QED
    BY <1>1, <1>2, <1>3, <1>4, ChildTyped DEF HandlerStep

LEMMA NextTyped == Typed /\ [Next]_vars => Typed'
  <1> SUFFICES ASSUME Typed, [Next]_vars PROVE Typed'
    OBVIOUS
  <1>1. ASSUME NEW s \in Streams, ClientLeaves(s) \/ ClientStalls(s) \/ ClientReads(s) PROVE Typed'
    <2>1. /\ client' \in [Streams -> {"none", "reading", "stalled", "gone"}]
          /\ exit' \in [Streams -> {"none", "ok", "error"}]
      BY <1>1 DEF ClientLeaves, ClientStalls, ClientReads, view, Typed, TypeOK, Set
    <2> QED
      BY <1>1, <2>1 DEF ClientLeaves, ClientStalls, ClientReads, chan, view, Typed, TypeOK, Last
  <1>2. ASSUME NEW k \in Kinds, Log(k) PROVE Typed'
    <2>1. Last \in Nat /\ Last < MaxRecords /\ journal' = Append(journal, k)
      BY <1>2, LastTyped, Bounds DEF Log, Typed
    <2>2. journal' \in Seq(Kinds) /\ Len(journal') = Last + 1
      BY <2>1 DEF Typed, TypeOK, Last
    <2>3. Last' <= MaxRecords
      BY <2>1, <2>2, Bounds DEF Last
    <2> QED
      BY <1>2, <2>2, <2>3 DEF Log, chan, view, Typed, TypeOK
  <1>3. CASE Drain \/ ServeReturns
    BY <1>3 DEF Drain, ServeReturns, chan, view, Typed, TypeOK, Last
  <1>4. CASE Restart
    <2>1. faults' \in 0..MaxFaults
      BY <1>4, FaultTyped DEF Restart, Typed, TypeOK
    <2>2. /\ client' \in [Streams -> {"none", "reading", "stalled", "gone"}]
          /\ kind' \in [Streams -> {"logs", "follow", "events"}]
          /\ pc' \in [Streams -> Steps] /\ child' \in [Streams -> Children]
          /\ exit' \in [Streams -> {"none", "ok", "error"}]
      BY <1>4 DEF Restart, Each, Steps, Children
    <2>3. /\ next' \in [Streams -> 0..MaxRecords + 1] /\ from' \in [Streams -> 0..MaxRecords + 1]
          /\ pipe' \in [Streams -> 0..MaxRecords]
      BY <1>4, Bounds DEF Restart, Each
    <2>4. sent' \in [Streams -> Seq(1..MaxRecords)]
      BY <1>4 DEF Restart, Each
    <2>5. \A s \in Streams : pc'[s] # "emit"
      BY <1>4 DEF Restart, Each
    <2> QED
      BY <1>4, <2>1, <2>2, <2>3, <2>4, <2>5 DEF Restart, Typed, TypeOK, Steps, Children, Last
  <1>5. CASE UNCHANGED vars
    BY <1>5 DEF vars, chan, view, Typed, TypeOK, Last
  <1> QED
    BY <1>1, <1>2, <1>3, <1>4, <1>5, StartTyped, ChildTyped, HandlerTyped DEF Next

LEMMA TypedAlways == Spec => []Typed
  BY InitTyped, NextTyped, PTL DEF Spec

\* journal.go, events.go: what the streams keep has its type, and a client is sent
\* records of the journal only.
THEOREM TypeCorrect == Spec => []TypeOK
  <1>1. Typed => TypeOK
    BY DEF Typed
  <1> QED
    BY <1>1, TypedAlways, PTL

-----------------------------------------------------------------------------
(* A handler that is open has a child to reap; one that is done has none. *)

Parented ==
    /\ \A s \in Streams : /\ pc[s] = "idle" => child[s] = "none"
                          /\ pc[s] = "done" => child[s] \in {"none", "reaped"}
    /\ server = "stopped" => \A s \in Streams : ~Open(s)

LEMMA ParentedNext == TypeOK /\ Parented /\ [Next]_vars => Parented'
  <1> SUFFICES ASSUME TypeOK, Parented, [Next]_vars PROVE Parented'
    OBVIOUS
  <1>1. ASSUME NEW s \in Streams, Logs(s) \/ Events(s) PROVE Parented'
    <2>1. PICK k \in {"logs", "follow", "events"} : StreamJournal(s, k)
      BY <1>1 DEF Logs, Events
    <2> QED
      <3>1. server = "serving" /\ server' = "serving" /\ child[s] = "none"
        BY <2>1 DEF StreamJournal, Parented
      <3>2. \A t \in Streams \ {s} : pc'[t] = pc[t] /\ child'[t] = child[t]
        BY <2>1 DEF StreamJournal, TypeOK, Set
      <3>3. pc'[s] = "scan" \/ (pc'[s] = "done" /\ child'[s] = "none")
        BY <2>1, <3>1 DEF StreamJournal, TypeOK, Set
      <3> QED
        BY <3>1, <3>2, <3>3 DEF Parented
  <1>2. ASSUME NEW s \in Streams, ChildWrites(s) PROVE Parented'
    BY <1>2 DEF ChildWrites, Parented, Open
  <1>3. ASSUME NEW s \in Streams, ChildExits(s) PROVE Parented'
    BY <1>3 DEF ChildExits, TypeOK, Parented, Open, Set
  <1>4. ASSUME NEW s \in Streams, Killer(s) PROVE Parented'
    BY <1>4 DEF Killer, Killed, TypeOK, Parented, Open, Set
  <1>5. ASSUME NEW s \in Streams, Scan(s) PROVE Parented'
    BY <1>5 DEF Scan, TypeOK, Parented, Open, Set
  <1>6. ASSUME NEW s \in Streams, Emit(s) PROVE Parented'
    BY <1>6 DEF Emit, TypeOK, Parented, Open, Set
  <1>7. ASSUME NEW s \in Streams, KillChild(s) PROVE Parented'
    BY <1>7 DEF KillChild, Killed, TypeOK, Parented, Open, Set
  <1>8. ASSUME NEW s \in Streams, Reap(s) PROVE Parented'
    BY <1>8 DEF Reap, TypeOK, Parented, Open, Set
  <1>9. ASSUME NEW s \in Streams, ClientLeaves(s) \/ ClientStalls(s) \/ ClientReads(s)
        PROVE  Parented'
    BY <1>9 DEF ClientLeaves, ClientStalls, ClientReads, chan, Parented, Open
  <1>10. ASSUME NEW k \in Kinds, Log(k) PROVE Parented'
    BY <1>10 DEF Log, chan, Parented, Open
  <1>11. CASE Drain \/ ServeReturns
    BY <1>11 DEF Drain, ServeReturns, chan, Parented, Open
  <1>12. CASE Restart
    BY <1>12 DEF Restart, Each, Parented
  <1>13. CASE UNCHANGED vars
    BY <1>13 DEF vars, chan, Parented, Open
  <1> QED
    BY <1>1, <1>2, <1>3, <1>4, <1>5, <1>6, <1>7, <1>8, <1>9, <1>10, <1>11, <1>12, <1>13
       DEF Next, HandlerStep

\* journal.go, events.go, server.go:146-149: every way a stream ends, a failed start
\* included, leaves no journalctl behind, and Serve returns with none left.
THEOREM ReapCorrect == Spec => []ChildrenReaped
  <1>1. Init => Parented
    BY DEF Init, Each, Parented
  <1>2. TypeOK /\ Parented => ChildrenReaped
    BY DEF TypeOK, Parented, ChildrenReaped, Open
  <1> QED
    BY <1>1, <1>2, TypeCorrect, ParentedNext, PTL DEF Spec
-----------------------------------------------------------------------------
(* No holes. The pipe holds the last record the child wrote, and a handler    *)
(* that waits for the child has nothing left to send.                         *)

Whole(s) ==
    /\ 1 <= from[s] /\ from[s] <= next[s] /\ next[s] <= Last + 1
    /\ pipe[s] # 0 => pipe[s] = next[s] - 1 /\ from[s] <= pipe[s]
    /\ InOrder(s)
    /\ Got(s) = {r \in from[s]..next[s] - 1 : r # pipe[s] /\ Wanted(s, r)}

Kept(s) ==
    /\ exit[s] = "ok" => pc[s] = "done"
    /\ pc[s] = "idle" => pipe[s] = 0 /\ sent[s] = <<>>
    /\ pc[s] \in {"idle", "wait", "fail", "done"} => child[s] # "running"
    /\ pc[s] = "emit" => pipe[s] # 0 /\ Wanted(s, pipe[s])
    /\ pc[s] = "toolong" => pipe[s] # 0 /\ ~Wanted(s, pipe[s])
    /\ pc[s] = "wait" => pipe[s] = 0 \/ ~Wanted(s, pipe[s])
    /\ Open(s) \/ exit[s] = "ok" => Whole(s)

AllKept == TypeOK /\ \A s \in Streams : Kept(s)

\* A step that is not about stream t.
Untouched(t) ==
    /\ kind'[t] = kind[t] /\ pc'[t] = pc[t] /\ child'[t] = child[t] /\ pipe'[t] = pipe[t]
    /\ next'[t] = next[t] /\ from'[t] = from[t] /\ sent'[t] = sent[t] /\ exit'[t] = exit[t]

LEMMA SameData ==
  ASSUME NEW t \in Streams, journal' = journal, kind'[t] = kind[t], pipe'[t] = pipe[t],
         next'[t] = next[t], from'[t] = from[t], sent'[t] = sent[t]
  PROVE  /\ Whole(t)' <=> Whole(t)
         /\ \A r : Wanted(t, r)' <=> Wanted(t, r)
  <1>1. \A r : Wanted(t, r)' <=> Wanted(t, r)
    BY DEF Wanted, parseJournalLine, EventPredicate
  <1>2. InOrder(t)' <=> InOrder(t)
    BY DEF InOrder
  <1>3. Got(t)' = Got(t)
    BY DEF Got
  <1> QED
    BY <1>1, <1>2, <1>3 DEF Whole, Last

LEMMA UntouchedKept ==
  ASSUME NEW t \in Streams, Kept(t), Untouched(t), journal' = journal
  PROVE  Kept(t)'
  <1>1. (Whole(t)' <=> Whole(t)) /\ \A r : Wanted(t, r)' <=> Wanted(t, r)
    BY SameData DEF Untouched
  <1> QED
    BY <1>1 DEF Kept, Untouched, Open

LEMMA Appended ==
  ASSUME NEW q \in Seq(Nat), NEW r \in Nat,
         \A i \in 1..Len(q) : q[i] < r,
         \A i, j \in 1..Len(q) : i < j => q[i] < q[j],
         NEW p, p = Append(q, r)
  PROVE  /\ \A i, j \in 1..Len(p) : i < j => p[i] < p[j]
         /\ {p[i] : i \in 1..Len(p)} = {q[i] : i \in 1..Len(q)} \cup {r}
  <1>1. Len(q) \in Nat /\ Len(p) = Len(q) + 1 /\ p[Len(q) + 1] = r
        /\ \A i \in 1..Len(q) : p[i] = q[i] /\ q[i] \in Nat
    OBVIOUS
  <1>2. \A i \in 1..Len(p) : i \in 1..Len(q) \/ i = Len(q) + 1
    BY <1>1
  <1> QED
    BY <1>1, <1>2

LEMMA StartKept ==
  ASSUME Typed, NEW s \in Streams, Kept(s), NEW k, StreamJournal(s, k)
  PROVE  Kept(s)'
  <1>1. pc[s] = "idle" /\ child[s] # "running" /\ exit[s] # "ok" /\ UNCHANGED <<journal, pipe, sent>>
    BY DEF StreamJournal, Kept
  <1>2. CASE pc' = Set(pc, s, "done") /\ exit' = Set(exit, s, "error") /\ UNCHANGED child
    BY <1>1, <1>2 DEF Kept, Set, Open, Typed, TypeOK
  <1>3. CASE /\ pc' = Set(pc, s, "scan") /\ child' = Set(child, s, "running")
             /\ from' = Set(from, s, FirstOfTail) /\ next' = Set(next, s, from'[s])
             /\ UNCHANGED exit
    <2>1. FirstOfTail \in 1..Last + 1 /\ Last \in Nat
      BY LastTyped, Bounds DEF FirstOfTail, Typed
    <2>2. from'[s] = FirstOfTail /\ next'[s] = FirstOfTail
      BY <1>3 DEF Set, Typed, TypeOK
    <2>3. pipe[s] = 0 /\ sent[s] = <<>>
      BY <1>1 DEF Kept
    <2>4. Whole(s)'
      BY <1>1, <2>1, <2>2, <2>3 DEF Whole, InOrder, Got, Last
    <2> QED
      BY <1>1, <1>3, <2>4 DEF Kept, Set, Typed, TypeOK
  <1> QED
    BY <1>2, <1>3 DEF StreamJournal

\* Everything about stream s is an integer where it should be.
LEMMA Numbers ==
  ASSUME Typed, NEW s \in Streams
  PROVE  /\ Last \in Nat /\ from[s] \in Nat /\ next[s] \in Nat /\ pipe[s] \in Nat
         /\ sent[s] \in Seq(Nat) /\ Len(sent[s]) \in Nat
         /\ \A i \in 1..Len(sent[s]) : sent[s][i] \in Nat
  <1>1. sent[s] \in Seq(1..MaxRecords)
    BY DEF Typed, TypeOK
  <1>2. sent[s] \in Seq(Nat)
    BY <1>1, Bounds
  <1>3. Len(sent[s]) \in Nat /\ \A i \in 1..Len(sent[s]) : sent[s][i] \in Nat
    BY <1>2
  <1>4. from[s] \in 0..MaxRecords + 1 /\ next[s] \in 0..MaxRecords + 1 /\ pipe[s] \in 0..MaxRecords
    BY DEF Typed, TypeOK
  <1> QED
    BY <1>2, <1>3, <1>4, LastTyped, Bounds DEF Typed

LEMMA ChildKept ==
  ASSUME Typed, NEW s \in Streams, Kept(s), ChildWrites(s) \/ ChildExits(s) \/ Killer(s)
  PROVE  Kept(s)'
  <1>1. CASE ChildWrites(s)
    <2>1. Open(s) /\ pipe[s] = 0 /\ next[s] <= Last /\ Whole(s)
      BY <1>1 DEF ChildWrites, Kept, Open, Typed, TypeOK
    <2>2. pipe'[s] = next[s] /\ next'[s] = next[s] + 1
      BY <1>1 DEF ChildWrites, Set, Typed, TypeOK
    <2>3. UNCHANGED <<journal, kind, pc, child, from, sent, exit>>
      BY <1>1 DEF ChildWrites, view
    <2>4. \A r : Wanted(s, r)' <=> Wanted(s, r)
      BY <2>3 DEF Wanted, parseJournalLine, EventPredicate
    <2>5. InOrder(s)' /\ Got(s)' = Got(s) /\ Last' = Last
      BY <2>1, <2>3 DEF Whole, InOrder, Got, Last
    <2>6. {r \in from[s]..next'[s] - 1 : r # pipe'[s] /\ Wanted(s, r)}
            = {r \in from[s]..next[s] - 1 : r # pipe[s] /\ Wanted(s, r)}
      BY <2>1, <2>2, Numbers DEF Whole
    <2>7. Whole(s)'
      <3>1. Got(s)' = {r \in from[s]..next[s] - 1 : r # pipe[s] /\ Wanted(s, r)} /\ InOrder(s)'
        BY <2>1, <2>5 DEF Whole
      <3>2. Got(s)' = {r \in from'[s]..next'[s] - 1 : r # pipe'[s] /\ Wanted(s, r)'}
        BY <2>3, <2>4, <2>6, <3>1
      <3>3. from[s] \in Nat /\ next[s] \in Nat /\ Last \in Nat /\ 1 <= from[s] /\ from[s] <= next[s]
        BY <2>1, Numbers DEF Whole
      <3>4. /\ from'[s] = from[s] /\ next'[s] <= Last' + 1
            /\ pipe'[s] = next'[s] - 1 /\ from[s] <= pipe'[s] /\ from[s] <= next'[s]
        BY <2>1, <2>2, <2>3, <2>5, <3>3
      <3> QED
        BY <3>1, <3>2, <3>3, <3>4 DEF Whole
    <2>8. pc[s] \notin {"idle", "emit", "toolong", "wait"}
      BY <1>1, <2>1 DEF ChildWrites, Kept, Open
    <2> QED
      BY <2>3, <2>7, <2>8 DEF Kept, Open
  <1>2. CASE ChildExits(s) \/ Killer(s)
    <2>1. UNCHANGED <<journal, kind, pc, next, pipe, from, sent, exit>>
      BY <1>2 DEF ChildExits, Killer, view
    <2>2. child'[s] = "exited"
      BY <1>2 DEF ChildExits, Killer, Killed, Set, Typed, TypeOK
    <2>3. (Whole(s)' <=> Whole(s)) /\ \A r : Wanted(s, r)' <=> Wanted(s, r)
      BY <2>1, SameData
    <2> QED
      BY <2>1, <2>2, <2>3 DEF Kept, Open
  <1> QED
    BY <1>1, <1>2

LEMMA ScanKept == ASSUME Typed, NEW s \in Streams, Kept(s), Scan(s) PROVE Kept(s)'
  <1>1. /\ UNCHANGED <<journal, kind, child, next, from, sent, exit>>
        /\ pc[s] = "scan" /\ Open(s) /\ Whole(s) /\ exit[s] # "ok"
    BY DEF Scan, view, Kept, Open
  <1>2. \A r : Wanted(s, r)' <=> Wanted(s, r)
    BY <1>1 DEF Wanted, parseJournalLine, EventPredicate
  <1>3. CASE pipe' = pipe
    <2>1. Whole(s)'
      BY <1>1, <1>3, SameData
    <2>2. \/ pc'[s] = "scan"
          \/ pc'[s] = "emit" /\ pipe[s] # 0 /\ Wanted(s, pipe[s])
          \/ pc'[s] = "toolong" /\ pipe[s] # 0 /\ ~Wanted(s, pipe[s])
          \/ pc'[s] = "wait" /\ pipe[s] = 0 /\ child[s] # "running"
      BY <1>1 DEF Scan, Set, Wanted, parseJournalLine, Typed, TypeOK
    <2> QED
      BY <1>1, <1>2, <1>3, <2>1, <2>2 DEF Kept, Open
  <1>4. CASE pipe' # pipe
    <2>1. pipe' = Set(pipe, s, 0) /\ ~Wanted(s, pipe[s]) /\ pc' = pc
      BY <1>4 DEF Scan
    <2>2. pipe'[s] = 0
      BY <2>1 DEF Set, Typed, TypeOK
    <2>3. {r \in from[s]..next[s] - 1 : r # 0 /\ Wanted(s, r)}
            = {r \in from[s]..next[s] - 1 : r # pipe[s] /\ Wanted(s, r)}
      BY <1>1, <2>1, Numbers DEF Whole
    <2>4. Whole(s)'
      BY <1>1, <1>2, <2>2, <2>3, Numbers DEF Whole, InOrder, Got, Last
    <2> QED
      BY <1>1, <2>1, <2>2, <2>4 DEF Kept, Open
  <1> QED
    BY <1>3, <1>4

LEMMA EmitKept == ASSUME Typed, NEW s \in Streams, Kept(s), Emit(s) PROVE Kept(s)'
  <1>1. /\ UNCHANGED <<journal, kind, child, next, from, exit>>
        /\ pc[s] = "emit" /\ pipe[s] # 0 /\ Wanted(s, pipe[s]) /\ Whole(s) /\ exit[s] # "ok"
    BY DEF Emit, Kept, Open
  <1>2. CASE pc' = Set(pc, s, "abort") /\ UNCHANGED <<sent, pipe>>
    <2>1. Whole(s)'
      BY <1>1, <1>2, SameData
    <2> QED
      BY <1>1, <1>2, <2>1 DEF Kept, Open, Set, Typed, TypeOK
  <1>3. CASE pc' = Set(pc, s, "scan") /\ pipe' = Set(pipe, s, 0) /\ sent' = Send(s)
    <2>1. pc'[s] = "scan" /\ pipe'[s] = 0 /\ sent'[s] = Append(sent[s], pipe[s])
      BY <1>3 DEF Set, Send, Typed, TypeOK
    <2>2. pipe[s] = next[s] - 1 /\ from[s] <= pipe[s]
      BY <1>1 DEF Whole
    <2>3. ASSUME NEW i \in 1..Len(sent[s]) PROVE sent[s][i] < pipe[s]
      <3>1. sent[s][i] \in Got(s)
        BY DEF Got
      <3>2. sent[s][i] \in from[s]..next[s] - 1 /\ sent[s][i] # pipe[s]
        BY <1>1, <3>1 DEF Whole
      <3>3. next[s] \in Nat /\ sent[s][i] \in Nat /\ from[s] \in Nat
        BY Numbers
      <3> QED
        BY <2>2, <3>2, <3>3
    <2>4. InOrder(s)' /\ Got(s)' = Got(s) \cup {pipe[s]}
      <3>1. sent[s] \in Seq(Nat) /\ pipe[s] \in Nat
        BY Numbers
      <3>2. \A i, j \in 1..Len(sent[s]) : i < j => sent[s][i] < sent[s][j]
        BY <1>1 DEF Whole, InOrder
      <3>3. /\ \A i, j \in 1..Len(sent'[s]) : i < j => sent'[s][i] < sent'[s][j]
            /\ {sent'[s][i] : i \in 1..Len(sent'[s])}
                 = {sent[s][i] : i \in 1..Len(sent[s])} \cup {pipe[s]}
        BY <2>1, <2>3, <3>1, <3>2, Appended
      <3> QED
        BY <3>3 DEF InOrder, Got
    <2>5. \A r : Wanted(s, r)' <=> Wanted(s, r)
      BY <1>1 DEF Wanted, parseJournalLine, EventPredicate
    <2>6. Got(s)' = {r \in from[s]..next[s] - 1 : r # 0 /\ Wanted(s, r)}
      <3>1. Got(s) = {r \in from[s]..next[s] - 1 : r # pipe[s] /\ Wanted(s, r)}
        BY <1>1 DEF Whole
      <3>2. pipe[s] \in from[s]..next[s] - 1 /\ \A r \in from[s]..next[s] - 1 : r # 0
        BY <1>1, <2>2, Numbers DEF Whole
      <3> QED
        BY <1>1, <2>4, <3>1, <3>2
    <2>7. Whole(s)'
      BY <1>1, <2>1, <2>4, <2>5, <2>6 DEF Whole, Last
    <2> QED
      BY <1>1, <2>1, <2>7 DEF Kept, Open
  <1> QED
    BY <1>2, <1>3 DEF Emit

LEMMA EndKept ==
  ASSUME Typed, NEW s \in Streams, Kept(s), KillChild(s) \/ Reap(s) PROVE Kept(s)'
  <1>1. CASE KillChild(s)
    <2>1. /\ UNCHANGED <<journal, kind, next, pipe, from, sent, exit>>
          /\ pc[s] \in {"abort", "toolong"} /\ Open(s) /\ Whole(s) /\ exit[s] # "ok"
      BY <1>1 DEF KillChild, view, Kept, Open
    <2>2. child'[s] # "running"
      BY <1>1 DEF KillChild, Killed, Set, Typed, TypeOK
    <2>3. \/ pc'[s] = "fail"
          \/ pc'[s] = "wait" /\ ~Wanted(s, pipe[s])
      BY <1>1 DEF KillChild, Kept, Set, Typed, TypeOK
    <2>4. Whole(s)' /\ \A r : Wanted(s, r)' <=> Wanted(s, r)
      BY <2>1, SameData
    <2> QED
      BY <2>1, <2>2, <2>3, <2>4 DEF Kept, Open
  <1>2. CASE Reap(s)
    <2>1. /\ UNCHANGED <<journal, kind, next, from, sent>> /\ pc'[s] = "done" /\ pipe'[s] = 0
          /\ child'[s] = "reaped" /\ pc[s] \in {"wait", "fail"} /\ Whole(s)
      BY <1>2 DEF Reap, Kept, Open, Set, Typed, TypeOK
    <2>2. exit'[s] = "ok" => pc[s] = "wait"
      BY <1>2, <2>1 DEF Reap, newLogsCmd, Kept, Set, Typed, TypeOK
    <2>3. \A r : Wanted(s, r)' <=> Wanted(s, r)
      BY <2>1 DEF Wanted, parseJournalLine, EventPredicate
    <2>4. ASSUME pc[s] = "wait" PROVE Whole(s)'
      <3>1. pipe[s] = 0 \/ ~Wanted(s, pipe[s])
        BY <2>4 DEF Kept
      <3>2. \A r \in from[s]..next[s] - 1 : r # 0
        BY <2>1, Numbers DEF Whole
      <3>3. {r \in from[s]..next[s] - 1 : r # pipe[s] /\ Wanted(s, r)}
              = {r \in from[s]..next[s] - 1 : r # 0 /\ Wanted(s, r)}
        BY <3>1, <3>2
      <3> QED
        BY <2>1, <2>3, <3>3 DEF Whole, InOrder, Got, Last
    <2> QED
      BY <2>1, <2>2, <2>4 DEF Kept, Open
  <1> QED
    BY <1>1, <1>2

LEMMA ClientKept ==
  ASSUME Typed, NEW s \in Streams, Kept(s), ClientLeaves(s) \/ ClientStalls(s) \/ ClientReads(s)
  PROVE  Kept(s)'
  <1>1. UNCHANGED <<journal, kind, pc, child, next, pipe, from, sent>>
    BY DEF ClientLeaves, ClientStalls, ClientReads, chan, view
  <1>2. exit'[s] = exit[s] \/ (exit'[s] = "error" /\ Open(s))
    BY DEF ClientLeaves, ClientStalls, ClientReads, view, Set, Typed, TypeOK
  <1>3. (Whole(s)' <=> Whole(s)) /\ \A r : Wanted(s, r)' <=> Wanted(s, r)
    BY <1>1, SameData
  <1> QED
    BY <1>1, <1>2, <1>3 DEF Kept, Open

\* A record more in the journal is none of those a handler has read.
LEMMA LogKept ==
  ASSUME Typed, NEW k \in Kinds, Log(k), NEW s \in Streams, Kept(s) PROVE Kept(s)'
  <1>1. UNCHANGED <<kind, pc, child, next, pipe, from, sent, exit>> /\ journal' = Append(journal, k)
    BY DEF Log, chan, view
  <1>2. Last \in Nat /\ Last' = Last + 1 /\ \A r \in 1..Last : journal'[r] = journal[r]
    BY <1>1, Numbers DEF Last, Typed, TypeOK
  <1>3. \A r \in 1..Last : Wanted(s, r)' <=> Wanted(s, r)
    BY <1>1, <1>2 DEF Wanted, parseJournalLine, EventPredicate
  <1>4. CASE ~(Open(s) \/ exit[s] = "ok")
    BY <1>1, <1>4 DEF Kept, Open
  <1>5. CASE Open(s) \/ exit[s] = "ok"
    <2>1. Whole(s) /\ from[s] \in Nat /\ next[s] \in Nat /\ pipe[s] \in Nat
      BY <1>5, Numbers DEF Kept
    <2>2. \A r \in from[s]..next[s] - 1 : r \in 1..Last
      BY <1>2, <2>1 DEF Whole
    <2>3. pipe[s] # 0 => pipe[s] \in 1..Last
      BY <1>2, <2>1 DEF Whole
    <2>4. InOrder(s)' /\ Got(s)' = Got(s)
      BY <1>1, <2>1 DEF Whole, InOrder, Got
    <2>5. Got(s)' = {r \in from'[s]..next'[s] - 1 : r # pipe'[s] /\ Wanted(s, r)'}
      BY <1>1, <1>3, <2>1, <2>2, <2>4 DEF Whole
    <2>6. next[s] <= Last' + 1
      BY <1>2, <2>1 DEF Whole
    <2>7. Whole(s)'
      BY <1>1, <2>1, <2>4, <2>5, <2>6 DEF Whole
    <2>8. pipe[s] # 0 => (Wanted(s, pipe[s])' <=> Wanted(s, pipe[s]))
      BY <1>1, <1>3, <2>3
    <2> QED
      BY <1>1, <2>7, <2>8 DEF Kept, Open
  <1> QED
    BY <1>4, <1>5

LEMMA KeptNext == Typed /\ AllKept /\ [Next]_vars => \A s \in Streams : Kept(s)'
  <1> SUFFICES ASSUME Typed, AllKept, [Next]_vars, NEW t \in Streams PROVE Kept(t)'
    OBVIOUS
  <1>1. Kept(t)
    BY DEF AllKept
  <1>2. ASSUME NEW s \in Streams, Logs(s) \/ Events(s) PROVE Kept(t)'
    <2>1. PICK k : StreamJournal(s, k)
      BY <1>2 DEF Logs, Events
    <2>2. t # s => Untouched(t) /\ journal' = journal
      BY <2>1 DEF StreamJournal, Untouched, Set, Typed, TypeOK
    <2> QED
      BY <1>1, <2>1, <2>2, StartKept, UntouchedKept
  <1>3. ASSUME NEW s \in Streams, ChildWrites(s) \/ ChildExits(s) \/ Killer(s) PROVE Kept(t)'
    <2>1. t # s => Untouched(t) /\ journal' = journal
      BY <1>3 DEF ChildWrites, ChildExits, Killer, Killed, view, Untouched, Set, Typed, TypeOK
    <2> QED
      BY <1>1, <1>3, <2>1, ChildKept, UntouchedKept
  <1>4. ASSUME NEW s \in Streams, Scan(s) \/ Emit(s) \/ KillChild(s) \/ Reap(s) PROVE Kept(t)'
    <2>1. t # s /\ (Scan(s) \/ Emit(s)) => Untouched(t) /\ journal' = journal
      BY DEF Scan, Emit, Send, view, Untouched, Set, Typed, TypeOK
    <2>2. t # s /\ (KillChild(s) \/ Reap(s)) => Untouched(t) /\ journal' = journal
      BY DEF KillChild, Killed, Reap, newLogsCmd, view, Untouched, Set, Typed, TypeOK
    <2> QED
      BY <1>1, <1>4, <2>1, <2>2, ScanKept, EmitKept, EndKept, UntouchedKept
  <1>5. ASSUME NEW s \in Streams, ClientLeaves(s) \/ ClientStalls(s) \/ ClientReads(s)
        PROVE  Kept(t)'
    <2>1. t # s => Untouched(t) /\ journal' = journal
      BY <1>5 DEF ClientLeaves, ClientStalls, ClientReads, chan, view, Untouched, Set, Typed, TypeOK
    <2> QED
      BY <1>1, <1>5, <2>1, ClientKept, UntouchedKept
  <1>6. ASSUME NEW k \in Kinds, Log(k) PROVE Kept(t)'
    BY <1>1, <1>6, LogKept
  <1>7. CASE Drain \/ ServeReturns \/ UNCHANGED vars
    BY <1>1, <1>7, UntouchedKept DEF Drain, ServeReturns, vars, chan, view, Untouched
  <1>8. CASE Restart
    BY <1>8 DEF Restart, Each, Kept, Open
  <1> QED
    BY <1>2, <1>3, <1>4, <1>5, <1>6, <1>7, <1>8 DEF Next, HandlerStep

\* journal.go:138-168, events.go:56-79: a client that is still served, or whose stream
\* ended without an error, has every record it asked for up to where journalctl came,
\* once and in order, whoever else kills the child, leaves or stalls.
THEOREM NothingLost == Spec => []NoHoles
  <1>1. Init => AllKept
    <2>1. Init => \A s \in Streams : Kept(s)
      BY DEF Init, Each, Kept, Open
    <2> QED
      BY <2>1, InitTyped DEF AllKept, Typed
  <1>2. Typed /\ Typed' /\ AllKept /\ [Next]_vars => AllKept'
    BY KeptNext DEF AllKept, Typed
  <1>3. AllKept => NoHoles
    BY DEF AllKept, Kept, Whole, NoHoles
  <1> QED
    BY <1>1, <1>2, <1>3, TypedAlways, PTL DEF Spec

=============================================================================

