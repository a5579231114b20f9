-------------------------- MODULE NodeReportsProofs --------------------------
(***************************************************************************)
(* What ListServices, GetStatus and GetConfig answer was true during the   *)
(* call, for any units, any number of changes and any failures.            *)
(***************************************************************************)
EXTENDS NodeReports, TLAPS

-----------------------------------------------------------------------------
(* The records keep their fields, and the call in hand has seen the node.    *)

Shape ==
    /\ node = [units |-> node.units, since |-> node.since, image |-> node.image, merged |-> node.merged,
               link |-> node.link, config |-> node.config]
    /\ call = [op |-> call.op, pc |-> call.pc, list |-> call.list, merged |-> call.merged,
               installed |-> call.installed, state |-> call.state]
    /\ call # NoCall => reply = NoReply

Typed == TypeOK /\ Shape

\* Of Typed, what is said of the node.
NodeTyped ==
    /\ node = [units |-> node.units, since |-> node.since, image |-> node.image, merged |-> node.merged,
               link |-> node.link, config |-> node.config]
    /\ node.image \in BOOLEAN /\ node.merged \in BOOLEAN /\ node.link \in {None, Odd, "staged"}
    /\ DOMAIN node.units \subseteq Units /\ \A u \in DOMAIN node.units : node.units[u] \in States
    /\ node.config \in Configs \cup {None} /\ node.since \in [Units -> 0..clock]

LEMMA Bounds == /\ MaxChanges \in Nat /\ MaxFaults \in Nat
                /\ K0s \in Units /\ None \notin Configs
  BY ReportsAssumption DEF ReportsAssumption, Units

Commands == {"list", "show", "status", "unit", "k0s", "read"}
FaultTypes == faults \in 0..MaxFaults /\ failed \subseteq Commands

LEMMA FaultTyped == ASSUME TypeOK, Fine \/ (Faulty /\ call.pc \in Commands) PROVE FaultTypes'
  <1>1. faults' \in 0..MaxFaults
    BY Bounds DEF TypeOK, Faulty, Fine
  <1>2. failed' \subseteq Commands
    BY DEF TypeOK, Faulty, Fine, Commands
  <1> QED
    BY <1>1, <1>2 DEF FaultTypes

LEMMA InitTyped == Init => Typed
  <1> SUFFICES ASSUME Init PROVE Typed
    OBVIOUS
  <1>1. /\ node.units = [u \in {K0s} |-> "inactive"] /\ node.since = [u \in Units |-> 0]
        /\ node.image = FALSE /\ node.merged = FALSE /\ node.link = None /\ node.config = None
    BY DEF Init
  <1>2. node.since \in [Units -> 0..clock] /\ clock \in 0..MaxChanges /\ faults \in 0..MaxFaults
    BY <1>1, Bounds DEF Init
  <1>3. DOMAIN node.units \subseteq Units /\ \A u \in DOMAIN node.units : node.units[u] \in States
    BY <1>1, Bounds DEF States
  <1>4. node.image \in BOOLEAN /\ node.merged \in BOOLEAN
    BY <1>1
  <1>5. call.installed = None
    BY DEF Init, NoCall
  <1>6. Shape
    BY DEF Init, NoCall, Shape
  <1> QED
    BY <1>1, <1>2, <1>3, <1>4, <1>5, <1>6 DEF Init, Typed, TypeOK

\* A change of the node, whatever it is, leaves the call in hand as it is.
LEMMA ChangeTyped == ASSUME Typed, NodeChanges PROVE Typed'
  <1>0. /\ clock' = clock + 1 /\ clock \in Nat /\ clock' \in 0..MaxChanges
        /\ \A t \in 0..clock : t \in 0..clock' /\ clock + 1 \in 0..clock'
    BY Bounds DEF NodeChanges, Typed, TypeOK
  <1>1. NodeTyped'
    <2>0. node.since \in [Units -> 0..clock']
      BY <1>0 DEF Typed, TypeOK
    <2>1. ASSUME NEW u \in Units, NEW s \in States, node' = Changed(u, s) PROVE NodeTyped'
      <3> DEFINE units == [v \in DOMAIN node.units \cup {u} |-> IF v = u THEN s ELSE node.units[v]]
                 since == [node.since EXCEPT ![u] = IF s = "active" THEN clock + 1 ELSE @]
      <3>1. node' = [units |-> units, since |-> since, image |-> node.image, merged |-> node.merged,
                     link |-> node.link, config |-> node.config]
        BY <2>1 DEF Changed, Typed, Shape
      <3>2. since \in [Units -> 0..clock']
        BY <1>0, <2>0
      <3>3. DOMAIN units \subseteq Units /\ \A v \in DOMAIN units : units[v] \in States
        BY DEF Typed, TypeOK
      <3> HIDE DEF units, since
      <3> QED
        BY <3>1, <3>2, <3>3 DEF Typed, TypeOK, NodeTyped
    <2>2. ASSUME NEW u \in DOMAIN node.units, node' = Unloaded(u) PROVE NodeTyped'
      <3> DEFINE units == [v \in DOMAIN node.units \ {u} |-> node.units[v]]
      <3>1. node' = [units |-> units, since |-> node.since, image |-> node.image, merged |-> node.merged,
                     link |-> node.link, config |-> node.config]
        BY <2>2 DEF Unloaded, Typed, Shape
      <3>2. DOMAIN units \subseteq Units /\ \A v \in DOMAIN units : units[v] \in States
        BY DEF Typed, TypeOK
      <3> HIDE DEF units
      <3> QED
        BY <2>0, <3>1, <3>2 DEF Typed, TypeOK, NodeTyped
    <2>3. CASE node' = [node EXCEPT !.merged = ~@]
      <3>1. node' = [units |-> node.units, since |-> node.since, image |-> node.image, merged |-> ~node.merged,
                     link |-> node.link, config |-> node.config]
        BY <2>3 DEF Typed, Shape
      <3>2. (~node.merged) \in BOOLEAN
        OBVIOUS
      <3> QED
        BY <2>0, <3>1, <3>2 DEF Typed, TypeOK, NodeTyped
    <2>6. CASE node' = [node EXCEPT !.image = ~@]
      <3>1. node' = [units |-> node.units, since |-> node.since, image |-> ~node.image,
                     merged |-> node.merged, link |-> node.link, config |-> node.config]
        BY <2>6 DEF Typed, Shape
      <3>2. (~node.image) \in BOOLEAN
        OBVIOUS
      <3> QED
        BY <2>0, <3>1, <3>2 DEF Typed, TypeOK, NodeTyped
    <2>4. ASSUME NEW l \in {Odd, "staged"}, node' = [node EXCEPT !.link = l] PROVE NodeTyped'
      <3>1. node' = [units |-> node.units, since |-> node.since, image |-> node.image, merged |-> node.merged,
                     link |-> l, config |-> node.config]
        BY <2>4 DEF Typed, Shape
      <3> QED
        BY <2>0, <3>1 DEF Typed, TypeOK, NodeTyped
    <2>5. ASSUME NEW c \in Configs, node' = [node EXCEPT !.config = c] PROVE NodeTyped'
      <3>1. node' = [units |-> node.units, since |-> node.since, image |-> node.image, merged |-> node.merged,
                     link |-> node.link, config |-> c]
        BY <2>5 DEF Typed, Shape
      <3> QED
        BY <2>0, <3>1 DEF Typed, TypeOK, NodeTyped
    <2> QED
      BY <2>1, <2>2, <2>3, <2>4, <2>5, <2>6 DEF NodeChanges
  <1>2. call' # NoCall => node' \in during' /\ reply' = NoReply
    BY DEF NodeChanges, Typed, Shape
  <1>3. UNCHANGED <<call, faults>> /\ failed' \in {failed, {}}
    BY DEF NodeChanges
  <1> QED
    BY <1>0, <1>1, <1>2, <1>3 DEF Typed, TypeOK, Shape, NodeTyped

-----------------------------------------------------------------------------
(* A step of a call leaves the node alone, and keeps what it has read, or    *)
(* answers.                                                                  *)

LEMMA CallExcept ==
  ASSUME NEW c, NEW v, c = [op |-> c.op, pc |-> c.pc, list |-> c.list, merged |-> c.merged,
                            installed |-> c.installed, state |-> c.state]
  PROVE  /\ [c EXCEPT !.list = v] = [op |-> c.op, pc |-> c.pc, list |-> v, merged |-> c.merged,
                                     installed |-> c.installed, state |-> c.state]
         /\ [c EXCEPT !.merged = v] = [op |-> c.op, pc |-> c.pc, list |-> c.list, merged |-> v,
                                       installed |-> c.installed, state |-> c.state]
         /\ [c EXCEPT !.installed = v] = [op |-> c.op, pc |-> c.pc, list |-> c.list,
                                          merged |-> c.merged, installed |-> v, state |-> c.state]
         /\ [c EXCEPT !.state = v] = [op |-> c.op, pc |-> c.pc, list |-> c.list,
                                      merged |-> c.merged, installed |-> c.installed, state |-> v]
  OBVIOUS

LEMMA GoesTyped ==
  ASSUME Typed, FaultTypes', call # NoCall,
         NEW step, NEW list, NEW m, NEW inst \in {None, "running", "staged"}, NEW st,
         Goes([op |-> call.op, pc |-> step, list |-> list, merged |-> m,
               installed |-> inst, state |-> st])
  PROVE  Typed'
  BY DEF Typed, TypeOK, Shape, Goes, FaultTypes, Commands

LEMMA AnswerTyped ==
  ASSUME Typed, NEW r, Answer(r), FaultTypes'
  PROVE  Typed'
  <1>1. NoCall = [op |-> NoCall.op, pc |-> NoCall.pc, list |-> NoCall.list,
                  merged |-> NoCall.merged, installed |-> NoCall.installed, state |-> NoCall.state]
        /\ NoCall.installed = None
    BY DEF NoCall
  <1> QED
    BY <1>1 DEF Typed, TypeOK, Shape, Answer, FaultTypes, Commands

LEMMA BeginTyped == ASSUME Typed, NEW op, NEW step, Begin(op, step) PROVE Typed'
  <1>1. call' = [op |-> op, pc |-> step, list |-> NoCall.list, merged |-> NoCall.merged,
                 installed |-> None, state |-> NoCall.state]
    BY DEF Begin, NoCall
  <1> QED
    BY <1>1 DEF Begin, Typed, TypeOK, Shape

LEMMA InHand == ASSUME NEW op, NEW step, At(op, step), op # "none" PROVE call # NoCall
  BY DEF At, NoCall

Steps == \/ ListUnits \/ ListServices \/ CollectHost \/ SysextMerged
         \/ UnitState \/ CollectKube \/ GetConfig

LEMMA StepTyped == ASSUME Typed, Steps PROVE Typed'
  <1>1. FaultTypes'
    <2>1. CASE Fine
      BY <2>1, FaultTyped DEF Typed
    <2>2. CASE Faulty /\ call.pc \in Commands
      BY <2>2, FaultTyped DEF Typed
    <2> QED
      BY <2>1, <2>2 DEF Steps, ListUnits, ListServices, CollectHost, SysextMerged, UnitState,
                        CollectKube, GetConfig, At, Commands
  <1>2. CASE \E r : Answer(r)
    BY <1>1, <1>2, AnswerTyped
  <1>3. CASE ListUnits /\ ~\E r : Answer(r)
    <2>1. Goes([call EXCEPT !.list = parseSystemdJSON(node), !.pc = "show"]) /\ At("services", "list")
      BY <1>3 DEF ListUnits
    <2> DEFINE c == [call EXCEPT !.list = parseSystemdJSON(node), !.pc = "show"]
    <2>2. c = [op |-> call.op, pc |-> "show", list |-> parseSystemdJSON(node),
               merged |-> call.merged, installed |-> call.installed, state |-> call.state]
      <3>1. [call EXCEPT !.list = parseSystemdJSON(node)]
              = [op |-> call.op, pc |-> call.pc, list |-> parseSystemdJSON(node), merged |-> call.merged,
                 installed |-> call.installed, state |-> call.state]
        BY CallExcept DEF Typed, Shape
      <3>2. [[op |-> call.op, pc |-> call.pc, list |-> parseSystemdJSON(node), merged |-> call.merged,
              installed |-> call.installed, state |-> call.state] EXCEPT !.pc = "show"]
              = [op |-> call.op, pc |-> "show", list |-> parseSystemdJSON(node), merged |-> call.merged,
                 installed |-> call.installed, state |-> call.state]
        OBVIOUS
      <3> QED
        BY <3>1, <3>2, Zenon
    <2>3. Goes([op |-> call.op, pc |-> "show", list |-> parseSystemdJSON(node),
                merged |-> call.merged, installed |-> call.installed, state |-> call.state])
      BY <2>1, <2>2, Zenon
    <2>4. call # NoCall /\ call.installed \in {None, "running", "staged"}
      BY <2>1, InHand DEF Typed, TypeOK
    <2> QED
      BY <1>1, <2>3, <2>4, GoesTyped
  <1>4. CASE CollectHost
    <2> DEFINE c == [call EXCEPT !.installed = InstalledVersion(node.link), !.pc = "status"]
    <2>1. c = [op |-> call.op, pc |-> "status", list |-> call.list, merged |-> call.merged,
               installed |-> InstalledVersion(node.link), state |-> call.state]
      <3>1. [call EXCEPT !.installed = InstalledVersion(node.link)]
              = [op |-> call.op, pc |-> call.pc, list |-> call.list, merged |-> call.merged,
                 installed |-> InstalledVersion(node.link), state |-> call.state]
        BY CallExcept DEF Typed, Shape
      <3>2. [[op |-> call.op, pc |-> call.pc, list |-> call.list, merged |-> call.merged,
              installed |-> InstalledVersion(node.link), state |-> call.state] EXCEPT !.pc = "status"]
              = [op |-> call.op, pc |-> "status", list |-> call.list, merged |-> call.merged,
                 installed |-> InstalledVersion(node.link), state |-> call.state]
        OBVIOUS
      <3> QED
        BY <3>1, <3>2, Zenon
    <2>2. InstalledVersion(node.link) \in {"running", "staged"}
      BY DEF InstalledVersion, Typed, TypeOK
    <2>3. Goes([op |-> call.op, pc |-> "status", list |-> call.list, merged |-> call.merged,
                installed |-> InstalledVersion(node.link), state |-> call.state])
      BY <1>4, <2>1, Zenon DEF CollectHost
    <2>4. call # NoCall
      BY <1>4, InHand DEF CollectHost
    <2> QED
      BY <1>1, <2>2, <2>3, <2>4, GoesTyped
  <1>5. CASE SysextMerged
    <2>1. call # NoCall
      BY <1>5 DEF SysextMerged, NoCall
    <2>2. PICK m, step : Goes([call EXCEPT !.merged = m, !.pc = step])
      <3>1. CASE Goes([call EXCEPT !.merged = node.merged, !.pc = "unit"])
        BY <3>1
      <3>2. CASE Goes([call EXCEPT !.pc = IF call.pc = "status" THEN "list" ELSE "unit"])
        <4>1. [call EXCEPT !.pc = IF call.pc = "status" THEN "list" ELSE "unit"]
                = [call EXCEPT !.merged = call.merged, !.pc = IF call.pc = "status" THEN "list" ELSE "unit"]
          BY DEF Typed, Shape
        <4> QED
          BY <3>2, <4>1
      <3> QED
        BY <1>5, <3>1, <3>2 DEF SysextMerged
    <2> DEFINE c == [call EXCEPT !.merged = m, !.pc = step]
    <2>3. c = [op |-> call.op, pc |-> step, list |-> call.list, merged |-> m,
               installed |-> call.installed, state |-> call.state]
      <3>1. [call EXCEPT !.merged = m]
              = [op |-> call.op, pc |-> call.pc, list |-> call.list, merged |-> m,
                 installed |-> call.installed, state |-> call.state]
        BY CallExcept DEF Typed, Shape
      <3>2. [[op |-> call.op, pc |-> call.pc, list |-> call.list, merged |-> m,
              installed |-> call.installed, state |-> call.state] EXCEPT !.pc = step]
              = [op |-> call.op, pc |-> step, list |-> call.list, merged |-> m,
                 installed |-> call.installed, state |-> call.state]
        OBVIOUS
      <3> QED
        BY <3>1, <3>2, Zenon
    <2>4. Goes([op |-> call.op, pc |-> step, list |-> call.list, merged |-> m,
                installed |-> call.installed, state |-> call.state])
      BY <2>2, <2>3, Zenon
    <2>5. call.installed \in {None, "running", "staged"}
      BY DEF Typed, TypeOK
    <2> QED
      BY <1>1, <2>1, <2>4, <2>5, GoesTyped
  <1>6. CASE UnitState /\ ~\E r : Answer(r)
    <2>1. Goes([call EXCEPT !.state = "active", !.pc = "k0s"]) /\ At("status", "unit")
      BY <1>6 DEF UnitState
    <2> DEFINE c == [call EXCEPT !.state = "active", !.pc = "k0s"]
    <2>2. c = [op |-> call.op, pc |-> "k0s", list |-> call.list, merged |-> call.merged,
               installed |-> call.installed, state |-> "active"]
      <3>1. [call EXCEPT !.state = "active"]
              = [op |-> call.op, pc |-> call.pc, list |-> call.list, merged |-> call.merged,
                 installed |-> call.installed, state |-> "active"]
        BY CallExcept DEF Typed, Shape
      <3>2. [[op |-> call.op, pc |-> call.pc, list |-> call.list, merged |-> call.merged,
              installed |-> call.installed, state |-> "active"] EXCEPT !.pc = "k0s"]
              = [op |-> call.op, pc |-> "k0s", list |-> call.list, merged |-> call.merged,
                 installed |-> call.installed, state |-> "active"]
        OBVIOUS
      <3> QED
        BY <3>1, <3>2, Zenon
    <2>3. Goes([op |-> call.op, pc |-> "k0s", list |-> call.list, merged |-> call.merged,
                installed |-> call.installed, state |-> "active"])
      BY <2>1, <2>2, Zenon
    <2>4. call # NoCall /\ call.installed \in {None, "running", "staged"}
      BY <2>1, InHand DEF Typed, TypeOK
    <2> QED
      BY <1>1, <2>3, <2>4, GoesTyped
  <1>7. (ListServices \/ CollectKube \/ GetConfig) => \E r : Answer(r)
    BY DEF ListServices, CollectKube, GetConfig
  <1> QED
    BY <1>2, <1>3, <1>4, <1>5, <1>6, <1>7 DEF Steps

LEMMA NextTyped == Typed /\ [Next]_vars => Typed'
  <1>1. Typed /\ UNCHANGED vars => Typed'
    BY DEF vars, Typed, TypeOK, Shape
  <1>2. Typed /\ (newServicesCmd \/ newStatusCmd \/ newConfigGetCmd) => Typed'
    BY BeginTyped DEF newServicesCmd, newStatusCmd, newConfigGetCmd
  <1> QED
    BY <1>1, <1>2, ChangeTyped, StepTyped DEF Next, Steps

LEMMA TypedAlways == Spec => []Typed
  BY InitTyped, NextTyped, PTL DEF Spec

\* systemd.go, status.go: the parts of an answer have their types whatever the node does.
THEOREM TypeCorrect == Spec => []TypeOK
  <1>1. Typed => TypeOK
    BY DEF Typed
  <1> QED
    BY <1>1, TypedAlways, PTL

-----------------------------------------------------------------------------
(* Every part of a call read so far was so at some moment of the call.       *)

Read ==
    /\ call # NoCall => node \in during
    /\ At("services", "show") => \E n \in during : call.list = parseSystemdJSON(n)
    /\ call.op = "status" /\ call.pc # "host" =>
          \E n \in during : call.installed = InstalledVersion(n.link)
    /\ call.op = "status" /\ call.pc \in {"host", "status"} => failed = {} /\ call.merged = FALSE
    /\ At("status", "list") => failed = {"status"} /\ call.merged = FALSE
    /\ call.op = "status" /\ call.pc \in {"unit", "k0s"} => SysextWasTrue(call.merged, during, failed)
    /\ At("status", "k0s") => \E n \in during : K0s \in DOMAIN n.units /\ n.units[K0s] = "active"

Told == ListIsAMoment /\ StatusWasTrue /\ ConfigWasTrue

LEMMA NothingTold == reply = NoReply => Told
  BY DEF Told, ListIsAMoment, StatusWasTrue, ConfigWasTrue, NoReply

LEMMA NothingToldNext == ASSUME reply' = NoReply PROVE Told'
  BY DEF Told, ListIsAMoment, StatusWasTrue, ConfigWasTrue, NoReply

\* What was true of the nodes so far is true of more of them.
LEMMA MoreNodes ==
  ASSUME NEW m, NEW fs, NEW ns, NEW ms, ns \subseteq ms, SysextWasTrue(m, ns, fs)
  PROVE  SysextWasTrue(m, ms, fs)
  BY DEF SysextWasTrue

\* systemd.go:72-83: the times never change which units there are, nor their states.
LEMMA TimedKeeps ==
  ASSUME NEW n
  PROVE  LET l == parseSystemdJSON(n) IN
         /\ DOMAIN Timed(l) = DOMAIN l
         /\ \A i \in DOMAIN l : Timed(l)[i].unit = l[i].unit /\ Timed(l)[i].state = l[i].state
  <1> DEFINE l == parseSystemdJSON(n)
  <1>1. \A i \in DOMAIN l : l[i] = [unit |-> Loaded(n)[i], state |-> n.units[Loaded(n)[i]], since |-> 0]
    BY DEF parseSystemdJSON
  <1>2. ASSUME NEW i \in DOMAIN l, NEW t
        PROVE  [l[i] EXCEPT !.since = t].unit = l[i].unit /\ [l[i] EXCEPT !.since = t].state = l[i].state
    BY <1>1, <1>2
  <1> HIDE DEF l
  <1> QED
    BY <1>2 DEF Timed

LEMMA ReadChange == ASSUME Typed, Read, Told, NodeChanges PROVE Read' /\ Told'
  <1>1. UNCHANGED <<call, faults>>
    BY DEF NodeChanges
  <1>2. CASE call = NoCall
    <2>1. reply' = NoReply /\ call' = NoCall
      BY <1>1, <1>2 DEF NodeChanges
    <2>2. Told'
      BY <2>1, NothingToldNext
    <2> QED
      BY <2>1, <2>2 DEF Read, At, NoCall
  <1>3. CASE call # NoCall
    <2>1. reply' = NoReply /\ during' = during \cup {node'}
      BY <1>3 DEF NodeChanges, Typed, Shape
    <2>2. Told'
      BY <2>1, NothingToldNext
    <2>3. failed' = failed /\ during \subseteq during'
      BY <1>3, <2>1 DEF NodeChanges
    <2>4. Read'
      BY <1>1, <2>1, <2>3, MoreNodes DEF Read, At
    <2> QED
      BY <2>2, <2>4
  <1> QED
    BY <1>2, <1>3

LEMMA ReadBegin ==
  ASSUME newServicesCmd \/ newStatusCmd \/ newConfigGetCmd PROVE Read' /\ Told'
  <1>1. PICK op, step : /\ Begin(op, step)
                        /\ \/ op = "services" /\ step = "list"
                           \/ op = "status" /\ step = "host"
                           \/ op = "config" /\ step = "read"
    BY DEF newServicesCmd, newStatusCmd, newConfigGetCmd
  <1>2. node' \in during' /\ reply' = NoReply /\ call'.op = op /\ call'.pc = step
        /\ failed' = {} /\ call'.merged = FALSE
    BY <1>1 DEF Begin, NoCall
  <1>3. Told'
    BY <1>2, NothingToldNext
  <1> QED
    BY <1>1, <1>2, <1>3 DEF Read, At

LEMMA ReadAnswer == ASSUME NEW r, Answer(r) PROVE Read'
  BY DEF Answer, Read, At, NoCall

LEMMA ReadStep == ASSUME Typed, Read, Told, Steps PROVE Read' /\ Told'
  <1>0. (Faulty => failed' = failed \cup {call.pc}) /\ (Fine => failed' = failed)
    BY DEF Faulty, Fine
  <1>1. CASE ListUnits
    <2>1. node \in during
      BY <1>1, InHand DEF ListUnits, Read
    <2>2. ASSUME Answer(Error("Internal")) PROVE Read' /\ Told'
      <3>1. reply' = [op |-> "services", error |-> "Internal"]
        BY <1>1, <2>2 DEF ListUnits, Answer, Error, At
      <3> QED
        BY <2>2, <3>1, ReadAnswer DEF Told, ListIsAMoment, StatusWasTrue, ConfigWasTrue
    <2>3. ASSUME Answer([op |-> "services", list |-> parseSystemdJSON(node)]) PROVE Read' /\ Told'
      <3>1. reply' = [op |-> "services", list |-> parseSystemdJSON(node)] /\ during' = during
        BY <2>3 DEF Answer
      <3>2. ListIsAMoment'
        BY <2>1, <3>1 DEF ListIsAMoment
      <3> QED
        BY <2>3, <3>1, <3>2, ReadAnswer DEF Told, StatusWasTrue, ConfigWasTrue
    <2>4. ASSUME Goes([call EXCEPT !.list = parseSystemdJSON(node), !.pc = "show"])
          PROVE  Read' /\ Told'
      <3>1. call'.op = "services" /\ call'.list = parseSystemdJSON(node)
        BY <1>1, <2>4 DEF Goes, ListUnits, At, Typed, Shape
      <3>2. reply' = NoReply
        BY <1>1, <2>4, InHand DEF Goes, ListUnits, Typed, Shape
      <3>3. Told'
        BY <3>2, NothingToldNext
      <3> QED
        BY <2>1, <2>4, <3>1, <3>3 DEF Goes, Read, At
    <2> QED
      BY <1>1, <2>2, <2>3, <2>4 DEF ListUnits
  <1>2. CASE ListServices
    <2>1. PICK n \in during : call.list = parseSystemdJSON(n)
      BY <1>2 DEF ListServices, Read
    <2>2. PICK list : /\ Answer([op |-> "services", list |-> list])
                      /\ list = call.list \/ list = Timed(call.list)
      BY <1>2 DEF ListServices
    <2>3. /\ DOMAIN parseSystemdJSON(n) = DOMAIN list
          /\ \A i \in DOMAIN list : /\ parseSystemdJSON(n)[i].unit = list[i].unit
                                    /\ parseSystemdJSON(n)[i].state = list[i].state
      <3>1. CASE list = call.list
        BY <2>1, <3>1
      <3>2. CASE list = Timed(call.list)
        BY <2>1, <3>2, TimedKeeps
      <3> QED
        BY <2>2, <3>1, <3>2
    <2>4. reply' = [op |-> "services", list |-> list] /\ during' = during
      BY <2>2 DEF Answer
    <2>5. ListIsAMoment'
      BY <2>3, <2>4 DEF ListIsAMoment
    <2> QED
      BY <2>2, <2>4, <2>5, ReadAnswer DEF Told, StatusWasTrue, ConfigWasTrue
  <1>3. CASE CollectHost
    <2>1. node \in during /\ reply' = NoReply /\ during' = during /\ UNCHANGED <<node, faults, failed>>
      BY <1>3, InHand DEF CollectHost, Fine, Goes, Read, Typed, Shape
    <2>2. call'.op = "status" /\ call'.pc = "status" /\ call'.installed = InstalledVersion(node.link)
          /\ failed = {} /\ call'.merged = FALSE
      BY <1>3 DEF CollectHost, Goes, At, Typed, Shape, Read
    <2>3. Told'
      BY <2>1, NothingToldNext
    <2> QED
      BY <2>1, <2>2, <2>3 DEF Read, At
  <1>4. CASE SysextMerged
    <2>1. call # NoCall
      BY <1>4 DEF SysextMerged, NoCall
    <2>2. node \in during /\ reply' = NoReply /\ during' = during /\ UNCHANGED node
      BY <1>4, <2>1 DEF SysextMerged, Goes, Read, Typed, Shape
    <2>3. Told'
      BY <2>2, NothingToldNext
    <2>4. \E n \in during : call.installed = InstalledVersion(n.link)
      BY <1>4 DEF SysextMerged, Read
    <2>5. CASE Fine /\ Goes([call EXCEPT !.merged = Mentioned, !.pc = "unit"])
      <3>1. /\ call'.op = "status" /\ call'.pc = "unit" /\ call'.merged = Mentioned
            /\ call'.installed = call.installed /\ failed' = failed
        BY <1>0, <1>4, <2>5 DEF SysextMerged, Goes, Typed, Shape
      <3>2. SysextWasTrue(Mentioned, during, failed)
        <4>1. CASE call.pc = "status"
          <5>1. failed = {} /\ Mentioned = node.merged
            BY <1>4, <4>1 DEF SysextMerged, Read, Mentioned
          <5> QED
            BY <2>2, <5>1 DEF SysextWasTrue
        <4>2. CASE call.pc = "list"
          <5>1. failed = {"status"} /\ Mentioned = node.image
            BY <1>4, <4>2 DEF SysextMerged, Read, At, Mentioned
          <5> QED
            BY <2>2, <5>1 DEF SysextWasTrue
        <4> QED
          BY <1>4, <4>1, <4>2 DEF SysextMerged
      <3>3. SysextWasTrue(call'.merged, during', failed')
        BY <2>2, <3>1, <3>2
      <3> QED
        BY <2>2, <2>3, <2>4, <3>1, <3>3 DEF Read, At
    <2>6. CASE Faulty /\ Goes([call EXCEPT !.pc = IF call.pc = "status" THEN "list" ELSE "unit"])
      <3>1. /\ call'.op = "status" /\ call'.installed = call.installed /\ call'.merged = call.merged
            /\ call'.pc = IF call.pc = "status" THEN "list" ELSE "unit"
        BY <1>4, <2>6 DEF SysextMerged, Goes, Typed, Shape
      <3>2. /\ call.merged = FALSE /\ failed' = failed \cup {call.pc}
            /\ call.pc = "status" => failed = {}
            /\ call.pc = "list" => failed = {"status"}
            /\ call.pc \in {"status", "list"}
        BY <1>0, <1>4, <2>6 DEF SysextMerged, Read, At
      <3>3. call'.pc = "unit" => SysextWasTrue(call'.merged, during', failed')
        <4>1. SUFFICES ASSUME call'.pc = "unit" PROVE SysextWasTrue(call'.merged, during', failed')
          OBVIOUS
        <4>2. call'.merged = FALSE /\ failed' = {"status", "list"}
          BY <3>1, <3>2, <4>1
        <4> QED
          BY <4>2 DEF SysextWasTrue
      <3>4. call'.pc = "list" => failed' = {"status"} /\ call'.merged = FALSE
        BY <3>1, <3>2
      <3> QED
        BY <2>2, <2>3, <2>4, <3>1, <3>2, <3>3, <3>4 DEF Read, At
    <2> QED
      BY <1>4, <2>5, <2>6 DEF SysextMerged
  <1>5. CASE UnitState
    <2>1. node \in during /\ call.op = "status" /\ call.pc = "unit"
      BY <1>5, InHand DEF UnitState, Read, At
    <2>2. /\ \E n \in during : call.installed = InstalledVersion(n.link)
          /\ SysextWasTrue(call.merged, during, failed)
      BY <2>1 DEF Read
    <2>3. ASSUME Faulty, Answer(StatusReply("disabled", FALSE)) PROVE Read' /\ Told'
      <3>1. /\ reply' = [op |-> "status", installed |-> call.installed, merged |-> call.merged,
                         state |-> "disabled", version |-> FALSE, ready |-> FALSE]
            /\ during' = during
        BY <2>3 DEF Answer, StatusReply
      <3>2. failed' = failed \cup {"unit"} /\ SysextWasTrue(call.merged, during, failed')
        BY <1>0, <2>1, <2>2, <2>3 DEF SysextWasTrue
      <3>3. StatusWasTrue'
        BY <2>2, <3>1, <3>2 DEF StatusWasTrue
      <3> QED
        BY <2>3, <3>1, <3>3, ReadAnswer DEF Told, ListIsAMoment, ConfigWasTrue
    <2>4. ASSUME Fine, K0sState(unitActiveState) # "active",
                 Answer(StatusReply(K0sState(unitActiveState), FALSE))
          PROVE  Read' /\ Told'
      <3> DEFINE s == K0sState(unitActiveState)
      <3>1. /\ reply' = [op |-> "status", installed |-> call.installed, merged |-> call.merged,
                         state |-> s, version |-> FALSE, ready |-> FALSE]
            /\ during' = during /\ failed' = failed
        BY <1>0, <2>4 DEF Answer, StatusReply
      <3>2. s # "disabled"
        BY DEF K0sState
      <3>3. s \in {"active", "activating", "failed"} => K0s \in DOMAIN node.units /\ node.units[K0s] = s
        BY DEF K0sState, unitActiveState
      <3>4. s = "stopped" => K0s \notin DOMAIN node.units \/ node.units[K0s] \in {"inactive", "deactivating"}
        BY DEF K0sState, unitActiveState
      <3> HIDE DEF s
      <3>5. StatusWasTrue'
        BY <2>1, <2>2, <2>4, <3>1, <3>2, <3>3, <3>4 DEF StatusWasTrue
      <3> QED
        BY <2>4, <3>1, <3>5, ReadAnswer DEF Told, ListIsAMoment, ConfigWasTrue
    <2>5. ASSUME Fine, K0sState(unitActiveState) = "active",
                 Goes([call EXCEPT !.state = "active", !.pc = "k0s"])
          PROVE  Read' /\ Told'
      <3>1. K0s \in DOMAIN node.units /\ node.units[K0s] = "active"
        BY <2>5 DEF K0sState, unitActiveState
      <3>2. /\ call'.op = "status" /\ call'.pc = "k0s" /\ call'.merged = call.merged
            /\ call'.installed = call.installed
        BY <2>1, <2>5 DEF Goes, Typed, Shape
      <3>3. reply' = NoReply /\ during' = during /\ UNCHANGED <<node, failed>>
        BY <1>0, <1>5, <2>5, InHand DEF UnitState, Goes, Typed, Shape
      <3>4. Told'
        BY <3>3, NothingToldNext
      <3> QED
        BY <2>1, <2>2, <2>5, <3>1, <3>2, <3>3, <3>4 DEF Read, At
    <2> QED
      BY <1>5, <2>3, <2>4, <2>5 DEF UnitState
  <1>6. CASE CollectKube
    <2>1. /\ \E n \in during : call.installed = InstalledVersion(n.link)
          /\ SysextWasTrue(call.merged, during, failed)
          /\ \E n \in during : K0s \in DOMAIN n.units /\ n.units[K0s] = "active"
      BY <1>6 DEF CollectKube, Read, At
    <2>2. PICK v \in BOOLEAN : Answer(StatusReply("active", v))
      BY <1>6 DEF CollectKube
    <2>3. /\ reply' = [op |-> "status", installed |-> call.installed, merged |-> call.merged,
                       state |-> "active", version |-> v, ready |-> FALSE]
          /\ during' = during
      BY <2>2 DEF Answer, StatusReply
    <2>4. SysextWasTrue(call.merged, during, failed')
      <3>1. failed' = failed \/ failed' = failed \cup {"k0s"}
        BY <1>0, <1>6 DEF CollectKube, At
      <3> QED
        BY <2>1, <3>1 DEF SysextWasTrue
    <2>5. StatusWasTrue'
      BY <2>1, <2>3, <2>4 DEF StatusWasTrue
    <2> QED
      BY <2>2, <2>3, <2>5, ReadAnswer DEF Told, ListIsAMoment, ConfigWasTrue
  <1>7. CASE GetConfig
    <2>1. node \in during /\ call.op = "config"
      BY <1>7, InHand DEF GetConfig, Read, At
    <2>2. PICK r : /\ Answer(r)
                   /\ \/ r = Error("Internal")
                      \/ node.config = None /\ r = Error("NotFound")
                      \/ r = [op |-> "config", config |-> Redacted(node.config)]
      BY <1>7 DEF GetConfig
    <2>3. reply' = r /\ during' = during /\ r.op = "config"
      BY <2>1, <2>2 DEF Answer, Error
    <2>4. ConfigWasTrue'
      BY <2>1, <2>2, <2>3 DEF ConfigWasTrue, Error, Redacted
    <2> QED
      BY <2>2, <2>3, <2>4, ReadAnswer DEF Told, ListIsAMoment, StatusWasTrue
  <1> QED
    BY <1>1, <1>2, <1>3, <1>4, <1>5, <1>6, <1>7 DEF Steps

LEMMA ToldAlways == Spec => []Told
  <1>1. Init => Read /\ Told
    BY NothingTold DEF Init, Read, At, NoCall
  <1>2. Read /\ Told /\ UNCHANGED vars => Read' /\ Told'
    BY DEF vars, Read, At, Told, ListIsAMoment, StatusWasTrue, ConfigWasTrue
  <1>3. Typed /\ Read /\ Told /\ [Next]_vars => Read' /\ Told'
    BY <1>2, ReadChange, ReadBegin, ReadStep DEF Next, Steps
  <1> QED
    BY <1>1, <1>3, TypedAlways, PTL DEF Spec

\* systemd.go:51-86: two commands of different moments, whose outputs are matched by
\* position, still make a list that is systemd's at one moment.
THEOREM ListCorrect == Spec => []ListIsAMoment
  BY ToldAlways, PTL DEF Told

\* status.go:136-221: no fact of a status is one the node never showed during the call.
\* machine.go:288-299: a config shown was the node's, and "not found" says there was none.
THEOREM AnswerCorrect == Spec => []AnswerWasTrue
  BY ToldAlways, PTL DEF Told, AnswerWasTrue
=============================================================================
