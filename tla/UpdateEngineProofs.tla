------------------------- MODULE UpdateEngineProofs -------------------------
(***************************************************************************)
(* Updates of any number of callers, releases and failures: the running    *)
(* version keeps its slot, a reboot of an update has an OS to boot into,   *)
(* a call that ends well has left out nothing of its plan, and a rollback  *)
(* from the installed version comes up in another.                         *)
(***************************************************************************)
EXTENDS UpdateEngine, TLAPS

-----------------------------------------------------------------------------
(* Helpers *)

LEMMA NamesAre == Names = {"k0s", "os"} /\ Len(Features) = 2 /\ DOMAIN Features = 1..2
  BY DEF Names, Features

LEMMA FeatureIsName == ASSUME NEW i \in 1..2 PROVE Features[i] \in Names
  BY DEF Names, Features

\* sysupdate.go:112: the first of the components to be applied is one of them.
LEMMA FirstIsOne == ASSUME NEW todo \in SUBSET Names, todo # {} PROVE FirstOf(todo) \in todo
  <1> DEFINE First(n) == \A m \in todo : \E i, j \in DOMAIN Features :
                            i <= j /\ Features[i] = n /\ Features[j] = m
  <1>1. Features[1] = "k0s" /\ Features[2] = "os" /\ 1 \in DOMAIN Features /\ 2 \in DOMAIN Features
    BY DEF Features
  <1>2. \A m \in todo : m = "k0s" \/ m = "os"
    BY NamesAre
  <1>3. CASE "k0s" \in todo
    <2>1. First("k0s")
      <3> SUFFICES ASSUME NEW m \in todo
                   PROVE  \E i, j \in DOMAIN Features : i <= j /\ Features[i] = "k0s" /\ Features[j] = m
        OBVIOUS
      <3>1. CASE m = "k0s"
        BY <1>1, <3>1
      <3>2. CASE m = "os"
        BY <1>1, <3>2
      <3> QED
        BY <1>2, <3>1, <3>2
    <2> QED
      BY <1>3, <2>1 DEF FirstOf
  <1>4. CASE "k0s" \notin todo
    <2>1. "os" \in todo /\ \A m \in todo : m = "os"
      BY <1>2, <1>4
    <2>2. First("os")
      BY <1>1, <2>1
    <2> QED
      BY <2>1, <2>2 DEF FirstOf
  <1> QED
    BY <1>3, <1>4

LEMMA NewestIs == ASSUME NEW S \in SUBSET Int, NEW v \in S, \A w \in S : w <= v PROVE NewestOf(S) = v
  <1> DEFINE Ext(m) == \A w \in S : w <= m
  <1>1. Ext(v)
    OBVIOUS
  <1>2. NewestOf(S) = CHOOSE m \in S : Ext(m)
    BY DEF NewestOf
  <1>3. NewestOf(S) \in S /\ Ext(NewestOf(S))
    <2> HIDE DEF Ext
    <2> QED
      BY <1>1, <1>2
  <1> QED
    <2>1. NewestOf(S) \in Int /\ v \in Int
      BY <1>3
    <2>2. NewestOf(S) <= v /\ v <= NewestOf(S)
      BY <1>3
    <2> QED
      BY <2>1, <2>2

LEMMA OldestIs == ASSUME NEW S \in SUBSET Int, NEW v \in S, \A w \in S : v <= w PROVE OldestOf(S) = v
  <1> DEFINE Ext(m) == \A w \in S : m <= w
  <1>1. Ext(v)
    OBVIOUS
  <1>2. OldestOf(S) = CHOOSE m \in S : Ext(m)
    BY DEF OldestOf
  <1>3. OldestOf(S) \in S /\ Ext(OldestOf(S))
    <2> HIDE DEF Ext
    <2> QED
      BY <1>1, <1>2
  <1> QED
    <2>1. OldestOf(S) \in Int /\ v \in Int
      BY <1>3
    <2>2. OldestOf(S) <= v /\ v <= OldestOf(S)
      BY <1>3
    <2> QED
      BY <2>1, <2>2

\* The newest of two versions is as new as each of them.
LEMMA NewestOfTwo ==
  ASSUME NEW a \in Int, NEW b \in Int
  PROVE  /\ NewestOf({a, b}) \in {a, b}
         /\ NewestOf({a, b}) >= a /\ NewestOf({a, b}) >= b
  <1>1. CASE a <= b
    BY <1>1, NewestIs
  <1>2. CASE b <= a
    BY <1>2, NewestIs
  <1> QED
    BY <1>1, <1>2

\* upgrade.go:265-281: of two entries previousSlot picks among them.
LEMMA PickIsListed ==
  ASSUME NEW a \in Nat, NEW b \in Nat, NEW current
  PROVE  Candidates({a, b}, current) \subseteq {a, b}
  <1> DEFINE files == {a, b}
  <1>1. CASE current # 0 /\ files \ {current} # {}
    BY <1>1 DEF Candidates
  <1>2. CASE ~(current # 0 /\ files \ {current} # {}) /\ AtMostOne(files)
    BY <1>2 DEF Candidates
  <1>3. CASE ~(current # 0 /\ files \ {current} # {}) /\ ~AtMostOne(files)
    <2>1. a # b
      BY <1>3 DEF AtMostOne
    <2>2. PICK m \in files : NewestOf(files) = m
      BY NewestOfTwo
    <2>3. PICK w \in files : files \ {m} = {w}
      BY <2>1, <2>2
    <2>4. NewestOf({w}) = w
      BY NewestIs
    <2> QED
      BY <1>3, <2>2, <2>3, <2>4 DEF Candidates
  <1> QED
    BY <1>1, <1>2, <1>3

\* systemd-sysupdate keeps the running version and, of the others, the newest.
LEMMA RetainKeeps ==
  ASSUME NEW v \in Nat, NEW p \in Nat, running \in Nat
  PROVE  \E w \in {v, p} : /\ Retain({running, v} \cup {p}) = {running, w}
                           /\ v <= p => p \in {running, w}
  <1> DEFINE S == {running, v} \cup {p}
             others == S \ {running}
  <1>1. CASE AtMostOne(others)
    <2>1. v = running \/ p = running \/ v = p
      BY <1>1 DEF AtMostOne
    <2>2. Retain(S) = S
      BY <1>1 DEF Retain
    <2> QED
      BY <2>1, <2>2
  <1>2. CASE ~AtMostOne(others)
    <2>1. others = {v, p} /\ v # p /\ v # running /\ p # running
      BY <1>2 DEF AtMostOne
    <2>2. CASE v <= p
      <3>1. OldestOf(others) = v
        BY <2>1, <2>2, OldestIs
      <3>2. Retain(S) = S \ {v}
        BY <1>2, <3>1 DEF Retain
      <3> QED
        BY <2>1, <3>2
    <2>3. CASE p <= v
      <3>1. OldestOf(others) = p
        BY <2>1, <2>3, OldestIs
      <3>2. Retain(S) = S \ {p}
        BY <1>2, <3>1 DEF Retain
      <3> QED
        BY <2>1, <2>3, <3>2
    <2> QED
      BY <2>2, <2>3
  <1> QED
    BY <1>1, <1>2

-----------------------------------------------------------------------------
(* Types. A rollback picks among entries that exist, and none is version 0. *)

Listed ==
    /\ 0 \notin slots
    /\ \A c \in Callers :
          /\ pc[c] = "pick" => \E a, b \in Versions \ {0} : call[c].listing = {a, b}
          /\ pc[c] = "pin" => call[c].prev # 0

Typed == TypeOK /\ Listed

LEMMA NoCallTyped == NoCall \in Call
  <1>1. 0 \in Versions /\ 1 \in 1..Len(Features) + 1
    BY NamesAre, UpdateAssumption DEF Versions, UpdateAssumption
  <1> QED
    BY <1>1 DEF NoCall, Call, Scopes

LEMMA PcTyped ==
  ASSUME TypeOK, NEW c \in Callers, NEW step \in Steps, Goto(c, step)
  PROVE  pc' \in [Callers -> Steps]
  BY DEF TypeOK, Goto

LEMMA ReplyTyped ==
  ASSUME Typed, NEW c \in Callers, Reply(c)
  PROVE  /\ pc' \in [Callers -> Steps] /\ call' \in [Callers -> Call]
         /\ pc'[c] = "idle" /\ call'[c] = NoCall
         /\ \A d \in Callers \ {c} : pc'[d] = pc[d] /\ call'[d] = call[d]
  BY NoCallTyped DEF Typed, TypeOK, Reply, Goto, Steps

LEMMA FaultTyped == ASSUME TypeOK, Faulty PROVE faults' \in 0..MaxFaults
  BY UpdateAssumption DEF TypeOK, Faulty, UpdateAssumption

LEMMA TypeInit == Init => Typed
  <1> SUFFICES ASSUME Init PROVE Typed
    OBVIOUS
  <1>1. 2 \in Versions /\ 1 \in Versions /\ 0 \in Versions
    BY UpdateAssumption DEF Versions, UpdateAssumption
  <1>2. running \in Versions /\ \E v \in Versions : slots = {running, v}
    <2>1. CASE slots = {2}
      BY <1>1, <2>1 DEF Init
    <2>2. CASE slots = {1, 2}
      BY <1>1, <2>2 DEF Init
    <2> QED
      BY <2>1, <2>2 DEF Init
  <1>3. published \in [Names -> Versions \ {0}] /\ image \in [Names -> Versions]
        /\ merged \in Versions
    BY <1>1, NamesAre DEF Init
  <1>4. pc \in [Callers -> Steps] /\ call \in [Callers -> Call]
    BY NoCallTyped DEF Init, Steps
  <1>5. oneshot \in Versions /\ faults \in 0..MaxFaults
    BY <1>1, UpdateAssumption DEF Init, UpdateAssumption
  <1>7. stamped \in BOOLEAN /\ halting \in BOOLEAN /\ away \in BOOLEAN
    BY DEF Init
  <1>6. Listed
    BY DEF Init, Listed
  <1> QED
    BY <1>2, <1>3, <1>4, <1>5, <1>6, <1>7 DEF TypeOK, Typed

LEMMA TypeUpdate ==
  ASSUME Typed, NEW c \in Callers, newUpdateCmd(c) \/ newRollbackCmd(c) PROVE Typed'
  <1>1. PICK step \in {"plan", "list"}, r \in Call :
          /\ Goto(c, step) /\ call' = [call EXCEPT ![c] = r] /\ UNCHANGED <<node, faults, away>>
    <2>1. CASE newUpdateCmd(c)
      <3>1. PICK word \in Words, check \in BOOLEAN, direct \in BOOLEAN :
              Update(c, parseComponent(word), check, direct)
        BY <2>1 DEF newUpdateCmd
      <3>2. parseComponent(word) \in Scopes
        BY DEF parseComponent, Scopes, Words
      <3>3. [NoCall EXCEPT !.scope = parseComponent(word), !.check = check,
                           !.direct = direct /\ ~check] \in Call
        BY <3>2, NoCallTyped DEF Call
      <3> QED
        BY <3>1, <3>3 DEF Update
    <2>2. CASE newRollbackCmd(c)
      <3>1. PICK reboot \in BOOLEAN : Rollback(c, reboot)
        BY <2>2 DEF newRollbackCmd
      <3>2. [NoCall EXCEPT !.direct = reboot] \in Call
        BY NoCallTyped DEF Call
      <3> QED
        BY <3>1, <3>2 DEF Rollback
    <2> QED
      BY <2>1, <2>2
  <1>2. pc' \in [Callers -> Steps] /\ call' \in [Callers -> Call]
    BY <1>1, PcTyped DEF Typed, TypeOK, Steps
  <1>3. Listed'
    BY <1>1, <1>2 DEF Typed, TypeOK, Listed, Goto, node
  <1> QED
    BY <1>1, <1>2, <1>3 DEF Typed, TypeOK, node

\* What a step that leaves the slots alone must show.
LEMMA ListedKept ==
  ASSUME Typed, NEW c \in Callers, slots' = slots,
         pc'[c] # "pick", pc'[c] # "pin",
         \A d \in Callers \ {c} : pc'[d] = pc[d] /\ call'[d] = call[d]
  PROVE  Listed'
  BY DEF Typed, Listed

LEMMA TypeUpdateStep == ASSUME Typed, NEW c \in Callers, UpdateStep(c) PROVE Typed'
  <1> DEFINE p == call[c]
  <1>0. p \in Call
    BY DEF Typed, TypeOK
  <1>1. CASE BuildPlan(c)
    <2> DEFINE n == Features[p.at]
    <2>1. p.at \in 1..2 /\ p.at + 1 \in 1..Len(Features) + 1
      BY <1>0, <1>1, NamesAre DEF BuildPlan, Call
    <2>2. n \in Names
      BY <2>1, FeatureIsName
    <2>3. PICK latest \in resolveLatestVersion(n) :
            /\ IF latest = 0 THEN Faulty ELSE UNCHANGED faults
            /\ call' = [call EXCEPT ![c].at = p.at + 1,
                  ![c].plan[n] = IF Newer(CurrentVersionFor(n), latest) THEN latest ELSE 0]
      BY <1>1 DEF BuildPlan
    <2>4. latest \in Versions /\ 0 \in Versions
      BY <2>2, UpdateAssumption DEF resolveLatestVersion, Typed, TypeOK, Versions, UpdateAssumption
    <2> DEFINE chosen == IF Newer(CurrentVersionFor(n), latest) THEN latest ELSE 0
               plan == [p.plan EXCEPT ![n] = chosen]
               r == [p EXCEPT !.at = p.at + 1, !.plan = plan]
    <2>5. plan \in [Names -> Versions]
      BY <1>0, <2>2, <2>4 DEF Call
    <2>6. r \in Call
      <3> HIDE DEF plan
      <3> QED
        BY <1>0, <2>1, <2>5 DEF Call
    <2>7. call' \in [Callers -> Call] /\ \A d \in Callers \ {c} : call'[d] = call[d]
      <3>1. call' = [call EXCEPT ![c] = r]
        BY <1>0, <2>3 DEF Typed, TypeOK, Call
      <3> HIDE DEF r
      <3> QED
        BY <2>6, <3>1 DEF Typed, TypeOK
    <2>8. faults' \in 0..MaxFaults
      BY <2>3, FaultTyped DEF Typed, TypeOK
    <2>9. Listed'
      BY <1>1, <2>7, ListedKept DEF BuildPlan, node
    <2> QED
      BY <1>1, <2>7, <2>8, <2>9 DEF BuildPlan, node, Typed, TypeOK
  <1>2. CASE Classify(c)
    <2> DEFINE todo == {n \in Names : p.plan[n] # 0 /\ inScope(n, p.scope)}
    <2>1. CASE Reply(c)
      <3>1. Listed'
        BY <1>2, <2>1, ReplyTyped, ListedKept DEF Classify, node
      <3> QED
        BY <1>2, <2>1, <3>1, ReplyTyped DEF Classify, node, Typed, TypeOK
    <2>2. CASE ~Reply(c)
      <3>1. Goto(c, "apply") /\ call' = [call EXCEPT ![c].todo = todo, ![c].at = 1]
        BY <1>2, <2>2 DEF Classify
      <3> DEFINE r == [p EXCEPT !.todo = todo, !.at = 1]
      <3>2. r \in Call
        <4>1. todo \in SUBSET Names /\ 1 \in 1..Len(Features) + 1
          BY NamesAre
        <4> HIDE DEF todo
        <4> QED
          BY <1>0, <4>1 DEF Call
      <3>3. call' = [call EXCEPT ![c] = r]
        BY <1>0, <3>1 DEF Typed, TypeOK, Call
      <3>4. call' \in [Callers -> Call] /\ \A d \in Callers \ {c} : call'[d] = call[d]
        <4> HIDE DEF r
        <4> QED
          BY <3>2, <3>3 DEF Typed, TypeOK
      <3>5. pc' \in [Callers -> Steps] /\ pc'[c] = "apply" /\ \A d \in Callers \ {c} : pc'[d] = pc[d]
        BY <3>1, PcTyped DEF Typed, TypeOK, Goto, Steps
      <3>6. Listed'
        BY <1>2, <3>4, <3>5, ListedKept DEF Classify, node
      <3> QED
        BY <1>2, <3>4, <3>5, <3>6 DEF Classify, node, Typed, TypeOK
    <2> QED
      BY <2>1, <2>2
  <1>3. CASE ApplyUpdate(c)
    <2> DEFINE n == FirstOf(p.todo)
    <2>1. n \in Names
      BY <1>0, <1>3, FirstIsOne DEF ApplyUpdate, Call
    <2>2. image' \in [Names -> Versions] /\ published[n] \in Versions \ {0}
      BY <1>3, <2>1 DEF ApplyUpdate, Typed, TypeOK
    <2>3. CASE isK0s(n)
      <3>1. Goto(c, "merge") /\ UNCHANGED <<slots, call>>
        BY <1>3, <2>3 DEF ApplyUpdate
      <3>2. pc' \in [Callers -> Steps] /\ pc'[c] = "merge" /\ \A d \in Callers \ {c} : pc'[d] = pc[d]
        BY <3>1, PcTyped DEF Typed, TypeOK, Goto, Steps
      <3>3. Listed'
        BY <3>1, <3>2, ListedKept
      <3> QED
        BY <1>3, <2>2, <3>1, <3>2, <3>3 DEF ApplyUpdate, Typed, TypeOK
    <2>4. CASE ~isK0s(n)
      <3>1. slots' = Retain(slots \cup {published[n]}) /\ UNCHANGED pc
            /\ call' = [call EXCEPT ![c].todo = @ \ {n}]
        BY <1>3, <2>4 DEF ApplyUpdate
      <3>2. PICK v \in Versions : slots = {running, v}
        BY DEF Typed, TypeOK
      <3>3. running \in Nat /\ v \in Nat /\ published[n] \in Nat
        BY <2>2 DEF Typed, TypeOK, Versions
      <3>4. \E w \in {v, published[n]} : slots' = {running, w}
        BY <3>1, <3>2, <3>3, RetainKeeps
      <3>5. (\E w \in Versions : slots' = {running, w}) /\ 0 \notin slots'
        BY <2>2, <3>2, <3>4 DEF Typed, Listed
      <3>6. call' \in [Callers -> Call]
            /\ \A d \in Callers : call'[d].listing = call[d].listing /\ call'[d].prev = call[d].prev
        BY <1>0, <3>1 DEF Typed, TypeOK, Call
      <3>7. Listed'
        BY <3>1, <3>5, <3>6 DEF Typed, Listed
      <3> QED
        BY <1>3, <2>2, <3>1, <3>5, <3>6, <3>7 DEF ApplyUpdate, Typed, TypeOK
    <2> QED
      BY <2>3, <2>4
  <1>4. CASE Merge(c)
    <2>1. merged' \in Versions
      BY <1>4, NamesAre DEF Merge, Typed, TypeOK
    <2>2. CASE merged = 0
      <3>1. Goto(c, "apply") /\ call' = [call EXCEPT ![c].todo = @ \ {"k0s"}]
        BY <1>4, <2>2 DEF Merge
      <3>2. call' \in [Callers -> Call] /\ \A d \in Callers \ {c} : call'[d] = call[d]
        BY <1>0, <3>1 DEF Typed, TypeOK, Call
      <3>3. pc' \in [Callers -> Steps] /\ pc'[c] = "apply" /\ \A d \in Callers \ {c} : pc'[d] = pc[d]
        BY <3>1, PcTyped DEF Typed, TypeOK, Goto, Steps
      <3>4. Listed'
        BY <1>4, <3>2, <3>3, ListedKept DEF Merge
      <3> QED
        BY <1>4, <2>1, <3>2, <3>3, <3>4 DEF Merge, Typed, TypeOK
    <2>3. CASE merged # 0
      <3>1. Reply(c)
        BY <1>4, <2>3 DEF Merge
      <3>2. Listed'
        BY <1>4, <3>1, ReplyTyped, ListedKept DEF Merge
      <3> QED
        BY <1>4, <2>1, <3>1, <3>2, ReplyTyped DEF Merge, Typed, TypeOK
    <2> QED
      BY <2>2, <2>3
  <1>5. CASE Finish(c)
    <2>1. CASE Reply(c)
      <3>1. Listed'
        BY <1>5, <2>1, ReplyTyped, ListedKept DEF Finish, node
      <3> QED
        BY <1>5, <2>1, <3>1, ReplyTyped DEF Finish, node, Typed, TypeOK
    <2>2. CASE Goto(c, "reboot") /\ UNCHANGED call
      <3>1. pc' \in [Callers -> Steps] /\ pc'[c] = "reboot" /\ \A d \in Callers \ {c} : pc'[d] = pc[d]
        BY <2>2, PcTyped DEF Typed, TypeOK, Goto, Steps
      <3>2. Listed'
        BY <1>5, <2>2, <3>1, ListedKept DEF Finish, node
      <3> QED
        BY <1>5, <2>2, <3>1, <3>2 DEF Finish, node, Typed, TypeOK
    <2> QED
      BY <1>5, <2>1, <2>2 DEF Finish
  <1>6. CASE ExecReboot(c)
    <2>1. Listed'
      BY <1>6, ReplyTyped, ListedKept DEF ExecReboot
    <2> QED
      BY <1>6, <2>1, ReplyTyped DEF ExecReboot, Typed, TypeOK
  <1> QED
    BY <1>1, <1>2, <1>3, <1>4, <1>5, <1>6 DEF UpdateStep

LEMMA TypeRollbackStep == ASSUME Typed, NEW c \in Callers, RollbackStep(c) PROVE Typed'
  <1> DEFINE p == call[c]
  <1>0. p \in Call
    BY DEF Typed, TypeOK
  <1>1. CASE ReadEFISlots(c)
    <2>1. PICK v \in Versions : slots = {running, v}
      BY DEF Typed, TypeOK
    <2>2. \E a, b \in Versions \ {0} : slots = {a, b}
      BY <2>1 DEF Typed, TypeOK, Listed
    <2> DEFINE r == [p EXCEPT !.listing = slots]
    <2>3. slots \in SUBSET Versions
      BY <2>1 DEF Typed, TypeOK
    <2>4. r \in Call
      BY <1>0, <2>3 DEF Call
    <2>5. call' = [call EXCEPT ![c] = r] /\ r.listing = slots
      BY <1>0, <1>1 DEF ReadEFISlots, Typed, TypeOK, Call
    <2>6. call' \in [Callers -> Call] /\ call'[c].listing = slots
          /\ \A d \in Callers \ {c} : call'[d] = call[d]
      <3> HIDE DEF r
      <3> QED
        BY <2>4, <2>5 DEF Typed, TypeOK
    <2>7. pc' \in [Callers -> Steps] /\ pc'[c] = "pick" /\ \A d \in Callers \ {c} : pc'[d] = pc[d]
      BY <1>1, PcTyped DEF ReadEFISlots, Typed, TypeOK, Goto, Steps
    <2>8. Listed'
      BY <1>1, <2>2, <2>6, <2>7 DEF ReadEFISlots, node, Typed, Listed
    <2> QED
      BY <1>1, <2>6, <2>7, <2>8 DEF ReadEFISlots, node, Typed, TypeOK
  <1>2. CASE PreviousSlot(c)
    <2>1. CASE Reply(c)
      <3>1. Listed'
        BY <1>2, <2>1, ReplyTyped, ListedKept DEF PreviousSlot, node
      <3> QED
        BY <1>2, <2>1, <3>1, ReplyTyped DEF PreviousSlot, node, Typed, TypeOK
    <2>2. CASE ~Reply(c)
      <3>1. PICK v \in Candidates(p.listing, installedVersion) :
              Goto(c, "pin") /\ call' = [call EXCEPT ![c].prev = v, ![c].listing = {}]
        BY <1>2, <2>2 DEF PreviousSlot
      <3>2. PICK a, b \in Versions \ {0} : p.listing = {a, b}
        BY <1>2 DEF PreviousSlot, Typed, Listed
      <3>3. v \in Versions \ {0}
        <4>1. a \in Nat /\ b \in Nat
          BY DEF Versions
        <4>2. Candidates({a, b}, installedVersion) \subseteq {a, b}
          BY <4>1, PickIsListed
        <4> QED
          BY <3>2, <4>2
      <3> DEFINE r == [p EXCEPT !.prev = v, !.listing = {}]
      <3>4. r \in Call /\ r.prev = v
        BY <1>0, <3>3 DEF Call
      <3>5. call' = [call EXCEPT ![c] = r]
        BY <1>0, <3>1 DEF Typed, TypeOK, Call
      <3>6. call' \in [Callers -> Call] /\ call'[c].prev = v
            /\ \A d \in Callers \ {c} : call'[d] = call[d]
        <4> HIDE DEF r
        <4> QED
          BY <3>4, <3>5 DEF Typed, TypeOK
      <3>7. pc' \in [Callers -> Steps] /\ pc'[c] = "pin" /\ \A d \in Callers \ {c} : pc'[d] = pc[d]
        BY <3>1, PcTyped DEF Typed, TypeOK, Goto, Steps
      <3>8. Listed'
        BY <1>2, <3>3, <3>6, <3>7 DEF PreviousSlot, node, Typed, Listed
      <3> QED
        BY <1>2, <3>6, <3>7, <3>8 DEF PreviousSlot, node, Typed, TypeOK
    <2> QED
      BY <2>1, <2>2
  <1>3. CASE SetOneshot(c)
    <2>1. oneshot' \in Versions
      BY <1>0, <1>3 DEF SetOneshot, Call
    <2>2. away' \in BOOLEAN
      BY <1>3 DEF SetOneshot
    <2>3. CASE Reply(c)
      <3>1. Listed'
        BY <1>3, <2>3, ReplyTyped, ListedKept DEF SetOneshot
      <3> QED
        BY <1>3, <2>1, <2>2, <2>3, <3>1, ReplyTyped DEF SetOneshot, Typed, TypeOK
    <2>4. CASE Goto(c, "reboot") /\ UNCHANGED call
      <3>1. pc' \in [Callers -> Steps] /\ pc'[c] = "reboot" /\ \A d \in Callers \ {c} : pc'[d] = pc[d]
        BY <2>4, PcTyped DEF Typed, TypeOK, Goto, Steps
      <3>2. Listed'
        BY <1>3, <2>4, <3>1, ListedKept DEF SetOneshot
      <3> QED
        BY <1>3, <2>1, <2>2, <2>4, <3>1, <3>2 DEF SetOneshot, Typed, TypeOK
    <2> QED
      BY <1>3, <2>3, <2>4 DEF SetOneshot
  <1> QED
    BY <1>1, <1>2, <1>3 DEF RollbackStep

LEMMA TypeNext == Typed /\ [Next]_vars => Typed'
  <1> SUFFICES ASSUME Typed, [Next]_vars PROVE Typed'
    OBVIOUS
  <1>1. ASSUME NEW c \in Callers, CallFails(c) PROVE Typed'
    <2>1. Reply(c) /\ Faulty /\ UNCHANGED <<node, away>>
      BY <1>1 DEF CallFails
    <2>2. Listed'
      BY <2>1, ReplyTyped, ListedKept DEF node
    <2> QED
      BY <2>1, <2>2, ReplyTyped, FaultTyped DEF node, Typed, TypeOK
  <1>2. ASSUME NEW n \in Names, Publish(n) PROVE Typed'
    <2>1. published[n] \in Versions \ {0} /\ published[n] < MaxVersion
      BY <1>2 DEF Publish, Typed, TypeOK
    <2>2. published[n] + 1 \in Versions \ {0}
      BY <2>1, UpdateAssumption DEF Versions, UpdateAssumption
    <2>3. published' \in [Names -> Versions \ {0}]
      BY <1>2, <2>2 DEF Publish, Typed, TypeOK
    <2> QED
      BY <1>2, <2>3 DEF Publish, Typed, TypeOK, Listed
  <1>3. CASE Unmerge
    <2>1. faults' \in 0..MaxFaults /\ merged' \in Versions
      BY <1>3, FaultTyped, UpdateAssumption DEF Unmerge, Typed, UpdateAssumption, Versions
    <2> QED
      BY <1>3, <2>1 DEF Unmerge, Typed, TypeOK, Listed
  <1>4. CASE RebootByOther
    <2>1. faults' \in 0..MaxFaults
      BY <1>4, FaultTyped DEF RebootByOther, Typed
    <2>2. halting' \in BOOLEAN
      BY <1>4 DEF RebootByOther
    <2> QED
      BY <1>4, <2>1, <2>2 DEF RebootByOther, Typed, TypeOK, Listed
  <1>5. CASE Boot
    <2>1. PICK v \in slots : running' = v
                 /\ (IF halting /\ v = BootEntry THEN UNCHANGED faults ELSE Faulty)
      BY <1>5 DEF Boot
    <2>2. faults' \in 0..MaxFaults
      BY <2>1, FaultTyped DEF Typed, TypeOK
    <2>3. PICK w \in Versions : slots = {running, w}
      BY DEF Typed, TypeOK
    <2>4. running' \in Versions /\ \E x \in Versions : slots' = {running', x}
      <3>1. slots' = slots /\ running \in Versions
        BY <1>5 DEF Boot, Typed, TypeOK
      <3>2. v = running \/ v = w
        BY <2>3
      <3>3. CASE v = running
        BY <2>1, <2>3, <3>1, <3>3
      <3>4. CASE v = w
        <4>1. slots' = {running', running}
          BY <2>1, <2>3, <3>1, <3>4
        <4> QED
          BY <2>1, <3>1, <3>4, <4>1
      <3> QED
        BY <3>2, <3>3, <3>4
    <2>5. pc' \in [Callers -> Steps] /\ call' \in [Callers -> Call]
      BY <1>5, NoCallTyped DEF Boot, Steps
    <2>6. merged' \in Versions /\ oneshot' \in Versions
      BY <1>5, NamesAre, UpdateAssumption DEF Boot, Typed, TypeOK, Versions, UpdateAssumption
    <2>7. halting' \in BOOLEAN /\ away' \in BOOLEAN
      BY <1>5 DEF Boot
    <2>8. Listed'
      BY <1>5 DEF Boot, Typed, Listed
    <2> QED
      BY <1>5, <2>2, <2>4, <2>5, <2>6, <2>7, <2>8 DEF Boot, Typed, TypeOK
  <1>6. CASE UNCHANGED vars
    BY <1>6 DEF vars, node, Typed, TypeOK, Listed
  <1> QED
    BY <1>1, <1>2, <1>3, <1>4, <1>5, <1>6, TypeUpdate, TypeUpdateStep, TypeRollbackStep DEF Next

LEMMA TypedAlways == Spec => []Typed
  BY TypeInit, TypeNext, PTL DEF Spec

\* upgrade.go:196-301 with systemd-sysupdate's two instances: whatever the updates and
\* rollbacks, the running version keeps its slot and there is at most one other.
THEOREM TypeCorrect == Spec => []TypeOK
  <1>1. Typed => TypeOK
    BY DEF Typed
  <1> QED
    BY <1>1, TypedAlways, PTL

-----------------------------------------------------------------------------
(* A reboot has its reason. What is installed is never newer than what was   *)
(* released nor, by the symlink, older than an entry; a plan promises an OS  *)
(* newer than the running one; and once that OS has been applied, by this    *)
(* call or by none that came after, there is an entry newer than the         *)
(* running one.                                                              *)

NewerInstalled == \E w \in slots : w > running

Ordered ==
    /\ \A v \in slots : v <= published["os"] /\ (image["os"] # 0 => v <= image["os"])
    /\ \A c \in Callers : call[c].plan["os"] # 0 =>
          running < call[c].plan["os"] /\ call[c].plan["os"] <= published["os"]

\* The OS is in the plan and in scope, and no longer to be done.
Applied(c) == /\ pc[c] \in {"apply", "merge", "reboot"}
              /\ call[c].plan["os"] # 0 /\ call[c].scope # "k0s" /\ "os" \notin call[c].todo

Reasoned ==
    \A c \in Callers :
       /\ Applied(c) => NewerInstalled
       /\ pc[c] = "reboot" /\ call[c].prev = 0 => call[c].plan["os"] # 0 /\ call[c].todo = {}
       /\ pc[c] \in {"list", "pick", "pin"} => call[c].plan["os"] = 0

Justified == Typed /\ Ordered /\ Reasoned

LEMMA JustifiedInit == Init => Justified
  <1> SUFFICES ASSUME Init PROVE Ordered /\ Reasoned
    BY TypeInit DEF Justified
  <1>1. published["os"] = 2 /\ image["os"] \in {0, 2}
    BY NamesAre DEF Init
  <1>2. \A v \in slots : v = 1 \/ v = 2
    BY DEF Init
  <1>3. \A c \in Callers : pc[c] = "idle" /\ call[c].plan["os"] = 0
    BY NamesAre DEF Init, NoCall
  <1> QED
    BY <1>1, <1>2, <1>3 DEF Ordered, Reasoned, Applied

\* What a step of one call must show when the node's slots stay.
LEMMA JustifiedKept ==
  ASSUME Justified, NEW c \in Callers,
         UNCHANGED <<published, image, slots, running>>,
         \A d \in Callers \ {c} : pc'[d] = pc[d] /\ call'[d] = call[d],
         call'[c].plan["os"] # 0 =>
            running < call'[c].plan["os"] /\ call'[c].plan["os"] <= published["os"],
         Applied(c)' => NewerInstalled,
         pc'[c] = "reboot" /\ call'[c].prev = 0 => call'[c].plan["os"] # 0 /\ call'[c].todo = {},
         pc'[c] \in {"list", "pick", "pin"} => call'[c].plan["os"] = 0
  PROVE  Ordered' /\ Reasoned'
  BY DEF Justified, Ordered, Reasoned, Applied, NewerInstalled

LEMMA ReplyJustified ==
  ASSUME Justified, NEW c \in Callers, Reply(c), UNCHANGED <<published, image, slots, running>>
  PROVE  Ordered' /\ Reasoned'
  <1>1. /\ pc'[c] = "idle" /\ call'[c] = NoCall
        /\ \A d \in Callers \ {c} : pc'[d] = pc[d] /\ call'[d] = call[d]
    BY ReplyTyped DEF Justified
  <1>2. NoCall.plan["os"] = 0
    BY NamesAre DEF NoCall
  <1> QED
    BY <1>1, <1>2, JustifiedKept DEF Applied

LEMMA JustifiedUpdate ==
  ASSUME Justified, NEW c \in Callers, newUpdateCmd(c) \/ newRollbackCmd(c)
  PROVE  Ordered' /\ Reasoned'
  <1>1. NoCall.plan["os"] = 0
    BY NamesAre DEF NoCall
  <1>2. /\ pc'[c] \in {"plan", "list"} /\ call'[c].plan["os"] = 0
        /\ \A d \in Callers \ {c} : pc'[d] = pc[d] /\ call'[d] = call[d]
        /\ UNCHANGED <<published, image, slots, running>>
    <2>1. CASE newUpdateCmd(c)
      <3>1. PICK word \in Words, check \in BOOLEAN, direct \in BOOLEAN :
              Update(c, parseComponent(word), check, direct)
        BY <2>1 DEF newUpdateCmd
      <3>2. [NoCall EXCEPT !.scope = parseComponent(word), !.check = check,
                           !.direct = direct /\ ~check].plan = NoCall.plan
        BY DEF NoCall
      <3> QED
        BY <1>1, <3>1, <3>2 DEF Update, Goto, node, Justified, Typed, TypeOK
    <2>2. CASE newRollbackCmd(c)
      <3>1. PICK reboot \in BOOLEAN : Rollback(c, reboot)
        BY <2>2 DEF newRollbackCmd
      <3>2. [NoCall EXCEPT !.direct = reboot].plan = NoCall.plan
        BY DEF NoCall
      <3> QED
        BY <1>1, <3>1, <3>2 DEF Rollback, Goto, node, Justified, Typed, TypeOK
    <2> QED
      BY <2>1, <2>2
  <1> QED
    BY <1>2, JustifiedKept DEF Applied

LEMMA JustifiedUpdateStep ==
  ASSUME Justified, NEW c \in Callers, UpdateStep(c) PROVE Ordered' /\ Reasoned'
  <1> DEFINE p == call[c]
  <1>0. p \in Call /\ p.plan \in [Names -> Versions] /\ "os" \in Names /\ p.todo \subseteq Names
    BY NamesAre DEF Justified, Typed, TypeOK, Call
  <1>1. CASE BuildPlan(c)
    <2> DEFINE n == Features[p.at]
    <2>1. n \in Names
      BY <1>0, <1>1, NamesAre, FeatureIsName DEF BuildPlan, Call
    <2>2. PICK latest \in resolveLatestVersion(n) :
              call' = [call EXCEPT ![c].at = p.at + 1,
                  ![c].plan[n] = IF Newer(CurrentVersionFor(n), latest) THEN latest ELSE 0]
      BY <1>1 DEF BuildPlan
    <2>3. \A d \in Callers \ {c} : pc'[d] = pc[d] /\ call'[d] = call[d]
      BY <1>1, <2>2 DEF BuildPlan, Justified, Typed, TypeOK
    <2>4. call'[c].plan = [p.plan EXCEPT ![n] = IF Newer(CurrentVersionFor(n), latest) THEN latest ELSE 0]
      BY <1>0, <2>2 DEF Justified, Typed, TypeOK, Call
    <2>5. CASE n = "os"
      <3>1. call'[c].plan["os"] = IF Newer(CurrentVersionFor("os"), latest) THEN latest ELSE 0
        BY <1>0, <2>4, <2>5
      <3>2. ASSUME call'[c].plan["os"] # 0
            PROVE  running < call'[c].plan["os"] /\ call'[c].plan["os"] <= published["os"]
        <4>1. /\ call'[c].plan["os"] = latest /\ latest # 0
              /\ CurrentVersionFor("os") # 0 /\ CurrentVersionFor("os") < latest
          BY <3>1, <3>2 DEF Newer
        <4>2. latest = published["os"]
          BY <2>5, <4>1 DEF resolveLatestVersion
        <4>3. running <= CurrentVersionFor("os")
          BY <4>1 DEF CurrentVersionFor, ReadOSRelease, installedVersion, isK0s, Justified, Ordered, Typed,
                      TypeOK, Versions
        <4>4. running \in Int /\ CurrentVersionFor("os") \in Int /\ published["os"] \in Int
          BY <1>0 DEF CurrentVersionFor, ReadOSRelease, installedVersion, isK0s, Justified, Typed, TypeOK, Versions
        <4> QED
          BY <4>1, <4>2, <4>3, <4>4
      <3> QED
        BY <1>1, <2>3, <3>2, JustifiedKept DEF BuildPlan, node, Applied
    <2>6. CASE n # "os"
      <3>1. call'[c].plan["os"] = p.plan["os"]
        BY <1>0, <2>1, <2>4, <2>6
      <3> QED
        BY <1>1, <2>3, <3>1, JustifiedKept DEF BuildPlan, node, Applied, Justified, Ordered
    <2> QED
      BY <2>5, <2>6
  <1>2. CASE Classify(c)
    <2> DEFINE todo == {n \in Names : p.plan[n] # 0 /\ inScope(n, p.scope)}
    <2>1. CASE Reply(c)
      BY <1>2, <2>1, ReplyJustified DEF Classify, node
    <2>2. CASE ~Reply(c)
      <3>1. Goto(c, "apply") /\ call' = [call EXCEPT ![c].todo = todo, ![c].at = 1]
        BY <1>2, <2>2 DEF Classify
      <3>2. \A d \in Callers \ {c} : pc'[d] = pc[d] /\ call'[d] = call[d]
        BY <3>1 DEF Goto, Justified, Typed, TypeOK
      <3>3. call'[c].plan = p.plan /\ call'[c].scope = p.scope /\ call'[c].todo = todo
        BY <1>0, <3>1 DEF Justified, Typed, TypeOK, Call
      <3>4. ~Applied(c)'
        <4>1. p.plan["os"] # 0 /\ p.scope # "k0s" => "os" \in todo
          BY <1>0 DEF inScope, isK0s, Call, Scopes
        <4> QED
          BY <3>3, <4>1 DEF Applied
      <3>5. pc'[c] = "apply"
        BY <3>1 DEF Goto, Justified, Typed, TypeOK
      <3> QED
        BY <1>2, <3>2, <3>3, <3>4, <3>5, JustifiedKept DEF Classify, node, Justified, Ordered
    <2> QED
      BY <2>1, <2>2
  <1>3. CASE ApplyUpdate(c)
    <2> DEFINE n == FirstOf(p.todo)
    <2>1. n \in Names /\ n \in p.todo
      BY <1>0, <1>3, FirstIsOne DEF ApplyUpdate
    <2>2. UNCHANGED <<published, running>> /\ image' = [image EXCEPT ![n] = published[n]]
      BY <1>3 DEF ApplyUpdate
    <2>3. CASE isK0s(n)
      <3>1. Goto(c, "merge") /\ UNCHANGED <<slots, call>> /\ image'["os"] = image["os"]
        BY <1>0, <1>3, <2>2, <2>3 DEF ApplyUpdate, isK0s, Justified, Typed, TypeOK
      <3>2. pc'[c] = "merge" /\ \A d \in Callers \ {c} : pc'[d] = pc[d]
        BY <3>1 DEF Goto, Justified, Typed, TypeOK
      <3>3. Applied(c)' => Applied(c)
        BY <1>3, <3>1 DEF Applied, ApplyUpdate
      <3>4. Ordered'
        BY <2>2, <3>1 DEF Justified, Ordered
      <3> QED
        BY <2>2, <3>1, <3>2, <3>3, <3>4 DEF Justified, Reasoned, Applied, NewerInstalled
    <2>4. CASE ~isK0s(n)
      <3>1. n = "os"
        BY <2>1, <2>4, NamesAre DEF isK0s
      <3> DEFINE new == published["os"]
      <3>2. slots' = Retain(slots \cup {new}) /\ UNCHANGED pc /\ image'["os"] = new
            /\ call' = [call EXCEPT ![c].todo = @ \ {n}]
        BY <1>0, <1>3, <2>4, <3>1 DEF ApplyUpdate, Justified, Typed, TypeOK
      <3>3. PICK v \in Versions : slots = {running, v}
        BY DEF Justified, Typed, TypeOK
      <3>4. running \in Nat /\ v \in Nat /\ new \in Nat /\ v <= new /\ running <= new
        <4>1. running \in Versions /\ new \in Versions
          BY <1>0 DEF Justified, Typed, TypeOK
        <4>2. v <= new /\ running <= new
          BY <3>3 DEF Justified, Ordered
        <4> QED
          BY <4>1, <4>2 DEF Versions
      <3>5. PICK w \in {v, new} : slots' = {running, w} /\ new \in {running, w}
        <4>1. slots' = Retain({running, v} \cup {new})
          BY <3>2, <3>3
        <4> HIDE DEF new
        <4>2. \E w \in {v, new} : /\ Retain({running, v} \cup {new}) = {running, w}
                                  /\ v <= new => new \in {running, w}
          BY <3>4, RetainKeeps
        <4> QED
          BY <3>4, <4>1, <4>2
      <3>6. \A d \in Callers : call'[d].plan = call[d].plan /\ call'[d].scope = call[d].scope
                               /\ call'[d].prev = call[d].prev
                               /\ (d = c => call'[d].todo = p.todo \ {n})
                               /\ (d # c => call'[d] = call[d])
        BY <1>0, <3>2 DEF Justified, Typed, TypeOK, Call
      <3>7. Ordered'
        <4>1. \A u \in slots' : u <= new
          BY <3>4, <3>5
        <4>2. \A d \in Callers : call'[d].plan["os"] # 0 =>
                 running < call'[d].plan["os"] /\ call'[d].plan["os"] <= new
          BY <3>6 DEF Justified, Ordered
        <4> QED
          BY <2>2, <3>2, <4>1, <4>2 DEF Ordered
      <3>8. ASSUME NEW d \in Callers, Applied(d)' PROVE NewerInstalled'
        <4>1. running < call[d].plan["os"] /\ call[d].plan["os"] <= new
          BY <3>6, <3>8 DEF Applied, Justified, Ordered
        <4>2. call[d].plan["os"] \in Int
          BY <1>0, <3>4 DEF Justified, Typed, TypeOK, Call, Versions
        <4>3. new > running
          BY <3>4, <4>1, <4>2
        <4> QED
          BY <2>2, <3>5, <4>3 DEF NewerInstalled
      <3>9. ASSUME NEW d \in Callers, pc'[d] = "reboot", call'[d].prev = 0
            PROVE  call'[d].plan["os"] # 0 /\ call'[d].todo = {}
        <4>1. d # c
          BY <1>3, <3>2, <3>9 DEF ApplyUpdate
        <4> QED
          BY <3>2, <3>6, <3>9, <4>1 DEF Justified, Reasoned
      <3>10. ASSUME NEW d \in Callers, pc'[d] \in {"list", "pick", "pin"}
             PROVE  call'[d].plan["os"] = 0
        BY <3>2, <3>6, <3>10 DEF Justified, Reasoned
      <3> QED
        BY <3>7, <3>8, <3>9, <3>10 DEF Reasoned
    <2> QED
      BY <2>3, <2>4
  <1>4. CASE Merge(c)
    <2>1. CASE merged = 0
      <3>1. Goto(c, "apply") /\ call' = [call EXCEPT ![c].todo = @ \ {"k0s"}]
        BY <1>4, <2>1 DEF Merge
      <3>2. pc'[c] = "apply" /\ \A d \in Callers \ {c} : pc'[d] = pc[d] /\ call'[d] = call[d]
        BY <3>1 DEF Goto, Justified, Typed, TypeOK
      <3>3. call'[c].plan = p.plan /\ call'[c].scope = p.scope /\ call'[c].todo = p.todo \ {"k0s"}
        BY <1>0, <3>1 DEF Justified, Typed, TypeOK, Call
      <3>4. Applied(c)' => Applied(c)
        BY <1>4, <3>3 DEF Applied, Merge
      <3> QED
        BY <1>4, <3>2, <3>3, <3>4, JustifiedKept DEF Merge, Justified, Ordered, Reasoned
    <2>2. CASE merged # 0
      BY <1>4, <2>2, ReplyJustified DEF Merge
    <2> QED
      BY <2>1, <2>2
  <1>5. CASE Finish(c)
    <2>1. CASE Reply(c)
      BY <1>5, <2>1, ReplyJustified DEF Finish, node
    <2>2. CASE ~Reply(c)
      <3>1. Goto(c, "reboot") /\ UNCHANGED call /\ RebootRequired(p.plan) /\ p.todo = {}
        BY <1>5, <2>2 DEF Finish
      <3>2. pc'[c] = "reboot" /\ \A d \in Callers \ {c} : pc'[d] = pc[d]
        BY <3>1 DEF Goto, Justified, Typed, TypeOK
      <3>3. p.plan["os"] # 0
        BY <3>1, NamesAre DEF RebootRequired, requiresReboot, isK0s
      <3>4. Applied(c)' => Applied(c)
        BY <1>5, <3>1 DEF Applied, Finish
      <3> QED
        BY <1>5, <3>1, <3>2, <3>3, <3>4, JustifiedKept DEF Finish, node, Justified, Ordered, Reasoned
    <2> QED
      BY <2>1, <2>2
  <1>6. CASE ExecReboot(c)
    BY <1>6, ReplyJustified DEF ExecReboot
  <1> QED
    BY <1>1, <1>2, <1>3, <1>4, <1>5, <1>6 DEF UpdateStep

LEMMA JustifiedRollbackStep ==
  ASSUME Justified, NEW c \in Callers, RollbackStep(c) PROVE Ordered' /\ Reasoned'
  <1> DEFINE p == call[c]
  <1>0. p \in Call
    BY DEF Justified, Typed, TypeOK
  <1>1. CASE ReadEFISlots(c)
    <2>1. call' = [call EXCEPT ![c].listing = slots] /\ Goto(c, "pick")
      BY <1>1 DEF ReadEFISlots
    <2>2. pc'[c] = "pick" /\ \A d \in Callers \ {c} : pc'[d] = pc[d] /\ call'[d] = call[d]
      BY <2>1 DEF Goto, Justified, Typed, TypeOK
    <2>3. call'[c].plan = p.plan
      BY <1>0, <2>1 DEF Justified, Typed, TypeOK, Call
    <2> QED
      BY <1>1, <2>2, <2>3, JustifiedKept DEF ReadEFISlots, node, Applied, Justified, Ordered, Reasoned
  <1>2. CASE PreviousSlot(c)
    <2>1. CASE Reply(c)
      BY <1>2, <2>1, ReplyJustified DEF PreviousSlot, node
    <2>2. CASE ~Reply(c)
      <3>1. PICK v \in Candidates(p.listing, installedVersion) :
              Goto(c, "pin") /\ call' = [call EXCEPT ![c].prev = v, ![c].listing = {}]
        BY <1>2, <2>2 DEF PreviousSlot
      <3>2. pc'[c] = "pin" /\ \A d \in Callers \ {c} : pc'[d] = pc[d] /\ call'[d] = call[d]
        BY <3>1 DEF Goto, Justified, Typed, TypeOK
      <3>3. call'[c].plan = p.plan
        BY <1>0, <3>1 DEF Justified, Typed, TypeOK, Call
      <3> QED
        BY <1>2, <3>2, <3>3, JustifiedKept DEF PreviousSlot, node, Applied, Justified, Ordered, Reasoned
    <2> QED
      BY <2>1, <2>2
  <1>3. CASE SetOneshot(c)
    <2>1. CASE Reply(c)
      BY <1>3, <2>1, ReplyJustified DEF SetOneshot
    <2>2. CASE ~Reply(c)
      <3>1. Goto(c, "reboot") /\ UNCHANGED call /\ p.prev # 0
        BY <1>3, <2>2 DEF SetOneshot, Justified, Typed, Listed
      <3>2. pc'[c] = "reboot" /\ \A d \in Callers \ {c} : pc'[d] = pc[d]
        BY <3>1 DEF Goto, Justified, Typed, TypeOK
      <3>3. p.plan["os"] = 0
        BY <1>3 DEF SetOneshot, Justified, Reasoned
      <3> QED
        BY <1>3, <3>1, <3>2, <3>3, JustifiedKept DEF SetOneshot, Applied, Justified, Ordered
    <2> QED
      BY <2>1, <2>2
  <1> QED
    BY <1>1, <1>2, <1>3 DEF RollbackStep

LEMMA JustifiedNext == Justified /\ [Next]_vars => Justified'
  <1> SUFFICES ASSUME Justified, [Next]_vars PROVE Ordered' /\ Reasoned'
    BY TypeNext DEF Justified
  <1>1. ASSUME NEW c \in Callers, CallFails(c) PROVE Ordered' /\ Reasoned'
    BY <1>1, ReplyJustified DEF CallFails, node
  <1>2. ASSUME NEW n \in Names, Publish(n) PROVE Ordered' /\ Reasoned'
    <2>1. published["os"] \in Int /\ (published'["os"] = published["os"] \/ published'["os"] = published["os"] + 1)
      BY <1>2, NamesAre DEF Publish, Justified, Typed, TypeOK, Versions
    <2>2. UNCHANGED <<image, slots, running, pc, call>>
      BY <1>2 DEF Publish
    <2>3. \A v \in slots : v \in Int
      BY DEF Justified, Typed, TypeOK, Versions
    <2>4. \A c \in Callers : call[c].plan["os"] \in Int
      BY NamesAre DEF Justified, Typed, TypeOK, Call, Versions
    <2>5. Ordered'
      BY <2>1, <2>2, <2>3, <2>4 DEF Justified, Ordered
    <2> QED
      BY <2>2, <2>5 DEF Justified, Reasoned, Applied, NewerInstalled
  <1>3. CASE Unmerge \/ RebootByOther \/ UNCHANGED vars
    <2>1. UNCHANGED <<published, image, slots, running, pc, call>>
      BY <1>3 DEF Unmerge, RebootByOther, vars, node
    <2> QED
      BY <2>1 DEF Justified, Ordered, Reasoned, Applied, NewerInstalled
  <1>4. CASE Boot
    <2>1. \A c \in Callers : pc'[c] = "idle" /\ call'[c] = NoCall
      BY <1>4 DEF Boot
    <2>2. NoCall.plan["os"] = 0
      BY NamesAre DEF NoCall
    <2>3. UNCHANGED <<published, image, slots>>
      BY <1>4 DEF Boot
    <2> QED
      BY <2>1, <2>2, <2>3 DEF Justified, Ordered, Reasoned, Applied
  <1> QED
    BY <1>1, <1>2, <1>3, <1>4, JustifiedUpdate, JustifiedUpdateStep, JustifiedRollbackStep DEF Next

\* upgrade.go:141-175: whatever another call did since the plan was made, an update not
\* restricted to k0s asks for the reboot only with an OS installed that is newer than
\* the running one.
THEOREM RebootCorrect == Spec => []RebootHasReason
  <1>1. Justified => RebootHasReason
    <2> SUFFICES ASSUME Justified, NEW c \in Callers,
                        pc[c] = "reboot", call[c].prev = 0, call[c].scope # "k0s"
                 PROVE  Newest > running
      BY DEF RebootHasReason
    <2>1. Applied(c)
      BY DEF Applied, Justified, Reasoned
    <2>2. PICK w \in slots : w > running
      BY <2>1 DEF Justified, Reasoned, NewerInstalled
    <2>3. PICK v \in Versions : slots = {running, v}
      BY DEF Justified, Typed, TypeOK
    <2>4. running \in Int /\ v \in Int
      BY DEF Justified, Typed, TypeOK, Versions
    <2>5. w = v
      BY <2>2, <2>3, <2>4
    <2>6. Newest >= v /\ Newest \in {running, v}
      <3>1. Newest = NewestOf({running, v})
        BY <2>3 DEF Newest
      <3> QED
        BY <2>4, <3>1, NewestOfTwo
    <2> QED
      BY <2>2, <2>4, <2>5, <2>6
  <1> QED
    BY <1>1, JustifiedInit, JustifiedNext, PTL DEF Spec
-----------------------------------------------------------------------------
(* Nothing is skipped. A plan promises no more than what was released, what  *)
(* a call has applied has reached at least what its plan promised, and k0s   *)
(* is merged, if at all, from such an image.                                 *)

\* In the plan and in scope, and no longer to be done.
Done(c, n) == /\ pc[c] \in {"apply", "merge"} /\ call[c].plan[n] # 0
              /\ inScope(n, call[c].scope) /\ n \notin call[c].todo

Promised ==
    /\ \A c \in Callers, n \in Names : call[c].plan[n] <= published[n]
    /\ \A c \in Callers, n \in Names : Done(c, n) =>
          /\ image[n] >= call[c].plan[n]
          /\ n = "k0s" => merged = 0 \/ merged >= call[c].plan["k0s"]
    /\ \A c \in Callers : pc[c] = "merge" => image["k0s"] >= call[c].plan["k0s"]

Kept == Typed /\ Promised

LEMMA Numbers ==
  ASSUME Typed, NEW c \in Callers, NEW n \in Names
  PROVE  /\ call[c].plan[n] \in Int /\ published[n] \in Int /\ image[n] \in Int /\ merged \in Int
         /\ 0 <= published[n]
  BY DEF Typed, TypeOK, Call, Versions

LEMMA PromisedInit == Init => Promised
  <1> SUFFICES ASSUME Init PROVE Promised
    OBVIOUS
  <1>1. \A c \in Callers : pc[c] = "idle" /\ \A n \in Names : call[c].plan[n] = 0
    BY DEF Init, NoCall
  <1>2. \A n \in Names : published[n] = 2
    BY DEF Init
  <1> QED
    BY <1>1, <1>2 DEF Promised, Done

\* What a step of one call must show when the node's disk and sysext stay.
LEMMA PromisedKept ==
  ASSUME Kept, NEW c \in Callers, UNCHANGED <<published, image, merged>>,
         \A d \in Callers \ {c} : pc'[d] = pc[d] /\ call'[d] = call[d],
         \A n \in Names : call'[c].plan[n] <= published[n],
         \A n \in Names : ~Done(c, n)',
         pc'[c] # "merge"
  PROVE  Promised'
  BY DEF Kept, Promised, Done

LEMMA ReplyPromised ==
  ASSUME Kept, NEW c \in Callers, Reply(c), UNCHANGED <<published, image, merged>>
  PROVE  Promised'
  <1>1. /\ pc'[c] = "idle" /\ call'[c] = NoCall
        /\ \A d \in Callers \ {c} : pc'[d] = pc[d] /\ call'[d] = call[d]
    BY ReplyTyped DEF Kept
  <1>2. \A n \in Names : NoCall.plan[n] = 0 /\ 0 <= published[n]
    BY Numbers DEF NoCall, Kept
  <1>3. \A n \in Names : call'[c].plan[n] <= published[n] /\ ~Done(c, n)'
    BY <1>1, <1>2 DEF Done
  <1> QED
    BY <1>1, <1>3, PromisedKept

LEMMA PromisedUpdate ==
  ASSUME Kept, NEW c \in Callers, newUpdateCmd(c) \/ newRollbackCmd(c)
  PROVE  Promised'
  <1>1. \A n \in Names : NoCall.plan[n] = 0 /\ 0 <= published[n]
    BY Numbers DEF NoCall, Kept
  <1>2. /\ pc'[c] \in {"plan", "list"} /\ call'[c].plan = NoCall.plan
        /\ \A d \in Callers \ {c} : pc'[d] = pc[d] /\ call'[d] = call[d]
        /\ UNCHANGED <<published, image, merged>>
    <2>1. CASE newUpdateCmd(c)
      <3>1. PICK word \in Words, check \in BOOLEAN, direct \in BOOLEAN :
              Update(c, parseComponent(word), check, direct)
        BY <2>1 DEF newUpdateCmd
      <3>2. [NoCall EXCEPT !.scope = parseComponent(word), !.check = check,
                           !.direct = direct /\ ~check].plan = NoCall.plan
        BY DEF NoCall
      <3> QED
        BY <3>1, <3>2 DEF Update, Goto, node, Kept, Typed, TypeOK
    <2>2. CASE newRollbackCmd(c)
      <3>1. PICK reboot \in BOOLEAN : Rollback(c, reboot)
        BY <2>2 DEF newRollbackCmd
      <3>2. [NoCall EXCEPT !.direct = reboot].plan = NoCall.plan
        BY DEF NoCall
      <3> QED
        BY <3>1, <3>2 DEF Rollback, Goto, node, Kept, Typed, TypeOK
    <2> QED
      BY <2>1, <2>2
  <1>3. \A n \in Names : call'[c].plan[n] <= published[n] /\ ~Done(c, n)'
    BY <1>1, <1>2 DEF Done
  <1> QED
    BY <1>2, <1>3, PromisedKept

LEMMA PromisedUpdateStep ==
  ASSUME Kept, NEW c \in Callers, UpdateStep(c) PROVE Promised'
  <1> DEFINE p == call[c]
  <1>0. /\ p \in Call /\ p.plan \in [Names -> Versions] /\ p.todo \subseteq Names
        /\ \A n \in Names : p.plan[n] <= published[n]
    BY DEF Kept, Typed, TypeOK, Call, Promised
  <1>1. CASE BuildPlan(c)
    <2> DEFINE n == Features[p.at]
    <2>1. n \in Names
      BY <1>0, <1>1, NamesAre, FeatureIsName DEF BuildPlan, Call
    <2>2. PICK latest \in resolveLatestVersion(n) :
              call' = [call EXCEPT ![c].at = p.at + 1,
                  ![c].plan[n] = IF Newer(CurrentVersionFor(n), latest) THEN latest ELSE 0]
      BY <1>1 DEF BuildPlan
    <2>3. /\ \A d \in Callers \ {c} : pc'[d] = pc[d] /\ call'[d] = call[d]
          /\ pc'[c] = "plan" /\ UNCHANGED <<published, image, merged>>
      BY <1>1, <2>2 DEF BuildPlan, node, Kept, Typed, TypeOK
    <2>4. call'[c].plan = [p.plan EXCEPT ![n] = IF Newer(CurrentVersionFor(n), latest) THEN latest ELSE 0]
      BY <1>0, <2>2 DEF Kept, Typed, TypeOK, Call
    <2>5. latest <= published[n] /\ 0 <= published[n]
      BY <2>1, Numbers DEF resolveLatestVersion, Kept
    <2>6. \A m \in Names : call'[c].plan[m] <= published[m]
      BY <1>0, <2>1, <2>4, <2>5
    <2>7. \A m \in Names : ~Done(c, m)'
      BY <2>3 DEF Done
    <2> QED
      BY <2>3, <2>6, <2>7, PromisedKept
  <1>2. CASE Classify(c)
    <2> DEFINE todo == {n \in Names : p.plan[n] # 0 /\ inScope(n, p.scope)}
    <2>1. CASE Reply(c)
      BY <1>2, <2>1, ReplyPromised DEF Classify, node
    <2>2. CASE ~Reply(c)
      <3>1. Goto(c, "apply") /\ call' = [call EXCEPT ![c].todo = todo, ![c].at = 1]
        BY <1>2, <2>2 DEF Classify
      <3>2. pc'[c] = "apply" /\ \A d \in Callers \ {c} : pc'[d] = pc[d] /\ call'[d] = call[d]
        BY <3>1 DEF Goto, Kept, Typed, TypeOK
      <3>3. call'[c].plan = p.plan /\ call'[c].scope = p.scope /\ call'[c].todo = todo
        BY <1>0, <3>1 DEF Kept, Typed, TypeOK, Call
      <3>4. \A n \in Names : ~Done(c, n)'
        BY <3>3 DEF Done
      <3> HIDE DEF todo
      <3> QED
        BY <1>0, <1>2, <3>2, <3>3, <3>4, PromisedKept DEF Classify, node
    <2> QED
      BY <2>1, <2>2
  <1>3. CASE ApplyUpdate(c)
    <2> DEFINE n == FirstOf(p.todo)
    <2>1. n \in Names /\ n \in p.todo
      BY <1>0, <1>3, FirstIsOne DEF ApplyUpdate
    <2>2. UNCHANGED <<published, merged>> /\ image' = [image EXCEPT ![n] = published[n]]
      BY <1>3 DEF ApplyUpdate
    <2>3. /\ image'[n] = published[n]
          /\ \A m \in Names : m # n => image'[m] = image[m]
      BY <2>1, <2>2 DEF Kept, Typed, TypeOK
    <2> HIDE DEF n
    <2>4. ASSUME NEW d \in Callers, NEW m \in Names, image[m] >= call[d].plan[m]
          PROVE  image'[m] >= call[d].plan[m]
      BY <2>3, <2>4, Numbers DEF Kept, Promised
    <2>5. \A d \in Callers : image'[n] >= call[d].plan[n]
      BY <2>1, <2>3, Numbers DEF Kept, Promised
    <2>6. CASE isK0s(n)
      <3>1. Goto(c, "merge") /\ UNCHANGED call
        BY <1>3, <2>6 DEF ApplyUpdate, n
      <3>2. pc'[c] = "merge" /\ \A d \in Callers \ {c} : pc'[d] = pc[d]
        BY <3>1 DEF Goto, Kept, Typed, TypeOK
      <3>3. \A d \in Callers, m \in Names : Done(d, m)' => Done(d, m)
        BY <1>3, <3>1, <3>2 DEF Done, ApplyUpdate
      <3>4. \A d \in Callers : pc'[d] = "merge" => image'["k0s"] >= call[d].plan["k0s"]
        BY <2>5, <2>6 DEF isK0s
      <3> QED
        BY <2>2, <2>4, <3>1, <3>3, <3>4 DEF Kept, Promised
    <2>7. CASE ~isK0s(n)
      <3>1. UNCHANGED pc /\ call' = [call EXCEPT ![c].todo = @ \ {n}] /\ n = "os"
        BY <1>3, <2>1, <2>7, NamesAre DEF ApplyUpdate, isK0s, n
      <3>2. /\ \A d \in Callers : call'[d].plan = call[d].plan /\ call'[d].scope = call[d].scope
            /\ call'[c].todo = p.todo \ {n}
            /\ \A d \in Callers \ {c} : call'[d].todo = call[d].todo
        BY <1>0, <3>1 DEF Kept, Typed, TypeOK, Call
      <3>3. \A d \in Callers, m \in Names : Done(d, m)' => Done(d, m) \/ m = n
        BY <3>1, <3>2 DEF Done
      <3>4. \A d \in Callers, m \in Names : Done(d, m)' => image'[m] >= call[d].plan[m]
        BY <2>4, <2>5, <3>3 DEF Kept, Promised
      <3>5. \A d \in Callers : Done(d, "k0s")' => merged = 0 \/ merged >= call[d].plan["k0s"]
        BY <3>1, <3>3, NamesAre DEF Kept, Promised
      <3>6. \A d \in Callers : pc[d] = "merge" => image'["k0s"] >= call[d].plan["k0s"]
        BY <2>4, NamesAre DEF Kept, Promised
      <3> QED
        BY <2>2, <3>1, <3>2, <3>4, <3>5, <3>6 DEF Kept, Promised
    <2> QED
      BY <2>6, <2>7
  <1>4. CASE Merge(c)
    <2>1. CASE merged = 0
      <3>1. /\ Goto(c, "apply") /\ call' = [call EXCEPT ![c].todo = @ \ {"k0s"}]
            /\ merged' = image["k0s"] /\ UNCHANGED <<published, image>> /\ pc[c] = "merge"
        BY <1>4, <2>1 DEF Merge
      <3>2. pc'[c] = "apply" /\ \A d \in Callers \ {c} : pc'[d] = pc[d] /\ call'[d] = call[d]
        BY <3>1 DEF Goto, Kept, Typed, TypeOK
      <3>3. call'[c].plan = p.plan /\ call'[c].scope = p.scope /\ call'[c].todo = p.todo \ {"k0s"}
        BY <1>0, <3>1 DEF Kept, Typed, TypeOK, Call
      <3>4. \A d \in Callers, m \in Names : Done(d, m)' => Done(d, m) \/ (d = c /\ m = "k0s")
        BY <3>1, <3>2, <3>3 DEF Done
      <3>5. \A d \in Callers : call'[d].plan = call[d].plan
        BY <3>2, <3>3
      <3>6. \A d \in Callers, m \in Names : Done(d, m)' => image[m] >= call[d].plan[m]
        BY <3>1, <3>4 DEF Kept, Promised
      <3>7. \A d \in Callers : Done(d, "k0s")' => merged' >= call[d].plan["k0s"]
        BY <3>1, <3>6, NamesAre
      <3> QED
        BY <3>1, <3>2, <3>5, <3>6, <3>7 DEF Kept, Promised
    <2>2. CASE merged # 0
      BY <1>4, <2>2, ReplyPromised DEF Merge
    <2> QED
      BY <2>1, <2>2
  <1>5. CASE Finish(c)
    <2>1. CASE Reply(c)
      BY <1>5, <2>1, ReplyPromised DEF Finish, node
    <2>2. CASE ~Reply(c)
      <3>1. Goto(c, "reboot") /\ UNCHANGED call
        BY <1>5, <2>2 DEF Finish
      <3>2. pc'[c] = "reboot" /\ \A d \in Callers \ {c} : pc'[d] = pc[d]
        BY <3>1 DEF Goto, Kept, Typed, TypeOK
      <3> QED
        BY <1>0, <1>5, <3>1, <3>2, PromisedKept DEF Finish, node, Done
    <2> QED
      BY <2>1, <2>2
  <1>6. CASE ExecReboot(c)
    BY <1>6, ReplyPromised DEF ExecReboot
  <1> QED
    BY <1>1, <1>2, <1>3, <1>4, <1>5, <1>6 DEF UpdateStep

LEMMA PromisedRollbackStep ==
  ASSUME Kept, NEW c \in Callers, RollbackStep(c) PROVE Promised'
  <1> DEFINE p == call[c]
  <1>0. p \in Call /\ \A n \in Names : p.plan[n] <= published[n]
    BY DEF Kept, Typed, TypeOK, Promised
  <1>1. CASE Reply(c)
    BY <1>1, ReplyPromised DEF RollbackStep, ReadEFISlots, PreviousSlot, SetOneshot, node
  <1>2. CASE ~Reply(c)
    <2>1. /\ \E step \in {"pick", "pin", "reboot"} : Goto(c, step)
          /\ UNCHANGED <<published, image, merged>>
      BY <1>2 DEF RollbackStep, ReadEFISlots, PreviousSlot, SetOneshot, node
    <2>2. /\ pc'[c] \in {"pick", "pin", "reboot"}
          /\ \A d \in Callers \ {c} : pc'[d] = pc[d]
      BY <2>1 DEF Goto, Kept, Typed, TypeOK
    <2>3. call'[c].plan = p.plan /\ \A d \in Callers \ {c} : call'[d] = call[d]
      BY <1>0, <1>2 DEF RollbackStep, ReadEFISlots, PreviousSlot, SetOneshot, Kept, Typed, TypeOK, Call
    <2> QED
      BY <1>0, <2>1, <2>2, <2>3, PromisedKept DEF Done
  <1> QED
    BY <1>1, <1>2

LEMMA KeptNext == Kept /\ [Next]_vars => Kept'
  <1> SUFFICES ASSUME Kept, [Next]_vars PROVE Promised'
    BY TypeNext DEF Kept
  <1>1. ASSUME NEW c \in Callers, CallFails(c) PROVE Promised'
    BY <1>1, ReplyPromised DEF CallFails, node
  <1>2. ASSUME NEW n \in Names, Publish(n) PROVE Promised'
    <2>1. \A m \in Names : published'[m] = published[m] \/ published'[m] = published[m] + 1
      BY <1>2 DEF Publish, Kept, Typed, TypeOK
    <2>2. UNCHANGED <<image, merged, pc, call>>
      BY <1>2 DEF Publish
    <2>3. \A c \in Callers, m \in Names : call[c].plan[m] <= published'[m]
      BY <2>1, Numbers DEF Kept, Promised
    <2> QED
      BY <2>2, <2>3 DEF Kept, Promised, Done
  <1>3. CASE Unmerge \/ RebootByOther \/ UNCHANGED vars
    <2>1. UNCHANGED <<published, image, pc, call>> /\ merged' \in {0, merged}
      BY <1>3 DEF Unmerge, RebootByOther, vars, node
    <2> QED
      BY <2>1 DEF Kept, Promised, Done
  <1>4. CASE Boot
    <2>1. \A c \in Callers : pc'[c] = "idle" /\ call'[c] = NoCall
      BY <1>4 DEF Boot
    <2>2. \A c \in Callers, n \in Names : NoCall.plan[n] = 0 /\ 0 <= published[n]
      BY Numbers DEF NoCall, Kept
    <2>3. UNCHANGED published
      BY <1>4 DEF Boot
    <2> QED
      BY <2>1, <2>2, <2>3 DEF Promised, Done
  <1> QED
    BY <1>1, <1>2, <1>3, <1>4, PromisedUpdate, PromisedUpdateStep, PromisedRollbackStep DEF Next

\* upgrade.go:161-163, 205-212: whatever other calls, releases and failures there are, a
\* call that reaches its end has on disk what its plan promised for every component in
\* its scope, and no older k0s is merged.
THEOREM NothingIsSkipped == Spec => NothingSkipped
  <1> DEFINE Whole == \A c \in Callers : Finish(c) =>
          \A n \in Names : inScope(n, call[c].scope) /\ call[c].plan[n] # 0 =>
             image[n] >= call[c].plan[n] /\ (isK0s(n) => merged \in {0} \cup call[c].plan[n]..MaxVersion)
  <1>1. Kept => Whole
    <2> SUFFICES ASSUME Kept, NEW c \in Callers, Finish(c), NEW n \in Names,
                        inScope(n, call[c].scope), call[c].plan[n] # 0
                 PROVE  /\ image[n] >= call[c].plan[n]
                        /\ isK0s(n) => merged \in {0} \cup call[c].plan[n]..MaxVersion
      OBVIOUS
    <2>1. Done(c, n)
      BY DEF Done, Finish
    <2>2. merged \in 0..MaxVersion /\ call[c].plan[n] \in Int
      BY Numbers DEF Kept, Typed, TypeOK, Versions
    <2>3. isK0s(n) => merged = 0 \/ merged >= call[c].plan[n]
      BY <2>1 DEF Kept, Promised, isK0s
    <2>4. isK0s(n) => merged \in {0} \cup call[c].plan[n]..MaxVersion
      BY <2>2, <2>3, UpdateAssumption DEF UpdateAssumption
    <2> QED
      BY <2>1, <2>4 DEF Kept, Promised
  <1>2. Kept /\ [Next]_vars => [Whole]_vars
    BY <1>1
  <1>3. Init => Kept
    BY TypeInit, PromisedInit DEF Kept
  <1> QED
    BY <1>2, <1>3, KeptNext, PTL DEF Spec, NothingSkipped
-----------------------------------------------------------------------------
(* A rollback leaves. On a node that runs what it has installed the chosen   *)
(* version is an entry other than the running one; updates before the boot   *)
(* may take that entry away, but then they leave a newer one to boot.        *)

\* systemd-sysupdate removes no entry to install a version that is there.
LEMMA RetainPresent ==
  ASSUME NEW v, NEW p \in {running, v}
  PROVE  Retain({running, v} \cup {p}) = {running, v}
  <1>1. {running, v} \cup {p} = {running, v} /\ AtMostOne({running, v} \ {running})
    BY DEF AtMostOne
  <1> QED
    BY <1>1 DEF Retain

\* upgrade.go:265-281: of two entries previousSlot takes the one that is not
\* installed; without a DDI symlink it takes the older.
LEMMA PickLeaves ==
  ASSUME NEW a \in Nat, NEW b \in Nat, a # 0, NEW current, NEW v \in Candidates({a, b}, current)
  PROVE  /\ v \in {a, b}
         /\ current = a => v # a
         /\ current = 0 /\ v = a => b > a
  <1> DEFINE files == {a, b}
  <1>1. v \in files
    BY PickIsListed
  <1>2. ASSUME current = a PROVE v # a
    <2>1. CASE files \ {a} # {}
      BY <1>2, <2>1 DEF Candidates
    <2>2. CASE files \ {a} = {}
      <3>1. AtMostOne(files)
        BY <2>2 DEF AtMostOne
      <3>2. Candidates(files, current) = {}
        BY <1>2, <2>2, <3>1 DEF Candidates
      <3> QED
        BY <3>2
    <2> QED
      BY <2>1, <2>2
  <1>3. ASSUME current = 0, v = a PROVE b > a
    <2>1. ~AtMostOne(files) /\ v = NewestOf(files \ {NewestOf(files)})
      BY <1>3 DEF Candidates
    <2>2. a # b
      BY <2>1 DEF AtMostOne
    <2>3. ASSUME b <= a PROVE FALSE
      <3>1. NewestOf(files) = a
        BY <2>3, NewestIs
      <3>2. files \ {a} = {b} /\ NewestOf({b}) = b
        BY <2>2, NewestIs
      <3> QED
        BY <1>3, <2>1, <2>2, <3>1, <3>2
    <2> QED
      BY <2>3
  <1> QED
    BY <1>1, <1>2, <1>3

NewOS == image["os"] > running

\* What a rollback has listed is what is there, or a newer OS has been installed.
Seen(c) == pc[c] = "pick" => call[c].listing = slots \/ NewOS

\* What it has chosen is another entry, or a newer OS is installed or listed.
Chosen(c) ==
    pc[c] = "pin" => \/ NewOS
                     \/ call[c].prev \in slots /\ call[c].prev # running
                     \/ image["os"] = 0 /\ NewerInstalled

Pinned == away => oneshot # running /\ (oneshot \in slots \/ NewerInstalled)

Leaving == /\ image["os"] <= published["os"]
           /\ \A c \in Callers : Seen(c) /\ Chosen(c)
           /\ Pinned

Away == Justified /\ Leaving

LEMMA LeavingInit == Init => Leaving
  <1> SUFFICES ASSUME Init PROVE Leaving
    OBVIOUS
  <1>1. image["os"] \in {0, 2} /\ published["os"] = 2
    BY NamesAre DEF Init
  <1> QED
    BY <1>1 DEF Init, Leaving, Seen, Chosen, Pinned

\* The numbers a step compares.
LEMMA AwayNumbers ==
  ASSUME Away
  PROVE  /\ published["os"] \in Nat /\ image["os"] \in Nat /\ running \in Nat /\ running # 0
         /\ \E v \in Nat : slots = {running, v}
         /\ running \in slots
  <1>1. published["os"] \in Nat /\ image["os"] \in Nat /\ running \in Nat
        /\ \E v \in Nat : slots = {running, v}
    BY NamesAre DEF Away, Justified, Typed, TypeOK, Versions
  <1>2. running # 0
    BY <1>1 DEF Away, Justified, Typed, Listed
  <1> QED
    BY <1>1, <1>2

\* What a step of one call must show when the node and its boot entries stay.
LEMMA LeavingKept ==
  ASSUME Away, NEW c \in Callers, UNCHANGED <<published, slots, running, oneshot, away>>,
         image'["os"] = image["os"],
         \A d \in Callers \ {c} : pc'[d] = pc[d] /\ call'[d] = call[d],
         Seen(c)', Chosen(c)'
  PROVE  Leaving'
  BY DEF Away, Leaving, Seen, Chosen, Pinned, NewOS, NewerInstalled

LEMMA ReplyLeaving ==
  ASSUME Away, NEW c \in Callers, Reply(c), image' = image,
         UNCHANGED <<published, slots, running, oneshot, away>>
  PROVE  Leaving'
  BY LeavingKept, ReplyTyped DEF Away, Justified, Seen, Chosen

LEMMA LeavingUpdate ==
  ASSUME Away, NEW c \in Callers, newUpdateCmd(c) \/ newRollbackCmd(c)
  PROVE  Leaving'
  <1>1. /\ pc'[c] \in {"plan", "list"}
        /\ \A d \in Callers \ {c} : pc'[d] = pc[d] /\ call'[d] = call[d]
        /\ UNCHANGED <<node, away>>
    BY DEF newUpdateCmd, newRollbackCmd, Update, Rollback, Goto, Away, Justified, Typed, TypeOK
  <1> QED
    BY <1>1, LeavingKept DEF node, Seen, Chosen

\* sysupdate.go:112: an installed OS is there already, or newer than all that was.
LEMMA LeavingApply ==
  ASSUME Away, NEW c \in Callers, ApplyUpdate(c) PROVE Leaving'
  <1> DEFINE p == call[c]
             n == FirstOf(p.todo)
             new == published["os"]
  <1>0. p \in Call /\ p.todo \subseteq Names /\ "os" \in Names
    BY NamesAre DEF Away, Justified, Typed, TypeOK, Call
  <1>1. n \in Names
    BY <1>0, FirstIsOne DEF ApplyUpdate
  <1>2. /\ UNCHANGED <<published, running, oneshot, away>> /\ image' = [image EXCEPT ![n] = published[n]]
        /\ pc[c] = "apply"
    BY DEF ApplyUpdate
  <1>3. CASE isK0s(n)
    <2>1. Goto(c, "merge") /\ UNCHANGED <<slots, call>> /\ image'["os"] = image["os"]
      BY <1>0, <1>2, <1>3 DEF ApplyUpdate, isK0s, Away, Justified, Typed, TypeOK
    <2>2. pc'[c] = "merge" /\ \A d \in Callers \ {c} : pc'[d] = pc[d]
      BY <2>1 DEF Goto, Away, Justified, Typed, TypeOK
    <2> QED
      BY <1>2, <2>1, <2>2, LeavingKept DEF Seen, Chosen
  <1>4. CASE ~isK0s(n)
    <2>1. n = "os"
      BY <1>1, <1>4, NamesAre DEF isK0s
    <2>2. /\ slots' = Retain(slots \cup {new}) /\ UNCHANGED pc /\ image'["os"] = new
          /\ call' = [call EXCEPT ![c].todo = @ \ {n}]
      BY <1>0, <1>2, <1>4, <2>1 DEF ApplyUpdate, Away, Justified, Typed, TypeOK
    <2>3. \A d \in Callers : call'[d].listing = call[d].listing /\ call'[d].prev = call[d].prev
      BY <1>0, <2>2 DEF Away, Justified, Typed, TypeOK, Call
    <2>4. PICK v \in Nat : slots = {running, v}
      BY AwayNumbers
    <2>5. new \in Nat /\ image["os"] \in Nat /\ running \in Nat /\ image["os"] <= new
          /\ \A w \in slots : w <= new
      BY AwayNumbers DEF Away, Justified, Ordered, Leaving
    <2>6. NewOS => NewOS'
      BY <1>2, <2>2, <2>5 DEF NewOS
    <2>7. NewerInstalled => NewOS'
      BY <1>2, <2>2, <2>4, <2>5 DEF NewOS, NewerInstalled
    <2>8. CASE new \in slots
      <3>1. slots' = slots
        <4> HIDE DEF new
        <4> QED
          BY <2>2, <2>4, <2>8, RetainPresent
      <3>2. NewerInstalled' = NewerInstalled
        BY <1>2, <3>1 DEF NewerInstalled
      <3> QED
        BY <1>2, <2>2, <2>3, <2>5, <2>6, <2>7, <3>1, <3>2 DEF Away, Leaving, Seen, Chosen, Pinned
    <2>9. CASE new \notin slots
      <3>1. new > running /\ v <= new
        BY <2>4, <2>5, <2>9
      <3>2. \E w \in {v, new} : slots' = {running, w} /\ new \in {running, w}
        <4> HIDE DEF new
        <4>1. \E w \in {v, new} : /\ Retain({running, v} \cup {new}) = {running, w}
                                  /\ v <= new => new \in {running, w}
          BY <2>5, RetainKeeps
        <4> QED
          BY <2>2, <2>4, <3>1, <4>1
      <3>3. NewOS' /\ NewerInstalled'
        BY <1>2, <2>2, <3>1, <3>2 DEF NewOS, NewerInstalled
      <3> QED
        BY <1>2, <2>2, <2>5, <3>3 DEF Away, Leaving, Seen, Chosen, Pinned
    <2> QED
      BY <2>8, <2>9
  <1> QED
    BY <1>3, <1>4

LEMMA LeavingUpdateStep ==
  ASSUME Away, NEW c \in Callers, UpdateStep(c) PROVE Leaving'
  <1>1. CASE Reply(c) /\ ~ApplyUpdate(c)
    BY <1>1, ReplyLeaving DEF UpdateStep, BuildPlan, Classify, Merge, Finish, ExecReboot, node
  <1>2. CASE ~Reply(c) /\ ~ApplyUpdate(c)
    <2>1. /\ pc'[c] \in {"plan", "apply", "reboot"}
          /\ \A d \in Callers \ {c} : pc'[d] = pc[d]
      BY <1>2 DEF UpdateStep, BuildPlan, Classify, Merge, Finish, ExecReboot, Goto, Away, Justified, Typed, TypeOK
    <2>2. \A d \in Callers \ {c} : call'[d] = call[d]
      BY <1>2 DEF UpdateStep, BuildPlan, Classify, Merge, Finish, ExecReboot, Away, Justified, Typed, TypeOK
    <2>3. UNCHANGED <<published, image, slots, running, oneshot, away>>
      BY <1>2 DEF UpdateStep, BuildPlan, Classify, Merge, Finish, ExecReboot, node
    <2> QED
      BY <2>1, <2>2, <2>3, LeavingKept DEF Seen, Chosen
  <1> QED
    BY <1>1, <1>2, LeavingApply

LEMMA LeavingRollbackStep ==
  ASSUME Away, NEW c \in Callers, RollbackStep(c) PROVE Leaving'
  <1> DEFINE p == call[c]
  <1>0. p \in Call
    BY DEF Away, Justified, Typed, TypeOK
  <1>1. CASE ReadEFISlots(c)
    <2>1. call' = [call EXCEPT ![c].listing = slots] /\ Goto(c, "pick") /\ UNCHANGED <<node, away>>
      BY <1>1 DEF ReadEFISlots
    <2>2. /\ pc'[c] = "pick" /\ call'[c].listing = slots
          /\ \A d \in Callers \ {c} : pc'[d] = pc[d] /\ call'[d] = call[d]
      BY <1>0, <2>1 DEF Goto, Away, Justified, Typed, TypeOK, Call
    <2> QED
      BY <2>1, <2>2, LeavingKept DEF node, Seen, Chosen
  <1>2. CASE PreviousSlot(c)
    <2>1. CASE Reply(c)
      BY <1>2, <2>1, ReplyLeaving DEF PreviousSlot, node
    <2>2. CASE ~Reply(c)
      <3>1. PICK v \in Candidates(p.listing, installedVersion) :
              Goto(c, "pin") /\ call' = [call EXCEPT ![c].prev = v, ![c].listing = {}]
        BY <1>2, <2>2 DEF PreviousSlot
      <3>2. /\ pc'[c] = "pin" /\ call'[c].prev = v
            /\ \A d \in Callers \ {c} : pc'[d] = pc[d] /\ call'[d] = call[d]
        BY <1>0, <3>1 DEF Goto, Away, Justified, Typed, TypeOK, Call
      <3>3. UNCHANGED <<node, away>> /\ pc[c] = "pick"
        BY <1>2 DEF PreviousSlot
      <3>4. PICK w \in Nat : slots = {running, w}
        BY AwayNumbers
      <3>5. running \in Nat /\ running # 0 /\ image["os"] \in Nat
            /\ (image["os"] # 0 => running <= image["os"])
        BY AwayNumbers DEF Away, Justified, Ordered
      <3>6. CASE NewOS
        BY <3>2, <3>3, <3>6, LeavingKept DEF node, Seen, Chosen, NewOS
      <3>7. CASE ~NewOS
        <4>1. p.listing = {running, w}
          BY <3>3, <3>4, <3>7 DEF Away, Leaving, Seen
        <4>2. /\ v \in {running, w}
              /\ image["os"] = running => v # running
              /\ image["os"] = 0 /\ v = running => w > running
          BY <3>1, <3>4, <3>5, <4>1, PickLeaves DEF installedVersion
        <4>3. image["os"] = 0 \/ image["os"] = running
          BY <3>5, <3>7 DEF NewOS
        <4>4. (v \in slots /\ v # running) \/ (image["os"] = 0 /\ NewerInstalled)
          <5>1. v \in slots
            BY <3>4, <4>2
          <5>2. CASE v # running
            BY <5>1, <5>2
          <5>3. CASE v = running
            <6>1. image["os"] = 0 /\ w > running /\ w \in slots
              BY <3>4, <4>2, <4>3, <5>3
            <6> QED
              BY <6>1 DEF NewerInstalled
          <5> QED
            BY <5>2, <5>3
        <4>5. Chosen(c)'
          BY <3>2, <3>3, <4>4 DEF node, Chosen, NewerInstalled
        <4> QED
          BY <3>2, <3>3, <4>5, LeavingKept DEF node, Seen
      <3> QED
        BY <3>6, <3>7
    <2> QED
      BY <2>1, <2>2
  <1>3. CASE SetOneshot(c)
    <2>1. /\ oneshot' = p.prev /\ away' = (image["os"] = running) /\ pc[c] = "pin"
          /\ UNCHANGED <<published, image, slots, running>>
      BY <1>3 DEF SetOneshot
    <2>2. /\ pc'[c] \in {"idle", "reboot"}
          /\ \A d \in Callers \ {c} : pc'[d] = pc[d] /\ call'[d] = call[d]
      <3>1. CASE Reply(c)
        BY <3>1, ReplyTyped DEF Away, Justified
      <3>2. CASE ~Reply(c)
        BY <1>3, <3>2 DEF SetOneshot, Goto, Away, Justified, Typed, TypeOK
      <3> QED
        BY <3>1, <3>2
    <2>3. ASSUME away' PROVE oneshot' # running /\ oneshot' \in slots
      <3>1. image["os"] = running
        BY <2>1, <2>3
      <3>2. image["os"] # 0 /\ ~NewOS
        BY <3>1, AwayNumbers DEF NewOS
      <3> QED
        BY <2>1, <3>2 DEF Away, Leaving, Chosen
    <2>4. Pinned'
      BY <2>1, <2>3 DEF Pinned
    <2>5. \A d \in Callers : Seen(d)' /\ Chosen(d)'
      BY <2>1, <2>2 DEF Away, Leaving, Seen, Chosen, NewOS, NewerInstalled
    <2> QED
      BY <2>1, <2>4, <2>5 DEF Away, Leaving
  <1> QED
    BY <1>1, <1>2, <1>3 DEF RollbackStep

LEMMA AwayNext == Away /\ [Next]_vars => Away'
  <1> SUFFICES ASSUME Away, [Next]_vars PROVE Leaving'
    BY JustifiedNext DEF Away
  <1>1. ASSUME NEW c \in Callers, CallFails(c) PROVE Leaving'
    BY <1>1, ReplyLeaving DEF CallFails, node
  <1>2. ASSUME NEW n \in Names, Publish(n) PROVE Leaving'
    <2>1. published'["os"] \in {published["os"], published["os"] + 1}
      BY <1>2, NamesAre DEF Publish, Away, Justified, Typed, TypeOK
    <2>2. image'["os"] <= published'["os"]
      BY <1>2, <2>1, AwayNumbers DEF Publish, Away, Leaving
    <2> QED
      BY <1>2, <2>2 DEF Publish, Away, Leaving, Seen, Chosen, Pinned, NewOS, NewerInstalled
  <1>3. CASE Unmerge \/ RebootByOther \/ UNCHANGED vars
    <2>1. UNCHANGED <<published, image, slots, running, oneshot, pc, call, away>>
      BY <1>3 DEF Unmerge, RebootByOther, vars, node
    <2> QED
      BY <2>1 DEF Away, Leaving, Seen, Chosen, Pinned, NewOS, NewerInstalled
  <1>4. CASE Boot
    <2>1. /\ \A c \in Callers : pc'[c] = "idle"
          /\ away' = FALSE /\ UNCHANGED <<published, image>>
      BY <1>4 DEF Boot
    <2> QED
      BY <2>1 DEF Away, Leaving, Seen, Chosen, Pinned
  <1> QED
    BY <1>1, <1>2, <1>3, <1>4, LeavingUpdate, LeavingUpdateStep, LeavingRollbackStep DEF Next

\* upgrade.go:256-281: whatever updates, releases and other rollbacks come between the
\* rollback and the reboot, a node that ran what it had installed comes up in another
\* version, unless a boot entry fails.
THEOREM RollbackCorrect == Spec => RollbackLeaves
  <1> DEFINE Leaves == away /\ halting /\ ~halting' /\ faults' = faults => running' # running
  <1>1. Away /\ [Next]_vars => [Leaves]_vars
    <2> SUFFICES ASSUME Away, Next, away, halting, ~halting', faults' = faults
                 PROVE  running' # running
      OBVIOUS
    <2>1. Boot
      BY DEF Next, newUpdateCmd, newRollbackCmd, Update, Rollback, UpdateStep, RollbackStep, BuildPlan,
             Classify, ApplyUpdate, Merge, Finish, ExecReboot, CallFails, ReadEFISlots, PreviousSlot,
             SetOneshot, Publish, Unmerge, RebootByOther, node
    <2>2. ~Faulty
      BY DEF Faulty, Away, Justified, Typed, TypeOK
    <2>3. running' = BootEntry
      BY <2>1, <2>2 DEF Boot
    <2>4. CASE oneshot \in slots
      BY <2>3, <2>4 DEF BootEntry, Away, Leaving, Pinned
    <2>5. CASE oneshot \notin slots
      <3>1. PICK v \in Nat : slots = {running, v}
        BY AwayNumbers
      <3>2. running \in Nat /\ v > running
        BY <2>5, <3>1, AwayNumbers DEF Away, Leaving, Pinned, NewerInstalled
      <3>3. NewestOf(slots) = v
        BY <3>1, <3>2, NewestIs
      <3> QED
        BY <2>3, <2>5, <3>2, <3>3 DEF BootEntry
    <2> QED
      BY <2>4, <2>5
  <1>2. Init => Away
    BY JustifiedInit, LeavingInit DEF Away
  <1> QED
    BY <1>1, <1>2, AwayNext, PTL DEF Spec, RollbackLeaves
=============================================================================
