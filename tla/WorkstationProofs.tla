-------------------------- MODULE WorkstationProofs --------------------------
(***************************************************************************)
(* What apxctl promises on the operator's machine, for any number of nodes, *)
(* of runs of gen config and kubeconfig, and of failures.                   *)
(***************************************************************************)
EXTENDS Workstation, TLAPS

-----------------------------------------------------------------------------
(* Types *)

Entry == [name : Nodes \cup Own \cup {Loopback, K0s}, to : Nodes \cup Own]
Doc == [entries : SUBSET Entry, current : Nodes \cup Own \cup {Loopback, K0s, None}]
RunType ==
    [pc : {"idle", "temp", "new", "ca", "crt", "key", "call", "read", "write", "done"},
     file : BOOLEAN, flag : Nodes \cup {None}, bundle : BOOLEAN,
     host : Nodes \cup {Loopback, None}, set : Int, lost : BOOLEAN, ca : Int, crt : Int,
     read : SUBSET Entry]

Types ==
    /\ made \in Seq(Nodes) /\ Last <= MaxGens
    /\ dir \in [Files -> 0..Last]
    /\ gen \in [left : SUBSET Files, exit : {"none", "running", "ok", "error"}]
    /\ installed \in [Nodes -> 0..Last]
    /\ kube \in Doc /\ run \in [Runs -> RunType]
    /\ faults \in 0..MaxFaults

LEMMA IdleTyped == Idle \in RunType /\ Done \in RunType /\ OwnDoc \in Doc
  <1>1. OwnDoc \in Doc
    BY DEF OwnDoc, Doc, Entry
  <1>2. Idle \in RunType
    BY DEF Idle, RunType
  <1>3. Done \in RunType
    BY <1>2 DEF Done, RunType
  <1> QED
    BY <1>1, <1>2, <1>3

LEMMA TypesInit == Init => Types
  BY IdleTyped, WorkstationAssumption
     DEF Init, Types, WorkstationAssumption, Files, Last

LEMMA TargetTyped ==
  ASSUME NEW o \in RunType, o.host \in Nodes
  PROVE  Target(o) \in Doc
  <1>1. mergeName(o) \in Nodes \cup {Loopback}
    BY DEF mergeName, RunType
  <1>2. [name |-> mergeName(o), to |-> o.host] \in Entry
    BY <1>1 DEF Entry
  <1>3. o.read \subseteq Entry
    BY DEF RunType
  <1>4. CASE o.file
    BY <1>4 DEF Target, Doc, Entry
  <1>5. CASE ~o.file
    BY <1>1, <1>2, <1>3, <1>5 DEF Target, MergeKubeconfig, ReplaceNamed, Doc
  <1> QED
    BY <1>4, <1>5

-----------------------------------------------------------------------------
(* gen config *)

\* What is not left to write was written by the last run, and a run that ended has
\* nothing left.
Written ==
    /\ gen.exit # "running" => gen.left = {}
    /\ gen.exit \in {"running", "ok"} => \A f \in Files \ gen.left : dir[f] = Last

-----------------------------------------------------------------------------
(* apxctl kubeconfig *)

Placed(o) ==
    /\ o.pc \in {"idle", "done"} => o \in {Idle, Done}
    /\ o.pc \notin {"idle", "done"} => o.host \in Nodes \cup {Loopback}
    /\ o.pc \in {"read", "write"} => o.host \in Nodes
    /\ o.file => o.pc = "write"

\* A run whose identity is of one run of gen config has read what is of that run. Without
\* a bundle that run ended well and was the last, which is over with the next one.
Whole(o) == o.set > 0 /\ (o.bundle \/ o.set = Last) /\ ~o.lost
Sourced(o) ==
    /\ o.set \in 0..Last
    /\ o.pc \in {"temp", "new"} => o.bundle
    /\ o.pc \in Identity => ~o.bundle
    /\ Whole(o) /\ o.pc \in {"crt", "key", "call"} => o.ca = o.set
    /\ Whole(o) /\ o.pc \in {"key", "call"} => o.crt = o.set
    /\ Whole(o) /\ o.pc \in Identity => gen.exit = "ok"

OneOfAName(es) == \A x, y \in es : x.name = y.name => x = y
WholeDoc(d) == /\ OneOfAName(d.entries)
               /\ d.current \in Names(d) \cup (IF d.entries = {} THEN {None} ELSE {})

RunInv == \A r \in Runs : Placed(run[r]) /\ Sourced(run[r]) /\ OneOfAName(run[r].read)

IInv == Types /\ Written /\ RunInv /\ WholeDoc(kube)

LEMMA IInvInit == Init => IInv
  <1> SUFFICES ASSUME Init PROVE IInv
    OBVIOUS
  <1>1. Types
    BY TypesInit
  <1>2. Written
    BY DEF Init, Written
  <1>3. RunInv
    BY DEF Init, RunInv, Placed, Sourced, Whole, OneOfAName, Idle, Last, Identity
  <1>4. WholeDoc(kube)
    <2>1. CASE Own = {}
      BY <2>1 DEF Init, WholeDoc, OneOfAName, OwnDoc, Names
    <2>2. CASE Own # {}
      <3> DEFINE c == CHOOSE x \in Own : TRUE
      <3>1. c \in Own /\ kube.current = c
        BY <2>2 DEF Init, OwnDoc
      <3>2. kube.entries = {[name |-> x, to |-> x] : x \in Own}
        BY DEF Init, OwnDoc
      <3> HIDE DEF c
      <3>3. [name |-> c, to |-> c] \in kube.entries /\ [name |-> c, to |-> c].name = c
        BY <3>1, <3>2
      <3>4. kube.current \in Names(kube)
        BY <3>1, <3>3, Zenon DEF Names
      <3>5. OneOfAName(kube.entries)
        BY <3>2 DEF OneOfAName
      <3> QED
        BY <3>4, <3>5 DEF WholeDoc
    <2> QED
      BY <2>1, <2>2
  <1> QED
    BY <1>1, <1>2, <1>3, <1>4 DEF IInv

LEMMA RunUpdated ==
  ASSUME NEW o \in RunType, NEW es \in SUBSET Entry, NEW file \in BOOLEAN
  PROVE  [o EXCEPT !.pc = "write", !.file = file, !.read = es] \in RunType
  <1>1. [o EXCEPT !.pc = "write", !.file = file] \in RunType
    BY DEF RunType
  <1>2. ASSUME NEW q \in RunType PROVE [q EXCEPT !.read = es] \in RunType
    BY DEF RunType
  <1>3. [o EXCEPT !.pc = "write", !.file = file, !.read = es]
           = [[o EXCEPT !.pc = "write", !.file = file] EXCEPT !.read = es]
    OBVIOUS
  <1> QED
    BY <1>1, <1>2, <1>3

LEMMA BundleTyped ==
  ASSUME NEW g \in Int, made[g] \in Nodes PROVE FromBundle(g) \in RunType
  <1>1. ASSUME NEW q \in RunType
        PROVE  [q EXCEPT !.pc = "temp", !.bundle = TRUE] \in RunType
    BY DEF RunType
  <1>2. ASSUME NEW q \in RunType PROVE [q EXCEPT !.host = made[g], !.set = g] \in RunType
    BY DEF RunType
  <1>3. FromBundle(g) =
          [[Idle EXCEPT !.pc = "temp", !.bundle = TRUE] EXCEPT !.host = made[g], !.set = g]
    BY DEF FromBundle
  <1> QED
    BY <1>1, <1>2, <1>3, IdleTyped

LEMMA FlagsTyped ==
  ASSUME NEW e \in Nodes \cup {None}, Last \in Int
  PROVE  FromFlags(e) \in RunType
  BY IdleTyped DEF FromFlags, Idle, RunType

\* What the two ways of reading the identity do to a run.
LEMMA ReadTyped ==
  ASSUME NEW o \in RunType, dir \in [Files -> 0..Last], Last \in Nat
  PROVE  /\ \A f \in Identity : Source(o, f) \in Int
         /\ o.pc \in Identity => FileRead(o) \in RunType
         /\ AllRead(o) \in RunType
  <1>1. \A f \in Identity : Source(o, f) \in Int
    BY DEF Source, Identity, Files, RunType
  <1>2. ASSUME NEW q \in RunType, NEW g \in Int
        PROVE  /\ [q EXCEPT !.ca = g, !.pc = "crt"] \in RunType
               /\ [q EXCEPT !.crt = g, !.pc = "key"] \in RunType
               /\ [q EXCEPT !.pc = "call"] \in RunType
    BY DEF RunType
  <1>3. o.pc \in Identity => FileRead(o) \in RunType
    BY <1>1, <1>2 DEF FileRead, Identity
  <1>4. AllRead(o) \in RunType
    <2>1. ASSUME NEW q \in RunType, NEW g \in Int, NEW k \in Int
          PROVE  [q EXCEPT !.ca = g, !.crt = k, !.pc = "call"] \in RunType
      BY DEF RunType
    <2> QED
      BY <1>1, <2>1 DEF AllRead, Identity
  <1> QED
    BY <1>1, <1>3, <1>4

LEMMA TypesNext == IInv /\ [Next]_vars => Types'
  <1> SUFFICES ASSUME IInv, [Next]_vars PROVE Types'
    OBVIOUS
  <1> USE WorkstationAssumption DEF WorkstationAssumption
  <1>0. Types /\ Last \in Nat /\ Last' = Len(made')
    BY DEF IInv, Types, Last
  <1>1. ASSUME NEW n \in Nodes, GenerateCluster(n) PROVE Types'
    <2>1. made' \in Seq(Nodes) /\ Last' = Last + 1 /\ Last' <= MaxGens
      BY <1>0, <1>1 DEF GenerateCluster, Types, Last
    <2>2. dir' \in [Files -> 0..Last'] /\ installed' \in [Nodes -> 0..Last']
      BY <1>0, <1>1, <2>1 DEF GenerateCluster, Types
    <2> QED
      BY <1>0, <1>1, <2>1, <2>2 DEF GenerateCluster, Types
  <1>2. ASSUME NEW n \in Nodes, ApplyConfig(n) PROVE Types'
    BY <1>0, <1>2 DEF ApplyConfig, Types, Last, Files
  <1>3. ASSUME NEW f \in Files, WriteArtifact(f) PROVE Types'
    BY <1>0, <1>3 DEF WriteArtifact, Types, Last
  <1>4. ASSUME NEW f \in Files, ArtifactFails(f) PROVE Types'
    <2>1. Last' = Last /\ Last \in Nat /\ dir \in [Files -> 0..Last]
      BY <1>0, <1>4 DEF ArtifactFails, Types, Last
    <2>2. dir' \in [Files -> 0..Last]
      BY <1>4, <2>1 DEF ArtifactFails
    <2> QED
      BY <1>0, <1>4, <2>1, <2>2 DEF ArtifactFails, Faulty, Types
  <1>5. ASSUME NEW r \in Runs, NEW e \in Nodes \cup {None}, resolvedOptions(r, e) PROVE Types'
    <2>1. FromFlags(e) \in RunType
      BY <1>0, FlagsTyped
    <2>2. ASSUME dir["bundle"] > 0 PROVE FromBundle(dir["bundle"]) \in RunType
      <3>1. dir["bundle"] \in 1..Len(made)
        BY <1>0, <2>2 DEF Types, Last, Files
      <3>2. made[dir["bundle"]] \in Nodes
        BY <1>0, <3>1 DEF Types
      <3> QED
        BY <3>1, <3>2, BundleTyped
    <2>3. run' \in [Runs -> RunType]
      BY <1>0, <1>5, <2>1, <2>2 DEF resolvedOptions, Types
    <2> QED
      BY <1>0, <1>5, <2>3 DEF resolvedOptions, Types, Last
  <1>6. ASSUME NEW r \in Runs, tlsCredentials(r) PROVE Types'
    <2>1. run[r] \in RunType /\ Done \in RunType /\ dir \in [Files -> 0..Last]
      BY <1>0, IdleTyped DEF Types
    <2>2. run' \in [Runs -> RunType]
      <3>1. CASE run' = [run EXCEPT ![r] = Done]
        BY <1>0, <2>1, <3>1 DEF Types
      <3>2. CASE run[r].pc \in Identity /\ run' = [run EXCEPT ![r] = FileRead(run[r])]
        BY <1>0, <2>1, <3>2, ReadTyped DEF Types
      <3>3. CASE run' = [run EXCEPT ![r] = AllRead(run[r])]
        BY <1>0, <2>1, <3>3, ReadTyped DEF Types
      <3> QED
        BY <1>6, <3>1, <3>2, <3>3 DEF tlsCredentials, Reads, Ends
    <2> QED
      BY <1>0, <1>6, <2>2 DEF tlsCredentials, Reads, Ends, Types, Last
  <1>7. ASSUME NEW r \in Runs, Kubeconfig(r) PROVE Types'
    <2>1. run[r] \in RunType
      BY <1>0 DEF Types
    <2>2. ASSUME NEW e \in Flags(run[r]) PROVE Answered(run[r], e) \in RunType
      <3>1. e \in Nodes \cup {None} /\ run[r].host \in Nodes \cup {Loopback, None}
        BY <2>1 DEF Flags, RunType
      <3>2. ASSUME NEW q \in RunType
            PROVE  [q EXCEPT !.pc = "read", !.flag = e, !.host = run[r].host] \in RunType
        BY <3>1 DEF RunType
      <3> QED
        BY <3>2, IdleTyped DEF Answered
    <2>3. run' \in [Runs -> RunType]
      BY <1>0, <1>7, <2>2, IdleTyped DEF Kubeconfig, Ends, Types
    <2> QED
      BY <1>0, <1>7, <2>3 DEF Kubeconfig, Ends, Types, Last
  <1>8. ASSUME NEW r \in Runs, NEW file \in BOOLEAN, ReadTarget(r, file) PROVE Types'
    <2>1. run' \in [Runs -> RunType]
      <3>1. [run[r] EXCEPT !.pc = "write", !.file = file, !.read = kube.entries] \in RunType
        BY <1>0, RunUpdated DEF Types, Doc
      <3> QED
        BY <1>0, <1>8, <3>1 DEF ReadTarget, Types
    <2> QED
      BY <1>0, <1>8, <2>1 DEF ReadTarget, Types, Last
  <1>9. ASSUME NEW r \in Runs, writeTempIdentity(r) PROVE Types'
    <2>1. PICK lost \in BOOLEAN :
            /\ IF lost THEN Faulty ELSE UNCHANGED faults
            /\ run' = [run EXCEPT ![r] = [run[r] EXCEPT !.pc = "new", !.lost = lost]]
      BY <1>9 DEF writeTempIdentity
    <2>2. ASSUME NEW q \in RunType PROVE [q EXCEPT !.pc = "new", !.lost = lost] \in RunType
      BY DEF RunType
    <2>3. run' \in [Runs -> RunType]
      BY <1>0, <2>1, <2>2 DEF Types
    <2>4. faults' \in 0..MaxFaults
      BY <1>0, <2>1 DEF Faulty, Types
    <2> QED
      BY <1>0, <1>9, <2>3, <2>4 DEF writeTempIdentity, Types, Last
  <1>10. ASSUME NEW r \in Runs, Rename(r) PROVE Types'
    <2>1. run' \in [Runs -> RunType]
      BY <1>0, <1>10, IdleTyped DEF Rename, Types
    <2>2. run[r] \in RunType /\ run[r].host \in Nodes
      BY <1>0, <1>10 DEF Rename, Types, IInv, RunInv, Placed
    <2>3. kube' \in Doc
      BY <1>10, <2>2, TargetTyped DEF Rename
    <2> QED
      BY <1>0, <1>10, <2>1, <2>3 DEF Rename, Types, Last
  <1>11. ASSUME NEW r \in Runs, RunFails(r) PROVE Types'
    <2>1. run' \in [Runs -> RunType]
      BY <1>0, <1>11, IdleTyped DEF RunFails, Ends, Types
    <2> QED
      BY <1>0, <1>11, <2>1 DEF RunFails, Ends, Faulty, Types, Last
  <1>12. CASE UNCHANGED vars
    BY <1>0, <1>12 DEF vars, Types, Last
  <1> QED
    BY <1>1, <1>2, <1>3, <1>4, <1>5, <1>6, <1>7, <1>8, <1>9, <1>10, <1>11, <1>12 DEF Next

LEMMA WrittenNext == IInv /\ [Next]_vars => Written'
  <1> SUFFICES ASSUME IInv, [Next]_vars PROVE Written'
    OBVIOUS
  <1>0. Types /\ Written
    BY DEF IInv
  <1>1. ASSUME NEW n \in Nodes, GenerateCluster(n) PROVE Written'
    BY <1>0, <1>1 DEF GenerateCluster, Written
  <1>2. ASSUME NEW f \in Files, WriteArtifact(f) PROVE Written'
    <2>1. Last' = Last /\ gen.exit = "running"
      BY <1>0, <1>2 DEF WriteArtifact, Written, Last
    <2>2. gen' = [left |-> gen.left \ {f}, exit |-> IF gen.left = {f} THEN "ok" ELSE "running"]
      BY <1>2 DEF WriteArtifact
    <2>3. gen'.exit # "running" => gen'.left = {}
      BY <1>2, <2>2 DEF WriteArtifact
    <2>4. \A g \in Files \ gen'.left : dir'[g] = Last'
      BY <1>0, <1>2, <2>1, <2>2 DEF WriteArtifact, Written, Types
    <2> QED
      BY <2>3, <2>4 DEF Written
  <1>3. ASSUME NEW f \in Files, ArtifactFails(f) PROVE Written'
    BY <1>3 DEF ArtifactFails, Written
  <1>4. CASE UNCHANGED <<made, dir, gen>>
    BY <1>0, <1>4 DEF Written, Last
  <1> QED
    BY <1>1, <1>2, <1>3, <1>4
       DEF Next, vars, ApplyConfig, resolvedOptions, writeTempIdentity, ReadTarget,
           tlsCredentials, Reads, Kubeconfig, Rename, RunFails, Ends

\* What RunInv says of one run.
Sound(o) == Placed(o) /\ Sourced(o) /\ OneOfAName(o.read)

LEMMA IdleSound == Last \in Nat => Sound(Idle) /\ Sound(Done)
  <1> SUFFICES ASSUME Last \in Nat PROVE Sound(Idle) /\ Sound(Done)
    OBVIOUS
  <1>1. Idle.pc = "idle" /\ ~Idle.file /\ Idle.set = 0 /\ Idle.read = {}
    BY DEF Idle
  <1>2. Done.pc = "done" /\ ~Done.file /\ Done.set = 0 /\ Done.read = {}
    BY <1>1, IdleTyped DEF Done, RunType
  <1> QED
    BY <1>1, <1>2 DEF Sound, Placed, Sourced, Whole, OneOfAName, Identity

\* A step of one run keeps RunInv if the run's new record is sound.
LEMMA OneRun ==
  ASSUME IInv, Types', made' = made, gen' = gen, NEW r \in Runs, NEW o, Sound(o),
         run' = [run EXCEPT ![r] = o]
  PROVE  RunInv'
  <1>1. run \in [Runs -> RunType]
    BY DEF IInv, Types
  <1>2. \A q \in Runs : run'[q] = IF q = r THEN o ELSE run[q]
    BY <1>1
  <1>3. Last' = Last
    BY DEF Last
  <1> QED
    BY <1>2, <1>3 DEF IInv, RunInv, Sound, Placed, Sourced, Whole, OneOfAName

LEMMA FlagsSound ==
  ASSUME NEW e \in Nodes \cup {None}, Last \in Nat PROVE Sound(FromFlags(e))
  <1> DEFINE o == FromFlags(e)
  <1>1. o.pc = "ca" /\ ~o.file /\ ~o.bundle /\ o.host \in Nodes \cup {Loopback} /\ o.read = {}
    BY DEF FromFlags, Idle
  <1>2. o.set = IF gen.exit = "ok" THEN Last ELSE 0
    BY DEF FromFlags, Idle
  <1> HIDE DEF o
  <1>3. Sourced(o)
    BY <1>1, <1>2 DEF Sourced, Whole
  <1> QED
    BY <1>1, <1>3 DEF Sound, Placed, OneOfAName, o

LEMMA BundleSound ==
  ASSUME NEW g \in 1..Last, made[g] \in Nodes, Last \in Nat PROVE Sound(FromBundle(g))
  <1> DEFINE o == FromBundle(g)
  <1>1. o.pc = "temp" /\ ~o.file /\ o.bundle /\ o.read = {} /\ o.host = made[g] /\ o.set = g
    BY DEF FromBundle, Idle
  <1> QED
    BY <1>1 DEF Sound, Placed, Sourced, OneOfAName, Identity

\* Where gen config ended well and none began since, every file is the last run's.
LEMMA DirWhole ==
  ASSUME IInv, gen.exit = "ok" PROVE \A f \in Files : dir[f] = Last
  BY DEF IInv, Written

LEMMA FileReadSound ==
  ASSUME IInv, NEW r \in Runs, run[r].pc \in Identity
  PROVE  Sound(FileRead(run[r]))
  <1> DEFINE q == run[r]
             o == FileRead(q)
  <1>1. q \in RunType /\ Sound(q) /\ ~q.bundle
    BY DEF IInv, Types, RunInv, Sound, Sourced
  <1>2. Whole(q) => dir["ca"] = q.set /\ dir["crt"] = q.set /\ gen.exit = "ok"
    BY <1>1, DirWhole DEF Sound, Sourced, Whole, Files
  <1>3. /\ o.host = q.host /\ o.file = q.file /\ o.bundle = q.bundle /\ o.read = q.read
        /\ o.set = q.set /\ o.lost = q.lost
        /\ o.pc = IF q.pc = "ca" THEN "crt" ELSE IF q.pc = "crt" THEN "key" ELSE "call"
        /\ o.ca = IF q.pc = "ca" THEN dir["ca"] ELSE q.ca
        /\ o.crt = IF q.pc = "crt" THEN dir["crt"] ELSE q.crt
    BY <1>1 DEF FileRead, RunType, Identity, Source
  <1> HIDE DEF o, q
  <1>4. q.pc \in Identity
    BY DEF q
  <1>5. Placed(o)
    BY <1>1, <1>3, <1>4 DEF Sound, Placed, Identity
  <1>6. Sourced(o)
    BY <1>1, <1>2, <1>3, <1>4 DEF Sound, Sourced, Whole, Identity
  <1>7. Sound(o)
    BY <1>1, <1>3, <1>5, <1>6 DEF Sound
  <1> QED
    BY <1>7 DEF o, q

LEMMA AllReadSound ==
  ASSUME IInv, NEW r \in Runs, run[r].pc = "new"
  PROVE  Sound(AllRead(run[r]))
  <1> DEFINE q == run[r]
             o == AllRead(q)
  <1>1. q \in RunType /\ Sound(q) /\ q.bundle
    BY DEF IInv, Types, RunInv, Sound, Sourced
  <1>2. /\ o.host = q.host /\ o.file = q.file /\ o.bundle = q.bundle /\ o.read = q.read
        /\ o.set = q.set /\ o.lost = q.lost /\ o.pc = "call"
    BY <1>1 DEF AllRead, RunType
  <1>3. Whole(q) => o.ca = q.set /\ o.crt = q.set
    BY <1>1 DEF AllRead, RunType, Source, Whole
  <1> HIDE DEF o, q
  <1>4. q.pc = "new"
    BY DEF q
  <1>5. Sound(o)
    BY <1>1, <1>2, <1>3, <1>4 DEF Sound, Placed, Sourced, Whole, Identity
  <1> QED
    BY <1>5 DEF o, q

LEMMA RunNext == IInv /\ Types' /\ [Next]_vars => RunInv'
  <1> SUFFICES ASSUME IInv, Types', [Next]_vars PROVE RunInv'
    OBVIOUS
  <1>0. Types /\ Last \in Nat /\ \A r \in Runs : Sound(run[r]) /\ run[r] \in RunType
    BY DEF IInv, RunInv, Sound, Types, Last
  <1>1. ASSUME NEW n \in Nodes, GenerateCluster(n) PROVE RunInv'
    <2>1. Last' = Last + 1 /\ run' = run /\ gen'.exit = "running"
      BY <1>0, <1>1 DEF GenerateCluster, Types, Last
    <2>2. ASSUME NEW r \in Runs PROVE Sourced(run[r])'
      <3>1. Sourced(run[r]) /\ run'[r] = run[r]
        BY <1>0, <2>1 DEF Sound
      <3> QED
        BY <1>0, <2>1, <3>1 DEF Sourced, Whole
    <2> QED
      BY <1>0, <2>1, <2>2 DEF RunInv, Sound, Placed, OneOfAName
  <1>2. ASSUME NEW r \in Runs, NEW e \in Nodes \cup {None}, resolvedOptions(r, e) PROVE RunInv'
    <2>1. CASE run' = [run EXCEPT ![r] = FromFlags(e)]
      BY <1>0, <1>2, <2>1, FlagsSound, OneRun DEF resolvedOptions
    <2>2. CASE dir["bundle"] > 0 /\ run' = [run EXCEPT ![r] = FromBundle(dir["bundle"])]
      <3>1. dir["bundle"] \in 1..Last /\ dir["bundle"] \in 1..Len(made)
        BY <1>0, <2>2 DEF Types, Last, Files
      <3>2. made[dir["bundle"]] \in Nodes
        BY <1>0, <3>1 DEF Types
      <3> QED
        BY <1>0, <1>2, <2>2, <3>1, <3>2, BundleSound, OneRun DEF resolvedOptions
    <2> QED
      BY <1>2, <2>1, <2>2 DEF resolvedOptions
  <1>3. ASSUME NEW r \in Runs, tlsCredentials(r) PROVE RunInv'
    <2>1. CASE run' = [run EXCEPT ![r] = Done]
      BY <1>0, <1>3, <2>1, IdleSound, OneRun DEF tlsCredentials, Reads, Ends
    <2>2. CASE run[r].pc \in Identity /\ run' = [run EXCEPT ![r] = FileRead(run[r])]
      BY <1>3, <2>2, FileReadSound, OneRun DEF tlsCredentials, Reads, Ends
    <2>3. CASE run[r].pc = "new" /\ run' = [run EXCEPT ![r] = AllRead(run[r])]
      BY <1>3, <2>3, AllReadSound, OneRun DEF tlsCredentials, Reads, Ends
    <2> QED
      BY <1>3, <2>1, <2>2, <2>3 DEF tlsCredentials, Reads, Ends
  <1>4. ASSUME NEW r \in Runs, Kubeconfig(r) PROVE RunInv'
    <2>1. ASSUME NEW e, Connects(run[r]), run' = [run EXCEPT ![r] = Answered(run[r], e)],
                 UNCHANGED <<made, gen>>
          PROVE  RunInv'
      <3> DEFINE o == Answered(run[r], e)
      <3>1. o.pc = "read" /\ o.host \in Nodes /\ ~o.file /\ o.set = 0 /\ o.read = {}
        BY <2>1 DEF Answered, Connects, Idle
      <3>2. Sound(o)
        BY <1>0, <3>1 DEF Sound, Placed, Sourced, Whole, OneOfAName, Identity
      <3> QED
        BY <1>0, <2>1, <3>2, OneRun
    <2> QED
      BY <1>0, <1>4, <2>1, IdleSound, OneRun DEF Kubeconfig, Ends
  <1>5. ASSUME NEW r \in Runs, NEW file \in BOOLEAN, ReadTarget(r, file) PROVE RunInv'
    <2> DEFINE o == [run[r] EXCEPT !.pc = "write", !.file = file, !.read = kube.entries]
    <2>1. o.pc = "write" /\ o.host = run[r].host /\ o.set = run[r].set /\ o.read = kube.entries
      BY <1>0 DEF RunType
    <2>2. run[r].pc = "read" /\ Sound(run[r]) /\ OneOfAName(kube.entries)
      BY <1>0, <1>5 DEF ReadTarget, IInv, WholeDoc
    <2>3. Sound(o)
      BY <2>1, <2>2 DEF Sound, Placed, Sourced, Identity
    <2> QED
      BY <1>5, <2>3, OneRun DEF ReadTarget
  <1>6. ASSUME NEW r \in Runs, writeTempIdentity(r) PROVE RunInv'
    <2>1. PICK lost \in BOOLEAN :
            run' = [run EXCEPT ![r] = [run[r] EXCEPT !.pc = "new", !.lost = lost]]
      BY <1>6 DEF writeTempIdentity
    <2> DEFINE o == [run[r] EXCEPT !.pc = "new", !.lost = lost]
    <2>2. /\ o.pc = "new" /\ o.host = run[r].host /\ o.file = run[r].file /\ o.set = run[r].set
          /\ o.bundle = run[r].bundle /\ o.read = run[r].read
      BY <1>0 DEF RunType
    <2>3. run[r].pc = "temp" /\ Sound(run[r])
      BY <1>0, <1>6 DEF writeTempIdentity
    <2>4. Sound(o)
      BY <2>2, <2>3 DEF Sound, Placed, Sourced, Identity
    <2> QED
      BY <1>6, <2>1, <2>4, OneRun DEF writeTempIdentity
  <1>7. ASSUME NEW r \in Runs, Rename(r) PROVE RunInv'
    BY <1>0, <1>7, IdleSound, OneRun DEF Rename
  <1>8. ASSUME NEW r \in Runs, RunFails(r) PROVE RunInv'
    BY <1>0, <1>8, IdleSound, OneRun DEF RunFails, Ends
  <1>9. CASE UNCHANGED <<made, run, gen>>
    BY <1>0, <1>9 DEF RunInv, Sound, Placed, Sourced, Whole, OneOfAName, Last
  <1>10. ASSUME NEW f \in Files, WriteArtifact(f) \/ ArtifactFails(f) PROVE RunInv'
    <2>1. gen.exit = "running" /\ UNCHANGED <<made, run>> /\ Last' = Last
      BY <1>10 DEF WriteArtifact, ArtifactFails, IInv, Written, Last
    <2>2. ASSUME NEW r \in Runs PROVE Sourced(run[r])'
      <3>1. Sourced(run[r]) /\ run'[r] = run[r]
        BY <1>0, <2>1 DEF Sound
      <3> QED
        BY <2>1, <3>1 DEF Sourced, Whole
    <2> QED
      BY <1>0, <2>1, <2>2 DEF RunInv, Sound, Placed, OneOfAName
  <1> QED
    BY <1>1, <1>2, <1>3, <1>4, <1>5, <1>6, <1>7, <1>8, <1>9, <1>10 DEF Next, vars, ApplyConfig

LEMMA WholeNext == IInv /\ [Next]_vars => WholeDoc(kube')
  <1> SUFFICES ASSUME IInv, [Next]_vars PROVE WholeDoc(kube')
    OBVIOUS
  <1>1. ASSUME NEW r \in Runs, Rename(r) PROVE WholeDoc(kube')
    <2> DEFINE o == run[r]
    <2>1. kube' = Target(o) /\ OneOfAName(o.read)
      BY <1>1 DEF Rename, IInv, RunInv
    <2>2. CASE o.file
      <3>1. kube'.entries = {[name |-> K0s, to |-> o.host]} /\ kube'.current = K0s
        BY <2>1, <2>2 DEF Target
      <3> QED
        BY <3>1 DEF WholeDoc, OneOfAName, Names
    <2>3. CASE ~o.file
      <3> DEFINE e == [name |-> mergeName(o), to |-> o.host]
      <3>1. kube'.entries = {x \in o.read : x.name # e.name} \cup {e}
            /\ kube'.current = e.name
        BY <2>1, <2>3 DEF Target, MergeKubeconfig, ReplaceNamed
      <3>2. e \in kube'.entries /\ kube'.current = e.name
        BY <3>1
      <3>3. kube'.current \in Names(kube')
        BY <3>2 DEF Names
      <3>4. OneOfAName(kube'.entries)
        BY <2>1, <3>1 DEF OneOfAName
      <3> QED
        BY <3>3, <3>4 DEF WholeDoc
    <2> QED
      BY <2>2, <2>3
  <1>2. CASE kube' = kube
    BY <1>2 DEF IInv
  <1> QED
    BY <1>1, <1>2
       DEF Next, vars, GenerateCluster, ApplyConfig, WriteArtifact, ArtifactFails,
           resolvedOptions, writeTempIdentity, tlsCredentials, Reads, Kubeconfig, ReadTarget,
           RunFails, Ends

LEMMA IInvNext == IInv /\ [Next]_vars => IInv'
  <1> SUFFICES ASSUME IInv, [Next]_vars PROVE IInv'
    OBVIOUS
  <1>1. Types' /\ Written' /\ RunInv'
    BY TypesNext, WrittenNext, RunNext
  <1>2. WholeDoc(kube)'
    BY WholeNext DEF WholeDoc, OneOfAName, Names
  <1> QED
    BY <1>1, <1>2 DEF IInv

-----------------------------------------------------------------------------
\* Every variable keeps its type; a run that has got as far as the kubeconfig dialled
\* a node (resolvedOptions, newKubeconfigCmd).
THEOREM TypeCorrect == Spec => []TypeOK
  <1>1. IInv => TypeOK
    <2> SUFFICES ASSUME IInv PROVE TypeOK
      OBVIOUS
    <2>1. made \in [1..Len(made) -> Nodes] /\ Len(made) \in 0..MaxGens
      BY WorkstationAssumption DEF IInv, Types, Last, WorkstationAssumption
    <2>2. made \in UNION {[1..n -> Nodes] : n \in 0..MaxGens}
      BY <2>1
    <2>3. ASSUME NEW r \in Runs
          PROVE  \/ run[r] \in {Idle, Done}
                 \/ /\ run[r].host \in Nodes \cup {Loopback}
                    /\ run[r].pc \in Identity \cup {"temp", "new", "call", "read", "write"}
                    /\ run[r].set \in 0..Last
                    /\ run[r].file => run[r].pc = "write"
      BY DEF IInv, Types, RunInv, Placed, Sourced, RunType, Identity
    <2> QED
      BY <2>2, <2>3 DEF IInv, Types, TypeOK
  <1> QED
    BY <1>1, IInvInit, IInvNext, PTL DEF Spec

\* gen.go:102-124: WriteArtifacts stops at the first error, so a run that ended well
\* wrote every file of its own.
THEOREM ArtifactsCorrect == Spec => []ArtifactsMatch
  <1>1. IInv => ArtifactsMatch
    BY DEF IInv, Written, ArtifactsMatch
  <1> QED
    BY <1>1, IInvInit, IInvNext, PTL DEF Spec

\* root.go:82-156, client.go:60-89: a run whose node has the config of the identity the
\* run set out with gets an answer, whatever gen config and other runs do meanwhile.
THEOREM ClientAnswered == Spec => NotTurnedAway
  <1>1. IInv /\ [Next]_vars =>
          [\A r \in Runs : LET o == run[r] IN
             Expected(o) /\ run'[r].pc = "done" /\ faults' = faults
               => o.pc = "call" /\ Connects(o)]_vars
    <2> SUFFICES ASSUME IInv, Next, NEW r \in Runs, Expected(run[r]),
                        run'[r].pc = "done", faults' = faults
                 PROVE  run[r].pc = "call" /\ Connects(run[r])
      OBVIOUS
    <2> DEFINE o == run[r]
    <2>1. o \in RunType /\ Sourced(o) /\ Whole(o) /\ Types /\ Last \in Nat
          /\ o.pc \in Identity \cup {"temp", "new", "call"}
      BY DEF IInv, Types, RunInv, Expected, Whole, Last
    <2>2. run'[r] # run[r]
      BY <2>1 DEF Identity
    <2>3. CASE o.pc = "call"
      BY <2>1, <2>3 DEF Expected, Sourced, Connects
    <2>4. CASE o.pc \in Identity /\ tlsCredentials(r)
      <3>1. Source(o, o.pc) = o.set
        BY <2>1, <2>4, DirWhole DEF Sourced, Whole, Source, Identity, Files
      <3>2. Usable(o, o.pc)
        BY <2>1, <2>4, <3>1 DEF Sourced, Usable, Whole
      <3>3. run' = [run EXCEPT ![r] = FileRead(o)]
        BY <2>4, <3>2 DEF tlsCredentials, Reads, Identity
      <3>4. FileRead(o).pc # "done"
        BY <2>1, <2>4 DEF FileRead, Identity, RunType
      <3> QED
        BY <2>1, <3>3, <3>4 DEF Types
    <2>5. CASE o.pc = "new" /\ tlsCredentials(r)
      <3>1. o.bundle /\ ~o.lost /\ o.set > 0
        BY <2>1, <2>5 DEF Sourced, Whole
      <3>2. \A f \in Identity : Source(o, f) = o.set
        BY <3>1 DEF Source
      <3>3. AllRead(o).bundle = o.bundle /\ AllRead(o).lost = o.lost /\ AllRead(o).set = o.set
            /\ AllRead(o).pc = "call" /\ AllRead(o).crt = o.set
        BY <2>1, <3>2 DEF AllRead, RunType, Identity
      <3>4. Usable(AllRead(o), "key")
        BY <3>1, <3>3 DEF Usable, Source
      <3>5. run' = [run EXCEPT ![r] = AllRead(o)]
        BY <2>5, <3>1, <3>2, <3>4 DEF tlsCredentials, Reads, Identity
      <3>6. run'[r] = AllRead(o)
        BY <3>5, <2>1 DEF Types
      <3>7. run'[r].pc = "call"
        BY <3>3, <3>6
      <3> QED
        BY <3>7
    <2>6. CASE o.pc = "temp" /\ writeTempIdentity(r)
      <3>1. PICK lost \in BOOLEAN :
              run' = [run EXCEPT ![r] = [run[r] EXCEPT !.pc = "new", !.lost = lost]]
        BY <2>6 DEF writeTempIdentity
      <3>2. run'[r].pc = "new"
        BY <2>1, <3>1 DEF Types, RunType
      <3> QED
        BY <3>2
    <2>7. ~RunFails(r)
      BY <2>1 DEF RunFails, Faulty, Types
    <2>8. o.pc = "call" \/ tlsCredentials(r) \/ writeTempIdentity(r)
      <3>1. \A q \in Runs : \A x : run' = [run EXCEPT ![q] = x] => q = r
        BY <2>1, <2>2 DEF Types
      <3>2. o.pc \notin {"idle", "read", "write"}
        BY <2>1 DEF Identity
      <3>3. PICK q \in Runs :
              \/ \E e \in Nodes \cup {None} : resolvedOptions(q, e)
              \/ \E file \in BOOLEAN : ReadTarget(q, file)
              \/ writeTempIdentity(q) \/ tlsCredentials(q) \/ Kubeconfig(q) \/ Rename(q)
              \/ RunFails(q)
        BY <2>2 DEF Next, GenerateCluster, ApplyConfig, WriteArtifact, ArtifactFails
      <3>4. q = r
        <4>1. \E x : run' = [run EXCEPT ![q] = x]
          BY <3>3
             DEF resolvedOptions, ReadTarget, writeTempIdentity, tlsCredentials, Reads,
                 Kubeconfig, Rename, RunFails, Ends
        <4> QED
          BY <3>1, <4>1
      <3> QED
        BY <2>7, <3>2, <3>3, <3>4 DEF resolvedOptions, ReadTarget, Kubeconfig, Rename
    <2> QED
      BY <2>1, <2>3, <2>4, <2>5, <2>6, <2>8 DEF tlsCredentials, writeTempIdentity
  <1> QED
    BY <1>1, IInvInit, IInvNext, PTL DEF Spec, NotTurnedAway

\* kubeconfig.go:107-127, kubeconfig_merge.go:65-76: the user's kubeconfig is whole
\* after any number of runs and interruptions.
THEOREM KubeconfigWhole == Spec => []KubeWhole
  <1>1. IInv => KubeWhole
    BY DEF IInv, WholeDoc, OneOfAName, KubeWhole
  <1> QED
    BY <1>1, IInvInit, IInvNext, PTL DEF Spec

\* kubeconfig_merge.go:26-63: an entry that a step removes had the name of the run that
\* renames, or was not yet there when that run read.
THEOREM NothingLost == Spec => MergesKeep
  <1>1. [Next]_vars => [\A x \in kube.entries \ kube'.entries :
                          \E r \in Runs : /\ Rename(r)
                                          /\ \/ x.name = mergeName(run[r]) \/ run[r].file
                                             \/ x \notin run[r].read]_vars
    <2> SUFFICES ASSUME Next, NEW x \in kube.entries \ kube'.entries
                 PROVE  \E r \in Runs : /\ Rename(r)
                                       /\ \/ x.name = mergeName(run[r]) \/ run[r].file
                                          \/ x \notin run[r].read
      OBVIOUS
    <2>1. kube' # kube
      OBVIOUS
    <2>2. PICK r \in Runs : Rename(r)
      BY <2>1 DEF Next, GenerateCluster, ApplyConfig, WriteArtifact, ArtifactFails,
                  resolvedOptions, writeTempIdentity, tlsCredentials, Reads, Kubeconfig,
                  ReadTarget, RunFails, Ends
    <2>3. CASE ~run[r].file
      <3>1. kube'.entries = {y \in run[r].read : y.name # mergeName(run[r])}
                              \cup {[name |-> mergeName(run[r]), to |-> run[r].host]}
        BY <2>2, <2>3 DEF Rename, Target, MergeKubeconfig, ReplaceNamed
      <3> QED
        BY <2>2, <3>1
    <2> QED
      BY <2>2, <2>3
  <1> QED
    BY <1>1, PTL DEF Spec, MergesKeep
=============================================================================
