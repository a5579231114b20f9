---------------------------- MODULE Workstation ----------------------------
(***************************************************************************)
(* apxctl on the operator's machine: gen config and its output directory   *)
(* (internal/config/gen.go), the choice of endpoint and identity           *)
(* (internal/cli/root.go, pkg/client), and kubeconfig --merge into the     *)
(* user's kubeconfig (internal/cli/kubeconfig.go, internal/machine/        *)
(* kubeconfig_merge.go).                                                   *)
(*                                                                         *)
(* Simplifications:                                                        *)
(*   - what gen config makes in one run (CA, server and admin identity,    *)
(*     machine config, bundle) is known by the number of the run, and the  *)
(*     number by the node it was made for; a file whose writing was cut    *)
(*     short is as good as none, and a reader that meets a file being      *)
(*     written is one of the runs that fail;                               *)
(*   - one gen config runs at a time;                                      *)
(*   - a bundle holds one context, as gen config writes it, and is used    *)
(*     with none of --ca, --cert and --key: any of them turns it off;      *)
(*   - Onboarding is the model of ApplyConfig: here a node in maintenance  *)
(*     mode takes the config, whichever node it was made for, and serves;  *)
(*   - a kubeconfig is the set of its entries (a cluster, a user and a     *)
(*     context of one name) and the current context; --file names the      *)
(*     user's kubeconfig as well, and what the node answers, which --file  *)
(*     writes as it is, is taken to be such a document.                    *)
(***************************************************************************)
EXTENDS Integers, Sequences

CONSTANTS
    Nodes,      \* hosts, as endpoints name them
    Loopback,   \* the host of the default endpoint, 127.0.0.1
    K0s,        \* the name k0s gives the one entry of its kubeconfig
    Own,        \* the names of the entries the user's kubeconfig has at first, if any
    None,
    Runs,       \* runs of apxctl kubeconfig
    MaxGens,    \* bound: runs of gen config
    MaxFaults   \* bound: failing writes, failing calls, interrupted runs

ASSUME WorkstationAssumption ==
    /\ {Loopback, None} \cap (Nodes \cup Own) = {} /\ K0s \notin Nodes
    /\ Loopback # K0s /\ K0s # None /\ None # Loopback
    /\ MaxGens \in Nat /\ MaxFaults \in Nat

VARIABLES
    made,       \* the node each run of gen config was for
    dir,        \* the output directory: what each file was made by, 0 if absent or torn
    gen,        \* gen config: the files it has left to write, and how the last one ended
    installed,  \* what each node serves with, 0 in maintenance mode
    kube,       \* the user's kubeconfig
    run,        \* the runs of apxctl kubeconfig
    faults

vars == <<made, dir, gen, installed, kube, run, faults>>

-----------------------------------------------------------------------------
Files == {"apxconfig", "bundle", "ca", "crt", "key"}
Faulty == faults < MaxFaults /\ faults' = faults + 1
Names(d) == {e.name : e \in d.entries}
OwnDoc == [entries |-> {[name |-> x, to |-> x] : x \in Own},
           current |-> IF Own = {} THEN None ELSE CHOOSE x \in Own : TRUE]
\* A run before its options are known: neither bundle nor --endpoint. "set" is the
\* run of gen config its bundle is of; without a bundle it is history, the run that all
\* files were of when it set out, if they were of one. "lost" says that a file of the
\* identity could not be copied from the bundle.
Idle == [pc |-> "idle", file |-> FALSE, flag |-> None, bundle |-> FALSE, host |-> None,
         set |-> 0, lost |-> FALSE, ca |-> 0, crt |-> 0, read |-> {}]

Init == /\ made = <<>> /\ dir = [f \in Files |-> 0]
        /\ gen = [left |-> {}, exit |-> "none"]
        /\ installed = [n \in Nodes |-> 0] /\ kube = OwnDoc
        /\ run = [r \in Runs |-> Idle] /\ faults = 0

-----------------------------------------------------------------------------
\* gen config: everything is made in memory first; the files then follow in the order
\* in which a Go map is ranged over, each truncated and written.
\* createCA: every run draws a CA of its own, which the run's number stands for.
Last == Len(made)
GenerateCluster(n) ==
    /\ Last < MaxGens /\ gen.exit # "running" /\ made' = Append(made, n)
    /\ gen' = [left |-> Files, exit |-> "running"]
    /\ UNCHANGED <<dir, installed, kube, run, faults>>

WriteArtifact(f) ==
    /\ f \in gen.left /\ dir' = [dir EXCEPT ![f] = Last]
    /\ gen' = [left |-> gen.left \ {f}, exit |-> IF gen.left = {f} THEN "ok" ELSE "running"]
    /\ UNCHANGED <<made, installed, kube, run, faults>>

\* The first file that cannot be opened or written ends the command; so does a signal.
MutantArtifactFails(f) ==
    /\ f \in gen.left /\ Faulty /\ dir' \in {dir, [dir EXCEPT ![f] = 0]}
    /\ gen' = [left |-> gen.left \ {f}, exit |-> IF gen.left = {f} THEN "ok" ELSE "running"]
    /\ UNCHANGED <<made, installed, kube, run>>
ArtifactFails(f) ==
    /\ f \in gen.left /\ Faulty /\ dir' \in {dir, [dir EXCEPT ![f] = 0]}
    /\ gen' = [left |-> {}, exit |-> "error"]
    /\ UNCHANGED <<made, installed, kube, run>>

\* apply-config of the directory's apxconfig.yaml.
ApplyConfig(n) ==
    /\ dir["apxconfig"] > 0 /\ installed[n] = 0
    /\ installed' = [installed EXCEPT ![n] = dir["apxconfig"]]
    /\ UNCHANGED <<made, dir, gen, kube, run, faults>>

-----------------------------------------------------------------------------
Done == [Idle EXCEPT !.pc = "done"]
Ends(r) == run' = [run EXCEPT ![r] = Done] /\ UNCHANGED <<made, dir, gen, installed, kube>>

\* A run with --endpoint e, or none, and with the bundle or the three files of the
\* directory. resolvedOptions: the bundle is read once, and its endpoint is taken whatever
\* the flag says; without a bundle the endpoint is the flag's or the default. The flag
\* beside a bundle has no part before mergeName, and is chosen there (Flags).
FromBundle(g) == [Idle EXCEPT !.pc = "temp", !.bundle = TRUE, !.host = made[g], !.set = g]
MutantFromFlags(e) == [Idle EXCEPT !.pc = "ca", !.flag = e, !.host = e]
FromFlags(e) == [Idle EXCEPT !.pc = "ca", !.flag = e, !.host = IF e = None THEN Loopback ELSE e,
                             !.set = IF gen.exit = "ok" THEN Last ELSE 0]
resolvedOptions(r, e) ==
    /\ run[r].pc = "idle"
    /\ \/ dir["bundle"] > 0 /\ run' = [run EXCEPT ![r] = FromBundle(dir["bundle"])]
       \/ run' = [run EXCEPT ![r] = FromFlags(e)]
    /\ UNCHANGED <<made, dir, gen, installed, kube, faults>>

\* A bundle's CA, certificate and key are copied into temporary files of the run's own. One
\* that cannot be written is not told of, and leaves an empty name to client.New.
writeTempIdentity(r) ==
    /\ run[r].pc = "temp"
    /\ \E lost \in BOOLEAN :
          /\ IF lost THEN Faulty ELSE UNCHANGED faults
          /\ run' = [run EXCEPT ![r] = [run[r] EXCEPT !.pc = "new", !.lost = lost]]
    /\ UNCHANGED <<made, dir, gen, installed, kube>>

\* tlsCredentials: three files, one after the other; certificate and key have to match.
\* Nobody else touches the files of a bundle, so these are read in one step.
Identity == {"ca", "crt", "key"}
MutantSource(o, f) == dir[f]
Source(o, f) == IF ~o.bundle THEN dir[f] ELSE IF o.lost THEN 0 ELSE o.set
Usable(o, f) == Source(o, f) > 0 /\ (f = "key" => Source(o, f) = o.crt)
FileRead(o) == CASE o.pc = "ca" -> [o EXCEPT !.ca = Source(o, "ca"), !.pc = "crt"]
                 [] o.pc = "crt" -> [o EXCEPT !.crt = Source(o, "crt"), !.pc = "key"]
                 [] OTHER -> [o EXCEPT !.pc = "call"]
AllRead(o) == [o EXCEPT !.ca = Source(o, "ca"), !.crt = Source(o, "crt"), !.pc = "call"]
Reads(r, o, usable) ==
    /\ \/ /\ usable /\ run' = [run EXCEPT ![r] = o]
          /\ UNCHANGED <<made, dir, gen, installed, kube>>
       \/ ~usable /\ Ends(r)
    /\ UNCHANGED faults
tlsCredentials(r) ==
    LET o == run[r] IN
    \/ o.pc \in Identity /\ Reads(r, FileRead(o), Usable(o, o.pc))
    \/ /\ o.pc = "new"
       /\ Reads(r, AllRead(o), (\A f \in Identity : Source(o, f) > 0) /\ Usable(AllRead(o), "key"))

\* The handshake checks both chains, and that the server's certificate is for the host
\* that was dialled.
Connects(o) ==
    /\ o.host \in Nodes /\ installed[o.host] > 0 /\ made[installed[o.host]] = o.host
    /\ o.ca = installed[o.host] /\ o.crt = installed[o.host]

\* mergeName: the flag or the default, and not what the client resolved.
mergeName(o) == IF o.flag = None THEN Loopback ELSE o.flag
Answered(o, e) == [Idle EXCEPT !.pc = "read", !.flag = e, !.host = o.host]
Flags(o) == IF o.bundle THEN Nodes \cup {None} ELSE {o.flag}

\* The Kubeconfig call; without --merge and --file its answer goes to stdout.
Kubeconfig(r) ==
    /\ run[r].pc = "call" /\ UNCHANGED faults
    /\ \/ ~Connects(run[r]) /\ Ends(r)
       \/ Connects(run[r]) /\ Ends(r)
       \/ /\ Connects(run[r])
          /\ \E e \in Flags(run[r]) : run' = [run EXCEPT ![r] = Answered(run[r], e)]
          /\ UNCHANGED <<made, dir, gen, installed, kube>>

\* replaceNamed: every entry of that name goes, the new one comes.
ReplaceNamed(es, e) == {x \in es : x.name # e.name} \cup {e}
MutantMerge(es, e) == [entries |-> {e}, current |-> e.name]
MergeKubeconfig(es, e) == [entries |-> ReplaceNamed(es, e), current |-> e.name]

\* The destination is read, and what will be written is made from it: a merge, or with
\* --file alone the node's own kubeconfig.
ReadTarget(r, file) ==
    /\ run[r].pc = "read"
    /\ run' = [run EXCEPT ![r] = [run[r] EXCEPT !.pc = "write", !.file = file, !.read = kube.entries]]
    /\ UNCHANGED <<made, dir, gen, installed, kube, faults>>
Target(o) ==
    IF o.file THEN [entries |-> {[name |-> K0s, to |-> o.host]}, current |-> K0s]
    ELSE MergeKubeconfig(o.read, [name |-> mergeName(o), to |-> o.host])

\* writeKubeconfig: a temporary file beside the destination, and a rename over it.
MutantRename(r) ==
    /\ run[r].pc = "write" /\ run' = [run EXCEPT ![r] = Done]
    /\ kube' \in {Target(run[r]), [entries |-> {}, current |-> K0s]}
    /\ UNCHANGED <<made, dir, gen, installed, faults>>
Rename(r) ==
    /\ run[r].pc = "write" /\ run' = [run EXCEPT ![r] = Done] /\ kube' = Target(run[r])
    /\ UNCHANGED <<made, dir, gen, installed, faults>>

\* A failing call or file operation, a timeout, or a signal.
RunFails(r) == run[r].pc \notin {"idle", "done"} /\ Faulty /\ Ends(r)

-----------------------------------------------------------------------------
Next ==
    \/ \E n \in Nodes : GenerateCluster(n) \/ ApplyConfig(n)
    \/ \E f \in Files : WriteArtifact(f) \/ ArtifactFails(f)
    \/ \E r \in Runs :
          \/ \E e \in Nodes \cup {None} : resolvedOptions(r, e)
          \/ \E file \in BOOLEAN : ReadTarget(r, file)
          \/ writeTempIdentity(r) \/ tlsCredentials(r) \/ Kubeconfig(r) \/ Rename(r) \/ RunFails(r)
Spec == Init /\ [][Next]_vars

-----------------------------------------------------------------------------
TypeOK ==
    /\ made \in UNION {[1..n -> Nodes] : n \in 0..MaxGens}
    /\ dir \in [Files -> 0..Last] /\ installed \in [Nodes -> 0..Last]
    /\ gen.left \subseteq Files
    /\ gen.exit \in {"none", "running", "ok", "error"} /\ faults \in 0..MaxFaults
    /\ \A r \in Runs :
          \/ run[r] \in {Idle, Done}
          \/ /\ run[r].host \in Nodes \cup {Loopback}
             /\ run[r].pc \in Identity \cup {"temp", "new", "call", "read", "write"}
             /\ run[r].set \in 0..Last
             /\ run[r].file => run[r].pc = "write"

\* When gen config has ended well, its files belong together: the config a node is
\* given, the bundle and the identity files are of one run, whatever an earlier run,
\* failed half way, left there (WriteArtifacts, which stops at the first error).
ArtifactsMatch == gen.exit = "ok" => \A f \in Files : dir[f] = Last

\* A run whose node has the config that belongs to the identity the run set out with, and
\* is dialled under the name it was made for, gets an answer, unless something fails: with
\* a bundle whatever gen config writes meanwhile, and with the three files if no other gen
\* config has begun (resolvedOptions, writeTempIdentity, tlsCredentials).
Expected(o) ==
    /\ o.pc \in Identity \cup {"temp", "new", "call"} /\ ~o.lost
    /\ o.set > 0 /\ (o.bundle \/ o.set = Last)
    /\ o.host \in Nodes /\ installed[o.host] = o.set /\ made[o.set] = o.host
NotTurnedAway ==
    [][\A r \in Runs : LET o == run[r] IN
         Expected(o) /\ run'[r].pc = "done" /\ faults' = faults => o.pc = "call" /\ Connects(o)]_vars

\* The user's kubeconfig is always a whole document: no name twice, and the current
\* context is one of its entries, wherever runs are interrupted, if what a node answers
\* is one (writeKubeconfig, replaceNamed).
KubeWhole ==
    /\ \A x, y \in kube.entries : x.name = y.name => x = y
    /\ kube.current \in Names(kube) \cup (IF kube.entries = {} THEN {None} ELSE {})

\* What a merge may cost: an entry leaves the kubeconfig only for one of its own name,
\* which with a bundle is 127.0.0.1 for every node (mergeName), by --file, or by a run that
\* overlaps the one that added it, since nothing locks the file between read and rename
\* (MergeKubeconfig, newKubeconfigCmd).
MergesKeep ==
    [][\A x \in kube.entries \ kube'.entries :
         \E r \in Runs : /\ Rename(r)
                         /\ \/ x.name = mergeName(run[r]) \/ run[r].file
                            \/ x \notin run[r].read]_vars
=============================================================================
