---------------------------- MODULE NodeReports ----------------------------
(***************************************************************************)
(* What apxd reports of the node while the node changes under it:          *)
(* ListServices (internal/machine/systemd.go), GetStatus (internal/        *)
(* machine/status.go), GetConfig (internal/config/apxconfig.go), and the   *)
(* apxctl commands that show them. No call locks anything: each puts its   *)
(* answer together from several commands and files.                        *)
(*                                                                         *)
(* Simplifications:                                                        *)
(*   - the node is what these calls read: its units, the merged sysexts,   *)
(*     the symlink to the staged image and config.yaml; what changes it,   *)
(*     other calls included, is one of a bounded number of changes;        *)
(*   - facts that do not change while apxd runs (os-release, kernel, boot  *)
(*     id, slot) are left out, but for the running version;                *)
(*   - descriptions and sub-states come and go with the state they belong  *)
(*     to; node name and role are constants, shown with the version.       *)
(***************************************************************************)
EXTENDS Integers, Sequences, SequencesExt

CONSTANTS
    UnitNames,   \* the units systemd may know, in the order it lists them
    K0s,         \* k0scontroller.service
    Configs,     \* contents of config.yaml
    Unreadable,  \* those of them that do not parse or validate
    None,        \* no file, no version, no state
    MaxChanges,  \* bound: changes of the node
    MaxFaults    \* bound: commands that fail

ASSUME ReportsAssumption ==
    /\ K0s \in Range(UnitNames) /\ Unreadable \subseteq Configs /\ None \notin Configs
    /\ MaxChanges \in Nat /\ MaxFaults \in Nat

VARIABLES
    node,     \* units: the state of each loaded one; since: when it last became active;
              \* image, merged: whether the k0s sysext is in /var/lib/extensions, and
              \* merged; link: the staged OS image; config
    during,   \* history: what the node was since the call in hand began
    call,     \* the call in hand: op, pc, and what it has read
    reply,    \* what the call answered
    clock,    \* monotonic time, one tick per change
    faults,
    failed    \* history: the commands that failed in the last call

vars == <<node, during, call, reply, clock, faults, failed>>

-----------------------------------------------------------------------------
Units == Range(UnitNames)
States == {"active", "activating", "inactive", "deactivating", "failed", "reloading"}
Odd == "odd"   \* the target of a link that names no plain version
NoCall == [op |-> "none", pc |-> "idle", list |-> <<>>, merged |-> FALSE, installed |-> None, state |-> None]
NoReply == [op |-> "none"]
Faulty == faults < MaxFaults /\ faults' = faults + 1 /\ failed' = failed \cup {call.pc}
Fine == UNCHANGED <<faults, failed>>

Init == /\ node = [units |-> [u \in {K0s} |-> "inactive"], since |-> [u \in Units |-> 0],
                   image |-> FALSE, merged |-> FALSE, link |-> None, config |-> None]
        /\ during = {} /\ call = NoCall /\ reply = NoReply /\ clock = 0 /\ faults = 0
        /\ failed = {}

-----------------------------------------------------------------------------
\* The node changes: a unit is loaded, unloaded or changes its state; the k0s sysext comes,
\* goes, is merged or unmerged; an update or ApplyConfig renames a new link or config.yaml
\* into place.
Changed(u, s) ==
    [node EXCEPT !.units = [v \in DOMAIN node.units \cup {u} |-> IF v = u THEN s ELSE node.units[v]],
                 !.since[u] = IF s = "active" THEN clock + 1 ELSE @]
Unloaded(u) == [node EXCEPT !.units = [v \in DOMAIN node.units \ {u} |-> node.units[v]]]
NodeChanges ==
    /\ clock < MaxChanges /\ clock' = clock + 1
    /\ \/ \E u \in Units, s \in States : node' = Changed(u, s)
       \/ \E u \in DOMAIN node.units : node' = Unloaded(u)
       \/ node' = [node EXCEPT !.image = ~@]
       \/ (node.image \/ node.merged) /\ node' = [node EXCEPT !.merged = ~@]
       \/ \E l \in {Odd, "staged"} : node' = [node EXCEPT !.link = l]
       \/ \E c \in Configs : node' = [node EXCEPT !.config = c]
    /\ IF call = NoCall THEN during' = {} /\ reply' = NoReply /\ failed' = {}
       ELSE during' = during \cup {node'} /\ UNCHANGED <<reply, failed>>
    /\ UNCHANGED <<call, faults>>

\* A call arrives; its answer stays until the node changes or another call begins.
Begin(op, pc) ==
    /\ call = NoCall /\ call' = [NoCall EXCEPT !.op = op, !.pc = pc]
    /\ during' = {node} /\ reply' = NoReply /\ failed' = {} /\ UNCHANGED <<node, clock, faults>>
At(op, pc) == call.op = op /\ call.pc = pc
Goes(c) == call' = c /\ UNCHANGED <<node, during, reply, clock>>
Answer(r) == call' = NoCall /\ reply' = r /\ UNCHANGED <<node, during, clock>>
Error(code) == [op |-> call.op, error |-> code]

-----------------------------------------------------------------------------
newServicesCmd == Begin("services", "list")

\* list-units gives the loaded units with their states, and no times.
Loaded(n) == SelectSeq(UnitNames, LAMBDA u : u \in DOMAIN n.units)
parseSystemdJSON(n) ==
    [i \in DOMAIN Loaded(n) |-> [unit |-> Loaded(n)[i], state |-> n.units[Loaded(n)[i]], since |-> 0]]
ListUnits ==
    /\ At("services", "list")
    /\ \/ Faulty /\ Answer(Error("Internal"))
       \/ /\ DOMAIN node.units = {} /\ Fine
          /\ Answer([op |-> "services", list |-> parseSystemdJSON(node)])
       \/ /\ DOMAIN node.units # {} /\ Fine
          /\ Goes([call EXCEPT !.list = parseSystemdJSON(node), !.pc = "show"])

\* systemctl show prints the times of the units it is given, unloaded ones included,
\* with an empty line between two units. The i-th line is taken for the i-th service.
Shown(list) == [i \in 1..2 * Len(list) - 1 |->
                   IF i % 2 = 1 THEN node.since[list[(i + 1) \div 2].unit] ELSE None]
Timed(list) == [i \in DOMAIN list |->
                   IF Shown(list)[i] = None THEN list[i] ELSE [list[i] EXCEPT !.since = Shown(list)[i]]]
MutantListServices ==
    /\ At("services", "show")
    /\ \/ Faulty /\ Answer([op |-> "services", list |-> call.list])
       \/ /\ Fine
          /\ Answer([op |-> "services", list |-> SelectSeq(Timed(call.list), LAMBDA e : e.unit \in DOMAIN node.units)])
ListServices ==
    /\ At("services", "show")
    /\ \/ Faulty /\ Answer([op |-> "services", list |-> call.list])
       \/ Fine /\ Answer([op |-> "services", list |-> Timed(call.list)])

-----------------------------------------------------------------------------
newStatusCmd == Begin("status", "host")

\* CollectHost: the staged version if the link names one, else the running one.
MutantInstalledVersion(link) == IF link = None THEN "running" ELSE link
InstalledVersion(link) == IF link \in {None, Odd} THEN "running" ELSE link
CollectHost ==
    /\ At("status", "host") /\ Fine
    /\ Goes([call EXCEPT !.installed = InstalledVersion(node.link), !.pc = "status"])

\* Mutant: list is asked first.
MutantMentioned == IF call.pc = "status" THEN node.image ELSE node.merged
\* CollectKube: systemd-sysext status, which tells what is merged, or list where that
\* fails, which names the images that are there, merged or not; the controller's state;
\* its version only where it is active. It never looks whether the node is Ready.
Mentioned == IF call.pc = "status" THEN node.merged ELSE node.image
SysextMerged ==
    /\ call.op = "status" /\ call.pc \in {"status", "list"}
    /\ \/ Fine /\ Goes([call EXCEPT !.merged = Mentioned, !.pc = "unit"])
       \/ Faulty /\ Goes([call EXCEPT !.pc = IF call.pc = "status" THEN "list" ELSE "unit"])
unitActiveState == IF K0s \in DOMAIN node.units THEN node.units[K0s] ELSE "inactive"
MutantK0sState(s) ==
    CASE s \in {"active", "deactivating"} -> "active" [] s \in {"activating", "failed"} -> s
      [] s = "inactive" -> "stopped" [] OTHER -> "unknown"
K0sState(s) ==
    CASE s \in {"active", "activating", "failed"} -> s
      [] s \in {"inactive", "deactivating"} -> "stopped"
      [] OTHER -> "unknown"
StatusReply(s, v) ==
    [op |-> "status", installed |-> call.installed, merged |-> call.merged, state |-> s, version |-> v,
     ready |-> FALSE]
UnitState ==
    /\ At("status", "unit")
    /\ \/ Faulty /\ Answer(StatusReply("disabled", FALSE))
       \/ /\ Fine /\ K0sState(unitActiveState) # "active"
          /\ Answer(StatusReply(K0sState(unitActiveState), FALSE))
       \/ /\ Fine /\ K0sState(unitActiveState) = "active"
          /\ Goes([call EXCEPT !.state = "active", !.pc = "k0s"])
CollectKube ==
    /\ At("status", "k0s")
    /\ \/ Fine /\ Answer(StatusReply("active", TRUE))
       \/ Faulty /\ Answer(StatusReply("active", FALSE))

-----------------------------------------------------------------------------
newConfigGetCmd == Begin("config", "read")

\* GetConfig: the file is whole, for it is renamed into place; it is parsed and
\* validated again, and shown without its secrets.
Redacted(c) == [of |-> c, secrets |-> FALSE]
MutantGetConfig ==
    /\ At("config", "read")
    /\ \/ Faulty /\ Answer(Error("NotFound"))
       \/ /\ Fine
          /\ Answer(IF node.config = None THEN Error("NotFound")
                    ELSE IF node.config \in Unreadable THEN Error("Internal")
                    ELSE [op |-> "config", config |-> Redacted(node.config)])
GetConfig ==
    /\ At("config", "read")
    /\ \/ Faulty /\ Answer(Error("Internal"))
       \/ /\ Fine
          /\ Answer(IF node.config = None THEN Error("NotFound")
                    ELSE IF node.config \in Unreadable THEN Error("Internal")
                    ELSE [op |-> "config", config |-> Redacted(node.config)])

-----------------------------------------------------------------------------
Next ==
    \/ NodeChanges \/ newServicesCmd \/ newStatusCmd \/ newConfigGetCmd
    \/ ListUnits \/ ListServices
    \/ CollectHost \/ SysextMerged \/ UnitState \/ CollectKube \/ GetConfig
Spec == Init /\ [][Next]_vars

-----------------------------------------------------------------------------
TypeOK ==
    /\ node.image \in BOOLEAN /\ node.merged \in BOOLEAN /\ node.link \in {None, Odd, "staged"}
    /\ DOMAIN node.units \subseteq Units /\ \A u \in DOMAIN node.units : node.units[u] \in States
    /\ node.config \in Configs \cup {None} /\ node.since \in [Units -> 0..clock]
    /\ clock \in 0..MaxChanges /\ faults \in 0..MaxFaults
    /\ call # NoCall => node \in during
    /\ call.installed \in {None, "running", "staged"}
    /\ failed \subseteq {"list", "show", "status", "unit", "k0s", "read"}

\* A list of services is the whole of systemd's at one moment of the call, whatever was
\* loaded, unloaded or started since: a unit that goes away between list-units and show,
\* or a show that fails, costs times and no unit (ListServices).
ListIsAMoment ==
    reply.op = "services" /\ "list" \in DOMAIN reply =>
        \E n \in during : LET l == parseSystemdJSON(n) IN
            /\ DOMAIN l = DOMAIN reply.list
            /\ \A i \in DOMAIN l : l[i].unit = reply.list[i].unit /\ l[i].state = reply.list[i].state

\* Each fact of a status was so at some moment of the call, though no two need have been
\* so together. "disabled" tells of a systemctl that failed, not of the unit. Where
\* systemd-sysext status fails, "merged" tells of the image that is there, and where list
\* fails too, it is denied (CollectHost, CollectKube, unitActiveState).
SysextWasTrue(m, nodes, fs) ==
    /\ "status" \notin fs => \E n \in nodes : m = n.merged
    /\ "status" \in fs /\ "list" \notin fs => \E n \in nodes : m = n.image
    /\ "status" \in fs /\ "list" \in fs => m = FALSE
StatusWasTrue ==
    reply.op = "status" =>
        /\ \E n \in during : reply.installed = InstalledVersion(n.link)
        /\ SysextWasTrue(reply.merged, during, failed)
        /\ reply.state = "disabled" => "unit" \in failed
        /\ reply.state \in {"active", "activating", "failed"} =>
              \E n \in during : K0s \in DOMAIN n.units /\ n.units[K0s] = reply.state
        /\ reply.state = "stopped" =>
              \E n \in during : K0s \notin DOMAIN n.units \/ n.units[K0s] \in {"inactive", "deactivating"}

\* A config that is shown was the node's during the call and has no secrets; a node is
\* called unconfigured only if it was (GetConfig, Redacted).
ConfigWasTrue ==
    reply.op = "config" =>
        IF "config" \in DOMAIN reply
        THEN (\E n \in during : reply.config.of = n.config) /\ ~reply.config.secrets
        ELSE reply.error = "NotFound" => \E n \in during : n.config = None

\* What GetStatus and GetConfig answer is of the node as it was during the call, however
\* it changes between their commands; and which of a call's commands failed decides, and
\* nothing else, which facts of a status are no more than that (status.go:136-221).
AnswerWasTrue == StatusWasTrue /\ ConfigWasTrue
=============================================================================
