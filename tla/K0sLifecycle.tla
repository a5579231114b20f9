---------------------------- MODULE K0sLifecycle ----------------------------
(***************************************************************************)
(* k0s on a node: Bootstrap and its readiness poll, ServiceAction on the   *)
(* controller, the k0s part of Reset, Reboot and Shutdown                  *)
(* (internal/machine/{k0s,kubeconfig,lifecycle,systemd}.go and their       *)
(* handlers in internal/apid/machine.go), over the state of                *)
(* systemd-sysext, systemd and k0s itself.                                 *)
(*                                                                         *)
(* Simplifications:                                                        *)
(*   - a cluster is a number; admin.conf, the CA in it and the apiserver   *)
(*     belong to a cluster, and 0 is no admin.conf, or no apiserver;       *)
(*   - the poll reads the node's Ready condition from the datastore of the *)
(*     cluster, where it stays when k0s stops or the node boots, until a   *)
(*     running k0s writes it again: record is apart from ready;            *)
(*   - the deadline of the poll may pass at any wait, but not before the   *)
(*     first request: the loop asks before it looks at the clock;          *)
(*   - an apxctl that gives up waiting ends a poll early, which is one     *)
(*     more way for the deadline to pass; every other handler goes on, and *)
(*     a second call may begin beside it.                                  *)
(***************************************************************************)
EXTENDS Integers, FiniteSets

CONSTANTS
    Callers,     \* concurrent calls
    Operator,    \* the caller who repeats Bootstrap
    Sandboxed,   \* whether /var/lib/k0s is a mount of the unit's ReadWritePaths
    MaxActs,     \* bound: calls of Reset, ServiceAction, Reboot and Shutdown
    MaxFaults    \* bound: failing commands, crashes, a k0s that fails

ASSUME K0sAssumption ==
    /\ Operator \in Callers /\ Sandboxed \in BOOLEAN
    /\ MaxActs \in Nat /\ MaxFaults \in Nat

VARIABLES
    image,       \* directories that hold a k0s.raw
    merged,      \* whether the k0s sysext is merged
    enabled,     \* whether k0scontroller.service starts at boot
    unit,        \* its state
    admin,       \* the cluster of /var/lib/k0s/pki/admin.conf
    api,         \* the cluster whose apiserver answers
    ready,       \* whether the node is Ready in it
    record,      \* the cluster whose datastore has the node's Ready as True
    halting,     \* the job systemctl has accepted: none, reboot or poweroff
    pc,          \* where each call is
    held,        \* the cluster each poll's client is pinned to
    acts, faults,
    lived,       \* clusters there have been
    seen,        \* history: clusters whose datastore had Ready since the call began
    missed       \* history: what went wrong with the running Reset's stop and disable, or
                 \* {"company"} if there is another call, or no Reset

run == <<api, ready, record>>
k0s == <<image, merged, enabled, unit, admin, run, lived>>
hist == <<seen, missed>>
vars == <<k0s, halting, pc, held, acts, faults, hist>>

-----------------------------------------------------------------------------
k0sSysextPaths == {"/var/lib/extensions", "/var/lib/k0s"}
BootSteps == {"locate", "status", "merge", "start", "client", "fetch", "wait", "ok"}
ResetSteps == {"stop", "disable", "k0sreset", "remove", "unmerge", "reboot"}
\* Two removals a Reset, and the cluster of the first bootstrap.
MaxClusters == 2 * MaxActs + 1

Calm(c) == pc[c] \in {"idle", "ok"}
InReset(c) == pc[c] \in ResetSteps
Faulty == faults < MaxFaults /\ faults' = faults + 1
\* What the history says of the running Reset.
Company == missed' = {"company"}
Misses(m) == missed' = IF "company" \in missed THEN missed ELSE missed \cup {m}
Acts == acts < MaxActs /\ acts' = acts + 1
Goto(c, step) == pc' = [pc EXCEPT ![c] = step]
\* systemctl stop leaves a failed unit failed.
Stopped == IF unit = "active" THEN "inactive" ELSE unit
\* k0s does not run any more; what is in its datastore stays.
Down == api' = 0 /\ ready' = FALSE /\ UNCHANGED record
From(c, a, b) == pc[c] = a /\ Goto(c, b)

Init ==
    /\ image \in SUBSET k0sSysextPaths
    /\ merged \in BOOLEAN /\ (merged => "/var/lib/extensions" \in image)
    /\ enabled = FALSE /\ unit = "inactive" /\ admin = 0
    /\ api = 0 /\ ready = FALSE /\ record = 0
    /\ halting = "no"
    /\ pc = [c \in Callers |-> "idle"] /\ held = [c \in Callers |-> 0]
    /\ acts = 0 /\ faults = 0 /\ lived = 0
    /\ seen = [c \in Callers |-> {}] /\ missed = {"company"}

-----------------------------------------------------------------------------
\* Bootstrap.
Bootstrap(c) ==
    /\ Calm(c) /\ Goto(c, "locate")
    /\ seen' = [seen EXCEPT ![c] = {record} \ {0}] /\ Company
    /\ UNCHANGED <<k0s, halting, held, acts, faults>>

K0sSysextLocation(c) ==
    /\ pc[c] = "locate" /\ Goto(c, IF image # {} THEN "status" ELSE "idle")
    /\ UNCHANGED <<k0s, halting, held, acts, faults, hist>>

\* Mutant: Bootstrap merges without looking.
MutantK0sMerged(c) ==
    /\ From(c, "status", "merge") /\ UNCHANGED <<k0s, halting, held, acts, faults, hist>>
\* systemd-sysext status; if it fails, list, which names the images that are there,
\* merged or not; if that fails too, the answer is no.
K0sMerged(c) ==
    /\ pc[c] = "status"
    /\ \/ Goto(c, IF merged THEN "start" ELSE "merge") /\ UNCHANGED faults
       \/ /\ Faulty
          /\ \E listed \in {"/var/lib/extensions" \in image, FALSE} :
                Goto(c, IF listed THEN "start" ELSE "merge")
    /\ UNCHANGED <<k0s, halting, held, acts, hist>>

\* systemd-sysext looks into /var/lib/extensions only, and refuses when merged.
MergeSysext(c) ==
    /\ pc[c] = "merge" /\ Goto(c, IF merged THEN "idle" ELSE "start")
    /\ merged' = (merged \/ "/var/lib/extensions" \in image)
    /\ UNCHANGED <<image, enabled, unit, admin, run, lived, halting, held, acts, faults, hist>>

\* systemctl enable --now: there is a unit file only in a merged sysext.
StartController(c) ==
    /\ pc[c] = "start"
    /\ IF merged THEN Goto(c, "client") /\ enabled' = TRUE /\ unit' = "active"
                 ELSE Goto(c, "idle") /\ UNCHANGED <<enabled, unit>>
    /\ UNCHANGED <<image, merged, admin, run, lived, halting, held, acts, faults, hist>>

\* admin.conf is read once; without it the call fails.
LocalAPIClient(c) ==
    /\ pc[c] = "client" /\ Goto(c, IF admin # 0 THEN "fetch" ELSE "idle")
    /\ held' = [held EXCEPT ![c] = admin]
    /\ UNCHANGED <<k0s, halting, acts, faults, hist>>

\* fetchNodes and nodeListReady: the apiserver must be the one of the client's CA.
\* Mutant: any apiserver's answer counts.
MutantNodeListReady(c) == api # 0 /\ record = api
NodeListReady(c) == api # 0 /\ held[c] = api /\ record = api

FetchNodes(c) ==
    /\ pc[c] = "fetch"
    /\ \/ Goto(c, IF NodeListReady(c) THEN "ok" ELSE "wait") /\ UNCHANGED faults
       \/ Faulty /\ Goto(c, "wait")
    /\ UNCHANGED <<k0s, halting, held, acts, hist>>

Tick(c) == /\ From(c, "wait", "fetch") /\ UNCHANGED <<k0s, halting, held, acts, faults, hist>>
\* Mutant: the loop looks at the ticker only.
MutantDeadline(c) == Tick(c)
Deadline(c) == /\ From(c, "wait", "idle") /\ UNCHANGED <<k0s, halting, held, acts, faults, hist>>

BootstrapStep(c) ==
    \/ K0sSysextLocation(c) \/ K0sMerged(c) \/ MergeSysext(c) \/ StartController(c)
    \/ LocalAPIClient(c) \/ FetchNodes(c) \/ Tick(c) \/ Deadline(c)

-----------------------------------------------------------------------------
\* Reset: the errors of the first three steps are dropped. A systemctl that fails
\* leaves the unit as it was.
Reset(c) ==
    /\ Calm(c) /\ Acts /\ Goto(c, "stop")
    /\ missed' = IF halting = "no" /\ \A d \in Callers : Calm(d) THEN {} ELSE {"company"}
    /\ UNCHANGED <<k0s, halting, held, faults, seen>>

StopUnit(c) ==
    /\ From(c, "stop", "disable")
    /\ \/ unit' = Stopped /\ Down /\ UNCHANGED <<faults, missed>>
       \/ Faulty /\ Misses("stop") /\ UNCHANGED <<unit, run>>
    /\ UNCHANGED <<image, merged, enabled, admin, lived, halting, held, acts, seen>>

DisableUnit(c) ==
    /\ From(c, "disable", "k0sreset")
    /\ \/ enabled' = FALSE /\ UNCHANGED <<faults, missed>>
       \/ Faulty /\ Misses("disable") /\ UNCHANGED enabled
    /\ UNCHANGED <<image, merged, unit, admin, run, lived, halting, held, acts, seen>>

\* k0s reset needs its binary and refuses while k0s runs.
K0sReset(c) ==
    /\ From(c, "k0sreset", "remove")
    /\ \/ merged /\ unit # "active" /\ admin' = 0 /\ UNCHANGED faults
       \/ ~(merged /\ unit # "active") /\ UNCHANGED <<admin, faults>>
       \/ Faulty /\ UNCHANGED admin
    /\ UNCHANGED <<image, merged, enabled, unit, run, lived, halting, held, acts, hist>>

\* os.RemoveAll of /var/lib/k0s, the second place of the image with it. A mount
\* point is emptied and not removed, which is an error. A k0s that still runs goes on
\* over what it has open, until it is stopped.
RemoveStateDirs(c) ==
    /\ From(c, "remove", IF Sandboxed THEN "idle" ELSE "unmerge")
    /\ admin' = 0 /\ ready' = FALSE /\ image' = image \ {"/var/lib/k0s"}
    /\ UNCHANGED <<api, record, merged, enabled, unit, lived, halting, held, acts, faults, hist>>

UnmergeSysext(c) ==
    /\ From(c, "unmerge", "reboot")
    /\ \/ merged' = FALSE /\ UNCHANGED faults
       \/ Faulty /\ UNCHANGED merged
    /\ UNCHANGED <<image, enabled, unit, admin, run, lived, halting, held, acts, hist>>

ResetReboots(c) ==
    /\ From(c, "reboot", "idle") /\ halting' = "reboot"
    /\ UNCHANGED <<k0s, held, acts, faults, hist>>

\* Mutant: the directories go before the controller is stopped.
MutantResetStep(c) ==
    \/ /\ From(c, "stop", "disable") /\ admin' = 0 /\ ready' = FALSE
       /\ image' = image \ {"/var/lib/k0s"}
       /\ UNCHANGED <<api, record, merged, enabled, unit, lived, halting, held, acts, faults, hist>>
    \/ DisableUnit(c) \/ K0sReset(c)
    \/ /\ From(c, "remove", "unmerge") /\ unit' = "inactive" /\ Down
       /\ UNCHANGED <<image, merged, enabled, admin, lived, halting, held, acts, faults, hist>>
    \/ UnmergeSysext(c) \/ ResetReboots(c)
ResetStep(c) == \/ StopUnit(c) \/ DisableUnit(c) \/ K0sReset(c) \/ RemoveStateDirs(c)
                \/ UnmergeSysext(c) \/ ResetReboots(c)

-----------------------------------------------------------------------------
\* A call that one command decides. Start, stop, restart: systemctl's verbs on
\* the controller; there is no reload of it.
ServiceAction(c, action) ==
    /\ Calm(c) /\ Acts /\ Company
    /\ merged
    /\ \/ action = "start" /\ unit' = "active" /\ UNCHANGED run
       \/ action = "restart" /\ unit' = "active" /\ Down
       \/ action = "stop" /\ unit' = Stopped /\ Down
    /\ UNCHANGED <<image, merged, enabled, admin, lived, halting, pc, held, faults, seen>>

\* Mutant: systemctl is given the name of the mode.
MutantReboot(c, mode) ==
    /\ Acts /\ Calm(c) /\ halting = "no" /\ Company
    /\ halting' = IF mode = "reboot" THEN "graceful" ELSE mode
    /\ UNCHANGED <<k0s, pc, held, faults, seen>>
Reboot(c, mode) ==
    /\ Acts /\ Calm(c) /\ halting = "no" /\ halting' = mode /\ Company
    /\ UNCHANGED <<k0s, pc, held, faults, seen>>
Shutdown(c) == Reboot(c, "poweroff")

\* A failing command ends Bootstrap, and Reset where it looks at the error. Where it
\* is the start that fails, the unit has been enabled before.
CallFails(c) ==
    /\ Faulty
    /\ \/ pc[c] \in {"merge", "start", "remove", "reboot"} /\ UNCHANGED <<enabled, unit>>
       \/ pc[c] = "start" /\ merged /\ unit # "active" /\ enabled' = TRUE /\ unit' = "failed"
    /\ Goto(c, "idle")
    /\ UNCHANGED <<image, merged, admin, run, lived, halting, held, acts, hist>>

-----------------------------------------------------------------------------
\* k0s itself: it founds a cluster where it finds none, serves its API, and gets its
\* node Ready, which the datastore then says.
FoundCluster ==
    /\ unit = "active" /\ api = 0 /\ admin = 0 /\ lived < MaxClusters
    /\ lived' = lived + 1 /\ admin' = lived + 1
    /\ UNCHANGED <<image, merged, enabled, unit, run, halting, pc, held, acts, faults, hist>>

ApiUp ==
    /\ unit = "active" /\ api = 0 /\ admin # 0 /\ api' = admin
    /\ UNCHANGED <<image, merged, enabled, unit, admin, ready, record, lived, halting, pc, held, acts, faults, hist>>

BecomeReady ==
    /\ api # 0 /\ api = admin /\ ~ready /\ ready' = TRUE /\ record' = api
    /\ seen' = [c \in Callers |-> IF pc[c] \in BootSteps THEN seen[c] \cup {api} ELSE seen[c]]
    /\ UNCHANGED <<image, merged, enabled, unit, admin, api, lived, halting, pc, held, acts, faults, missed>>

\* A running k0s finds that the node is not Ready, and corrects its record.
RecordLapses ==
    /\ api # 0 /\ record = api /\ ~ready /\ record' = 0
    /\ UNCHANGED <<image, merged, enabled, unit, admin, api, ready, lived, halting, pc, held, acts, faults, hist>>

K0sFails ==
    /\ unit = "active" /\ Faulty
    /\ Down /\ unit' \in {"active", "failed"}
    /\ UNCHANGED <<image, merged, enabled, admin, lived, halting, pc, held, acts, hist>>

\* The next boot, or a crash. systemd merges what is in /var/lib/extensions and
\* starts what is enabled.
Boot ==
    /\ IF halting = "no" THEN Faulty ELSE UNCHANGED faults
    /\ merged' = ("/var/lib/extensions" \in image)
    /\ unit' = IF enabled /\ merged' THEN "active" ELSE "inactive"
    /\ Down /\ halting' = "no" /\ Company
    /\ pc' = [c \in Callers |-> "idle"] /\ held' = [c \in Callers |-> 0]
    /\ seen' = [c \in Callers |-> {}]
    /\ UNCHANGED <<image, enabled, admin, lived, acts>>

-----------------------------------------------------------------------------
Next ==
    \/ \E c \in Callers :
          \/ Bootstrap(c) \/ BootstrapStep(c) \/ Reset(c) \/ ResetStep(c)
          \/ \E action \in {"start", "stop", "restart"} : ServiceAction(c, action)
          \/ Reboot(c, "reboot") \/ Shutdown(c) \/ CallFails(c)
    \/ FoundCluster \/ ApiUp \/ BecomeReady \/ RecordLapses \/ K0sFails \/ Boot

Spec == Init /\ [][Next]_vars
\* A handler that runs goes on, and its poll does not outlive its deadline; k0s serves
\* and gets its node Ready if it is left alone; a reboot ends in a boot; the operator repeats a
\* Bootstrap that failed.
FairSpec == /\ Spec
            /\ \A c \in Callers : /\ WF_vars(BootstrapStep(c)) /\ WF_vars(ResetStep(c))
                                  /\ SF_vars(Deadline(c))
            /\ WF_vars(FoundCluster) /\ WF_vars(ApiUp) /\ WF_vars(BecomeReady)
            /\ WF_vars(Boot /\ halting = "reboot")
            /\ WF_vars(Bootstrap(Operator) /\ pc[Operator] = "idle")

-----------------------------------------------------------------------------
TypeOK ==
    /\ image \subseteq k0sSysextPaths /\ merged \in BOOLEAN /\ enabled \in BOOLEAN
    /\ unit \in {"inactive", "active", "failed"} /\ lived \in 0..MaxClusters
    /\ admin \in {0, lived} /\ api \in 0..lived /\ (api # 0 => unit = "active")
    /\ ready \in BOOLEAN /\ (ready => api # 0 /\ record = api) /\ record \in 0..lived
    /\ halting \in {"no", "reboot", "poweroff"}
    /\ pc \in [Callers -> {"idle"} \cup BootSteps \cup ResetSteps]
    /\ held \in [Callers -> 0..lived] /\ acts \in 0..MaxActs /\ faults \in 0..MaxFaults
    /\ seen \in [Callers -> SUBSET (1..lived)]
    /\ missed \in SUBSET {"company", "stop", "disable"}

\* Bootstrap answers OK only of the cluster whose admin.conf it has read, and only
\* when the node became Ready in that cluster during the call, or was on record as
\* Ready there when the call began; whatever Resets, new clusters, failures, reboots and
\* other Bootstraps come between, and however old the credentials of the poll are
\* (k0s.go:104-128, kubeconfig.go:108-147).
OkMeansReady == \A c \in Callers : pc[c] = "ok" => held[c] \in seen[c]

\* A Reset that no other call disturbs reboots into a node without a cluster, unless
\* its systemctl stop failed, and with k0s off, unless its disable failed; although it
\* looks at neither error, and whatever its k0s reset and unmerge do and however k0s
\* fails meanwhile (lifecycle.go:71-92).
ResetIsClean ==
    [][halting = "reboot" /\ halting' = "no" /\ "company" \notin missed =>
          /\ "stop" \notin missed => admin' = 0
          /\ "disable" \notin missed => ~enabled' /\ unit' = "inactive"]_vars

\* Every handler of Bootstrap and Reset returns, if only by the deadline.
HandlersReturn == \A c \in Callers : ~Calm(c) ~> Calm(c)

\* An operator who repeats a failed Bootstrap succeeds, after any Resets and faults,
\* if the image is where systemd-sysext looks, nobody leaves the node off, and no k0s
\* runs for ever over a state that a Reset has removed (k0s.go:72-128).
RetriesSucceed ==
    /\ "/var/lib/extensions" \in image
    /\ []<>(halting # "poweroff") /\ []<>(api \in {0, admin})
    => []<>(pc[Operator] = "ok")
=============================================================================
