---------------------------- MODULE UpdateEngine ----------------------------
(***************************************************************************)
(* Updates and rollbacks of a node: apxd's Update and Rollback handlers    *)
(* (internal/apid/machine.go, internal/machine/upgrade.go) over the state  *)
(* that systemd-sysupdate, systemd-sysext, systemd-boot and a reboot keep. *)
(*                                                                         *)
(* Simplifications:                                                        *)
(*   - a version is a natural number and 0 is "": CompareVersions is the   *)
(*     subject of VersionOrder;                                            *)
(*   - two components, as in the fixtures of the tests;                    *)
(*   - one run of systemd-sysupdate is one step, and installs the newest   *)
(*     release or nothing;                                                 *)
(*   - "manual" and "staged" differ in a message only, so a request that   *)
(*     has --reboot under the strategy "direct" is `direct`, all others    *)
(*     are not;                                                            *)
(*   - every answer of a call is final; the progress lines before it and   *)
(*     RebootOwed, which is only shown, are left out.                      *)
(* A client that goes away only makes the lookups of releases fail: no     *)
(* command of an update runs under the stream's context, and errors of     *)
(* Send are dropped.                                                       *)
(***************************************************************************)
EXTENDS Integers, Sequences

CONSTANTS
    Callers,     \* concurrent calls of Update and Rollback
    Operator,    \* the caller who updates again and again
    Habit,       \* the scope that caller asks for
    MaxVersion,  \* bound: releases of a component, of which two are out at the start
    MaxFaults    \* bound: failures, crashes, reboots asked by others

ASSUME UpdateAssumption ==
    /\ Operator \in Callers
    /\ Habit \in {"all", "os", "k0s"}
    /\ MaxVersion \in Nat /\ MaxVersion >= 2
    /\ MaxFaults \in Nat

VARIABLES
    published,   \* newest release of each component
    image,       \* newest version on the node's disk: the k0s sysext, the DDI symlink
    slots,       \* versions of the UKIs under /efi/EFI/Linux
    running,     \* the version that was booted
    stamped,     \* whether os-release carries IMAGE_VERSION
    merged,      \* version of the merged k0s sysext
    oneshot,     \* the entry set for the next boot
    halting,     \* systemctl reboot was accepted
    pc,          \* where each call is
    call,        \* what each call was asked and has read
    faults,
    away         \* history: the oneshot was picked with nothing newer installed

node == <<published, image, slots, running, stamped, merged, oneshot, halting>>
vars == <<node, pc, call, faults, away>>

-----------------------------------------------------------------------------
Features == <<"k0s", "os">>
Names == {Features[i] : i \in DOMAIN Features}
isK0s(n) == n = "k0s"
MutantRequiresReboot(n) == isK0s(n)
requiresReboot(n) == ~isK0s(n)
\* What --component says, and what the handler makes of it: a word that names no
\* axis asks for everything.
parseComponent(word) == IF word \in {"os", "k0s"} THEN word ELSE "all"
inScope(n, scope) == \/ scope = "all"
                     \/ scope = "os" /\ ~isK0s(n)
                     \/ scope = "k0s" /\ isK0s(n)
Versions == 0..MaxVersion
Scopes == {"all", "os", "k0s"}
Words == Scopes \cup {"kos"}
Steps == {"idle", "plan", "apply", "merge", "reboot", "list", "pick", "pin"}
Call == [scope : Scopes, check : BOOLEAN, direct : BOOLEAN, at : 1..Len(Features) + 1,
         plan : [Names -> Versions], \* LatestVersion where an update is available, or 0
         todo : SUBSET Names, listing : SUBSET Versions, prev : Versions]
NoCall == [scope |-> "all", check |-> FALSE, direct |-> FALSE, at |-> 1,
           plan |-> [n \in Names |-> 0], todo |-> {}, listing |-> {}, prev |-> 0]

AtMostOne(S) == \A v, w \in S : v = w
NewestOf(S) == CHOOSE v \in S : \A w \in S : w <= v
OldestOf(S) == CHOOSE v \in S : \A w \in S : v <= w

\* The version in the name the DDI symlink points to, 0 without one.
installedVersion == image["os"]

\* What the HEAD request to a source may tell: the newest release, or nothing.
resolveLatestVersion(n) == {0, published[n]}

\* IMAGE_VERSION, 0 where os-release does not carry it.
ReadOSRelease == IF stamped THEN running ELSE 0

\* The version BuildPlan takes for the installed one: of k0s, what the merged
\* binary prints; of the OS, what os-release says or else the DDI symlink.
CurrentVersionFor(n) == IF isK0s(n) THEN merged
                        ELSE IF ReadOSRelease # 0 THEN ReadOSRelease ELSE installedVersion

\* systemd-sysupdate keeps two instances and never removes the running one.
MutantRetain(S) == IF AtMostOne(S \ {running}) THEN S ELSE S \ {OldestOf(S)}
Retain(S) == IF AtMostOne(S \ {running}) THEN S ELSE S \ {OldestOf(S \ {running})}

Faulty == faults < MaxFaults /\ faults' = faults + 1
Goto(c, step) == pc' = [pc EXCEPT ![c] = step]
Reply(c) == Goto(c, "idle") /\ call' = [call EXCEPT ![c] = NoCall]
-----------------------------------------------------------------------------
\* A node installed from release 2, perhaps with the entry of release 1 still there,
\* without a DDI symlink before the first update, and with or without k0s.
Init ==
    /\ published = [n \in Names |-> 2]
    /\ image \in [Names -> {0, 2}]
    /\ slots \in {{2}, {1, 2}} /\ running = 2 /\ stamped \in BOOLEAN
    /\ merged \in {0, image["k0s"]}
    /\ oneshot = 0 /\ halting = FALSE
    /\ pc = [c \in Callers |-> "idle"]
    /\ call = [c \in Callers |-> NoCall]
    /\ faults = 0
    /\ away = FALSE

\* The Update handler: the request, and the strategy of config.yaml if it can be read.
Update(c, scope, check, direct) ==
    /\ pc[c] = "idle"
    /\ Goto(c, "plan")
    /\ call' = [call EXCEPT ![c] = [NoCall EXCEPT !.scope = scope, !.check = check,
                                                  !.direct = direct /\ ~check]]
    /\ UNCHANGED <<node, faults, away>>

\* apxctl update: the request it sends; the progress lines change nothing here.
newUpdateCmd(c) == \E word \in Words, check, direct \in BOOLEAN :
                      Update(c, parseComponent(word), check, direct)

\* An update is available only when both versions are known.
Newer(current, latest) == current # 0 /\ latest # 0 /\ current < latest

\* BuildPlan, one component: the newest release may not be found out.
BuildPlan(c) ==
    LET p == call[c]  n == Features[p.at] IN
    /\ pc[c] = "plan" /\ p.at <= Len(Features)
    /\ \E latest \in resolveLatestVersion(n) :
          /\ IF latest = 0 THEN Faulty ELSE UNCHANGED faults
          /\ call' = [call EXCEPT ![c].at = p.at + 1,
                        ![c].plan[n] = IF Newer(CurrentVersionFor(n), latest) THEN latest ELSE 0]
    /\ UNCHANGED <<node, pc, away>>

\* After the plan: the check ends here, and the components in scope are to be applied.
Classify(c) ==
    LET p == call[c]  todo == {n \in Names : p.plan[n] # 0 /\ inScope(n, p.scope)} IN
    /\ pc[c] = "plan" /\ p.at > Len(Features)
    /\ \/ p.check /\ Reply(c)
       \/ ~p.check /\ todo = {} /\ Reply(c)
       \/ /\ ~p.check /\ todo # {} /\ Goto(c, "apply")
          /\ call' = [call EXCEPT ![c].todo = todo, ![c].at = 1]
    /\ UNCHANGED <<node, faults, away>>

FirstOf(todo) == CHOOSE n \in todo : \A m \in todo :
                    \E i, j \in DOMAIN Features : i <= j /\ Features[i] = n /\ Features[j] = m

\* ApplyUpdate, systemd-sysupdate: what it installs is the newest release of now.
ApplyUpdate(c) ==
    LET n == FirstOf(call[c].todo) IN
    /\ pc[c] = "apply" /\ call[c].todo # {}
    /\ image' = [image EXCEPT ![n] = published[n]]
    /\ IF isK0s(n)
       THEN Goto(c, "merge") /\ UNCHANGED <<slots, call>>
       ELSE /\ slots' = Retain(slots \cup {published[n]})
            /\ call' = [call EXCEPT ![c].todo = @ \ {n}] /\ UNCHANGED pc
    /\ UNCHANGED <<published, running, stamped, merged, oneshot, halting, faults, away>>

\* Mutants: a failing merge is passed over; the merge is tried until it succeeds.
MutantMergeIgnored(c) ==
    /\ pc[c] = "merge" /\ Goto(c, "apply")
    /\ merged' = IF merged = 0 THEN image["k0s"] ELSE merged
    /\ call' = [call EXCEPT ![c].todo = @ \ {"k0s"}]
    /\ UNCHANGED <<published, image, slots, running, stamped, oneshot, halting, faults, away>>
MutantMergeRetried(c) == merged = 0 /\ MutantMergeIgnored(c)

\* ApplyUpdate, systemd-sysext merge: it refuses a tree that is merged already.
Merge(c) ==
    /\ pc[c] = "merge"
    /\ IF merged = 0
       THEN /\ merged' = image["k0s"] /\ Goto(c, "apply")
            /\ call' = [call EXCEPT ![c].todo = @ \ {"k0s"}]
       ELSE Reply(c) /\ UNCHANGED merged
    /\ UNCHANGED <<published, image, slots, running, stamped, oneshot, halting, faults, away>>

MutantRebootRequired(plan) == \E n \in Names : requiresReboot(n)
RebootRequired(plan) == \E n \in Names : plan[n] # 0 /\ requiresReboot(n)

\* The reboot policy at the end of Update: it looks at the whole plan.
Finish(c) ==
    /\ pc[c] = "apply" /\ call[c].todo = {}
    /\ IF RebootRequired(call[c].plan) /\ call[c].direct
       THEN Goto(c, "reboot") /\ UNCHANGED call
       ELSE Reply(c)
    /\ UNCHANGED <<node, faults, away>>

\* execReboot returns before the machine goes down.
ExecReboot(c) ==
    /\ pc[c] = "reboot"
    /\ halting' = TRUE /\ Reply(c)
    /\ UNCHANGED <<published, image, slots, running, stamped, merged, oneshot, faults, away>>

\* A failing command or read ends the call with an error; what a release source
\* or the DDI symlink does not tell is no error.
CallFails(c) ==
    /\ \/ pc[c] = "plan" /\ call[c].at = 1
       \/ pc[c] = "apply" /\ call[c].todo # {}
       \/ pc[c] \in {"merge", "reboot", "list", "pin"}
    /\ Faulty
    /\ Reply(c)
    /\ UNCHANGED <<node, away>>

-----------------------------------------------------------------------------
\* Rollback reads the entries, then the DDI symlink, then calls bootctl.
Rollback(c, reboot) ==
    /\ pc[c] = "idle" /\ Goto(c, "list")
    /\ call' = [call EXCEPT ![c] = [NoCall EXCEPT !.direct = reboot]]
    /\ UNCHANGED <<node, faults, away>>

newRollbackCmd(c) == \E reboot \in BOOLEAN : Rollback(c, reboot)

ReadEFISlots(c) ==
    /\ pc[c] = "list" /\ Goto(c, "pick")
    /\ call' = [call EXCEPT ![c].listing = slots]
    /\ UNCHANGED <<node, faults, away>>

\* previousSlot: an entry other than the installed version, or the second newest.
MutantCandidates(files, current) ==
    LET others == files \cap {current} IN
    IF current # 0 /\ others # {} THEN others
    ELSE IF AtMostOne(files) THEN {} ELSE {NewestOf(files \ {NewestOf(files)})}
Candidates(files, current) ==
    LET others == files \ {current} IN
    IF current # 0 /\ others # {} THEN others
    ELSE IF AtMostOne(files) THEN {} ELSE {NewestOf(files \ {NewestOf(files)})}

PreviousSlot(c) ==
    LET picks == Candidates(call[c].listing, installedVersion) IN
    /\ pc[c] = "pick"
    /\ \/ picks = {} /\ Reply(c)
       \/ \E v \in picks : Goto(c, "pin")
                           /\ call' = [call EXCEPT ![c].prev = v, ![c].listing = {}]
    /\ UNCHANGED <<node, faults, away>>

SetOneshot(c) ==
    /\ pc[c] = "pin"
    /\ oneshot' = call[c].prev
    /\ away' = (image["os"] = running)
    /\ IF call[c].direct THEN Goto(c, "reboot") /\ UNCHANGED call
                         ELSE Reply(c)
    /\ UNCHANGED <<published, image, slots, running, stamped, merged, halting, faults>>

-----------------------------------------------------------------------------
\* Outside apxd: a release, an unmerge by Reset, a reboot asked by kured or an operator.
Publish(n) ==
    /\ published[n] < MaxVersion
    /\ published' = [published EXCEPT ![n] = @ + 1]
    /\ UNCHANGED <<image, slots, running, stamped, merged, oneshot, halting, pc, call, faults, away>>

Unmerge ==
    /\ merged # 0 /\ Faulty /\ merged' = 0
    /\ UNCHANGED <<published, image, slots, running, stamped, oneshot, halting, pc, call, away>>

RebootByOther ==
    /\ ~halting /\ Faulty /\ halting' = TRUE
    /\ UNCHANGED <<published, image, slots, running, stamped, merged, oneshot, pc, call, away>>

\* The entry systemd-boot takes when every entry boots.
BootEntry == IF oneshot \in slots THEN oneshot ELSE NewestOf(slots)

\* The next boot. Calls in flight are gone; systemd-sysext.service merges what is
\* there. A power loss reboots unasked, and an entry that does not come up loses
\* its tries to another: both are faults.
Boot ==
    /\ \E v \in slots :
          /\ IF halting /\ v = BootEntry THEN UNCHANGED faults ELSE Faulty
          /\ running' = v
    /\ merged' = image["k0s"]
    /\ oneshot' = 0 /\ halting' = FALSE /\ away' = FALSE
    /\ pc' = [c \in Callers |-> "idle"] /\ call' = [c \in Callers |-> NoCall]
    /\ UNCHANGED <<published, image, slots, stamped>>

-----------------------------------------------------------------------------
UpdateStep(c) == \/ BuildPlan(c) \/ Classify(c) \/ ApplyUpdate(c) \/ Merge(c) \/ Finish(c)
                 \/ ExecReboot(c)
RollbackStep(c) == ReadEFISlots(c) \/ PreviousSlot(c) \/ SetOneshot(c)

Next ==
    \/ \E c \in Callers :
          \/ newUpdateCmd(c) \/ newRollbackCmd(c)
          \/ UpdateStep(c) \/ RollbackStep(c) \/ CallFails(c)
    \/ \E n \in Names : Publish(n)
    \/ Unmerge \/ RebootByOther \/ Boot

Spec == Init /\ [][Next]_vars
\* A handler that runs goes on; a machine that shuts down boots; the operator
\* updates with --reboot under the direct strategy whenever nothing else is asked.
FairSpec == /\ Spec
            /\ \A c \in Callers : WF_vars(UpdateStep(c) \/ RollbackStep(c))
            /\ WF_vars(Boot /\ faults' = faults)
            /\ SF_vars(Update(Operator, Habit, FALSE, TRUE))

-----------------------------------------------------------------------------
TypeOK ==
    /\ published \in [Names -> Versions \ {0}] /\ image \in [Names -> Versions]
    /\ running \in Versions /\ \E v \in Versions : slots = {running, v}
    /\ stamped \in BOOLEAN /\ merged \in Versions /\ oneshot \in Versions
    /\ halting \in BOOLEAN /\ away \in BOOLEAN
    /\ pc \in [Callers -> Steps] /\ call \in [Callers -> Call]
    /\ faults \in 0..MaxFaults

Newest == NewestOf(slots)

\* An update that is not restricted to k0s asks for the reboot of the direct
\* strategy only when an OS newer than the running one is installed, whatever
\* another call has done since its plan was made (upgrade.go:141-175).
RebootHasReason ==
    \A c \in Callers :
       pc[c] = "reboot" /\ call[c].prev = 0 /\ call[c].scope # "k0s" => Newest > running

\* An update that does not answer an error has on disk, for every component of
\* its scope, what its plan promised, and leaves no older k0s merged: one failing
\* component makes the whole call fail (upgrade.go:161-163, 205-212).
NothingSkipped ==
    [][\A c \in Callers : Finish(c) =>
          \A n \in Names : inScope(n, call[c].scope) /\ call[c].plan[n] # 0 =>
             image[n] >= call[c].plan[n] /\ (isK0s(n) => merged \in {0} \cup call[c].plan[n]..MaxVersion)]_vars

\* A rollback on a node that runs what it has installed boots another version,
\* unless a boot entry fails (upgrade.go:256-281).
RollbackLeaves ==
    [][away /\ halting /\ ~halting' /\ faults' = faults => running' # running]_vars

\* Every call of Update and Rollback ends, by an answer or a reboot.
CallsEnd == \A c \in Callers : pc[c] # "idle" ~> pc[c] = "idle"

\* An operator who keeps updating gets the newest OS running, provided os-release
\* tells the running version and nobody keeps pinning entries. Without IMAGE_VERSION
\* an update whose reboot was lost counts as installed and is never rebooted into.
Converges == stamped /\ <>[](oneshot = 0) => <>[](running = published["os"])
=============================================================================
