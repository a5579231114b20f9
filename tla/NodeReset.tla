------------------------------ MODULE NodeReset ------------------------------
(***************************************************************************)
(* Reset --wipe (internal/machine/lifecycle.go) on top of Onboarding: the   *)
(* state directory is emptied file by file, in no particular order, while   *)
(* apxd goes on serving handshakes and ApplyConfig from it, and the node    *)
(* then reboots.  Reset without --wipe touches none of this state: here it  *)
(* is a Reboot.  One wipe runs at a time.                                   *)
(***************************************************************************)
EXTENDS Onboarding

VARIABLES
    sandboxed,   \* whether apxd runs under apxd.service or as it is
    phase,   \* where Reset is
    left,    \* names os.RemoveAll has read and not yet removed
    dir,     \* whether the state directory exists
    clean,   \* history: the last boot followed a wipe that left no directory
    undone   \* history: a wipe has begun, and no boot has found its end

rvars == <<sandboxed, phase, left, dir, clean, undone>>

-----------------------------------------------------------------------------
\* Mutants: the token file is kept; the config is.
MutantNames == PKIFiles \cup {"config.yaml"}
MutantKeepsConfig == PKIFiles \cup {"onboarding-token"}

\* defaultRemoveStateDirs removes the directory with everything in it.
Names == PKIFiles \cup {"onboarding-token", "config.yaml"}

Exists(n) ==
    CASE n = "onboarding-token" -> token # Absent
      [] n = "config.yaml" -> config # Absent
      [] OTHER -> disk[n] # Absent

Unlink(n) ==
    /\ disk' = [f \in PKIFiles |-> IF f = n THEN Absent ELSE disk[f]]
    /\ token' = IF n = "onboarding-token" THEN Absent ELSE token
    /\ config' = IF n = "config.yaml" THEN Absent ELSE config

DirEmpty == \A n \in Names : ~Exists(n)

NobodyApplies == \A cl \in Clients : pc[cl] \notin InFlight

-----------------------------------------------------------------------------
(* machine.Reset(wipe = true) *)

\* os.RemoveAll reads the names once.  The caller's connection may carry an
\* ApplyConfig at the same time.  The reboot it ends in counts towards
\* the bound on boots.
StartWipe ==
    /\ daemon = "serving" /\ phase = "none" /\ dir
    /\ boot < MaxBoots
    /\ \E cl \in Clients : pc[cl] \in InFlight \cup {"open"}
    /\ phase' = "wiping" /\ left' = {n \in Names : Exists(n)} /\ undone' = TRUE
    /\ UNCHANGED <<vars, sandboxed, dir, clean>>

RemoveName(n) ==
    /\ phase = "wiping" /\ n \in left
    /\ Unlink(n) /\ left' = left \ {n}
    /\ UNCHANGED <<process, sessions, used, console, acked, contested, boot, faults, sandboxed, phase, dir, clean, undone>>

\* The directory is writable under apxd.service, its parent is not.
Removable == DirEmpty /\ ~sandboxed

\* Mutant: the error of removeStateDirs is ignored.
MutantRemoveDir ==
    /\ phase = "wiping" /\ left = {}
    /\ phase' = "unmerge" /\ dir' = ~Removable
    /\ UNCHANGED <<vars, sandboxed, left, clean, undone>>

\* The directory itself goes, if it can; otherwise Reset returns the error and
\* the node neither unmerges nor reboots.
RemoveDir ==
    /\ phase = "wiping" /\ left = {}
    /\ phase' = IF Removable THEN "unmerge" ELSE "none"
    /\ dir' = ~Removable
    /\ UNCHANGED <<vars, sandboxed, left, clean, undone>>

\* Unmerging is tolerated whatever it returns; systemctl reboot is asked next.
AskReboot ==
    /\ phase = "unmerge" /\ phase' = "halting"
    /\ UNCHANGED <<vars, sandboxed, left, dir, clean, undone>>

\* An unlink fails and RemoveAll goes on to the next name; systemctl fails.
ResetFails ==
    /\ faults < MaxFaults /\ faults' = faults + 1
    /\ \/ phase = "wiping" /\ (\E n \in left : left' = left \ {n}) /\ UNCHANGED phase
       \/ phase = "unmerge" /\ phase' = "none" /\ UNCHANGED left
    /\ UNCHANGED <<files, process, sessions, used, console, acked, contested, boot, sandboxed, dir, clean, undone>>

\* What the next boot finds: nothing, if the wipe went through.
FindsNothing == undone' = (undone /\ ~DirEmpty)

\* systemd stops apxd, which lets its handlers finish, and the machine boots.
Halt ==
    /\ phase = "halting" /\ phase' = "none"
    /\ daemon = "serving" /\ NobodyApplies
    /\ ProcessGone /\ boot' = boot + 1 /\ clean' = ~dir /\ FindsNothing
    /\ UNCHANGED <<files, used, console, acked, contested, faults, sandboxed, left, dir>>

WipeStep == (\E n \in Names : RemoveName(n)) \/ RemoveDir \/ AskReboot \/ Halt

Reset == StartWipe \/ WipeStep

-----------------------------------------------------------------------------
(* Onboarding meanwhile *)

\* EnsurePKI makes the directory.
BootStep == Boot /\ dir' = (dir \/ daemon' = "genOpen") /\ UNCHANGED <<sandboxed, phase, left, clean, undone>>

\* Without the directory an open fails; LoadOrCreateOnboardingToken ignores
\* that, fails on the chmod, and MaintenanceToken asks for no token.
HandlerNoDir(cl) ==
    /\ ~dir
    /\ \/ pc[cl] \in {"truncCert", "truncKey", "truncCA"} /\ Return(cl)
       \/ pc[cl] = "token" /\ Goto(cl, "truncCert") /\ UNCHANGED <<ask, want>>
    /\ UNCHANGED <<files, process, who, used, console, acked, contested, boot, faults, rvars>>

\* What is open stays writable, removals of what is gone succeed or are
\* ignored, and Save makes the directory again.
HandlerStep(cl) ==
    \/ HandlerNoDir(cl)
    \/ /\ dir \/ pc[cl] \notin {"token", "truncCert", "truncKey", "truncCA"}
       /\ Handler(cl)
       /\ dir' = (dir \/ pc[cl] = "save")
       /\ UNCHANGED <<sandboxed, phase, left, clean, undone>>

\* apxd takes connections and calls until systemd gets to stop it.
PeerStep(cl) ==
    /\ \/ \E id \in Identities : DialCert(cl, id)
       \/ \E c \in Configs, t \in Tokens \cup {Empty} : ApplyConfig(cl, c, t)
       \/ Disconnect(cl)
    /\ UNCHANGED rvars

Stop ==
    /\ \/ Crash /\ phase' = "none" /\ left' = {}
       \/ phase = "none" /\ Reboot /\ UNCHANGED <<phase, left>>
    /\ clean' = FALSE /\ FindsNothing
    /\ UNCHANGED <<sandboxed, dir>>

RInit ==
    Init /\ phase = "none" /\ left = {} /\ sandboxed \in BOOLEAN /\ dir = sandboxed
    /\ clean = FALSE /\ undone = FALSE

RNext ==
    \/ Reset \/ ResetFails
    \/ BootStep \/ Stop
    \/ \E cl \in Clients :
         \/ HandlerStep(cl) \/ PeerStep(cl)
         \/ (Handshake(cl) \/ CallFails(cl)) /\ UNCHANGED rvars
    \/ BootWriteFails /\ clean' = FALSE /\ UNCHANGED <<sandboxed, phase, left, dir, undone>>

rspecvars == <<vars, rvars>>

RSpec == RInit /\ [][RNext]_rspecvars

-----------------------------------------------------------------------------
(* Properties *)

RTypeOK ==
    /\ TypeOK
    /\ phase \in {"none", "wiping", "unmerge", "halting"}
    /\ left \subseteq Names /\ {dir, sandboxed, clean, undone} \subseteq BOOLEAN

\* lifecycle.go:78-80, apxconfig.go:93: whatever failed while the directory was emptied,
\* the node reboots only when nothing of the old identity is left and the token that was
\* announced is gone. If there is anything at all, an ApplyConfig in flight saved its
\* config after the directory went.
RebootsWiped ==
    phase \in {"unmerge", "halting"} =>
        /\ \A f \in PKIFiles : disk[f] \notin Bootstraps
        /\ token \in Tokens => token # console.token
        /\ (\E n \in Names : Exists(n)) => IsConfigured

\* lifecycle.go:68-70, 85: the boot after a wipe that nothing outlived is one in
\* maintenance mode, and the token it announces is not the one announced before.
ReturnsToMaintenance ==
    [][clean' /\ daemon # "serving" /\ daemon' = "serving" =>
         /\ ~IsConfigured /\ console' = [boot |-> boot, token |-> token']
         /\ token' # console.token]_rspecvars

Cycle == INSTANCE MaintenanceMode
    WITH None <- Absent, installed <- config, open <- Sessions, greeted <- Greeted

\* Onboarding and wipes implement MaintenanceMode: a node that was wiped, at whatever
\* point of an ApplyConfig and whatever failed, is again one that is given a config once
\* and from then on greets its holders only (lifecycle.go:68-92).
CycleSpec == Cycle!Spec
=============================================================================
