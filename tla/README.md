# Archaeopteryx in TLA+

Archaeopteryx manages single nodes of an image-based Linux: `apxd` runs on the
node and serves a gRPC API over mutual TLS, `apxctl` is its client. The modules
here model the parts of it where the order of steps, a crash or a second caller
decides whether the node stays usable, check them with TLC and prove the central
properties with TLAPS. Paths below are relative to `src/`, and definitions carry
the names of the code where there is one. `PROJECT.json` maps each definition to
its lines.

## The system

| Part | Code | State it keeps | Operations |
|---|---|---|---|
| Boot and PKI of apxd | `cmd/apxd/main.go`, `internal/config/pki.go`, `internal/apid/server.go`, the unit file | six TLS files and `onboarding-token` in `/var/lib/archaeopteryx` | EnsurePKI, LogMaintenance, Serve, restart by systemd |
| Onboarding | `internal/apid/{machine,server}.go`, `internal/config/apxconfig.go` | `config.yaml`, whose existence is "configured" | ApplyConfig, GetConfig |
| mTLS handshakes | `internal/apid/creds.go`, `pkg/client` | none: every handshake reads the files again | ServerHandshake |
| Certificate generation | `internal/config/{certgen,gen}.go` | none | GenerateCluster, WriteArtifacts |
| Version ordering | `internal/machine/sysupdate.go` | none | CompareVersions |
| Update engine | `internal/machine/{upgrade,sysupdate}.go` | staged A/B slots and sysexts, through systemd-sysupdate and bootctl | BuildPlan, Update, ApplyUpdate, Rollback |
| Node lifecycle | `internal/machine/{lifecycle,hostname}.go` | the state directories | Reboot, Shutdown, Reset |
| k0s | `internal/machine/{k0s,kubeconfig}.go` | the k0s unit and its `admin.conf` | Bootstrap, Kubeconfig |
| Units and status | `internal/machine/{systemd,status,osrelease}.go` | none | Services, ServiceAction, Status |
| Journal streams | `internal/machine/{journal,events}.go` | one journalctl child per stream, an event counter | Logs, Events |
| Kubeconfig merge | `internal/machine/kubeconfig_merge.go`, `internal/cli/kubeconfig.go` | the operator's kubeconfig | `apxctl kubeconfig --merge` |
| CLI | `internal/cli`, `cmd/apxctl` | flags, environment, bundle | one request per command |
| Wire protocol, build information | `api/apx/v1`, `pkg/version` | none | generated code, constants |

How they interact. All handlers of apxd run as goroutines of one process and
share the state directory without a lock. ApplyConfig rewrites the files that
handshakes read at the same time, and retires the token that other ApplyConfig
calls read. `config.yaml` decides in three places, IsConfigured, LogMaintenance
and the ApplyConfig gate. Reset removes the directory under all of them. Update
and Bootstrap drive systemd-sysupdate, systemd-sysext, systemctl and bootctl,
whose state outlives apxd. Kubeconfig and the readiness poll read what k0s
writes.

Hard behaviours, and what makes each part correct:

* **Boot.** Six files are written one by one at first boot, and a later boot
  looks at two of them. Correct when apxd gets to serve, whatever it finds.
* **Onboarding.** Five writes and two removals without a lock, a check of
  IsConfigured before them, a token file that readers create when it is missing.
  Correct when a node is given one config, once, by someone who knew the token;
  when the identity it serves is that config's after any failure; and when a
  configured node never lets the bootstrap identity in again.
* **Handshakes.** Certificate, key and CA are three reads, and the exchange with the
  peer ends some time after the last of them. Correct when, with whatever mix of old
  and new, nobody is let in on a CA that was read after the config had replaced it.
* **Version ordering.** Mixed numeric and textual segments, numbers beyond 64
  bits, versions of different lengths. Correct when it is an order, since an
  update is offered and the rollback slot is chosen by it.
* **Reset.** Files go one at a time and in no order, then the directory, then a
  reboot. Correct when the node reboots only after a complete wipe, and then
  into maintenance mode.
* **Update engine.** A plan computed before the updates decides the reboot after
  them; several components, one of which may fail; concurrent Updates; a
  rollback target taken from the installed and not the running version. Correct
  when a call that answers well did all it planned, when a reboot has a reason,
  and when a node whose operator keeps updating gets there.
* **k0s.** A readiness poll against a deadline that reads what the datastore has on
  record, retries of Bootstrap, an `admin.conf` that appears late, a Reset that
  removes the image as well and looks at few of its errors. Correct when OK is about
  the cluster whose credentials the poll holds, when every handler returns, and when a
  reset node comes up without a cluster.
* **Reports.** No call locks anything and each reads several places. Correct when
  what is said of the node was so during the call.
* **Journal streams.** A killer goroutine and a reader share a child process;
  GracefulStop waits for streams that do not end. Correct when no child outlives
  its handler, no record is lost on the way, and a stream nobody reads ends.
* **Artifacts and identity.** Five files written one by one on the workstation,
  read one by one by another command, or copied from a bundle into temporary files.
  Correct when the directory of a command that ended well is of one run, and when a
  client that set out with a node's identity is not turned away by that node.
* **Kubeconfig merge.** Read, modify and rename by concurrent runs, under a name
  that may not be the cluster's. Correct when the file stays whole; what
  overlapping runs and equal names may cost is stated, and that nothing else is lost.

Every hazard is listed at its line in `PROJECT.json`, with the properties that
cover it, or a note that says why none does.

## Modules

| Module | What it is |
|---|---|
| `MaintenanceMode` | what onboarding and wipes promise, without files, tokens or handshakes |
| `Onboarding` | boot, handshakes, ApplyConfig, crashes, failing system calls, reboots |
| `NodeReset` | `Reset --wipe` composed with `Onboarding` |
| `UpdateEngine` | Update and Rollback over systemd-sysupdate, systemd-sysext and systemd-boot |
| `K0sLifecycle` | Bootstrap with its poll, ServiceAction, the k0s part of Reset, Reboot, Shutdown |
| `ServerStreams` | Logs and Events over their journalctl children, and GracefulStop |
| `NodeReports` | ListServices, GetStatus and GetConfig while the node changes |
| `Workstation` | gen config, the choice of identity, and kubeconfig runs of apxctl |
| `VersionOrder` | the loop of compareVersions, and the order it computes |
| `MC...` | TLC's instances: symmetry, and values a cfg cannot write down |
| `OnboardingProofs` | its invariants, and that it implements `MaintenanceMode` |
| `NodeResetProofs` | what a wipe leaves, the boot after it, and that onboarding with wipes implements `MaintenanceMode`, on top of `OnboardingProofs` |
| `UpdateEngineProofs`, `K0sLifecycleProofs`, `ServerStreamsProofs`, `NodeReportsProofs`, `WorkstationProofs`, `VersionOrderProofs` | the theorems of the module they are named for |

`NodeReset` EXTENDS `Onboarding` because the two share the state directory.
The other modules share only what the node keeps between them, and each takes the
rest of the system as what it is to that part: a reset unmerges the sysext under
an update (`Unmerge`), an update renames a new link into place under a status
call (`NodeChanges`), and so on.

### Onboarding

| State | In the code |
|---|---|
| `disk`, `token`, `config` | the files of the state directory: an identity's name, a token, or `Absent` or `Empty` |
| `daemon`, `mine`, `pos` | where `main` is, the CA generatePKI holds in memory, the file it is writing |
| `pc`, `who`, `ask`, `want` | per peer, where its handshake or its handler is, the identity it uses, the config and token it sent |
| `boot`, `faults` | counters for the bounds |
| `used`, `console`, `acked` | history: what was drawn, what the console last announced, which configs were answered OK |
| `contested` | history: the last ApplyConfig that went past IsConfigured found another one in flight |

Boot is `LoadPKI`, `CreateCA`, `GenOpen`/`GenFill` per file, then `LogConfigured`
or one of `LogToken`, `LogOpenToken`/`LogFillToken`; `Retry` is
`Restart=on-failure`. A handshake is `DialCert` and
`DialKey` (the key pair), `DialCA` (the read of `ca.crt` into the pool, creds.go:72)
and `Exchange` (the end of the TLS exchange, creds.go:42, which looks at the pool and
no more at the disk). ApplyConfig is
`ApplyConfig` (the checks), then the token gate `CheckToken`,
`OpenToken`/`FillToken`/`ChmodToken`, then `ReplaceIdentity` (truncate and fill
for each of three files), `RemoveCAKey`, `Save`, `RemoveToken`. `CallFails` and
`BootWriteFails` fail any system call in between, `Crash` stops the process, and
`Reboot` is a clean stop, for which GracefulStop waits until the handlers are done.

What is abstracted:

* A PEM file is the name of the identity it belongs to: the certificate, its key
  and its CA fit exactly when the names agree. Every config has a CA of its own,
  as `apxctl gen` makes them.
* `os.WriteFile` is two steps, the open that truncates and the write. Of two
  writes to one file the last one stays. A descriptor whose file was removed
  writes to nobody (`Filled`). Rename, remove, chmod and read are one step.
* System calls that returned survive a crash in their order. The code calls no
  fsync, so a real file system may do worse; the model shows what goes wrong even
  on one that does not.
* A handshake that can no longer succeed is dropped at once (`DialCA` drops the peer
  whose CA is not in the pool, `Exchange` is the rest of those that will be let in), and so is a call
  that IsConfigured, the parser or the validation refuses: they change nothing.
* `hostnamectl` is left out; its error is only logged.

### NodeReset

It EXTENDS `Onboarding` and adds `phase` (where Reset is), `left` (the names
`os.RemoveAll` has read and not yet removed), `dir` (whether the state directory
exists), `sandboxed` (whether apxd runs under `packaging/microraptor/apxd.service`,
whose `ProtectSystem=strict` with `ReadWritePaths=/var/lib/archaeopteryx` leaves
the parent directory read-only, so that the directory can be emptied and not
removed), and the histories `clean` (the last boot followed a wipe that took the
directory) and `undone` (a wipe has begun, and no stop since has left the directory
empty). `StartWipe` reads the names, `RemoveName` takes
them in any order, `RemoveDir` takes the directory or returns the error,
`AskReboot` unmerges and calls systemctl, `Halt` is the stop and the new boot.
`ResetFails` fails one unlink or systemctl. The handlers of `Onboarding` run
meanwhile, as the code lets them; `HandlerStep` says what they do when the
directory is gone: opens fail, the token gate takes the failure for "no token set",
Save makes the directory again. One wipe runs at a time. Its k0s half is in
`K0sLifecycle`.

`RebootsWiped` therefore does not say that nothing is left: an ApplyConfig in
flight may save its config into a directory it has just made again, and with two
of them the second may write its server identity and a token file as well. It
says that nothing of the old identity is, that no token somebody read from the
console still works, and that whatever is there came with a config.

### UpdateEngine

| State | In the code |
|---|---|
| `published` | what the release sources announce |
| `image`, `slots`, `running`, `oneshot`, `merged`, `halting` | the newest k0s sysext and the DDI symlink, the UKIs under `/efi/EFI/Linux`, the booted version, `set-oneshot`, the merged sysext, an accepted `systemctl reboot` |
| `stamped` | whether os-release carries `IMAGE_VERSION` |
| `pc`, `call` | where each call is; its scope, its plan and what it has read |
| `away` | history: the oneshot was picked while nothing newer was installed |

Update is `Update` (request and strategy), `BuildPlan` once per component with the
lookup of the newest release, `Classify`, then per component in name order
`ApplyUpdate` and for k0s `Merge`, then `Finish` and `ExecReboot`. Rollback is
`ReadEFISlots`, `PreviousSlot`, `SetOneshot`. `CallFails` fails a command, `Boot`
is the next boot or a power loss, and chooses the entry as systemd-boot does unless
the entry fails. A version is a number; that `CompareVersions` orders them is
`VersionOrder`'s part, and `OrderTransitive` and `OrderAsymmetric` are what makes
"newest" well defined. systemd-sysupdate keeps two instances and never vacuums the
running one (`Retain`).

### K0sLifecycle

The node is `image` (where a k0s.raw is), `merged`, `enabled`, `unit`, `admin` (the
cluster whose `admin.conf` is there), `api` (the cluster whose apiserver answers),
`ready` (whether the node is Ready in it), `record` (the cluster whose datastore has
the node's Ready condition as True) and `halting`; `pc` and `held` are a call's place
and the cluster its client is pinned to. `record` is what `fetchNodes` and
`nodeListReady` read (kubeconfig.go:124-147). It stays when k0s stops, fails or the node
boots, until a running k0s corrects it (`RecordLapses`), so a poll right after a boot may
find a Ready of before. `seen` and `missed` are history: the
clusters that were on record as Ready since a call began, and what the running Reset's
`systemctl stop` and `disable` failed to do, or that it has company.

Bootstrap is `K0sSysextLocation`, `K0sMerged` (`status`, or `list` where that fails,
which names an image merged or not), `MergeSysext`, `StartController`, `LocalAPIClient`
(one read of `admin.conf`), then `FetchNodes`, a request that may fail, with `Tick` and
`Deadline`. Reset is `StopUnit`, `DisableUnit`, `K0sReset` (the errors of the three are
dropped), `RemoveStateDirs`, `UnmergeSysext`, `ResetReboots`. `FoundCluster`, `ApiUp`,
`BecomeReady`, `RecordLapses` and `K0sFails` are k0s.

### ServerStreams

A stream is its handler (`pc`), its `client`, its `child` with the record it writes
`next`, and the `pipe` between them, which holds one record. `StreamJournal`
starts the child, `Scan` reads a record, passes over what does not parse or is no
event, and stops at a line beyond 4 MiB; `Emit` is Send; `KillChild` and `Reap` are
the ends of the loop; `Killer` is the goroutine that waits for cancellation.
`ServeReturns` is GracefulStop. A record is known by its place in the journal and
its kind.

### NodeReports

`node` is what the three calls read; `NodeChanges` is everything that may happen to
it between two steps. `during` collects what the node was since the call began,
`failed` which of the call's own commands failed, and a property compares the `reply`
with both. ListServices is `ListUnits` and `ListServices`, GetStatus `CollectHost`,
`SysextMerged`, `UnitState` and `CollectKube`, GetConfig one read. `SysextMerged` asks
`systemd-sysext status`, which tells what is merged, and where that fails `list`, which
names the image that is there (`Mentioned`); so the node has both, `merged` and `image`.
A status carries `ready |-> FALSE` always: CollectKube never sets the field
(status.go:71).

### Workstation

`made` lists the nodes gen config was run for, `dir` says which run each file of
the output directory is of (0 is absent or cut short), `installed` which run's
identity a node serves with, `kube` is the user's kubeconfig, `run` the runs of
`apxctl kubeconfig`. `GenerateCluster`, `WriteArtifact` and `ArtifactFails` are
gen config. `resolvedOptions` reads the bundle, or takes the flags;
`writeTempIdentity` copies a bundle's identity into temporary files, any of which may
be lost without a word (root.go:141-156); `tlsCredentials` reads the three files, of
the directory or of the copy, one after the other, and needs a certificate and a key
that match; `Connects` is what the handshake checks; `Kubeconfig`, `ReadTarget` and
`Rename` are the rest of a run. A run keeps in `set` which run of gen config its
identity was of when it set out. The `--endpoint` beside a bundle matters to nothing
before the merge is named, and is chosen with the answer (`Flags`).

With `--file` apxctl writes the node's answer without parsing it
(kubeconfig_merge.go:14); the model takes that answer for a whole document, which is
k0s's part.

### VersionOrder

A version is the sequence of segments `splitVersion` yields; a segment is known by
the number it spells (`Decimal`), if it spells one, and by the place of its
lower-case form among strings (`Folded`). `Differ`, `Advance` and `Exhausted` are
the exits of the loop body and the code after it. That the loop ends is plain from its
header and not stated. `Before` is the same order
stated without a loop: the first disagreement decides, texts come before numbers,
and a prefix comes before what it is a prefix of.

### MaintenanceMode

The state is the installed config, the acknowledged ones, the peers that have been
greeted (they will be let in), the open sessions, and two flags. A config is installed
once and for good (`Install`), only it is acknowledged (`Acknowledge`), and after that
only its identity is greeted (`Greet`). Who was greeted is let in (`Admit`), at whatever
time: a handshake that read the bootstrap CA before the config came may end after it, and
its peer has a session on a configured node.

Two things suspend that. Calls that overlap before there is a config contest the node
(`Contest`): then the last of them decides, and who is greeted meanwhile is not known. The
code does not exclude it, since IsConfigured is looked at once and nothing is locked, so the
abstract node does not either; a node that nobody contests is not excused by anything. And
a wipe does: from its start (`Undo`) the node may lose its config (`Forget`), greet whom it
should not know any more and acknowledge a call whose config it has lost; unless it is
contested it never replaces one config by another. `Renew` ends it: nothing is left, all
sessions are closed, and everything above holds again.

`Onboarding` maps `installed` to `config`, `acked` and `contested` to their namesakes,
`greeted` to the peers in `exchange`, `open` to those past it, and `undone` to FALSE:
without a wipe nothing is ever taken back. `DialCA` is `Greet`, `Exchange` is `Admit`,
`Save` is `Install`, `RemoveToken` is `Acknowledge`, and the start of an ApplyConfig that
meets another, or the first that meets none after them, is `Contest`.
`NodeReset` maps `undone` to its history of that name. `StartWipe` is `Undo`,
`RemoveName` of config.yaml is `Forget`, and a stop or `Halt` that leaves the
directory empty is `Renew`. The node stays undone after a crash in the middle of a
wipe, an unlink that failed, or an ApplyConfig that saved its config behind the wipe:
some files are left, in any combination, and only another wipe takes them away.

## Runs

Times are those of two workers on a small machine.

| Run | Distinct states, time | Shows |
|---|---|---|
| `Onboarding_faults` | 1.4 M, 2 min 20 s | `TypeOK`, `AnchorConfigured`, `BootstrapRejected`, `GateHolds`: three concurrent operators, and a crash or a failing system call at any point. `BootstrapRejected` says that once there is a config the peers that no config vouches for, let in or about to be, only get fewer: what a handshake read of the CA before the config came is honoured, however long its exchange takes, and nothing is read wrong after that. `GateHolds` speaks of what happens until the first failure: while there is no config, whoever is past the token gate presented the announced token, although a missing token file is recreated and a failing chmod opens the gate |
| `Onboarding_refines` | 228 k, 16 s | `InstalledIsServed`, `MaintenanceSpec`: two operators whose calls may overlap and may be repeated, two faults, a reboot |
| `Onboarding_live` | 79 k, 35 s | `UnconfiguredServes`, `GrantedConfigures`, `CallsEnd`: two operators and a fault. Every call ends; once nothing fails any more a node gets to serve and a granted call configures it |
| `Onboarding_restart` | stops early | the counterexample to `NodeBoots`, below |
| `NodeReset` | 1.0 M, 1 min 35 s | `RTypeOK`, `RebootsWiped`, `ReturnsToMaintenance`, `CycleSpec`: a wipe with an ApplyConfig before, during and after it, one failing step or crash anywhere, under the unit file or not |
| `VersionOrder` | 4154, 1 s | `TypeOK`, `OrderCorrect`: 1849 pairs of versions |
| `UpdateEngine` | 3.4 M, 2 min | `TypeOK`, `RebootHasReason`, `NothingSkipped`, `RollbackLeaves`: two calls at once, a release at any moment, one fault |
| `UpdateEngine_live` | 38 s | `CallsEnd`, `Converges`: an operator who keeps updating the OS ends up with the newest one running, after two faults |
| `K0sLifecycle` | 327 k, 2 min 40 s | `TypeOK`, `OkMeansReady`, `ResetIsClean`, `HandlersReturn`, `RetriesSucceed`: two callers, one reset, service action or reboot, one fault. OK is about the cluster of the poll's own credentials, whose datastore had the node as Ready at some moment of the call; that it is so when OK is said, the code does not establish. `ResetIsClean` is of a Reset without another call, whose `stop` and `disable` may fail and then cost what they were to do |
| `ServerStreams` | 148 k, 23 s | `TypeOK`, `NoHoles`, `ChildrenReaped`, `CancelledEnds`, `DrainEnds`: one stream of any kind, two faults, a shutdown |
| `Workstation` | 3.1 M, 2 min 10 s | `TypeOK`, `ArtifactsMatch`, `NotTurnedAway`, `KubeWhole`, `MergesKeep`: two gen config runs for two nodes while two kubeconfig runs go on. `NotTurnedAway`: a run that set out with the identity of the node it dials is answered, with a bundle whatever gen config writes meanwhile, with the three files if no gen config begins. `MergesKeep` says what a merge may cost, which is more than it should (below) |
| `NodeReports` | 2.1 M, 40 s | `TypeOK`, `ListIsAMoment`, `AnswerWasTrue`: three changes between the steps of a call, two failing commands |

`Onboarding_restart` is a run TLC refutes: ApplyMachineConfig removes `ca.key`
(server.go:114), which `LoadPKI` demands at the next start (pki.go:43), so a
configured node's apxd never starts again.

### Bounds

* Peers and appliers: three appliers in `Onboarding_faults`, since it takes three
  to empty the token file between two (below), and two where the files they share
  are compared only with "mine" and "not mine". The theorems hold for any number of both.
  `NodeReset` has one peer: two with a fault do not fit into the time, two
  without (6.9 M states) hold as well, and the theorems are for any number.
* Configs: two valid ones, so that one can replace another, and one that fails
  validation. Where the identity of the config does not matter, one.
* `Bootstraps` and `Tokens`: as many as the boots and faults of the run can draw,
  so that drawing never blocks.
* `MaxBoots`: two machine boots, the one that onboards and one after it
  (`Onboarding_faults` and `Onboarding_live` have one: their restarts are those after a
  crash). In `NodeReset`
  the second is the boot after the wipe, hence the guard of `StartWipe`.
* `MaxFaults`: two where safety is checked under failures and the run affords it,
  so that a failure can hit the recovery from another; one in the largest runs.
* Versions of a component (`MaxVersion`): three, of which two are out at the start:
  the one before, the installed one and one that appears between a plan and what
  it does. Versions of `VersionOrder`: two segments of six kinds, with a number
  beyond `MaxInt64` and two texts that differ in case only.
* `MaxActs` one and `MaxFaults` one in `K0sLifecycle`: a reset and whatever
  disturbs it, or a Bootstrap and the reset that does. Two clusters and the empty
  one then meet, so that a poll holds credentials of a cluster that is gone.
* One stream in `ServerStreams`: streams share nothing but GracefulStop, and
  `ReapCorrect` is proved for any number. Three records with `-n 2`, so that the
  tail leaves one out and one is written after it.
* Two nodes, two runs of gen config and two of kubeconfig in `Workstation`: two
  runs are what it takes to lose an entry or to mix two identities. The user's
  kubeconfig has one entry at first (`Own`); the theorems allow any, or none.
* Three changes of the node in `NodeReports`: one between every two reads.

Symmetry is used in safety runs only, over what no definition orders.

### Deadlock and fairness

`ServerStreams` and `NodeReports` are checked for deadlock. The other cfgs say
`CHECK_DEADLOCK FALSE`: an apxd that serves and to which nobody connects after the
last boot of the bound has no next step, nor has a finished comparison, a
workstation whose runs are over, or a node that is switched off.

Fairness is given to what the Go scheduler, systemd and k0s keep running:

* `Onboarding`: the daemon's boot with its restart, and handlers and handshakes
  that have started. Nothing there waits for a lock, so weak fairness is enough.
* `UpdateEngine`: the handlers; a machine that shuts down boots; and the operator
  of `Converges` repeats the update again and again (strong fairness, since other
  answers may come between two of its calls).
* `K0sLifecycle`: the handlers; k0s, if left alone, founds its cluster, serves its API
  and gets its node Ready; a reboot ends in a boot. The poll's deadline has strong fairness: it
  is enabled at every wait and the ticker disables it for the time of a request.
  `RetriesSucceed` assumes that the image is where systemd-sysext looks, that the node is
  not left switched off, and that no k0s goes on for ever over a state directory that a
  Reset has taken from under it.
* `ServerStreams`: reader, killer goroutine and GracefulStop, and a journalctl
  that writes what there is. Clients owe nothing, so `DrainEnds` has to assume that
  open streams do not follow the journal and are read.

## Proofs

Every theorem is for any value of the constants that satisfies the module's one
ASSUME: any number of peers, calls, streams or runs, boots and faults.

`OnboardingProofs`, from `OnboardingAssumption` (configs, CAs, tokens and the two
markers are told apart):

* `TypeCorrect`, which includes `Vetted`: only a config that passed validation
  is ever written by a handler. The next invariant needs it.
* `ConfiguredAnchor`. `AnchorConfigured` is not inductive: it says nothing of a
  node that is about to be configured, nor of a boot that is about to write
  `ca.crt`. `Anchored` adds that a configured node is not in `genOpen` or
  `genFill` and that a handler past the write of `ca.crt` has left there a valid
  config's CA, or the empty file of another handler's write.
* `TokenGate`. `Gated`: until the first failure and before there is a config, the
  token file is what the console announced whenever apxd serves, and a handler has
  passed the gate with it. Only RemoveToken takes the file away, and it comes after
  a Save. With a config there all that is over, as a disagreement below shows.
* `OldIdentityRejected`, an action property, from the same invariant. The read of the
  CA is the one step that can add a peer to `Strangers`, and on a configured node that
  file is one `AnchorConfigured` speaks about; the exchange, an ApplyConfig call and
  its answer move a peer within them (`StrangersStep`).
* `ServedIdentity`, by `OrderInv`. As long as the calls are uncontested, at most one is
  in flight (`Alone`), and `Progress` says which of the three files already carry its
  config, whatever an earlier call that failed has left there. Nothing is assumed of the
  callers: calls that overlap make `contested` true, and of two that both pass IsConfigured
  the second does replace the first one's config.
* `Implements`: each step of `Onboarding` is `Contest`, `Install`, `Acknowledge`,
  `Greet`, `Admit`, `Drop` or a stutter of `MaintenanceMode`, for any number of callers.

`NodeResetProofs` reuses the type lemmas of `OnboardingProofs`, since most steps of
`NodeReset` are `Onboarding`'s:

* `ResetTypeCorrect`, with `Drawn` (a token on the disk or the console has been
  drawn) and `Quiet` (peers are connected, and Reset runs, only while apxd serves).
* `WipeCorrect`. `DirHolds` says that no directory means no file, in particular
  that a boot past LoadPKI has its directory; `Gone` says what holds between the
  removal and the reboot, where only Save can make the directory again. That the
  old token cannot come back needs `Drawn`: a handler draws one that is new.
* `MaintenanceCorrect`. `Fresh` says that a boot which found no directory finds
  neither config nor token until it has written its own.
* `ResetImplements`: onboarding and wipes implement
  `MaintenanceMode`, by `CycleInv`. `InTurn` says that an uncontested call in flight
  found no config, and none is saved before it saves its own: a wipe may take that one
  away again and never brings one. `Settled` says that where nothing is undone no Reset
  runs, a serving apxd has its directory, and `OrderInv` holds, the invariant
  of `Implements`. `SettledStep` turns a step there into one of `Onboarding`, so
  that both the invariant and the refinement carry over; `RenewStep` and
  `RenewSettled` show that a stop with an empty directory brings `OrderInv` back,
  whatever the wipe had passed through. In between, `InTurn` is
  all that is left: no config replaces another.

`UpdateEngineProofs`: `TypeCorrect` with `Listed` (no entry has version 0, and a
rollback picks from a listing of at most two). `RebootCorrect`: `Ordered` says that
no slot holds anything newer than what is installed or published, and that a plan for
the OS names something published and newer than what runs; `Reasoned` says that a
call which has applied its plan, or asks for the reboot, left a newer OS in a slot. It
needs that no other call can take it away, which is `Retain`. `NothingIsSkipped`, by
`Promised`: a plan promises no more than what was released, what a call has applied
has reached at least what its plan promised, and k0s is merged, if at all, from an
image that has. `RollbackCorrect`, by `Leaving`: from the listing to the boot, what a
rollback has listed, chosen or pinned is another entry that is there, or an update
has put a newer one in its place. The case that is not obvious is an update between
two steps of the rollback: it installs what is there already and removes nothing, or
something newer than every entry.

`K0sLifecycleProofs`: `TypeCorrect`; `OkCorrect`, by `Witnessed`: whatever is on
record as Ready has been so since every Bootstrap in flight began, and a call at `ok`
holds credentials of such a cluster; `ResetCorrect`, by `Undisturbed`: a Reset that has
no company is the only call, and what each of its steps undid, unless it is among
`missed`, stays undone until the boot, although k0s may go on failing and founding.

`ServerStreamsProofs`: `TypeCorrect`, with the addition that a handler in `emit` has a
record; `ReapCorrect`, by `Parented`: an idle handler has no child, a done one has
reaped it, and a stopped server has no open handler; `NothingLost`, by `Whole` and
`Kept`: the client got, in order, every wanted record from where the stream began up
to what the child has written, except for the last one, which may still be in the
pipe; and a handler that waits for its child has nothing left to send.

`NodeReportsProofs`: `TypeCorrect`; `ListCorrect` and `AnswerCorrect`, by
`Read`: every part of an answer read so far was so at some moment of the call, and what
is said of the sysext is what the commands that failed in this call leave of it
(`SysextWasTrue`).

`WorkstationProofs`: `TypeCorrect`; `ArtifactsCorrect`, by `Written`; `ClientAnswered`,
by `Sourced`: what a run has read of its identity so far is of the run of gen config it
set out with, so that no step of it can find two files that do not fit, nor the node refuse
what it presents, and for the three files of the directory this needs `Written`, as long
as no other gen config begins; `KubeconfigWhole`, by `RunInv` too, since what a run has
read of the kubeconfig names nothing twice; `NothingLost`, an action property that follows
from the step alone once the run is known.

`VersionOrderProofs`, from `VersionAssumption`, for versions of any length:

* `TypeCorrect`, and `CompareCorrect`: the value returned is the place of the two versions in
  `Before`. The loop invariant is that the segments before the index agree.
* `NotNewerThanItself`, `OrderTransitive`, `OrderAsymmetric`, `OrderRespectsSame`:
  `Before` is a strict order that respects equality.
* `OrderTotal`: of two versions that are not equal one is newer. Its witness is the
  least place where they differ, which exists because `<` is well founded on Nat
  (`LeastNumber`, from the library's theorem).

Every invariant and every action property that a run checks is a theorem. Only
model-checked are the liveness properties, which need fairness and ENABLED, and
`NodeBoots`, which TLC refutes.

## Where the code and its documentation disagree

`NodeBoots` has a run. The others came up while modelling; the models behave like
the code.

Onboarding and reset:

* "In-flight connections are unaffected; new ones see the new CA" (creds.go:17-19): a
  connection whose exchange ends after the change is judged by the CA read before it
  (creds.go:72, used at creds.go:42). With a slow peer that may be long after.
* Two ApplyConfig calls can both pass IsConfigured (machine.go:304), and the second
  replaces the first one's config after it was acknowledged.
* "gated by the onboarding token when one is set" (machine.go:301-302): of three
  overlapping calls one that passed IsConfigured early may present nothing. The first
  saves its config and removes the token file, the second creates it anew and has
  truncated it when the third reads it, and an empty token counts as none
  (pki.go:153-168, server.go:92-97). Hence `GateHolds` speaks of a node without a
  config.
* "One-per-boot onboarding token" (README.md:33, PLAN.md:44): an unconfigured node
  announces the token of the boot before (pki.go:154-156).
* "generating all identities on first boot" (pki.go:49): after a crash half way the
  next boot looks at `ca.crt` and `ca.key` only and serves a partial PKI.
* An identity write that fails half way leaves an unconfigured node without its
  bootstrap identity (server.go:104-112); a call that overlaps another's end creates
  a token file on a configured node (server.go:93).
* A wipe interrupted after `ca.crt` leaves `config.yaml`: the next boot draws a
  bootstrap CA for a configured node (lifecycle.go:36).
* An ApplyConfig that overlaps a wipe survives it (apxconfig.go:93, lifecycle.go:85).
* Under the shipped unit a wipe empties the directory, fails to remove it and
  answers an error without the reboot (apxd.service:18-20, lifecycle.go:78-80); the
  same holds of `/var/lib/k0s` without `--wipe`.

Updates:

* "os + k0s: stage both" (ARCHITECTURE.md:75): where k0s is merged, its update ends
  in a refused second merge (upgrade.go:209), so the OS is never reached.
* "k0s-only updates are merged immediately" (README.md:88-89): with `--reboot` they
  also reboot when an OS update is available but not in scope (upgrade.go:170).
* "run the k0s update component first" (k0s.go:40): without k0s there is no current
  version, and so never an update (upgrade.go:88).
* After a staged update `previousSlot` may pick the slot that runs (upgrade.go:265).
* Without IMAGE_VERSION an update whose reboot was lost is not redone, and
  `/run/reboot-required` (README.md:88) is written by nothing. `--component` with a
  word that is neither axis means all.

k0s, streams, reports, workstation:

* Bootstrap waits "until the node reports Ready" (k0s.go:69-71), but reads what the
  datastore has on record. Soon after a restart of k0s or a boot that may be the Ready of
  before, and the answer is OK for a node that may never get there again.
* The fallback from `systemd-sysext status` to `list` (status.go:173-174, k0s.go:46-51)
  takes an image that is there for one that is merged: a status says merged, and a
  Bootstrap leaves the merge out and fails at `systemctl enable`.
* The Ready of a status is never set (status.go:71, machine.go:94), and `apxctl status`
  prints it as false (cli/status.go:60).
* The first Bootstrap on a fresh node usually fails on the missing `admin.conf`
  (k0s.go:108); repeated, it succeeds. `apxctl reset` gives up after two minutes
  while its handler goes on.
* A shutdown waits for every stream that follows the journal, until systemd kills
  apxd (server.go:148). A line beyond 4 MiB ends a stream as if it were complete
  (journal.go:163). Ctrl-C on a stream exits with an error.
* From the second service on, the times of ListServices are 0 or another unit's,
  since `systemctl show --value` prints an empty line between units (systemd.go:74).
* A unit systemd does not know is "stopped", where the comment has an empty state
  and so "disabled" (status.go:207).
* A bundle replaces `--endpoint` (root.go:116), where the comment has it that explicit
  flags win (root.go:80-81); a single identity flag turns it off, and `apxctl version`
  ignores it.
* contextEndpoint "returns the endpoint the client resolves" (kubeconfig.go:95-96) and
  "merge as context apx-<host>" (README.md:72): the name is made from the flag or the
  default, not from the endpoint that is dialled. With a bundle it is `apx-127.0.0.1` for
  every node, and merging a second node drops the entry of the first, also when one run
  follows the other.
* Two merges at once may lose the entry of one of them: nothing is locked between the read
  and the rename. `MergesKeep` allows for both losses and shows that there are no others.
* A temporary identity file that cannot be written is not reported where it happens
  (root.go:141-156) but as a file with an empty name that cannot be read.

## Not modelled

* The generated protocol code and the build constants: no logic of their own.
* X.509, YAML and the parsing of command output: what they yield is modelled, not
  how. `--insecure`, `--context`, and what commands print.
* `hostnamectl`, FormatPlan, RebootOwed, the number of an event: nothing depends on
  them.
* A file system that reorders writes across a power loss.
* CI and the scripts under `hack/`.

What could come next: an abstract specification of the slots of `UpdateEngine`, and of
what a stream promises its client, with the refinements to them.
