----------------------------- MODULE Onboarding -----------------------------
(***************************************************************************)
(* How a node leaves maintenance mode: the boot of apxd (PKI and onboarding *)
(* token), the mTLS handshakes that read the identity from disk, and the    *)
(* ApplyConfig handler that rewrites that identity while other handshakes   *)
(* and other ApplyConfig calls run.  Sources: internal/apid/{server,creds,  *)
(* machine}.go, internal/config/{pki,apxconfig}.go, cmd/apxd/main.go.       *)
(*                                                                          *)
(* Abstractions.  A PEM file is the name of the identity that owns it: a    *)
(* bootstrap CA or a machine config; the server certificate, its key and    *)
(* its CA belong together exactly when the names agree.  os.WriteFile is    *)
(* an open with O_TRUNC and a write, two steps; a rename, a remove and a    *)
(* read are one.  Of two writes to the same file the last one stays.        *)
(* Completed system calls survive a crash, in order (the code never calls   *)
(* fsync; the model gives it the benefit of an ordered file system).        *)
(***************************************************************************)
EXTENDS Naturals, FiniteSets

CONSTANTS
    Clients,      \* peers that open TLS connections
    Appliers,     \* those of them that call ApplyConfig
    Configs,      \* machine configs a caller may send
    Valid,        \* those that pass Validate and validateServerIdentity
    Bootstraps,   \* CAs that createCA may draw
    Tokens,       \* tokens that randomToken may draw
    Absent,       \* a file that does not exist
    Empty,        \* a file that exists with no content
    MaxBoots,     \* bound: machine boots
    MaxFaults     \* bound: crashes and failing system calls

ASSUME OnboardingAssumption ==
    /\ Appliers \subseteq Clients
    /\ Valid \subseteq Configs
    /\ Configs \cap Bootstraps = {}
    /\ Tokens \cap Bootstraps = {}
    /\ Absent # Empty
    /\ {Absent, Empty} \cap (Configs \cup Bootstraps \cup Tokens) = {}
    /\ MaxBoots \in Nat /\ MaxFaults \in Nat

VARIABLES
    disk,      \* the TLS files of the state directory
    token,     \* the file onboarding-token
    config,    \* the file config.yaml
    daemon,    \* where the apxd process is in main
    mine,      \* the bootstrap CA this process generated
    pos,       \* the file generatePKI is writing
    pc,        \* per client: where its handshake or its RPC handler is
    who,       \* per client: the identity it authenticates with
    ask,       \* per client: the config its ApplyConfig carries
    want,      \* per client: the token its ApplyConfig presents
    used,      \* history: CAs and tokens drawn so far
    console,   \* history: the last token announced, and the boot it was in
    acked,     \* history: configs whose ApplyConfig was answered OK
    contested, \* history: the last ApplyConfig found another one in flight
    boot,      \* machine boots so far
    faults     \* faults so far

files == <<disk, token, config>>
process == <<daemon, mine, pos>>
sessions == <<pc, who, ask, want>>
vars == <<files, process, sessions, used, console, acked, contested, boot, faults>>

-----------------------------------------------------------------------------
(* The state directory *)

PKIFiles == {"ca.crt", "ca.key", "server.crt", "server.key", "admin.crt", "admin.key"}

Identities == Configs \cup Bootstraps

\* generatePKI writes the CA, then issues "apxd" and "admin".
GenFiles == <<"ca.crt", "ca.key", "server.crt", "server.key", "admin.crt", "admin.key">>

\* What a write through an open descriptor leaves under the name: nothing, if
\* the name was removed after the open.
Filled(old, v) == IF old = Absent THEN Absent ELSE v

\* A client holds a cluster's identity from `apxctl gen`, and a bootstrap
\* identity once the node has issued the whole of it.
Holds(id) == id \in Configs \/ (disk["admin.crt"] = id /\ disk["admin.key"] = id)

Handshaking == {"dialKey", "dialCA", "exchange"}
Gating == {"token", "tokenFill", "tokenChmod"}
Replacing == {"truncCert", "fillCert", "truncKey", "fillKey", "truncCA", "fillCA"}
Writing == Replacing \cup {"rmCAKey", "save", "rmToken"}
InFlight == Gating \cup Writing

IsConfigured == config # Absent

-----------------------------------------------------------------------------
Init ==
    /\ disk = [f \in PKIFiles |-> Absent] /\ token = Absent /\ config = Absent
    /\ daemon = "start" /\ mine = Absent /\ pos = 1
    /\ pc = [cl \in Clients |-> "idle"]
    /\ who = [cl \in Clients |-> Absent]
    /\ ask = [cl \in Clients |-> Absent]
    /\ want = [cl \in Clients |-> Absent]
    /\ used = {} /\ console = [boot |-> 0, token |-> Absent] /\ acked = {}
    /\ contested = FALSE /\ boot = 1 /\ faults = 0

\* The process is gone: connections, handlers and memory with it.
ProcessGone ==
    /\ daemon' = "start" /\ mine' = Absent /\ pos' = 1
    /\ pc' = [cl \in Clients |-> "idle"]
    /\ who' = [cl \in Clients |-> Absent]
    /\ ask' = [cl \in Clients |-> Absent]
    /\ want' = [cl \in Clients |-> Absent]

-----------------------------------------------------------------------------
(* apid.New: EnsurePKI *)

\* Mutant: the test for a missing CA key is inverted.
MutantLoadPKI ==
    /\ daemon = "start" /\ disk["ca.crt"] # Absent
    /\ daemon' = IF disk["ca.key"] # Absent THEN "failed" ELSE "logging"
    /\ UNCHANGED <<files, mine, pos, sessions, used, console, acked, contested, boot, faults>>

LoadPKI ==
    /\ daemon = "start" /\ disk["ca.crt"] # Absent
    /\ daemon' = IF disk["ca.key"] = Absent THEN "failed" ELSE "logging"
    /\ UNCHANGED <<files, mine, pos, sessions, used, console, acked, contested, boot, faults>>

\* createCA draws the CA that the six files below come from.
CreateCA(b) ==
    /\ daemon = "start" /\ disk["ca.crt"] = Absent
    /\ b \notin used
    /\ used' = used \cup {b}
    /\ daemon' = "genOpen" /\ mine' = b /\ pos' = 1
    /\ UNCHANGED <<files, sessions, console, acked, contested, boot, faults>>

GenOpen ==
    /\ daemon = "genOpen"
    /\ disk' = [disk EXCEPT ![GenFiles[pos]] = Empty]
    /\ daemon' = "genFill"
    /\ UNCHANGED <<token, config, mine, pos, sessions, used, console, acked, contested, boot, faults>>

GenFill ==
    /\ daemon = "genFill"
    /\ disk' = [disk EXCEPT ![GenFiles[pos]] = mine]
    /\ IF pos < 6 THEN daemon' = "genOpen" /\ pos' = pos + 1
                  ELSE daemon' = "logging" /\ pos' = 1
    /\ UNCHANGED <<token, config, mine, sessions, used, console, acked, contested, boot, faults>>

(* main: LogMaintenance, then Serve *)

LogConfigured ==
    /\ daemon = "logging" /\ IsConfigured
    /\ daemon' = "serving"
    /\ UNCHANGED <<files, mine, pos, sessions, used, console, acked, contested, boot, faults>>

Announce(t) == console' = [boot |-> boot, token |-> t]

LogToken ==
    /\ daemon = "logging" /\ ~IsConfigured /\ token # Absent
    /\ Announce(token)
    /\ daemon' = "serving"
    /\ UNCHANGED <<files, mine, pos, sessions, used, acked, contested, boot, faults>>

\* randomToken and the open of the token file; the fill, the chmod and the
\* announcement follow with nobody else running.
LogOpenToken ==
    /\ daemon = "logging" /\ ~IsConfigured /\ token = Absent
    /\ token' = Empty /\ daemon' = "logFill"
    /\ UNCHANGED <<disk, config, mine, pos, sessions, used, console, acked, contested, boot, faults>>

LogFillToken(t) ==
    /\ daemon = "logFill" /\ t \notin used
    /\ used' = used \cup {t}
    /\ token' = t /\ Announce(t)
    /\ daemon' = "serving"
    /\ UNCHANGED <<disk, config, mine, pos, sessions, acked, contested, boot, faults>>

\* A failing write of generatePKI ends the process; a failing token write is
\* a warning and apxd serves on.
BootWriteFails ==
    /\ faults < MaxFaults /\ faults' = faults + 1
    /\ \/ daemon \in {"genOpen", "genFill"} /\ daemon' = "failed"
       \/ daemon = "logFill" /\ daemon' = "serving"
       \/ daemon = "logging" /\ ~IsConfigured /\ token = Absent /\ daemon' = "serving"
    /\ UNCHANGED <<files, mine, pos, sessions, used, console, acked, contested, boot>>

\* Restart=on-failure
Retry ==
    /\ daemon = "failed" /\ ProcessGone
    /\ UNCHANGED <<files, used, console, acked, contested, boot, faults>>

-----------------------------------------------------------------------------
(* reloadableCreds.ServerHandshake: certificate, key and CA are three reads, *)
(* and the TLS exchange comes after them.                                    *)
(* A handshake that cannot succeed any more is dropped at once: neither side *)
(* keeps anything of it.                                                     *)

Goto(cl, label) == pc' = [pc EXCEPT ![cl] = label]

Leave(cl) ==
    /\ Goto(cl, "idle") /\ who' = [who EXCEPT ![cl] = Absent]

DialCert(cl, id) ==
    /\ daemon = "serving" /\ pc[cl] = "idle"
    /\ Holds(id) /\ disk["server.crt"] = id
    /\ Goto(cl, "dialKey") /\ who' = [who EXCEPT ![cl] = id]
    /\ UNCHANGED <<files, process, ask, want, used, console, acked, contested, boot, faults>>

DialKey(cl) ==
    /\ pc[cl] = "dialKey"
    /\ IF disk["server.key"] = who[cl] THEN Goto(cl, "dialCA") /\ UNCHANGED who
                                       ELSE Leave(cl)
    /\ UNCHANGED <<files, process, ask, want, used, console, acked, contested, boot, faults>>

\* Mutant: the client is to be checked against the CA that issued the server's
\* own certificate, read when the handshake began.
MutantDialCA(cl) ==
    /\ pc[cl] = "dialCA"
    /\ Goto(cl, "exchange")
    /\ UNCHANGED <<files, process, who, ask, want, used, console, acked, contested, boot, faults>>

\* The pool that the client's certificate will be verified against.
DialCA(cl) ==
    /\ pc[cl] = "dialCA"
    /\ IF disk["ca.crt"] = who[cl] THEN Goto(cl, "exchange") /\ UNCHANGED who
                                   ELSE Leave(cl)
    /\ UNCHANGED <<files, process, ask, want, used, console, acked, contested, boot, faults>>

\* The TLS exchange with the peer, with what was read before it: the files may
\* have changed under it, and a whole ApplyConfig may have run.
Exchange(cl) ==
    /\ pc[cl] = "exchange" /\ Goto(cl, "open")
    /\ UNCHANGED <<files, process, who, ask, want, used, console, acked, contested, boot, faults>>

\* The peer hangs up, also in the middle of the exchange.
Disconnect(cl) ==
    /\ pc[cl] \in {"exchange", "open"} /\ Leave(cl)
    /\ UNCHANGED <<files, process, ask, want, used, console, acked, contested, boot, faults>>

-----------------------------------------------------------------------------
(* machineServer.ApplyConfig *)

\* The handler returns: the connection is open and idle again.
Return(cl) ==
    /\ Goto(cl, "open")
    /\ ask' = [ask EXCEPT ![cl] = Absent] /\ want' = [want EXCEPT ![cl] = Absent]

Passes(cl, c, t) ==
    /\ Goto(cl, "token")
    /\ ask' = [ask EXCEPT ![cl] = c] /\ want' = [want EXCEPT ![cl] = t]
    /\ contested' = (\E d \in Clients : pc[d] \in InFlight)
    /\ UNCHANGED <<files, process, who, used, console, acked, boot, faults>>

\* Mutants: no IsConfigured check; no validateServerIdentity.
MutantApplyConfig(cl, c, t) ==
    /\ cl \in Appliers /\ pc[cl] = "open"
    /\ c \in Valid
    /\ t \in (used \cap Tokens) \cup {Empty}
    /\ Passes(cl, c, t)

MutantUnvalidated(cl, c, t) ==
    /\ cl \in Appliers /\ pc[cl] = "open"
    /\ ~IsConfigured
    /\ t \in (used \cap Tokens) \cup {Empty}
    /\ Passes(cl, c, t)

\* IsConfigured, ParseMachineConfig and validateServerIdentity let the call
\* pass; the calls they refuse change nothing.
ApplyConfig(cl, c, t) ==
    /\ cl \in Appliers /\ pc[cl] = "open"
    /\ ~IsConfigured
    /\ c \in Valid
    /\ t \in (used \cap Tokens) \cup {Empty}
    /\ Passes(cl, c, t)

\* MaintenanceToken with a token file: "" asks for nothing.
CheckToken(cl) ==
    /\ pc[cl] = "token" /\ token # Absent
    /\ IF token \in {Empty, want[cl]}
         THEN Goto(cl, "truncCert") /\ UNCHANGED <<ask, want>>
         ELSE Return(cl)
    /\ UNCHANGED <<files, process, who, used, console, acked, contested, boot, faults>>

\* MaintenanceToken without one draws a token, which no caller can present.
OpenToken(cl) ==
    /\ pc[cl] = "token" /\ token = Absent
    /\ token' = Empty /\ Goto(cl, "tokenFill")
    /\ UNCHANGED <<disk, config, process, who, ask, want, used, console, acked, contested, boot, faults>>

FillToken(cl, t) ==
    /\ pc[cl] = "tokenFill" /\ t \notin used
    /\ used' = used \cup {t}
    /\ token' = Filled(token, t) /\ Goto(cl, "tokenChmod")
    /\ UNCHANGED <<disk, config, process, who, ask, want, console, acked, contested, boot, faults>>

\* Chmod by name fails when the file went away meanwhile, and an error of
\* LoadOrCreateOnboardingToken reads as "no token set".
ChmodToken(cl) ==
    /\ pc[cl] = "tokenChmod"
    /\ IF token = Absent THEN Goto(cl, "truncCert") /\ UNCHANGED <<ask, want>>
                         ELSE Return(cl)
    /\ UNCHANGED <<files, process, who, used, console, acked, contested, boot, faults>>

-----------------------------------------------------------------------------
(* Server.ApplyMachineConfig *)

\* Mutant: writers take turns, and one that fails does not give its turn back.
MutantTruncate(cl, at, file, next) ==
    /\ pc[cl] = at /\ disk[file] # Empty
    /\ disk' = [disk EXCEPT ![file] = Empty]
    /\ Goto(cl, next)
    /\ UNCHANGED <<token, config, process, who, ask, want, used, console, acked, contested, boot, faults>>

Truncate(cl, at, file, next) ==
    /\ pc[cl] = at
    /\ disk' = [disk EXCEPT ![file] = Empty]
    /\ Goto(cl, next)
    /\ UNCHANGED <<token, config, process, who, ask, want, used, console, acked, contested, boot, faults>>

Fill(cl, at, file, next) ==
    /\ pc[cl] = at
    /\ disk' = [disk EXCEPT ![file] = Filled(disk[file], ask[cl])]
    /\ Goto(cl, next)
    /\ UNCHANGED <<token, config, process, who, ask, want, used, console, acked, contested, boot, faults>>

\* Mutant: the bootstrap CA stays the trust anchor.
MutantReplaceIdentity(cl) ==
    \/ Truncate(cl, "truncCert", "server.crt", "fillCert")
    \/ Fill(cl, "fillCert", "server.crt", "truncKey")
    \/ Truncate(cl, "truncKey", "server.key", "fillKey")
    \/ Fill(cl, "fillKey", "server.key", "rmCAKey")

ReplaceIdentity(cl) ==
    \/ Truncate(cl, "truncCert", "server.crt", "fillCert")
    \/ Fill(cl, "fillCert", "server.crt", "truncKey")
    \/ Truncate(cl, "truncKey", "server.key", "fillKey")
    \/ Fill(cl, "fillKey", "server.key", "truncCA")
    \/ Truncate(cl, "truncCA", "ca.crt", "fillCA")
    \/ Fill(cl, "fillCA", "ca.crt", "rmCAKey")

\* Mutant: the token is retired before the config is saved.
MutantRemoveCAKey(cl) ==
    /\ pc[cl] = "rmCAKey"
    /\ disk' = [disk EXCEPT !["ca.key"] = Absent] /\ token' = Absent
    /\ Goto(cl, "save")
    /\ UNCHANGED <<config, process, who, ask, want, used, console, acked, contested, boot, faults>>

RemoveCAKey(cl) ==
    /\ pc[cl] = "rmCAKey"
    /\ disk' = [disk EXCEPT !["ca.key"] = Absent]
    /\ Goto(cl, "save")
    /\ UNCHANGED <<token, config, process, who, ask, want, used, console, acked, contested, boot, faults>>

\* Mutant: an error of Save is ignored.
MutantSave(cl) ==
    /\ pc[cl] = "save"
    /\ config' \in {config, ask[cl]} /\ Goto(cl, "rmToken")
    /\ UNCHANGED <<disk, token, process, who, ask, want, used, console, acked, contested, boot, faults>>

\* MachineConfig.Save: what the rename publishes is complete.
Save(cl) ==
    /\ pc[cl] = "save"
    /\ config' = ask[cl] /\ Goto(cl, "rmToken")
    /\ UNCHANGED <<disk, token, process, who, ask, want, used, console, acked, contested, boot, faults>>

RemoveToken(cl) ==
    /\ pc[cl] = "rmToken"
    /\ token' = Absent
    /\ acked' = acked \cup {ask[cl]}
    /\ Return(cl)
    /\ UNCHANGED <<disk, config, process, who, used, console, contested, boot, faults>>

-----------------------------------------------------------------------------
(* Failures *)

\* A failing system call: the three writes, the save and the token removal
\* end the call with Internal; the CA key's removal is ignored; a failing
\* token write leaves the gate open.
CallFails(cl) ==
    /\ faults < MaxFaults /\ faults' = faults + 1
    /\ \/ pc[cl] \in Replacing \cup {"save"} /\ Return(cl)
       \/ pc[cl] = "rmToken" /\ token # Absent /\ Return(cl)
       \/ pc[cl] = "rmCAKey" /\ Goto(cl, "save") /\ UNCHANGED <<ask, want>>
       \/ pc[cl] = "token" /\ token = Absent /\ Goto(cl, "truncCert") /\ UNCHANGED <<ask, want>>
       \/ pc[cl] = "tokenFill" /\ Goto(cl, "truncCert") /\ UNCHANGED <<ask, want>>
    /\ UNCHANGED <<files, process, who, used, console, acked, contested, boot>>

\* The process is killed, or the machine loses power.
Crash ==
    /\ faults < MaxFaults /\ faults' = faults + 1
    /\ daemon # "failed" /\ ProcessGone
    /\ UNCHANGED <<files, used, console, acked, contested, boot>>

\* SIGTERM on shutdown: GracefulStop lets the handlers finish.
Reboot ==
    /\ boot < MaxBoots /\ boot' = boot + 1
    /\ daemon = "serving"
    /\ \A cl \in Clients : pc[cl] \notin InFlight
    /\ ProcessGone
    /\ UNCHANGED <<files, used, console, acked, contested, faults>>

-----------------------------------------------------------------------------
Boot ==
    \/ LoadPKI \/ \E b \in Bootstraps : CreateCA(b)
    \/ GenOpen \/ GenFill
    \/ LogConfigured \/ LogToken \/ LogOpenToken \/ \E t \in Tokens : LogFillToken(t)
    \/ Retry

Handshake(cl) == DialKey(cl) \/ DialCA(cl) \/ Exchange(cl)

Handler(cl) ==
    \/ CheckToken(cl) \/ OpenToken(cl) \/ \E t \in Tokens : FillToken(cl, t)
    \/ ChmodToken(cl) \/ ReplaceIdentity(cl)
    \/ RemoveCAKey(cl) \/ Save(cl) \/ RemoveToken(cl)

Peer(cl) ==
    \/ \E id \in Identities : DialCert(cl, id)
    \/ \E c \in Configs, t \in Tokens \cup {Empty} : ApplyConfig(cl, c, t)
    \/ Disconnect(cl)

Next ==
    \/ Boot
    \/ \E cl \in Clients : Handshake(cl) \/ Handler(cl) \/ Peer(cl) \/ CallFails(cl)
    \/ BootWriteFails \/ Crash \/ Reboot

Spec == Init /\ [][Next]_vars

\* The process and the goroutines of its handlers keep running; nobody has to
\* connect, to call or to fail.
FairSpec ==
    /\ Spec
    /\ WF_vars(Boot)
    /\ \A cl \in Clients : WF_vars(Handshake(cl)) /\ WF_vars(Handler(cl))
-----------------------------------------------------------------------------
(* Properties *)

Contents == Identities \cup {Absent, Empty}

Types ==
    /\ disk \in [PKIFiles -> Contents]
    /\ token \in Tokens \cup {Absent, Empty}
    /\ config \in Configs \cup {Absent}
    /\ daemon \in {"start", "genOpen", "genFill", "logging", "logFill", "serving", "failed"}
    /\ mine \in Bootstraps \cup {Absent} /\ pos \in 1..6
    /\ pc \in [Clients -> {"idle", "open"} \cup Handshaking \cup InFlight]
    /\ who \in [Clients -> Identities \cup {Absent}]
    /\ ask \in [Clients -> Configs \cup {Absent}]
    /\ want \in [Clients -> Tokens \cup {Absent, Empty}]
    /\ used \subseteq Bootstraps \cup Tokens
    /\ console \in [boot : Nat, token : Tokens \cup {Absent, Empty}]
    /\ acked \subseteq Configs
    /\ contested \in BOOLEAN
    /\ boot \in Nat /\ faults \in Nat

\* A handler past the checks of ApplyConfig works on a config that passed them,
\* and whoever is connected or connecting has an identity.
Vetted ==
    \A cl \in Clients :
      /\ pc[cl] \in InFlight => ask[cl] \in Valid
      /\ pc[cl] # "idle" => who[cl] \in Identities

\* The type invariant; machine.go:308-317: no handler works on a config that did not
\* pass its checks.
TypeOK == Types /\ Vetted

\* creds.go:61-63: the trust anchor follows the machine config.  Whatever
\* crashes or fails, and however many ApplyConfig calls overlap, a node with
\* a config.yaml never trusts the bootstrap CA again (a CA file cut short
\* trusts nobody).
AnchorConfigured == IsConfigured => disk["ca.crt"] \in Valid \cup {Empty}

\* Peers that no applied config vouches for: let in, or found in the pool that
\* their handshake has read.
Strangers ==
    {<<cl, who[cl]>> : cl \in {c \in Clients : /\ pc[c] \in {"exchange", "open"} \cup InFlight
                                               /\ who[c] \notin Valid}}

\* creds.go:17-19: "In-flight connections are unaffected; new ones see the new CA".
\* Once the node has a config its strangers only get fewer, also by handshakes that
\* read the certificate and the key before it was installed.  (One that read the CA
\* before is let in, however late its exchange ends.)
BootstrapRejected == [][IsConfigured => Strangers' \subseteq Strangers]_vars

\* machine.go:301-302: as long as nothing has failed and no config is installed, no
\* ApplyConfig that got past the gate presented anything but the token the console
\* announced, however many calls there are.  (Once a config is there, a call that had
\* passed IsConfigured before finds the token file gone, being made again, or empty.)
GateHolds ==
    faults = 0 /\ ~IsConfigured =>
        \A cl \in Clients : pc[cl] \in Writing => want[cl] = console.token

\* server.go:99-100: the certificate, the key and the CA that handshakes read
\* are those of the config that GetConfig reports, after any failure, unless the call
\* that installed it found another one in flight.
Served == IsConfigured => \A f \in {"server.crt", "server.key", "ca.crt"} : disk[f] = config

InstalledIsServed == ~contested => Served

\* Connections let in, whether or not they run an RPC, and those about to be.
Sessions == {<<cl, who[cl]>> : cl \in {c \in Clients : pc[c] \in {"open"} \cup InFlight}}

Greeted == {<<cl, who[cl]>> : cl \in {c \in Clients : pc[c] = "exchange"}}

Maintenance == INSTANCE MaintenanceMode
    WITH None <- Absent, installed <- config, open <- Sessions, greeted <- Greeted, undone <- FALSE

\* machine.go:304, creds.go:17-19: onboarding implements MaintenanceMode.  One config,
\* installed at once and for good, and nobody else looked up in its CA from then on;
\* only calls that overlapped before there was a config can make it otherwise.
MaintenanceSpec == Maintenance!Spec

\* Nothing fails from here on.
Calm == faults = MaxFaults

\* main.go:23-40: apxd on an unconfigured node gets to serve, also after a
\* crash, unless that one parted the CA from its key.
UnconfiguredServes ==
    /\ Calm /\ daemon = "start" /\ ~IsConfigured
    /\ disk["ca.crt"] # Absent => disk["ca.key"] # Absent
    ~> daemon = "serving"

\* machine.go:303-332: every ApplyConfig call ends, also when the files it
\* waits for are being rewritten by others or a system call fails.
CallsEnd == \A cl \in Clients : pc[cl] \in InFlight ~> pc[cl] \notin InFlight

\* A call that passes the gate configures the node if nothing fails any more,
\* whatever an earlier failure left on the disk.
GrantedConfigures ==
    \A cl \in Clients : Calm /\ pc[cl] = "truncCert" ~> IsConfigured

(* What the documents say of the program, and the code does not do *)

\* pki.go:49: EnsurePKI loads the PKI "on first boot" and later: apxd starts.
NodeBoots == daemon # "failed"
=============================================================================
