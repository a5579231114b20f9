--------------------------- MODULE NodeResetProofs ---------------------------
(***************************************************************************)
(* Reset --wipe among any number of peers, calls, boots and failures. What *)
(* Onboarding's own steps do to the types, and that they implement         *)
(* MaintenanceMode, is proved in OnboardingProofs.                         *)
(***************************************************************************)
EXTENDS NodeReset, OnboardingProofs

-----------------------------------------------------------------------------
(* Types *)

\* Of the history, what a step may not forget: a token on the disk or on the
\* console has been drawn.
Drawn == /\ token \in Tokens => token \in used
         /\ console.token \in Tokens => console.token \in used

\* Peers have apxd to talk to, and a Reset has it to run in.
Quiet == /\ \A cl \in Clients : pc[cl] # "idle" => daemon = "serving"
         /\ phase # "none" => daemon = "serving"

RTyped == /\ TypeOK /\ Drawn /\ Quiet
          /\ phase \in {"none", "wiping", "unmerge", "halting"}
          /\ left \subseteq Names
          /\ dir \in BOOLEAN /\ sandboxed \in BOOLEAN /\ clean \in BOOLEAN /\ undone \in BOOLEAN

LEMMA RInitTyped == RInit => RTyped
  <1> SUFFICES ASSUME RInit PROVE RTyped
    OBVIOUS
  <1>1. TypeOK
    BY TypedInit DEF RInit
  <1>2. Drawn /\ Quiet
    BY OnboardingAssumption, SMT DEF RInit, Init, Drawn, Quiet
  <1> QED
    BY <1>1, <1>2 DEF RInit, RTyped

\* A step of RNext is a step of Onboarding, or one of Reset's.
LEMMA RemoveTyped == ASSUME RTyped, NEW n \in Names, RemoveName(n) PROVE RTyped'
  <1>1. /\ disk' \in [PKIFiles -> Contents] /\ token' \in {token, Absent} /\ config' \in {config, Absent}
    BY SMT DEF RemoveName, Unlink, RTyped, TypeOK, Types, Contents
  <1>2. /\ UNCHANGED <<process, sessions, used, console, acked, contested, boot, faults>>
        /\ UNCHANGED <<sandboxed, phase, dir, clean, undone>> /\ left' \subseteq Names
    BY DEF RemoveName, RTyped
  <1>3. TypeOK'
    BY <1>1, <1>2, SMT DEF RTyped, TypeOK, Types, Vetted, process, sessions
  <1>4. Drawn' /\ Quiet'
    BY <1>1, <1>2, OnboardingAssumption, SMT DEF RTyped, Drawn, Quiet, process, sessions
  <1> QED
    BY <1>2, <1>3, <1>4 DEF RTyped

LEMMA ResetTyped == ASSUME RTyped, Reset \/ ResetFails PROVE RTyped'
  <1>1. CASE StartWipe \/ RemoveDir \/ AskReboot
    <2>1. UNCHANGED <<vars, sandboxed, clean>> /\ (phase' # "none" => daemon = "serving")
          /\ phase' \in {"none", "wiping", "unmerge", "halting"}
          /\ left' \subseteq Names
      BY <1>1, SMT DEF StartWipe, RemoveDir, AskReboot, RTyped, Quiet
    <2>2. dir' \in BOOLEAN /\ undone' \in BOOLEAN
      BY <1>1, Zenon DEF StartWipe, RemoveDir, AskReboot, RTyped
    <2>3. TypeOK' /\ Drawn' /\ Quiet'
      BY <2>1, SMT DEF vars, files, process, sessions, RTyped, TypeOK, Types, Vetted, Drawn, Quiet
    <2> QED
      BY <2>1, <2>2, <2>3 DEF RTyped
  <1>2. CASE ResetFails
    <2>1. /\ UNCHANGED <<files, process, sessions, used, console, acked, contested, boot>>
          /\ UNCHANGED <<sandboxed, dir, clean, undone>>
          /\ faults' = faults + 1 /\ phase' \in {phase, "none"} /\ left' \subseteq Names
      BY <1>2, SMT DEF ResetFails, RTyped
    <2>2. TypeOK' /\ Drawn' /\ Quiet'
      BY <2>1, SMT DEF files, process, sessions, RTyped, TypeOK, Types, Vetted, Drawn, Quiet
    <2> QED
      BY <2>1, <2>2 DEF RTyped
  <1>3. CASE Halt
    <2>1. TypeOK'
      BY <1>3, SMT DEF Halt, ProcessGone, RTyped, TypeOK, Types, Contents, Vetted, files,
                       InFlight, Gating, Writing, Replacing
    <2>2. Drawn' /\ Quiet'
      BY <1>3, SMT DEF Halt, ProcessGone, files, RTyped, Drawn, Quiet
    <2>3. clean' \in BOOLEAN /\ undone' \in BOOLEAN
      BY <1>3, Zenon DEF Halt, FindsNothing, RTyped
    <2> QED
      BY <1>3, <2>1, <2>2, <2>3 DEF Halt, RTyped
  <1> QED
    BY <1>1, <1>2, <1>3, RemoveTyped DEF Reset, WipeStep

LEMMA BootDrawn == ASSUME RTyped, Boot, UNCHANGED phase PROVE Drawn' /\ Quiet'
  <1> USE OnboardingAssumption DEF RTyped, TypeOK, Types, Drawn, Quiet, files, sessions
  <1>0. phase = "none" \/ daemon = "serving"
    BY DEF Quiet
  <1>1. daemon # "serving"
    BY SMT DEF Boot, LoadPKI, CreateCA, GenOpen, GenFill, LogConfigured, LogToken, LogOpenToken,
               LogFillToken, Retry
  <1>2. \A cl \in Clients : pc'[cl] = "idle"
    BY <1>1, SMT DEF Boot, LoadPKI, CreateCA, GenOpen, GenFill, LogConfigured, LogToken,
                     LogOpenToken, LogFillToken, Retry, ProcessGone
  <1>3. Drawn'
    <2>1. CASE LoadPKI \/ GenOpen \/ GenFill \/ LogConfigured \/ Retry
      BY <2>1, SMT DEF LoadPKI, GenOpen, GenFill, LogConfigured, Retry
    <2>2. CASE \E b \in Bootstraps : CreateCA(b)
      BY <2>2, SMT DEF CreateCA
    <2>3. CASE LogToken
      BY <2>3, SMT DEF LogToken, Announce
    <2>4. CASE LogOpenToken
      BY <2>4, SMT DEF LogOpenToken
    <2>5. CASE \E t \in Tokens : LogFillToken(t)
      BY <2>5, SMT DEF LogFillToken, Announce
    <2> QED
      BY <2>1, <2>2, <2>3, <2>4, <2>5 DEF Boot
  <1>4. Quiet'
    BY <1>0, <1>1, <1>2 DEF Quiet
  <1> QED
    BY <1>3, <1>4

LEMMA HandlerDrawn ==
  ASSUME RTyped, NEW cl \in Clients, Handler(cl)
  PROVE  Drawn' /\ daemon = "serving" /\ daemon' = "serving"
  <1> USE OnboardingAssumption DEF RTyped, TypeOK, Types, Drawn, files, process
  <1>1. pc[cl] # "idle"
    BY SMT DEF Handler, CheckToken, OpenToken, FillToken, ChmodToken, ReplaceIdentity, Truncate,
               Fill, RemoveCAKey, Save, RemoveToken
  <1>2. daemon = "serving"
    BY <1>1 DEF Quiet
  <1>3. daemon' = daemon
    BY SMT DEF Handler, CheckToken, OpenToken, FillToken, ChmodToken, ReplaceIdentity, Truncate,
               Fill, RemoveCAKey, Save, RemoveToken
  <1>4. Drawn'
    <2>1. CASE \E t \in Tokens : FillToken(cl, t)
      BY <2>1, SMT DEF FillToken, Filled
    <2>2. CASE OpenToken(cl) \/ RemoveToken(cl)
      BY <2>2, SMT DEF OpenToken, RemoveToken
    <2>3. CASE CheckToken(cl) \/ ChmodToken(cl) \/ ReplaceIdentity(cl) \/ RemoveCAKey(cl) \/ Save(cl)
      BY <2>3, SMT DEF CheckToken, ChmodToken, ReplaceIdentity, Truncate, Fill, RemoveCAKey, Save
    <2> QED
      BY <2>1, <2>2, <2>3 DEF Handler
  <1> QED
    BY <1>2, <1>3, <1>4

\* Peers and failing calls need a daemon that serves, and touch none of its files.
LEMMA PeerKeeps ==
  ASSUME NEW cl, Peer(cl) \/ Handshake(cl) \/ CallFails(cl)
  PROVE  /\ UNCHANGED <<files, process, used, console>>
         /\ daemon = "serving" \/ pc[cl] # "idle"
  <1>1. CASE \E id \in Identities : DialCert(cl, id)
    BY <1>1, Zenon DEF DialCert
  <1>2. CASE \E c \in Configs, t \in Tokens \cup {Empty} : ApplyConfig(cl, c, t)
    BY <1>2, ApplyEffect, SMT
  <1>3. CASE Disconnect(cl) \/ Handshake(cl) \/ CallFails(cl)
    BY <1>3, SMT DEF Disconnect, Handshake, DialKey, DialCA, Exchange, CallFails, Replacing
  <1> QED
    BY <1>1, <1>2, <1>3 DEF Peer

LEMMA RNextTyped == RTyped /\ [RNext]_rspecvars => RTyped'
  <1> SUFFICES ASSUME RTyped, [RNext]_rspecvars PROVE RTyped'
    OBVIOUS
  <1>1. CASE BootStep
    <2>1. TypeOK' /\ Drawn' /\ Quiet'
      <3>1. Boot /\ UNCHANGED phase
        BY <1>1 DEF BootStep
      <3> QED
        BY <3>1, BootTyped, BootDrawn DEF RTyped
    <2>2. dir' \in BOOLEAN
      BY <1>1, Zenon DEF BootStep, RTyped
    <2> QED
      BY <1>1, <2>1, <2>2 DEF BootStep, RTyped
  <1>2. CASE Stop
    <2>1. TypeOK'
      BY <1>2, StopTyped DEF Stop, RTyped
    <2>2. Drawn' /\ Quiet'
      BY <1>2, SMT DEF Stop, Crash, Reboot, ProcessGone, files, RTyped, Drawn, Quiet
    <2>3. phase' \in {"none", "wiping", "unmerge", "halting"} /\ left' \subseteq Names
      BY <1>2, SMT DEF Stop, RTyped
    <2>4. dir' \in BOOLEAN /\ sandboxed' \in BOOLEAN /\ clean' \in BOOLEAN /\ undone' \in BOOLEAN
      BY <1>2, Zenon DEF Stop, FindsNothing, RTyped
    <2> QED
      BY <2>1, <2>2, <2>3, <2>4 DEF RTyped
  <1>3. ASSUME NEW cl \in Clients, HandlerStep(cl) PROVE RTyped'
    <2>1. CASE HandlerNoDir(cl)
      <3>1. pc[cl] \in {"token", "truncCert", "truncKey", "truncCA"}
            /\ (Return(cl) \/ (Goto(cl, "truncCert") /\ UNCHANGED <<ask, want>>))
            /\ UNCHANGED <<files, process, who, used, console, acked, contested, boot, faults, rvars>>
        BY <2>1, SMT DEF HandlerNoDir
      <3>2. daemon = "serving"
        BY <3>1 DEF RTyped, Quiet
      <3>3. TypeOK'
        BY <3>1, SMT DEF Return, Goto, files, process, RTyped, TypeOK, Types, Contents, Vetted,
                         InFlight, Gating, Writing, Replacing
      <3>4. Drawn' /\ Quiet'
        BY <3>1, <3>2, SMT DEF files, process, rvars, RTyped, Drawn, Quiet
      <3> QED
        BY <3>1, <3>3, <3>4 DEF rvars, RTyped
    <2>2. CASE Handler(cl) /\ dir' = (dir \/ pc[cl] = "save")
               /\ UNCHANGED <<sandboxed, phase, left, clean, undone>>
      <3>1. TypeOK' /\ Drawn' /\ Quiet'
        BY <2>2, HandlerTyped, HandlerDrawn DEF RTyped, Quiet
      <3>2. dir' \in BOOLEAN
        BY <2>2, Zenon DEF RTyped
      <3> QED
        BY <2>2, <3>1, <3>2 DEF RTyped
    <2> QED
      BY <1>3, <2>1, <2>2 DEF HandlerStep
  <1>4. ASSUME NEW cl \in Clients,
               (PeerStep(cl) \/ Handshake(cl) \/ CallFails(cl)) /\ UNCHANGED rvars
        PROVE  RTyped'
    <2>1. TypeOK'
      BY <1>4, PeerTyped DEF PeerStep, Peer, RTyped
    <2>2. UNCHANGED <<files, process, used, console>>
      BY <1>4, PeerKeeps DEF PeerStep, Peer
    <2>3. daemon = "serving"
      BY <1>4, PeerKeeps DEF PeerStep, Peer, RTyped, Quiet
    <2> QED
      BY <1>4, <2>1, <2>2, <2>3 DEF files, process, rvars, RTyped, Drawn, Quiet
  <1>5. CASE BootWriteFails /\ clean' = FALSE /\ UNCHANGED <<sandboxed, phase, left, dir, undone>>
    <2>1. TypeOK'
      BY <1>5, StopTyped DEF RTyped
    <2>2. Drawn' /\ Quiet'
      BY <1>5, SMT DEF BootWriteFails, files, sessions, RTyped, Drawn, Quiet
    <2> QED
      BY <1>5, <2>1, <2>2 DEF RTyped
  <1>6. CASE UNCHANGED rspecvars
    BY <1>6, SMT DEF rspecvars, rvars, vars, files, process, sessions, RTyped, TypeOK, Types, Vetted,
                     Drawn, Quiet
  <1> QED
    BY <1>1, <1>2, <1>3, <1>4, <1>5, <1>6, ResetTyped DEF RNext, PeerStep

LEMMA RTypedAlways == RSpec => []RTyped
  BY RInitTyped, RNextTyped, PTL DEF RSpec

\* lifecycle.go:68-92: the types of the state directory and of Reset, with wipes,
\* handlers, boots and failures interleaved in any way.
THEOREM ResetTypeCorrect == RSpec => []RTypeOK
  <1>1. RTyped => RTypeOK
    BY DEF RTyped, RTypeOK
  <1> QED
    BY <1>1, RTypedAlways, PTL
-----------------------------------------------------------------------------
(* What a wipe leaves, and the boot after it *)

\* No directory, no file: what a handler has open it fills without a name.
Nothing == token = Absent /\ config = Absent /\ \A f \in PKIFiles : disk[f] = Absent

DirHolds == /\ ~dir => Nothing
            /\ daemon \in {"genOpen", "genFill", "logging", "logFill"} => dir

\* Past the removal, the directory is one that an ApplyConfig in flight made.
Gone == phase \in {"unmerge", "halting"} =>
            /\ dir => IsConfigured
            /\ \A f \in PKIFiles : disk[f] \notin Bootstraps
            /\ token \in Tokens => token # console.token

\* A boot that found no directory finds neither config nor token.
Fresh == clean /\ daemon # "serving" =>
             config = Absent /\ (daemon # "logFill" => token = Absent)

Wiped == RTyped /\ DirHolds /\ Gone /\ Fresh

LEMMA ExistsMeans == Nothing <=> DirEmpty
  BY SMT DEF Nothing, DirEmpty, Names, Exists, PKIFiles

LEMMA RInitWiped == RInit => DirHolds /\ Gone /\ Fresh
  BY SMT DEF RInit, Init, DirHolds, Nothing, Gone, Fresh

LEMMA ResetWiped ==
  ASSUME Wiped, Reset \/ ResetFails
  PROVE  DirHolds' /\ Gone' /\ Fresh'
  <1>1. /\ ~dir <=> dir = FALSE
        /\ phase # "none" => daemon = "serving"
        /\ daemon = "serving" => (DirHolds <=> (~dir => Nothing))
    BY SMT DEF Wiped, RTyped, Quiet, DirHolds
  <1>2. CASE StartWipe
    BY <1>2, SMT
       DEF StartWipe, vars, files, process, IsConfigured, Wiped, DirHolds, Nothing, Gone, Fresh
  <1>3. ASSUME NEW n \in Names, RemoveName(n) PROVE DirHolds' /\ Gone' /\ Fresh'
    <2>1. phase' = "wiping" /\ daemon' = "serving" /\ dir' = dir
      BY <1>1, <1>3 DEF RemoveName, process
    <2>2. Nothing => Nothing'
      BY <1>3, SMT DEF RemoveName, Unlink, Nothing
    <2> QED
      BY <2>1, <2>2 DEF Wiped, DirHolds, Nothing, Gone, Fresh
  <1>4. CASE RemoveDir
    <2>1. /\ UNCHANGED <<files, daemon, console>> /\ daemon = "serving"
          /\ phase' \in {"unmerge", "none"}
      BY <1>1, <1>4, SMT DEF RemoveDir, vars, process
    <2>2. ~dir' => Nothing
      BY <1>4, ExistsMeans DEF RemoveDir, Removable
    <2>3. phase' = "unmerge" => ~dir'
      BY <1>4 DEF RemoveDir
    <2> QED
      BY <2>1, <2>2, <2>3, OnboardingAssumption, SMT
         DEF files, Nothing, DirHolds, Nothing, Gone, Fresh
  <1>5. CASE AskReboot
    BY <1>1, <1>5, SMT
       DEF AskReboot, vars, files, process, IsConfigured, Wiped, DirHolds, Nothing, Gone, Fresh
  <1>6. CASE Halt
    <2>1. /\ UNCHANGED <<files, dir>> /\ daemon' = "start" /\ phase' = "none"
          /\ daemon = "serving"
      BY <1>6 DEF Halt, ProcessGone
    <2>2. clean' => ~dir
      BY <1>6, Zenon DEF Halt
    <2> QED
      BY <2>1, <2>2, <1>1, SMT DEF files, Wiped, DirHolds, Nothing, Gone, Fresh
  <1>7. CASE ResetFails
    BY <1>1, <1>7, SMT
       DEF ResetFails, files, process, IsConfigured, Wiped, DirHolds, Nothing, Gone, Fresh
  <1> QED
    BY <1>2, <1>3, <1>4, <1>5, <1>6, <1>7 DEF Reset, WipeStep

LEMMA BootWiped ==
  ASSUME Wiped, BootStep
  PROVE  DirHolds' /\ Gone' /\ Fresh'
  <1> USE DEF files, sessions
  <1>0. /\ phase' = "none" /\ clean' = clean
    BY SMT DEF BootStep, Boot, LoadPKI, CreateCA, GenOpen, GenFill, LogConfigured, LogToken,
               LogOpenToken, LogFillToken, Retry, Wiped, RTyped, Quiet
  <1>1. Gone'
    BY <1>0 DEF Gone
  <1>2. (dir => dir') /\ (daemon' = "genOpen" => dir') /\ (~dir' => ~dir)
    BY Zenon DEF BootStep
  <1>3. CASE LoadPKI
    <2>1. dir
      BY <1>3, SMT DEF LoadPKI, PKIFiles, Wiped, DirHolds, Nothing
    <2> QED
      BY <1>0, <1>1, <1>2, <1>3, <2>1, SMT DEF LoadPKI, Wiped, DirHolds, Nothing, Fresh
  <1>4. CASE \E b \in Bootstraps : CreateCA(b)
    BY <1>0, <1>1, <1>2, <1>4, SMT DEF CreateCA, Wiped, DirHolds, Nothing, Fresh
  <1>5. CASE GenOpen \/ GenFill \/ LogOpenToken \/ (\E t \in Tokens : LogFillToken(t))
    <2>1. daemon \in {"genOpen", "genFill", "logFill", "logging"}
      BY <1>5, SMT DEF GenOpen, GenFill, LogOpenToken, LogFillToken
    <2>2. dir /\ dir'
      BY <1>2, <2>1 DEF Wiped, DirHolds
    <2>3. Fresh'
      BY <1>0, <1>5, SMT DEF GenOpen, GenFill, LogOpenToken, LogFillToken, Wiped, Fresh, IsConfigured
    <2> QED
      BY <1>1, <2>2, <2>3 DEF DirHolds
  <1>6. CASE LogConfigured \/ LogToken \/ Retry
    BY <1>0, <1>1, <1>2, <1>6, SMT
       DEF LogConfigured, LogToken, Retry, ProcessGone, Wiped, DirHolds, Nothing, Fresh
  <1> QED
    BY <1>3, <1>4, <1>5, <1>6 DEF BootStep, Boot

LEMMA HandlerWiped ==
  ASSUME Wiped, NEW cl \in Clients, HandlerStep(cl)
  PROVE  DirHolds' /\ Gone' /\ Fresh'
  <1> USE DEF files, process
  <1>1. CASE HandlerNoDir(cl)
    BY <1>1, SMT
       DEF HandlerNoDir, rvars, IsConfigured, Wiped, DirHolds, Nothing, Gone, Fresh
  <1>2. CASE Handler(cl) /\ dir' = (dir \/ pc[cl] = "save") /\ UNCHANGED <<sandboxed, phase, left, clean, undone>>
             /\ (dir \/ pc[cl] \notin {"token", "truncCert", "truncKey", "truncCA"})
    <2>1. daemon = "serving" /\ daemon' = "serving"
      BY <1>2, HandlerDrawn DEF Wiped
    <2>2. CASE \E t \in Tokens : FillToken(cl, t)
      <3>1. PICK t \in Tokens : FillToken(cl, t)
        BY <2>2
      <3>2. /\ t # console.token /\ token' \in {Absent, t} /\ (token = Absent => token' = Absent)
            /\ UNCHANGED <<disk, config, console, dir, phase, clean>>
        BY <1>2, <3>1, SMT DEF FillToken, Filled, Wiped, RTyped, Drawn
      <3> QED
        BY <2>1, <3>2, OnboardingAssumption, SMT
           DEF IsConfigured, Wiped, DirHolds, Nothing, Gone, Fresh
    <2>3. CASE CheckToken(cl) \/ ChmodToken(cl) \/ OpenToken(cl) \/ RemoveToken(cl)
      <3>1. /\ UNCHANGED <<disk, config, console, dir, phase, clean>>
            /\ token' \in {token, Absent, Empty} /\ (~dir => token' \in {token, Absent})
        BY <1>2, <2>3, SMT DEF CheckToken, ChmodToken, OpenToken, RemoveToken, Wiped, RTyped
      <3> QED
        BY <2>1, <3>1, OnboardingAssumption, SMT
           DEF IsConfigured, Wiped, DirHolds, Nothing, Gone, Fresh
    <2>4. CASE ReplaceIdentity(cl) \/ RemoveCAKey(cl)
      <3>1. UNCHANGED <<token, config, console, dir, phase, clean>>
        BY <1>2, <2>4, SMT DEF ReplaceIdentity, Truncate, Fill, RemoveCAKey, Wiped, RTyped
      <3>2. \A f \in PKIFiles : /\ disk'[f] \in {disk[f], Empty, Absent, ask[cl]}
                                /\ ~dir /\ disk[f] = Absent => disk'[f] = Absent
        BY <1>2, <2>4, SMT DEF ReplaceIdentity, Truncate, Fill, Filled, RemoveCAKey, Wiped, RTyped,
                               TypeOK, Types
      <3>3. ask[cl] \in Valid
        BY <2>4, SMT DEF ReplaceIdentity, Truncate, Fill, RemoveCAKey, Wiped, RTyped, TypeOK, Vetted,
                         InFlight, Gating, Writing, Replacing
      <3> QED
        BY <2>1, <3>1, <3>2, <3>3, OnboardingAssumption, SMT
           DEF IsConfigured, Wiped, DirHolds, Nothing, Gone, Fresh
    <2>5. CASE Save(cl)
      <3>1. ask[cl] \in Valid
        BY <2>5, SMT DEF Save, Wiped, RTyped, TypeOK, Vetted, InFlight, Gating, Writing, Replacing
      <3>2. /\ config' = ask[cl] /\ config' # Absent
            /\ UNCHANGED <<disk, token, console, phase, clean>>
        BY <1>2, <2>5, <3>1, OnboardingAssumption, SMT DEF Save
      <3>3. dir'
        BY <1>2, <2>5, Zenon DEF Save
      <3> QED
        BY <2>1, <3>2, <3>3, SMT DEF IsConfigured, Wiped, DirHolds, Nothing, Gone, Fresh
    <2> QED
      BY <1>2, <2>2, <2>3, <2>4, <2>5 DEF Handler
  <1> QED
    BY <1>1, <1>2 DEF HandlerStep

LEMMA RNextWiped == Wiped /\ [RNext]_rspecvars => Wiped'
  <1> SUFFICES ASSUME Wiped, [RNext]_rspecvars PROVE DirHolds' /\ Gone' /\ Fresh'
    BY RNextTyped DEF Wiped
  <1>1. CASE Stop
    <2>1. UNCHANGED <<files, dir>> /\ phase' = "none" /\ clean' = FALSE /\ daemon' = "start"
      BY <1>1, SMT DEF Stop, Crash, Reboot, ProcessGone
    <2> QED
      BY <2>1, SMT DEF files, Wiped, DirHolds, Nothing, Gone, Fresh
  <1>2. ASSUME NEW cl \in Clients,
               (PeerStep(cl) \/ Handshake(cl) \/ CallFails(cl)) /\ UNCHANGED rvars
        PROVE  DirHolds' /\ Gone' /\ Fresh'
    <2>1. UNCHANGED <<files, daemon, console>>
      BY <1>2, PeerKeeps DEF process, PeerStep, Peer
    <2> QED
      BY <1>2, <2>1, SMT
         DEF files, rvars, IsConfigured, Wiped, DirHolds, Nothing, Gone, Fresh
  <1>3. CASE BootWriteFails /\ clean' = FALSE /\ UNCHANGED <<sandboxed, phase, left, dir, undone>>
    <2>1. UNCHANGED <<files, console>> /\ daemon # "serving" /\ daemon' \in {"failed", "serving"}
      BY <1>3, SMT DEF BootWriteFails
    <2>2. phase = "none"
      BY <2>1 DEF Wiped, RTyped, Quiet
    <2> QED
      BY <1>3, <2>1, <2>2, SMT DEF files, Wiped, DirHolds, Nothing, Gone, Fresh
  <1>4. CASE UNCHANGED rspecvars
    BY <1>4, SMT
       DEF rspecvars, rvars, vars, files, process, IsConfigured, Wiped, DirHolds, Nothing, Gone, Fresh
  <1> QED
    BY <1>1, <1>2, <1>3, <1>4, ResetWiped, BootWiped, HandlerWiped DEF RNext, PeerStep

LEMMA WipedAlways == RSpec => []Wiped
  BY RInitTyped, RInitWiped, RNextWiped, PTL DEF RSpec, Wiped

\* lifecycle.go:78-80: for any number of peers and calls in flight, the node reboots
\* with no bootstrap identity and no announced token left by a wipe that went through;
\* what exists then, an ApplyConfig that overlapped the wipe has written.
THEOREM WipeCorrect == RSpec => []RebootsWiped
  <1>1. Wiped => RebootsWiped
    BY ExistsMeans, SMT DEF Wiped, DirHolds, Gone, DirEmpty, RebootsWiped
  <1> QED
    BY <1>1, WipedAlways, PTL

\* lifecycle.go:68-70: such a boot with nothing to outlive the wipe is in maintenance
\* mode, under a token drawn for it.
THEOREM MaintenanceCorrect == RSpec => ReturnsToMaintenance
  <1> DEFINE Fine == clean' /\ daemon # "serving" /\ daemon' = "serving" =>
                       /\ ~IsConfigured /\ console' = [boot |-> boot, token |-> token']
                       /\ token' # console.token
  <1>1. ASSUME Wiped, RNext, clean', daemon # "serving", daemon' = "serving" PROVE Fine
    <2>1. phase = "none" /\ \A cl \in Clients : pc[cl] = "idle"
      BY <1>1 DEF Wiped, RTyped, Quiet
    <2>2. BootStep
      <3>1. ~Reset /\ ~ResetFails
        <4>1. ~StartWipe /\ ~RemoveDir /\ ~AskReboot /\ ~Halt /\ \A n \in Names : ~RemoveName(n)
          BY <1>1, <2>1 DEF StartWipe, RemoveName, RemoveDir, AskReboot, Halt
        <4>2. ~ResetFails
          BY <2>1, SMT DEF ResetFails
        <4> QED
          BY <4>1, <4>2 DEF Reset, WipeStep
      <3>2. ~Stop
        BY <1>1, SMT DEF Stop, Crash, Reboot, ProcessGone
      <3>3. \A cl \in Clients : ~HandlerStep(cl)
        <4>1. \A cl \in Clients : ~Handler(cl)
          BY <1>1, HandlerDrawn DEF Wiped
        <4> QED
          BY <2>1, <4>1, SMT DEF HandlerStep, HandlerNoDir
      <3>4. \A cl \in Clients : ~(PeerStep(cl) \/ Handshake(cl))
        BY <1>1, <2>1, PeerKeeps DEF PeerStep, Peer
      <3>5. \A cl \in Clients : ~CallFails(cl)
        BY <1>1, SMT DEF CallFails, process
      <3> QED
        BY <1>1, <3>1, <3>2, <3>3, <3>4, <3>5 DEF RNext
    <2>3. clean /\ config = Absent /\ (daemon # "logFill" => token = Absent)
      BY <1>1, <2>2 DEF BootStep, Wiped, Fresh
    <2>4. \E t \in Tokens : LogFillToken(t)
      BY <1>1, <2>2, <2>3, SMT DEF BootStep, Boot, LoadPKI, CreateCA, GenOpen, GenFill, LogConfigured,
                                   LogToken, LogOpenToken, Retry, ProcessGone, IsConfigured
    <2>5. PICK t \in Tokens : LogFillToken(t)
      BY <2>4
    <2>6. token' = t /\ console' = [boot |-> boot, token |-> t] /\ t # console.token
      BY <1>1, <2>5, SMT DEF LogFillToken, Announce, Wiped, RTyped, Drawn
    <2> QED
      BY <2>3, <2>6 DEF IsConfigured
  <1>2. Wiped /\ [RNext]_rspecvars => [Fine]_rspecvars
    BY <1>1 DEF rspecvars
  <1> QED
    BY <1>2, WipedAlways, PTL DEF RSpec, ReturnsToMaintenance

-----------------------------------------------------------------------------
(* Onboarding and wipes implement MaintenanceMode. Where no wipe has begun,  *)
(* or a boot has found nothing after it, the steps and the invariant are     *)
(* those of OnboardingProofs. In between a config may only be missing.       *)

\* A call that found no other in flight is alone, and found no config; nobody else can
\* have saved one since.
Turn(cl) == pc[cl] \in InFlight \ {"rmToken"} => ~IsConfigured

InTurn == ~contested => Alone /\ \A cl \in Clients : Turn(cl)

\* Not undone: no Reset runs, apxd serves from a directory, and onboarding is in order.
Settled == ~undone => phase = "none" /\ (daemon = "serving" => dir) /\ OrderInv

CycleInv == Wiped /\ InTurn /\ Settled

LEMMA RInitCycle == RInit => CycleInv
  <1> SUFFICES ASSUME RInit PROVE CycleInv
    OBVIOUS
  <1>1. Init /\ phase = "none" /\ daemon # "serving"
    BY DEF RInit, Init
  <1>2. InTurn
    BY <1>1, SMT DEF Init, InTurn, Alone, Turn, InFlight, Gating, Writing, Replacing
  <1> QED
    BY <1>1, <1>2, RInitTyped, RInitWiped, OrderInit DEF CycleInv, Wiped, Settled

\* A boot changes no call and no config.
LEMMA BootIdle ==
  ASSUME RTyped, Boot
  PROVE  config' = config /\ daemon # "serving" /\ \A cl \in Clients : pc'[cl] = "idle"
  <1>1. daemon # "serving"
    BY SMT DEF Boot, LoadPKI, CreateCA, GenOpen, GenFill, LogConfigured, LogToken, LogOpenToken,
               LogFillToken, Retry
  <1>2. \A cl \in Clients : pc[cl] = "idle"
    BY <1>1 DEF RTyped, Quiet
  <1>3. config' = config /\ \A cl \in Clients : pc'[cl] = "idle"
    BY <1>2, SMT DEF Boot, LoadPKI, CreateCA, GenOpen, GenFill, LogConfigured, LogToken,
                     LogOpenToken, LogFillToken, Retry, ProcessGone, files, sessions
  <1> QED
    BY <1>1, <1>3

\* A step that starts no call keeps the order among those that run, if it does not save.
LEMMA TurnKept ==
  ASSUME InTurn, contested' = contested, config' \in {config, Absent},
         \A d \in Clients : pc'[d] \in InFlight => pc[d] \in InFlight,
         \A d \in Clients : pc'[d] \in InFlight \ {"rmToken"} => pc[d] # "rmToken"
  PROVE  InTurn'
  BY SMT DEF InTurn, Alone, Turn, IsConfigured

\* machine.go:304: of calls that find no other in flight one comes after another, and a
\* wipe can only take the config away from under them.
LEMMA TurnNext ==
  ASSUME RTyped, InTurn, RNext
  PROVE  InTurn'
  <1>1. ASSUME UNCHANGED <<pc, contested>>, config' \in {config, Absent} PROVE InTurn'
    BY <1>1, TurnKept
  <1>2. ASSUME \A cl \in Clients : pc'[cl] = "idle" PROVE InTurn'
    BY <1>2 DEF InTurn, Alone, Turn, InFlight, Gating, Writing, Replacing
  <1>3. CASE Reset \/ ResetFails
    <2>1. CASE StartWipe \/ RemoveDir \/ AskReboot \/ ResetFails
      BY <1>1, <2>1, Zenon DEF StartWipe, RemoveDir, AskReboot, ResetFails, vars, files, sessions
    <2>2. CASE \E n \in Names : RemoveName(n)
      BY <1>1, <2>2, Zenon DEF RemoveName, Unlink, sessions
    <2>3. CASE Halt
      BY <1>2, <2>3 DEF Halt, ProcessGone
    <2> QED
      BY <1>3, <2>1, <2>2, <2>3 DEF Reset, WipeStep
  <1>4. CASE BootStep
    BY <1>2, <1>4, BootIdle DEF BootStep
  <1>5. CASE Stop
    BY <1>2, <1>5 DEF Stop, Crash, Reboot, ProcessGone
  <1>6. CASE BootWriteFails
    BY <1>1, <1>6, Zenon DEF BootWriteFails, files, sessions
  <1>7. ASSUME NEW cl \in Clients,
               Handshake(cl) \/ Disconnect(cl) \/ \E id \in Identities : DialCert(cl, id)
        PROVE  InTurn'
    <2>1. config' = config /\ contested' = contested
      BY <1>7, Zenon DEF DialCert, Disconnect, Handshake, DialKey, DialCA, Exchange, files
    <2>2. \A d \in Clients : pc'[d] = pc[d] \/ pc'[d] \in {"idle", "open"} \cup Handshaking
      BY <1>7, SMT DEF RTyped, TypeOK, Types, DialCert, Disconnect, Handshake,
                       DialKey, DialCA, Exchange, Goto, Leave, Handshaking
    <2> QED
      BY <2>1, <2>2, TurnKept, SMT DEF InFlight, Gating, Writing, Replacing, Handshaking
  <1>8. ASSUME NEW cl \in Clients, CallFails(cl) \/ HandlerNoDir(cl) PROVE InTurn'
    <2>1. config' = config /\ contested' = contested
      BY <1>8, Zenon DEF CallFails, HandlerNoDir, files
    <2>2. \A d \in Clients :
             \/ pc'[d] \in {pc[d], "open"}
             \/ pc'[d] \in {"save", "truncCert"} /\ pc[d] \in InFlight \ {"rmToken"}
      BY <1>8, SMT DEF RTyped, TypeOK, Types, CallFails, HandlerNoDir, Goto, Return, InFlight,
                       Gating, Writing, Replacing
    <2> QED
      BY <2>1, <2>2, TurnKept, SMT DEF InFlight, Gating, Writing, Replacing
  <1>9. ASSUME NEW cl \in Clients, Handler(cl) PROVE InTurn'
    <2>1. /\ pc[cl] \in InFlight
          /\ \A d \in Clients : d # cl => pc'[d] = pc[d]
          /\ ~Save(cl) => config' = config
      BY <1>9, SMT DEF RTyped, TypeOK, Types, Handler, CheckToken, OpenToken, FillToken, ChmodToken,
                       ReplaceIdentity, Truncate, Fill, RemoveCAKey, Save, RemoveToken, Goto, Return,
                       files, InFlight, Gating, Writing, Replacing
    <2>2. contested' = contested
      BY <1>9, HandlerSessions DEF RTyped
    <2>3. CASE Save(cl)
      <3>1. pc'[cl] = "rmToken"
        BY <2>3 DEF Save, Goto, RTyped, TypeOK, Types
      <3> QED
        BY <2>1, <2>2, <3>1 DEF InTurn, Alone, Turn
    <2>4. CASE ~Save(cl)
      <3>1. pc[cl] # "rmToken" \/ pc'[cl] = "open"
        BY <1>9, <2>4, SMT DEF RTyped, TypeOK, Types, Handler, CheckToken, OpenToken, FillToken,
                               ChmodToken, ReplaceIdentity, Truncate, Fill, RemoveCAKey, RemoveToken,
                               Goto, Return
      <3> QED
        BY <2>1, <2>2, <2>4, <3>1, TurnKept DEF InFlight, Gating, Writing, Replacing
    <2> QED
      BY <2>3, <2>4
  <1>10. ASSUME NEW cl \in Clients, NEW c, NEW t, ApplyConfig(cl, c, t) PROVE InTurn'
    <2>1. ~contested' => \A d \in Clients : pc[d] \notin InFlight
      BY <1>10, Zenon DEF ApplyConfig, Passes
    <2>2. ~IsConfigured' /\ Goto(cl, "token")
      BY <1>10, ApplyEffect DEF IsConfigured, files
    <2>3. \A d \in Clients : d # cl => pc'[d] = pc[d]
      BY <2>2, SMT DEF Goto, RTyped, TypeOK, Types
    <2> QED
      BY <2>1, <2>2, <2>3 DEF InTurn, Alone, Turn
  <1> QED
    BY <1>3, <1>4, <1>5, <1>6, <1>7, <1>8, <1>9, <1>10 DEF RNext, HandlerStep, PeerStep

\* Where nothing is undone, a step is one of Onboarding.
LEMMA SettledStep ==
  ASSUME CycleInv, ~undone, RNext, ~undone'
  PROVE  Next /\ phase' = "none" /\ (daemon' = "serving" => dir')
  <1>1. phase = "none" /\ (daemon = "serving" => dir)
    BY DEF CycleInv, Settled
  <1>2. ~Reset /\ ~ResetFails
    <2>1. ~StartWipe
      BY DEF StartWipe
    <2>2. ~RemoveDir /\ ~AskReboot /\ ~Halt /\ ~ResetFails /\ \A n \in Names : ~RemoveName(n)
      BY <1>1, SMT DEF RemoveName, RemoveDir, AskReboot, Halt, ResetFails
    <2> QED
      BY <2>1, <2>2 DEF Reset, WipeStep
  <1>3. CASE BootStep
    <2>1. Boot /\ phase' = phase /\ (dir => dir')
      BY <1>3, Zenon DEF BootStep
    <2>2. daemon' = "serving" => daemon \in {"logging", "logFill"}
      BY <2>1, SMT DEF Boot, LoadPKI, CreateCA, GenOpen, GenFill, LogConfigured, LogToken,
                       LogOpenToken, LogFillToken, Retry, ProcessGone
    <2> QED
      BY <1>1, <2>1, <2>2 DEF CycleInv, Wiped, DirHolds, Next
  <1>4. CASE Stop
    <2>1. (Crash \/ Reboot) /\ phase' = "none"
      BY <1>1, <1>4 DEF Stop
    <2>2. daemon' = "start"
      BY <2>1 DEF Crash, Reboot, ProcessGone
    <2> QED
      BY <2>1, <2>2 DEF Next
  <1>5. ASSUME NEW cl \in Clients, HandlerStep(cl)
        PROVE  Next /\ phase' = "none" /\ (daemon' = "serving" => dir')
    <2>1. ~HandlerNoDir(cl)
      <3>1. pc[cl] # "idle" => dir
        BY <1>1 DEF CycleInv, Wiped, RTyped, Quiet
      <3> QED
        BY <3>1, SMT DEF HandlerNoDir
    <2>2. Handler(cl) /\ dir' = (dir \/ pc[cl] = "save") /\ phase' = phase
      BY <1>5, <2>1 DEF HandlerStep
    <2>3. daemon = "serving"
      BY <2>2, HandlerDrawn DEF CycleInv, Wiped
    <2>4. dir'
      BY <1>1, <2>2, <2>3, Zenon
    <2> QED
      BY <1>1, <2>2, <2>4 DEF Next
  <1>6. ASSUME NEW cl \in Clients, (PeerStep(cl) \/ Handshake(cl) \/ CallFails(cl)) /\ UNCHANGED rvars
        PROVE  Next /\ phase' = "none" /\ (daemon' = "serving" => dir')
    <2>1. Peer(cl) \/ Handshake(cl) \/ CallFails(cl)
      BY <1>6 DEF PeerStep, Peer
    <2>2. daemon' = daemon
      BY <2>1, PeerKeeps DEF process
    <2> QED
      BY <1>1, <1>6, <2>1, <2>2 DEF Next, rvars
  <1>7. CASE BootWriteFails /\ UNCHANGED <<phase, dir>>
    <2>1. daemon' = "serving" => daemon \in {"logging", "logFill"}
      BY <1>7, SMT DEF BootWriteFails
    <2> QED
      BY <1>1, <1>7, <2>1 DEF CycleInv, Wiped, DirHolds, Next
  <1> QED
    BY <1>2, <1>3, <1>4, <1>5, <1>6, <1>7 DEF RNext, PeerStep

\* lifecycle.go:36-40: a wipe is over with a stop of apxd that leaves nothing behind.
LEMMA RenewStep ==
  ASSUME Wiped, undone, RNext, ~undone'
  PROVE  /\ Nothing /\ UNCHANGED <<files, acked, contested>>
         /\ ProcessGone /\ phase' = "none"
  <1>1. Halt \/ Stop
    BY DEF RNext, Reset, WipeStep, StartWipe, RemoveName, RemoveDir, AskReboot, ResetFails, BootStep,
           HandlerStep, HandlerNoDir, PeerStep, rvars
  <1>2. FindsNothing /\ ProcessGone /\ phase' = "none" /\ UNCHANGED <<files, acked, contested>>
    BY <1>1, SMT DEF Halt, Stop, Crash, Reboot
  <1>3. DirEmpty
    BY <1>2, Zenon DEF FindsNothing
  <1> QED
    BY <1>2, <1>3, ExistsMeans

LEMMA RenewSettled ==
  ASSUME TypeOK', Nothing, UNCHANGED <<files, acked, contested>>, ProcessGone, phase' = "none"
  PROVE  Settled'
  <1>1. /\ config' = Absent /\ daemon' = "start" /\ \A cl \in Clients : pc'[cl] = "idle"
    BY DEF Nothing, files, ProcessGone
  <1>2. Anchored' /\ Served'
    BY <1>1, SMT DEF Anchored, AnchorConfigured, Served, IsConfigured
  <1>3. Alone' /\ \A cl \in Clients : Progress(cl)'
    BY <1>1, SMT DEF Alone, Progress, InFlight, Gating, Writing, Replacing, AfterCert, AfterKey, AfterCA
  <1> QED
    BY <1>1, <1>2, <1>3 DEF Settled, OrderInv, AnchorInv, InOrder

LEMMA CycleNext == CycleInv /\ [RNext]_rspecvars => CycleInv'
  <1> SUFFICES ASSUME CycleInv, [RNext]_rspecvars PROVE InTurn' /\ Settled'
    BY RNextWiped DEF CycleInv
  <1>1. CASE UNCHANGED rspecvars
    <2>1. OrderInv => OrderInv'
      BY <1>1, OrderStep DEF rspecvars
    <2> QED
      BY <1>1, <2>1 DEF rspecvars, rvars, vars, files, process, sessions, CycleInv, InTurn,
                        Alone, Turn, Settled, IsConfigured
  <1>2. CASE RNext
    <2>1. InTurn'
      BY <1>2, TurnNext DEF CycleInv, Wiped
    <2>2. CASE undone'
      BY <2>1, <2>2 DEF Settled
    <2>3. CASE ~undone /\ ~undone'
      <3>1. Next /\ phase' = "none" /\ (daemon' = "serving" => dir')
        BY <1>2, <2>3, SettledStep
      <3>2. OrderInv'
        BY <2>3, <3>1, OrderStep DEF CycleInv, Settled
      <3> QED
        BY <2>1, <3>1, <3>2 DEF Settled
    <2>4. CASE undone /\ ~undone'
      <3>1. /\ Nothing /\ UNCHANGED <<files, acked, contested>>
            /\ ProcessGone /\ phase' = "none"
        BY <1>2, <2>4, RenewStep DEF CycleInv
      <3>2. TypeOK'
        BY <1>2, RNextTyped DEF CycleInv, Wiped, RTyped
      <3> QED
        BY <2>1, <3>1, <3>2, RenewSettled
    <2> QED
      BY <2>2, <2>3, <2>4
  <1> QED
    BY <1>1, <1>2

\* Reset's own steps: a config goes, or nothing that anybody can see.
LEMMA ResetCycles ==
  ASSUME CycleInv, Reset \/ ResetFails, undone'
  PROVE  Cycle!Next \/ UNCHANGED Cycle!vars
  <1>1. CASE StartWipe
    <2>1. undone' = TRUE /\ UNCHANGED <<config, acked, contested, pc, who>>
      BY <1>1 DEF StartWipe, vars, files, sessions
    <2>2. UNCHANGED <<Sessions, Greeted>>
      BY <2>1 DEF Sessions, Greeted
    <2>3. Cycle!Undo
      BY <2>1, <2>2, Zenon DEF Cycle!Undo
    <2> QED
      BY <2>3, Zenon DEF Cycle!Next
  <1>2. ASSUME NEW n \in Names, RemoveName(n) PROVE Cycle!Next \/ UNCHANGED Cycle!vars
    <2>1. config' \in {config, Absent} /\ UNCHANGED <<pc, who, acked, contested, undone>>
      <3>1. config' \in {config, Absent}
        BY <1>2, Zenon DEF RemoveName, Unlink
      <3>2. UNCHANGED <<pc, who, acked>>
        BY <1>2, Zenon DEF RemoveName, sessions
      <3>3. UNCHANGED <<contested, undone>>
        BY <1>2, Zenon DEF RemoveName
      <3> QED
        BY <3>1, <3>2, <3>3, Zenon
    <2>2. CASE config' = config
      BY <2>1, <2>2 DEF Cycle!vars, Sessions, Greeted
    <2>3. CASE config' = Absent
      <3>1. Cycle!Forget
        BY <2>1, <2>3 DEF Cycle!Forget, Sessions, Greeted
      <3> QED
        BY <3>1 DEF Cycle!Next
    <2> QED
      BY <2>1, <2>2, <2>3
  <1>3. CASE RemoveDir \/ AskReboot \/ ResetFails
    BY <1>3 DEF RemoveDir, AskReboot, ResetFails, vars, files, sessions, Cycle!vars, Sessions, Greeted
  <1>4. CASE Halt
    <2>1. undone' = undone /\ UNCHANGED <<config, acked, contested>> /\ \A cl \in Clients : pc'[cl] = "idle"
      BY <1>4, Zenon DEF Halt, FindsNothing, ProcessGone, files, CycleInv, Wiped, RTyped
    <2>2. "idle" \notin {"exchange", "open"} \cup InFlight
      BY SMT DEF InFlight, Gating, Writing, Replacing
    <2>3. Sessions' = {} /\ Greeted' = {}
      BY <2>1, <2>2, SMT DEF Sessions, Greeted
    <2>4. Cycle!Drop
      BY <2>1, <2>3, Zenon DEF Cycle!Drop
    <2> QED
      BY <2>4, Zenon DEF Cycle!Next
  <1> QED
    BY <1>1, <1>2, <1>3, <1>4 DEF Reset, WipeStep

LEMMA HandlerCycles ==
  ASSUME CycleInv, NEW cl \in Clients, Handler(cl) \/ CallFails(cl), undone' = undone
  PROVE  Cycle!Next \/ UNCHANGED Cycle!vars
  <1>1. /\ Sessions' = Sessions /\ Greeted' = Greeted /\ contested' = contested
        /\ ~Save(cl) => config' = config
        /\ ~RemoveToken(cl) => acked' = acked
    BY HandlerSessions DEF CycleInv, Wiped, RTyped
  <1>2. pc[cl] \in InFlight => ask[cl] \in Configs
    BY OnboardingAssumption DEF OnboardingAssumption, CycleInv, Wiped, RTyped, TypeOK, Vetted
  <1>3. CASE Save(cl)
    <2>1. (contested \/ ~IsConfigured) /\ ask[cl] \in Configs /\ config' = ask[cl] /\ acked' = acked
      BY <1>2, <1>3, SMT DEF Save, CycleInv, InTurn, Turn, InFlight, Writing
    <2>2. Cycle!Install(ask[cl])
      BY <1>1, <2>1 DEF Cycle!Install, IsConfigured
    <2> QED
      BY <2>1, <2>2 DEF Cycle!Next
  <1>4. CASE RemoveToken(cl)
    <2>1. ask[cl] \in Configs /\ config' = config /\ acked' = acked \cup {ask[cl]}
      BY <1>2, <1>4, SMT DEF RemoveToken, InFlight, Writing
    <2>2. undone \/ contested \/ config = ask[cl]
      BY <1>4, SMT DEF RemoveToken, CycleInv, Settled, OrderInv, InOrder, Progress
    <2>3. Cycle!Acknowledge(ask[cl])
      BY <1>1, <2>1, <2>2 DEF Cycle!Acknowledge
    <2> QED
      BY <2>1, <2>3 DEF Cycle!Next
  <1>5. CASE ~Save(cl) /\ ~RemoveToken(cl)
    BY <1>1, <1>5 DEF Cycle!vars
  <1> QED
    BY <1>3, <1>4, <1>5

LEMMA PeerCycles ==
  ASSUME CycleInv, NEW cl \in Clients, Handshake(cl) \/ Peer(cl), undone' = undone
  PROVE  Cycle!Next
  <1>1. /\ config' = config /\ acked' = acked
        /\ Calls \/ IsGreeted(cl) \/ LetIn(cl) \/ Goes
    BY PeerSessions DEF CycleInv, Wiped, RTyped
  <1>2. CASE Calls
    <2>1. Cycle!Contest
      BY <1>1, <1>2, Zenon DEF Calls, IsConfigured, Cycle!Contest
    <2> QED
      BY <2>1 DEF Cycle!Next
  <1>3. CASE IsGreeted(cl)
    <2>1. config \in {Absent, who[cl]} \/ contested \/ undone
      BY <1>3, SMT DEF IsGreeted, CycleInv, Settled, OrderInv, InOrder, Served, IsConfigured
    <2>2. Cycle!Greet(cl, who[cl])
      BY <1>1, <1>3, <2>1 DEF IsGreeted, Cycle!Greet
    <2> QED
      BY <1>3, <2>2 DEF IsGreeted, Cycle!Next
  <1>4. CASE LetIn(cl)
    <2>1. Cycle!Admit(cl, who[cl])
      BY <1>1, <1>4 DEF LetIn, Cycle!Admit
    <2> QED
      BY <1>4, <2>1 DEF LetIn, Cycle!Next
  <1>5. CASE Goes
    <2>1. Cycle!Drop
      BY <1>1, <1>5 DEF Goes, Cycle!Drop
    <2> QED
      BY <2>1 DEF Cycle!Next
  <1> QED
    BY <1>1, <1>2, <1>3, <1>4, <1>5

\* lifecycle.go:68-92 with machine.go:301-332: for any number of operators, whatever
\* fails and whenever a wipe starts, a node is given one config after another only by
\* wipes, and from a boot that finds nothing until the next wipe it keeps the whole of
\* what onboarding promises.
THEOREM ResetImplements == RSpec => CycleSpec
  <1>1. RInit => Cycle!Init
    BY SMT DEF RInit, Init, Cycle!Init, Sessions, Greeted, InFlight, Gating, Writing, Replacing
  <1>2. CycleInv /\ [RNext]_rspecvars => [Cycle!Next]_Cycle!vars
    <2> SUFFICES ASSUME CycleInv, [RNext]_rspecvars
                 PROVE  Cycle!Next \/ UNCHANGED Cycle!vars
      OBVIOUS
    <2>1. CASE UNCHANGED rspecvars
      BY <2>1 DEF rspecvars, rvars, vars, files, sessions, Sessions, Greeted, Cycle!vars
    <2>2. CASE RNext /\ undone /\ ~undone'
      <3>1. /\ Nothing /\ UNCHANGED <<files, acked, contested>> /\ ProcessGone
        BY <2>2, RenewStep DEF CycleInv
      <3>2. config = Absent /\ UNCHANGED <<config, acked, contested>> /\ \A cl \in Clients : pc'[cl] = "idle"
        BY <3>1 DEF Nothing, files, ProcessGone
      <3>3. Sessions' = {} /\ Greeted' = {}
        BY <3>2, SMT DEF Sessions, Greeted, InFlight, Gating, Writing, Replacing
      <3>4. undone' = FALSE
        BY <2>2, RNextTyped DEF CycleInv, Wiped, RTyped
      <3>5. Cycle!Renew
        BY <2>2, <3>2, <3>3, <3>4 DEF Cycle!Renew
      <3> QED
        BY <3>5 DEF Cycle!Next
    <2>3. CASE (Reset \/ ResetFails) /\ ~(undone /\ ~undone')
      <3>1. undone'
        BY <2>3 DEF CycleInv, Settled, Reset, WipeStep, StartWipe, RemoveName, RemoveDir, AskReboot, Halt,
                    ResetFails
      <3> QED
        BY <2>3, <3>1, ResetCycles
    <2>4. CASE (BootStep \/ Stop \/ (BootWriteFails /\ UNCHANGED undone)) /\ ~(undone /\ ~undone')
      <3>1. Boot \/ BootWriteFails \/ Crash \/ Reboot
        BY <2>4 DEF BootStep, Stop
      <3>2. undone' = undone
        BY <2>4, Zenon DEF BootStep, Stop, FindsNothing, CycleInv, Wiped, RTyped
      <3>3. Cycle!Drop
        BY <3>1, <3>2, BootSessions DEF Cycle!Drop
      <3> QED
        BY <3>3 DEF Cycle!Next
    <2>5. ASSUME NEW cl \in Clients, HandlerStep(cl) PROVE Cycle!Next \/ UNCHANGED Cycle!vars
      <3>1. CASE HandlerNoDir(cl)
        <4>1. /\ UNCHANGED <<config, acked, undone, who>>
              /\ \A d \in Clients : /\ pc'[d] \in Holding <=> pc[d] \in Holding
                                    /\ pc'[d] = "exchange" <=> pc[d] = "exchange"
          BY <3>1, SMT DEF HandlerNoDir, Goto, Return, files, rvars, CycleInv, Wiped, RTyped, TypeOK,
                           Types, Holding, InFlight, Gating, Writing, Replacing
        <4>2. Sessions' = Sessions /\ Greeted' = Greeted
          BY <4>1, SessionsKept
        <4>3. contested' = contested
          BY <3>1, Zenon DEF HandlerNoDir
        <4> QED
          BY <4>1, <4>2, <4>3 DEF Cycle!vars
      <3>2. CASE Handler(cl) /\ undone' = undone
        BY <3>2, HandlerCycles
      <3> QED
        BY <2>5, <3>1, <3>2 DEF HandlerStep
    <2>6. ASSUME NEW cl \in Clients, (PeerStep(cl) \/ Handshake(cl) \/ CallFails(cl)) /\ UNCHANGED rvars
          PROVE  Cycle!Next \/ UNCHANGED Cycle!vars
      <3>1. (Peer(cl) \/ Handshake(cl) \/ CallFails(cl)) /\ undone' = undone
        BY <2>6 DEF PeerStep, Peer, rvars
      <3> QED
        BY <3>1, HandlerCycles, PeerCycles
    <2> QED
      BY <2>1, <2>2, <2>3, <2>4, <2>5, <2>6 DEF RNext, PeerStep
  <1>3. CycleInv /\ [RNext]_rspecvars => CycleInv'
    BY CycleNext
  <1> QED
    BY <1>1, <1>2, <1>3, RInitCycle, PTL DEF RSpec, CycleSpec, Cycle!Spec
=============================================================================
