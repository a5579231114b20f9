-------------------------- MODULE OnboardingProofs --------------------------
(***************************************************************************)
(* Theorems about Onboarding, for any peers, configs, CAs, tokens and       *)
(* bounds.                                                                  *)
(***************************************************************************)
EXTENDS Onboarding, TLAPS

LEMMA GenFilesType ==
    \A n \in 1..6 : GenFiles[n] \in PKIFiles
  BY SMT DEF GenFiles, PKIFiles

-----------------------------------------------------------------------------
(* Types *)

LEMMA TypedInit == Init => TypeOK
  <1> SUFFICES ASSUME Init PROVE TypeOK
    OBVIOUS
  <1>1. contested \in BOOLEAN
    BY Zenon DEF Init
  <1> QED
    BY <1>1, OnboardingAssumption, SMT
       DEF Init, TypeOK, Types, Contents, Vetted, InFlight, Gating, Writing, Replacing

\* What a call that passes its checks leaves alone.
LEMMA ApplyEffect ==
  ASSUME NEW cl, NEW c, NEW t, ApplyConfig(cl, c, t)
  PROVE  /\ pc[cl] = "open" /\ ~IsConfigured /\ Goto(cl, "token")
         /\ UNCHANGED <<files, process, who, used, console, acked, boot, faults>>
  BY Zenon DEF ApplyConfig, Passes

LEMMA BootTyped == TypeOK /\ Boot => TypeOK'
  <1> SUFFICES ASSUME TypeOK, Boot PROVE TypeOK'
    OBVIOUS
  <1> USE DEF TypeOK, Types, Contents, files, sessions
  <1>1. CASE LoadPKI
    BY <1>1, SMT DEF LoadPKI, Vetted
  <1>2. CASE \E b \in Bootstraps : CreateCA(b)
    BY <1>2, SMT DEF CreateCA, Vetted
  <1>3. CASE GenOpen
    BY <1>3, GenFilesType, SMT DEF GenOpen, Vetted
  <1>4. CASE GenFill
    BY <1>4, GenFilesType, SMT DEF GenFill, Identities, Vetted
  <1>5. CASE LogConfigured
    BY <1>5, SMT DEF LogConfigured, Vetted
  <1>6. CASE LogToken
    BY <1>6, SMT DEF LogToken, Announce, Vetted
  <1>7. CASE LogOpenToken
    BY <1>7, SMT DEF LogOpenToken, Vetted
  <1>8. CASE \E t \in Tokens : LogFillToken(t)
    BY <1>8, SMT DEF LogFillToken, Announce, Vetted
  <1>9. CASE Retry
    BY <1>9, SMT DEF Retry, ProcessGone, Vetted, InFlight, Gating, Writing, Replacing
  <1> QED
    BY <1>1, <1>2, <1>3, <1>4, <1>5, <1>6, <1>7, <1>8, <1>9 DEF Boot

LEMMA HandlerTyped == ASSUME TypeOK, NEW cl \in Clients, Handler(cl) PROVE TypeOK'
  <1> USE OnboardingAssumption
      DEF TypeOK, Types, Contents, Vetted, files, process, Goto, Return,
          InFlight, Gating, Writing, Replacing
  <1>1. CASE CheckToken(cl)
    BY <1>1, SMT DEF CheckToken
  <1>2. CASE OpenToken(cl)
    BY <1>2, SMT DEF OpenToken
  <1>3. CASE \E t \in Tokens : FillToken(cl, t)
    BY <1>3, SMT DEF FillToken, Filled
  <1>4. CASE ChmodToken(cl)
    BY <1>4, SMT DEF ChmodToken
  <1>5. CASE ReplaceIdentity(cl)
    BY <1>5, SMT DEF ReplaceIdentity, Truncate, Fill, Filled, PKIFiles, Identities
  <1>6. CASE RemoveCAKey(cl)
    BY <1>6, SMT DEF RemoveCAKey, PKIFiles
  <1>7. CASE Save(cl)
    BY <1>7, SMT DEF Save
  <1>8. CASE RemoveToken(cl)
    BY <1>8, SMT DEF RemoveToken
  <1> QED
    BY <1>1, <1>2, <1>3, <1>4, <1>5, <1>6, <1>7, <1>8 DEF Handler

LEMMA PeerTyped ==
  ASSUME TypeOK, NEW cl \in Clients, Handshake(cl) \/ Peer(cl) \/ CallFails(cl)
  PROVE  TypeOK'
  <1> USE OnboardingAssumption
      DEF TypeOK, Types, Contents, Vetted, files, process, Goto, Return, Leave, Handshaking,
          InFlight, Gating, Writing, Replacing
  <1>1. CASE Handshake(cl)
    BY <1>1, SMT DEF Handshake, DialKey, DialCA, Exchange
  <1>2. CASE \E id \in Identities : DialCert(cl, id)
    BY <1>2, SMT DEF DialCert
  <1>3. CASE \E c \in Configs, t \in Tokens \cup {Empty} : ApplyConfig(cl, c, t)
    <2>1. contested' \in BOOLEAN
      BY <1>3, Zenon DEF ApplyConfig, Passes
    <2> QED
      BY <1>3, <2>1, SMT DEF ApplyConfig, Passes
  <1>4. CASE Disconnect(cl)
    BY <1>4, SMT DEF Disconnect
  <1>5. CASE CallFails(cl)
    BY <1>5, SMT DEF CallFails
  <1> QED
    BY <1>1, <1>2, <1>3, <1>4, <1>5 DEF Peer

LEMMA StopTyped == TypeOK /\ (BootWriteFails \/ Crash \/ Reboot) => TypeOK'
  BY SMT DEF TypeOK, Types, Contents, Vetted, files, sessions, BootWriteFails, Crash, Reboot,
             ProcessGone, InFlight, Gating, Writing, Replacing

LEMMA TypedStep == TypeOK /\ [Next]_vars => TypeOK'
  <1> SUFFICES ASSUME TypeOK, [Next]_vars PROVE TypeOK'
    OBVIOUS
  <1>1. CASE UNCHANGED vars
    BY <1>1, SMT DEF vars, files, process, sessions, TypeOK, Types, Vetted
  <1>2. CASE Next
    BY <1>2, BootTyped, HandlerTyped, PeerTyped, StopTyped DEF Next
  <1> QED
    BY <1>1, <1>2

\* Every variable keeps its type, and only configs that ApplyConfig validated
\* are ever written (machine.go:308-317).
THEOREM TypeCorrect == Spec => []TypeOK
  BY TypedInit, TypedStep, PTL DEF Spec

-----------------------------------------------------------------------------
(* The trust anchor *)

\* Generation runs only before there is a config, and peers are served only
\* once it is over; a writer past its CA has left a config's CA, or a later
\* writer's empty file, behind it.
Anchored ==
    /\ AnchorConfigured
    /\ daemon \in {"genOpen", "genFill"} => ~IsConfigured
    /\ \A cl \in Clients :
         /\ pc[cl] # "idle" => daemon = "serving"
         /\ pc[cl] \in {"fillCA", "rmCAKey", "save"} => disk["ca.crt"] \in Valid \cup {Empty}

AnchorInv == TypeOK /\ Anchored

LEMMA AnchoredInit == Init => Anchored
  BY SMT DEF Init, Anchored, AnchorConfigured, IsConfigured

LEMMA BootAnchored == AnchorInv /\ Boot => Anchored'
  <1> SUFFICES ASSUME AnchorInv, Boot PROVE Anchored'
    OBVIOUS
  <1> USE OnboardingAssumption
      DEF AnchorInv, TypeOK, Types, Anchored, AnchorConfigured, IsConfigured, files, sessions
  <1>1. CASE LoadPKI
    BY <1>1, SMT DEF LoadPKI
  <1>2. CASE \E b \in Bootstraps : CreateCA(b)
    BY <1>2, SMT DEF CreateCA
  <1>3. CASE GenOpen
    BY <1>3, SMT DEF GenOpen
  <1>4. CASE GenFill
    BY <1>4, SMT DEF GenFill
  <1>5. CASE LogConfigured
    BY <1>5, SMT DEF LogConfigured
  <1>6. CASE LogToken
    BY <1>6, SMT DEF LogToken
  <1>7. CASE LogOpenToken
    BY <1>7, SMT DEF LogOpenToken
  <1>8. CASE \E t \in Tokens : LogFillToken(t)
    BY <1>8, SMT DEF LogFillToken
  <1>9. CASE Retry
    BY <1>9, SMT DEF Retry, ProcessGone
  <1> QED
    BY <1>1, <1>2, <1>3, <1>4, <1>5, <1>6, <1>7, <1>8, <1>9 DEF Boot

LEMMA HandlerAnchored ==
  ASSUME AnchorInv, NEW cl \in Clients, Handler(cl)
  PROVE  Anchored'
  <1> USE OnboardingAssumption
      DEF AnchorInv, TypeOK, Types, Vetted, Anchored, AnchorConfigured, IsConfigured, files,
          process, Goto, Return, InFlight, Writing, Replacing
  <1>1. CASE CheckToken(cl)
    BY <1>1, SMT DEF CheckToken
  <1>2. CASE OpenToken(cl)
    BY <1>2, SMT DEF OpenToken
  <1>3. CASE \E t \in Tokens : FillToken(cl, t)
    BY <1>3, SMT DEF FillToken
  <1>4. CASE ChmodToken(cl)
    BY <1>4, SMT DEF ChmodToken
  <1>5. CASE ReplaceIdentity(cl)
    <2>1. ask[cl] \in Valid
      BY <1>5, SMT DEF ReplaceIdentity, Truncate, Fill
    <2>2. CASE Truncate(cl, "truncCert", "server.crt", "fillCert")
               \/ Fill(cl, "fillCert", "server.crt", "truncKey")
               \/ Truncate(cl, "truncKey", "server.key", "fillKey")
               \/ Fill(cl, "fillKey", "server.key", "truncCA")
      <3>1. disk'["ca.crt"] = disk["ca.crt"] /\ config' = config /\ daemon' = daemon
        BY <2>2, SMT DEF Truncate, Fill, PKIFiles
      <3>2. \A d \in Clients :
              \/ pc'[d] = pc[d]
              \/ pc[d] # "idle" /\ pc'[d] \in {"fillCert", "truncKey", "fillKey", "truncCA"}
        BY <2>2, SMT DEF Truncate, Fill
      <3> QED
        BY <3>1, <3>2, SMT
    <2>3. CASE Truncate(cl, "truncCA", "ca.crt", "fillCA")
      BY <2>3, SMT DEF Truncate, PKIFiles
    <2>4. CASE Fill(cl, "fillCA", "ca.crt", "rmCAKey")
      BY <2>1, <2>4, SMT DEF Fill, Filled, PKIFiles
    <2> QED
      BY <1>5, <2>2, <2>3, <2>4 DEF ReplaceIdentity
  <1>6. CASE RemoveCAKey(cl)
    BY <1>6, SMT DEF RemoveCAKey
  <1>7. CASE Save(cl)
    BY <1>7, SMT DEF Save
  <1>8. CASE RemoveToken(cl)
    BY <1>8, SMT DEF RemoveToken
  <1> QED
    BY <1>1, <1>2, <1>3, <1>4, <1>5, <1>6, <1>7, <1>8 DEF Handler

LEMMA PeerAnchored ==
  ASSUME AnchorInv, NEW cl \in Clients, Handshake(cl) \/ Peer(cl) \/ CallFails(cl)
  PROVE  Anchored'
  <1> USE DEF AnchorInv, TypeOK, Types, Anchored, AnchorConfigured, IsConfigured, files,
          process, Goto, Return, Leave
  <1>1. CASE Handshake(cl)
    BY <1>1, SMT DEF Handshake, DialKey, DialCA, Exchange
  <1>2. CASE \E id \in Identities : DialCert(cl, id)
    BY <1>2, SMT DEF DialCert
  <1>3. CASE \E c \in Configs, t \in Tokens \cup {Empty} : ApplyConfig(cl, c, t)
    BY <1>3, SMT DEF ApplyConfig, Passes
  <1>4. CASE Disconnect(cl)
    BY <1>4, SMT DEF Disconnect
  <1>5. CASE CallFails(cl)
    BY <1>5, SMT DEF CallFails, Replacing
  <1> QED
    BY <1>1, <1>2, <1>3, <1>4, <1>5 DEF Peer

LEMMA StopAnchored == AnchorInv /\ (BootWriteFails \/ Crash \/ Reboot) => Anchored'
  BY SMT DEF AnchorInv, TypeOK, Types, Anchored, AnchorConfigured, IsConfigured, files, sessions,
             BootWriteFails, Crash, Reboot, ProcessGone

LEMMA AnchorStep == AnchorInv /\ [Next]_vars => AnchorInv'
  <1> SUFFICES ASSUME AnchorInv, [Next]_vars PROVE Anchored'
    BY TypedStep DEF AnchorInv
  <1>1. CASE UNCHANGED vars
    BY <1>1, SMT DEF vars, files, process, sessions, AnchorInv, Anchored, AnchorConfigured, IsConfigured
  <1>2. CASE Next
    BY <1>2, BootAnchored, HandlerAnchored, PeerAnchored, StopAnchored DEF Next
  <1> QED
    BY <1>1, <1>2

LEMMA AnchorInvariant == Spec => []AnchorInv
  BY TypedInit, AnchoredInit, AnchorStep, PTL DEF Spec, AnchorInv

\* creds.go:61-63: with any number of operators, crashes and failing writes, a
\* configured node's trust anchor is the CA of a config, never the bootstrap CA.
THEOREM ConfiguredAnchor == Spec => []AnchorConfigured
  BY AnchorInvariant, PTL DEF AnchorInv, Anchored

\* Whoever a step finds a stranger was one before, or is looked up in the CA just now.
LEMMA StrangersStep ==
  ASSUME TypeOK, Next, NEW d \in Clients,
         pc'[d] \in {"exchange", "open"} \cup InFlight
  PROVE  /\ who'[d] = who[d]
         /\ pc[d] \in {"exchange", "open"} \cup InFlight \/ disk["ca.crt"] = who[d]
  <1> USE DEF TypeOK, Types, InFlight, Gating, Writing, Replacing
  <1>1. CASE Boot \/ BootWriteFails \/ Crash \/ Reboot
    BY <1>1, SMT
       DEF Boot, LoadPKI, CreateCA, GenOpen, GenFill, LogConfigured, LogToken, LogOpenToken,
           LogFillToken, Retry, BootWriteFails, Crash, Reboot, ProcessGone, sessions
  <1>2. CASE \E cl \in Clients : Handler(cl) \/ CallFails(cl)
    BY <1>2, SMT
       DEF Handler, CheckToken, OpenToken, FillToken, ChmodToken, ReplaceIdentity, Truncate, Fill,
           RemoveCAKey, Save, RemoveToken, CallFails, Goto, Return
  <1>3. CASE \E cl \in Clients : Peer(cl)
    <2>1. CASE \E cl \in Clients, c \in Configs, t \in Tokens \cup {Empty} : ApplyConfig(cl, c, t)
      <3>1. PICK cl \in Clients : pc[cl] = "open" /\ Goto(cl, "token") /\ who' = who
        BY <2>1, ApplyEffect
      <3> QED
        BY <3>1, SMT DEF Goto
    <2>2. CASE \E cl \in Clients : Disconnect(cl) \/ \E id \in Identities : DialCert(cl, id)
      BY <2>2, SMT DEF DialCert, Disconnect, Goto, Leave
    <2> QED
      BY <1>3, <2>1, <2>2 DEF Peer
  <1>4. CASE \E cl \in Clients : Handshake(cl)
    BY <1>4, SMT DEF Handshake, DialKey, DialCA, Exchange, Goto, Leave
  <1> QED
    BY <1>1, <1>2, <1>3, <1>4 DEF Next

\* creds.go:17-19: a configured node gets no new strangers: whoever it looks up in its CA
\* holds an identity of an applied config, whatever the handshake read before that.
THEOREM OldIdentityRejected == Spec => BootstrapRejected
  <1> DEFINE Fewer == IsConfigured => Strangers' \subseteq Strangers
  <1>1. ASSUME AnchorInv, Next, IsConfigured PROVE Strangers' \subseteq Strangers
    <2> DEFINE Here(c) == pc[c] \in {"exchange", "open"} \cup InFlight
    <2>1. disk["ca.crt"] \in Valid \cup {Empty}
      BY <1>1 DEF AnchorInv, Anchored, AnchorConfigured
    <2>2. ASSUME NEW d \in Clients, Here(d)', who'[d] \notin Valid
          PROVE  Here(d) /\ who'[d] = who[d]
      <3>1. who'[d] = who[d] /\ (Here(d) \/ disk["ca.crt"] = who[d])
        BY <1>1, <2>2, StrangersStep DEF AnchorInv
      <3>2. who'[d] # Empty
        <4>1. TypeOK'
          BY <1>1, TypedStep DEF AnchorInv
        <4>2. pc'[d] # "idle"
          BY <2>2, SMT DEF InFlight, Gating, Writing, Replacing
        <4> QED
          BY <4>1, <4>2, OnboardingAssumption
             DEF TypeOK, Vetted, Identities, OnboardingAssumption
      <3> QED
        BY <2>1, <2>2, <3>1, <3>2
    <2> QED
      BY <2>2 DEF Strangers
  <1>2. AnchorInv /\ [Next]_vars => [Fewer]_vars
    BY <1>1
  <1> QED
    BY <1>2, AnchorInvariant, PTL DEF Spec, BootstrapRejected

-----------------------------------------------------------------------------
(* The token gate *)

\* As long as nothing has failed and no config is installed the token file stays what
\* the console announced: only RemoveToken, after a Save, takes it away, so that no
\* handler ever finds it gone or empty.
Gated ==
    /\ token \in Tokens \cup {Absent} \/ (daemon = "logFill" /\ token = Empty)
    /\ daemon = "serving" => token \in Tokens /\ token = console.token
    /\ \A cl \in Clients :
         /\ pc[cl] \notin {"tokenFill", "tokenChmod", "rmToken"}
         /\ pc[cl] \in Writing => want[cl] = console.token

Unfailed == faults = 0 /\ ~IsConfigured

GateInv == AnchorInv /\ (Unfailed => Gated)

LEMMA GateInit == Init => Gated
  BY SMT DEF Init, Gated, Writing, Replacing

LEMMA BootGated == ASSUME AnchorInv, Gated, Unfailed, Boot PROVE Gated'
  <1> USE OnboardingAssumption
      DEF AnchorInv, TypeOK, Types, Anchored, Gated, Unfailed, IsConfigured, files, sessions,
          Writing, Replacing
  <1>1. CASE LoadPKI
    BY <1>1, SMT DEF LoadPKI
  <1>2. CASE \E b \in Bootstraps : CreateCA(b)
    BY <1>2, SMT DEF CreateCA
  <1>3. CASE GenOpen
    BY <1>3, SMT DEF GenOpen
  <1>4. CASE GenFill
    BY <1>4, SMT DEF GenFill
  <1>5. CASE LogConfigured
    BY <1>5, SMT DEF LogConfigured
  <1>6. CASE LogToken
    BY <1>6, SMT DEF LogToken, Announce
  <1>7. CASE LogOpenToken
    BY <1>7, SMT DEF LogOpenToken
  <1>8. CASE \E t \in Tokens : LogFillToken(t)
    BY <1>8, SMT DEF LogFillToken, Announce
  <1>9. CASE Retry
    BY <1>9, SMT DEF Retry, ProcessGone
  <1> QED
    BY <1>1, <1>2, <1>3, <1>4, <1>5, <1>6, <1>7, <1>8, <1>9 DEF Boot

LEMMA HandlerGated ==
  ASSUME AnchorInv, Gated, Unfailed, NEW cl \in Clients, Handler(cl), Unfailed'
  PROVE  Gated'
  <1> USE OnboardingAssumption
      DEF AnchorInv, TypeOK, Types, Vetted, Anchored, Gated, Unfailed, IsConfigured, files,
          process, Goto, Return, InFlight, Gating, Writing, Replacing
  <1>1. CASE CheckToken(cl)
    <2>1. token \in Tokens /\ token = console.token /\ token # Empty
      BY <1>1, SMT DEF CheckToken
    <2> QED
      BY <1>1, <2>1, SMT DEF CheckToken
  <1>2. CASE OpenToken(cl) \/ (\E t \in Tokens : FillToken(cl, t)) \/ ChmodToken(cl) \/ RemoveToken(cl)
    BY <1>2, SMT DEF OpenToken, FillToken, ChmodToken, RemoveToken
  <1>3. CASE ReplaceIdentity(cl)
    BY <1>3, SMT DEF ReplaceIdentity, Truncate, Fill
  <1>4. CASE RemoveCAKey(cl)
    BY <1>4, SMT DEF RemoveCAKey
  <1>5. CASE Save(cl)
    BY <1>5, SMT DEF Save
  <1> QED
    BY <1>1, <1>2, <1>3, <1>4, <1>5 DEF Handler

LEMMA PeerGated ==
  ASSUME AnchorInv, Gated, Unfailed, NEW cl \in Clients, Handshake(cl) \/ Peer(cl)
  PROVE  Gated'
  <1> USE DEF AnchorInv, TypeOK, Types, Anchored, Gated, files, process, Goto, Leave,
              Writing, Replacing
  <1>1. CASE Handshake(cl)
    BY <1>1, SMT DEF Handshake, DialKey, DialCA, Exchange
  <1>2. CASE \E id \in Identities : DialCert(cl, id)
    BY <1>2, SMT DEF DialCert
  <1>3. CASE \E c \in Configs, t \in Tokens \cup {Empty} : ApplyConfig(cl, c, t)
    BY <1>3, SMT DEF ApplyConfig, Passes
  <1>4. CASE Disconnect(cl)
    BY <1>4, SMT DEF Disconnect
  <1> QED
    BY <1>1, <1>2, <1>3, <1>4 DEF Peer

LEMMA RebootGated == ASSUME AnchorInv, Gated, Unfailed, Reboot PROVE Gated'
  BY OnboardingAssumption, SMT
     DEF AnchorInv, TypeOK, Types, Gated, Reboot, ProcessGone, files, Writing, Replacing

\* Faults are never forgotten, and no step of Onboarding takes a config away.
LEMMA UnfailedBefore == ASSUME AnchorInv, Next, Unfailed' PROVE Unfailed
  <1>1. faults \in Nat
    BY DEF AnchorInv, TypeOK, Types
  <1> DEFINE Applies == \E cl \in Clients, c \in Configs, t \in Tokens \cup {Empty} : ApplyConfig(cl, c, t)
             Other == \/ Boot \/ BootWriteFails \/ Crash \/ Reboot
                      \/ \E cl \in Clients : \/ Handshake(cl) \/ Handler(cl) \/ CallFails(cl) \/ Disconnect(cl)
                                             \/ \E id \in Identities : DialCert(cl, id)
  <1>2. Applies => UNCHANGED <<config, faults>>
    BY ApplyEffect DEF files
  <1>3. Other => (faults' = 0 => faults = 0) /\ (config' = config \/ \E cl \in Clients : Save(cl))
    BY <1>1, SMT
       DEF Boot, LoadPKI, CreateCA, GenOpen, GenFill, LogConfigured, LogToken, LogOpenToken,
           LogFillToken, Retry, Handshake, DialKey, DialCA, Exchange, Handler, CheckToken, OpenToken,
           FillToken, ChmodToken, ReplaceIdentity, Truncate, Fill, RemoveCAKey, RemoveToken, Save,
           DialCert, Disconnect, CallFails, BootWriteFails, Crash, Reboot, files
  <1>4. ASSUME NEW cl \in Clients, Save(cl) PROVE config' # Absent
    BY <1>4, OnboardingAssumption, SMT
       DEF Save, AnchorInv, TypeOK, Vetted, InFlight, Writing, OnboardingAssumption
  <1>5. Applies \/ Other
    BY DEF Next, Peer
  <1> QED
    BY <1>2, <1>3, <1>4, <1>5 DEF Unfailed, IsConfigured

LEMMA FaultCounts ==
  ASSUME AnchorInv, BootWriteFails \/ Crash \/ \E cl \in Clients : CallFails(cl)
  PROVE  ~Unfailed'
  BY SMT DEF AnchorInv, TypeOK, Types, BootWriteFails, Crash, CallFails, Unfailed

LEMMA GateStep == GateInv /\ [Next]_vars => GateInv'
  <1> SUFFICES ASSUME GateInv, [Next]_vars, Unfailed' PROVE Gated'
    BY AnchorStep DEF GateInv
  <1>1. CASE UNCHANGED vars
    BY <1>1, SMT DEF vars, files, process, sessions, GateInv, Gated, Unfailed, IsConfigured
  <1>2. CASE Next
    <2>1. AnchorInv /\ Gated /\ Unfailed
      BY <1>2, UnfailedBefore DEF GateInv
    <2> QED
      BY <1>2, <2>1, BootGated, HandlerGated, PeerGated, RebootGated, FaultCounts DEF Next
  <1> QED
    BY <1>1, <1>2

\* machine.go:301-323: until something fails, whoever is past the gate of a node that has
\* no config has presented the token the console announced, however many calls overlap.
THEOREM TokenGate == Spec => []GateHolds
  <1>1. Init => GateInv
    BY TypedInit, AnchoredInit, GateInit DEF GateInv, AnchorInv
  <1>2. GateInv => GateHolds
    BY DEF GateInv, Unfailed, Gated, GateHolds
  <1> QED
    BY <1>1, <1>2, GateStep, PTL DEF Spec

-----------------------------------------------------------------------------
(* Calls that found no other one in flight *)

\* How far the one call in flight has come.  Each phase keeps what the ones
\* before it wrote, and no config is there before Save.
AfterCert == {"truncKey", "fillKey", "truncCA", "fillCA", "rmCAKey", "save", "rmToken"}
AfterKey == {"truncCA", "fillCA", "rmCAKey", "save", "rmToken"}
AfterCA == {"rmCAKey", "save", "rmToken"}

Progress(cl) ==
    /\ pc[cl] \in InFlight \ {"rmToken"} => ~IsConfigured
    /\ pc[cl] = "rmToken" => config = ask[cl]
    /\ pc[cl] = "fillCert" => disk["server.crt"] = Empty
    /\ pc[cl] = "fillKey" => disk["server.key"] = Empty
    /\ pc[cl] = "fillCA" => disk["ca.crt"] = Empty
    /\ pc[cl] \in AfterCert => disk["server.crt"] = ask[cl]
    /\ pc[cl] \in AfterKey => disk["server.key"] = ask[cl]
    /\ pc[cl] \in AfterCA => disk["ca.crt"] = ask[cl]

Alone == \A c, d \in Clients : pc[c] \in InFlight /\ pc[d] \in InFlight => c = d

InOrder == Alone /\ Served /\ \A cl \in Clients : Progress(cl)

OrderInv == AnchorInv /\ (~contested => InOrder)

LEMMA OrderInit == Init => OrderInv
  BY TypedInit, AnchoredInit, SMT
     DEF Init, OrderInv, AnchorInv, InOrder, Alone, Served, IsConfigured, Progress, InFlight, Gating,
         Writing, Replacing, AfterCert, AfterKey, AfterCA

LEMMA BootOrder == ASSUME AnchorInv, InOrder, Boot PROVE InOrder'
  <1> USE DEF AnchorInv, Anchored, InOrder, Alone, Served, IsConfigured, Progress, files, sessions
  <1>1. \A cl \in Clients : pc'[cl] = "idle" /\ pc[cl] = "idle"
    BY SMT DEF Boot, LoadPKI, CreateCA, GenOpen, GenFill, LogConfigured, LogToken, LogOpenToken,
               LogFillToken, Retry, ProcessGone
  <1>2. Alone' /\ \A cl \in Clients : Progress(cl)'
    BY <1>1, SMT DEF InFlight, Gating, Writing, Replacing, AfterCert, AfterKey, AfterCA
  <1>3. config' = config /\ (IsConfigured => disk' = disk)
    BY SMT DEF Boot, LoadPKI, CreateCA, GenOpen, GenFill, LogConfigured, LogToken, LogOpenToken,
               LogFillToken, Retry, ProcessGone
  <1> QED
    BY <1>2, <1>3, SMT

LEMMA StopOrder == ASSUME InOrder, BootWriteFails \/ Crash \/ Reboot PROVE InOrder'
  BY SMT DEF InOrder, Alone, Served, IsConfigured, Progress, files, sessions, BootWriteFails,
             Crash, Reboot, ProcessGone, InFlight, Gating, Writing, Replacing, AfterCert, AfterKey,
             AfterCA

LEMMA HandlerOrder == ASSUME AnchorInv, InOrder, NEW cl \in Clients, Handler(cl) PROVE InOrder'
  <1>1. pc[cl] \in InFlight /\ ask[cl] \in Valid
    BY SMT DEF AnchorInv, TypeOK, Vetted, Handler, CheckToken, OpenToken, FillToken,
               ChmodToken, ReplaceIdentity, Truncate, Fill, RemoveCAKey, Save, RemoveToken,
               InFlight, Gating, Writing, Replacing
  <1>2. \A d \in Clients : d # cl => pc[d] \notin InFlight
    BY <1>1 DEF InOrder, Alone
  <1>3. \A d \in Clients : d # cl => pc'[d] = pc[d]
    BY SMT DEF AnchorInv, TypeOK, Types, Handler, CheckToken, OpenToken, FillToken,
               ChmodToken, ReplaceIdentity, Truncate, Fill, RemoveCAKey, Save, RemoveToken, Goto, Return
  <1>4. Alone' /\ \A d \in Clients : d # cl => Progress(d)'
    <2>1. Alone'
      BY <1>2, <1>3 DEF Alone
    <2>2. \A d \in Clients : d # cl => Progress(d)'
      BY <1>2, <1>3, SMT DEF Progress, InFlight, Writing, Replacing, AfterCert, AfterKey, AfterCA
    <2> QED
      BY <2>1, <2>2
  <1>5. /\ disk \in [PKIFiles -> Contents] /\ DOMAIN pc = Clients /\ DOMAIN ask = Clients
        /\ pc = [d \in Clients |-> pc[d]] /\ ask = [d \in Clients |-> ask[d]]
    BY SMT DEF AnchorInv, TypeOK, Types
  <1>6. Served /\ Progress(cl)
    BY DEF InOrder
  <1>7. Progress(cl)' /\ Served'
    <2> USE <1>1, <1>5, <1>6, OnboardingAssumption
        DEF Progress, Served, IsConfigured, files, process, Goto, Return,
            InFlight, Gating, Writing, Replacing, AfterCert, AfterKey, AfterCA, PKIFiles
    <2>1. CASE CheckToken(cl)
      BY <2>1, SMT DEF CheckToken
    <2>2. CASE OpenToken(cl)
      BY <2>2, SMT DEF OpenToken
    <2>3. CASE \E t \in Tokens : FillToken(cl, t)
      BY <2>3, SMT DEF FillToken
    <2>4. CASE ChmodToken(cl)
      BY <2>4, SMT DEF ChmodToken
    <2>5. CASE ReplaceIdentity(cl)
      <3>1. CASE Truncate(cl, "truncCert", "server.crt", "fillCert")
        BY <3>1, SMT DEF Truncate
      <3>2. CASE Fill(cl, "fillCert", "server.crt", "truncKey")
        BY <3>2, SMT DEF Fill, Filled
      <3>3. CASE Truncate(cl, "truncKey", "server.key", "fillKey")
        BY <3>3, SMT DEF Truncate
      <3>4. CASE Fill(cl, "fillKey", "server.key", "truncCA")
        BY <3>4, SMT DEF Fill, Filled
      <3>5. CASE Truncate(cl, "truncCA", "ca.crt", "fillCA")
        BY <3>5, SMT DEF Truncate
      <3>6. CASE Fill(cl, "fillCA", "ca.crt", "rmCAKey")
        BY <3>6, SMT DEF Fill, Filled
      <3> QED
        BY <2>5, <3>1, <3>2, <3>3, <3>4, <3>5, <3>6 DEF ReplaceIdentity
    <2>6. CASE RemoveCAKey(cl)
      BY <2>6, SMT DEF RemoveCAKey
    <2>7. CASE Save(cl)
      BY <2>7, SMT DEF Save
    <2>8. CASE RemoveToken(cl)
      BY <2>8, SMT DEF RemoveToken
    <2> QED
      BY <2>1, <2>2, <2>3, <2>4, <2>5, <2>6, <2>7, <2>8 DEF Handler
  <1> QED
    BY <1>4, <1>7 DEF InOrder

LEMMA PeerOrder ==
  ASSUME AnchorInv, InOrder, NEW cl \in Clients,
         \/ Handshake(cl) \/ Disconnect(cl) \/ CallFails(cl)
         \/ \E id \in Identities : DialCert(cl, id)
  PROVE  InOrder'
  <1> USE DEF AnchorInv, TypeOK, Types, InOrder, Alone, Served, IsConfigured, Progress, files,
          process, Goto, Return, Leave, InFlight, Gating, Writing, Replacing, AfterCert, AfterKey,
          AfterCA
  <1>1. CASE Handshake(cl)
    BY <1>1, SMT DEF Handshake, DialKey, DialCA, Exchange
  <1>2. CASE \E id \in Identities : DialCert(cl, id)
    BY <1>2, SMT DEF DialCert
  <1>3. CASE Disconnect(cl)
    BY <1>3, SMT DEF Disconnect
  <1>4. CASE CallFails(cl)
    BY <1>4, SMT DEF CallFails
  <1> QED
    BY <1>1, <1>2, <1>3, <1>4

\* A call that finds no other in flight puts things in order, whatever was before.
LEMMA ApplyOrder ==
  ASSUME AnchorInv, NEW cl \in Clients, NEW c, NEW t, ApplyConfig(cl, c, t), ~contested'
  PROVE  InOrder'
  <1>1. \A d \in Clients : pc[d] \notin InFlight
    BY Zenon DEF ApplyConfig, Passes
  <1>2. ~IsConfigured' /\ pc' = [pc EXCEPT ![cl] = "token"]
    BY DEF ApplyConfig, Passes, Goto, IsConfigured, files
  <1>3. \A d \in Clients : (pc'[d] = "token" /\ d = cl) \/ pc'[d] \notin InFlight
    BY <1>1, <1>2, SMT DEF AnchorInv, TypeOK, Types
  <1>4. Alone' /\ Served'
    BY <1>2, <1>3, SMT DEF Alone, Served
  <1>5. \A d \in Clients : Progress(d)'
    BY <1>2, <1>3, SMT DEF Progress, InFlight, Gating, Writing, Replacing, AfterCert, AfterKey, AfterCA
  <1> QED
    BY <1>4, <1>5 DEF InOrder

\* Only ApplyConfig looks for other calls.
LEMMA ContestedKept ==
  ASSUME Next, \A cl \in Clients, c \in Configs, t \in Tokens \cup {Empty} : ~ApplyConfig(cl, c, t)
  PROVE  contested' = contested
  <1>1. CASE Boot \/ BootWriteFails \/ Crash \/ Reboot
    BY <1>1, Zenon
       DEF Boot, LoadPKI, CreateCA, GenOpen, GenFill, LogConfigured, LogToken, LogOpenToken,
           LogFillToken, Retry, BootWriteFails, Crash, Reboot
  <1>2. CASE \E cl \in Clients : Handler(cl) \/ CallFails(cl)
    BY <1>2, Zenon
       DEF Handler, CheckToken, OpenToken, FillToken, ChmodToken, ReplaceIdentity, Truncate, Fill,
           RemoveCAKey, Save, RemoveToken, CallFails
  <1>3. CASE \E cl \in Clients : Handshake(cl) \/ Peer(cl)
    BY <1>3, Zenon DEF Handshake, DialKey, DialCA, Exchange, Peer, DialCert, Disconnect
  <1> QED
    BY <1>1, <1>2, <1>3 DEF Next

LEMMA OrderStep == OrderInv /\ [Next]_vars => OrderInv'
  <1> SUFFICES ASSUME OrderInv, [Next]_vars, ~contested' PROVE InOrder'
    BY AnchorStep DEF OrderInv
  <1>1. CASE UNCHANGED vars
    BY <1>1, SMT DEF vars, files, process, sessions, OrderInv, InOrder, Alone, Served, IsConfigured,
                     Progress
  <1>2. ASSUME NEW cl \in Clients, NEW c, NEW t, ApplyConfig(cl, c, t) PROVE InOrder'
    BY <1>2, ApplyOrder DEF OrderInv
  <1>3. CASE Next /\ \A cl \in Clients, c \in Configs, t \in Tokens \cup {Empty} : ~ApplyConfig(cl, c, t)
    <2>1. AnchorInv /\ InOrder
      BY <1>3, ContestedKept DEF OrderInv
    <2> QED
      BY <1>3, <2>1, BootOrder, HandlerOrder, PeerOrder, StopOrder DEF Next, Peer
  <1> QED
    BY <1>1, <1>2, <1>3

\* server.go:99-100: handshakes on a node whose config no other call contested read the
\* identity of that config, for any number of operators and whatever failed on the way.
THEOREM ServedIdentity == Spec => []InstalledIsServed
  <1>1. OrderInv => InstalledIsServed
    BY DEF OrderInv, InOrder, InstalledIsServed
  <1> QED
    BY <1>1, OrderInit, OrderStep, PTL DEF Spec

-----------------------------------------------------------------------------
(* Onboarding implements MaintenanceMode *)

Holding == {"open"} \cup InFlight

\* Neither lets a peer in, nor greets or loses one.
LEMMA SessionsKept ==
  ASSUME \A cl \in Clients : /\ pc'[cl] \in Holding <=> pc[cl] \in Holding
                             /\ pc'[cl] = "exchange" <=> pc[cl] = "exchange"
                             /\ pc[cl] # "idle" => who'[cl] = who[cl] \/ pc'[cl] = "idle"
  PROVE  Sessions' = Sessions /\ Greeted' = Greeted
  <1>1. \A cl \in Clients : pc[cl] \in Holding \cup {"exchange"} => who'[cl] = who[cl]
    BY SMT DEF Holding, InFlight, Gating, Writing, Replacing
  <1>2. Sessions' = Sessions
    BY <1>1, SMT DEF Sessions, Holding
  <1>3. Greeted' = Greeted
    BY <1>1, SMT DEF Greeted
  <1> QED
    BY <1>2, <1>3

\* Peers that stay are who they were.
LEMMA SessionsDropped ==
  ASSUME \A cl \in Clients : /\ pc'[cl] \in Holding => pc[cl] \in Holding /\ who'[cl] = who[cl]
                             /\ pc'[cl] = "exchange" => pc[cl] = "exchange" /\ who'[cl] = who[cl]
  PROVE  Sessions' \subseteq Sessions /\ Greeted' \subseteq Greeted
  <1>1. Sessions' \subseteq Sessions
    BY SMT DEF Sessions, Holding
  <1>2. Greeted' \subseteq Greeted
    BY SMT DEF Greeted
  <1> QED
    BY <1>1, <1>2

\* A boot, a stop or a failing write at boot lets nobody in.
LEMMA BootSessions ==
  ASSUME Boot \/ BootWriteFails \/ Crash \/ Reboot
  PROVE  /\ Sessions' \subseteq Sessions /\ Greeted' \subseteq Greeted
         /\ config' = config /\ acked' = acked /\ contested' = contested
  <1>1. \A cl \in Clients : /\ pc'[cl] \in Holding => pc[cl] \in Holding /\ who'[cl] = who[cl]
                            /\ pc'[cl] = "exchange" => pc[cl] = "exchange" /\ who'[cl] = who[cl]
    BY SMT DEF Boot, LoadPKI, CreateCA, GenOpen, GenFill, LogConfigured, LogToken, LogOpenToken,
               LogFillToken, Retry, ProcessGone, BootWriteFails, Crash, Reboot, sessions, Holding,
               InFlight, Gating, Writing, Replacing
  <1>2. config' = config /\ acked' = acked
    BY SMT DEF Boot, LoadPKI, CreateCA, GenOpen, GenFill, LogConfigured, LogToken, LogOpenToken,
               LogFillToken, Retry, BootWriteFails, Crash, Reboot, files
  <1>3. contested' = contested
    BY Zenon DEF Boot, LoadPKI, CreateCA, GenOpen, GenFill, LogConfigured, LogToken, LogOpenToken,
                 LogFillToken, Retry, BootWriteFails, Crash, Reboot
  <1> QED
    BY <1>1, <1>2, <1>3, SessionsDropped

\* A handler keeps its caller, and only its last two steps tell of a config.
LEMMA HandlerSessions ==
  ASSUME TypeOK, NEW cl \in Clients, Handler(cl) \/ CallFails(cl)
  PROVE  /\ Sessions' = Sessions /\ Greeted' = Greeted
         /\ contested' = contested
         /\ ~Save(cl) => config' = config
         /\ ~RemoveToken(cl) => acked' = acked
  <1>1. \A d \in Clients : /\ pc'[d] \in Holding <=> pc[d] \in Holding
                           /\ pc'[d] = "exchange" <=> pc[d] = "exchange"
    BY SMT DEF TypeOK, Types, Handler, CheckToken, OpenToken, FillToken,
               ChmodToken, ReplaceIdentity, Truncate, Fill, RemoveCAKey, Save, RemoveToken,
               CallFails, Goto, Return, Holding, InFlight, Gating, Writing, Replacing
  <1>2. who' = who
    BY SMT DEF Handler, CheckToken, OpenToken, FillToken, ChmodToken, ReplaceIdentity, Truncate,
               Fill, RemoveCAKey, Save, RemoveToken, CallFails
  <1>3. (~Save(cl) => config' = config) /\ (~RemoveToken(cl) => acked' = acked)
    BY SMT DEF Handler, CheckToken, OpenToken, FillToken, ChmodToken, ReplaceIdentity, Truncate,
               Fill, RemoveCAKey, Save, RemoveToken, CallFails, files
  <1>4. contested' = contested
    BY Zenon DEF Handler, CheckToken, OpenToken, FillToken, ChmodToken, ReplaceIdentity, Truncate,
                 Fill, RemoveCAKey, Save, RemoveToken, CallFails
  <1> QED
    BY <1>1, <1>2, <1>3, <1>4, SessionsKept

\* What a peer's step changes of all this: it calls, it is greeted by the CA file, it is
\* let in when it was greeted, or it goes.
Calls == contested' \in BOOLEAN /\ ~IsConfigured /\ Sessions' = Sessions /\ Greeted' = Greeted

IsGreeted(cl) ==
    /\ disk["ca.crt"] = who[cl] /\ who[cl] \in Identities
    /\ contested' = contested /\ Sessions' = Sessions
    /\ Greeted' = Greeted \cup {<<cl, who[cl]>>}

LetIn(cl) ==
    /\ <<cl, who[cl]>> \in Greeted /\ who[cl] \in Identities
    /\ contested' = contested /\ Sessions' = Sessions \cup {<<cl, who[cl]>>}
    /\ Greeted' = Greeted \ {<<cl, who[cl]>>}

Goes == contested' = contested /\ Sessions' \subseteq Sessions /\ Greeted' \subseteq Greeted

LEMMA PeerSessions ==
  ASSUME TypeOK, NEW cl \in Clients, Handshake(cl) \/ Peer(cl)
  PROVE  /\ config' = config /\ acked' = acked
         /\ Calls \/ IsGreeted(cl) \/ LetIn(cl) \/ Goes
  <1>1. config' = config /\ acked' = acked
    BY Zenon DEF Handshake, DialKey, DialCA, Exchange, Peer, DialCert, ApplyConfig, Passes, Disconnect, files
  <1>2. /\ DOMAIN pc = Clients /\ pc = [d \in Clients |-> pc[d]]
        /\ DOMAIN who = Clients /\ who = [d \in Clients |-> who[d]]
    BY SMT DEF TypeOK, Types
  <1>3. pc[cl] # "idle" => who[cl] \in Identities
    BY DEF TypeOK, Vetted
  <1>4. "exchange" \notin Holding
    BY SMT DEF Holding, InFlight, Gating, Writing, Replacing
  <1>5. CASE DialCA(cl) /\ disk["ca.crt"] = who[cl]
    <2>1. /\ who' = who /\ pc' = [pc EXCEPT ![cl] = "exchange"] /\ pc[cl] = "dialCA"
          /\ contested' = contested
      BY <1>5, Zenon DEF DialCA, Goto
    <2>2. \A d \in Clients : /\ pc'[d] \in Holding <=> pc[d] \in Holding
                             /\ pc'[d] = "exchange" <=> pc[d] = "exchange" \/ d = cl
      BY <1>2, <1>4, <2>1, SMT DEF Holding, InFlight, Gating, Writing, Replacing
    <2>3. Sessions' = Sessions
      BY <2>1, <2>2, SMT DEF Sessions, Holding
    <2>4. Greeted' = Greeted \cup {<<cl, who[cl]>>}
      BY <2>1, <2>2, SMT DEF Greeted
    <2> QED
      BY <1>1, <1>3, <1>5, <2>1, <2>3, <2>4 DEF IsGreeted
  <1>6. CASE Exchange(cl)
    <2>1. /\ who' = who /\ pc' = [pc EXCEPT ![cl] = "open"] /\ pc[cl] = "exchange"
          /\ contested' = contested
      BY <1>6, Zenon DEF Exchange, Goto
    <2>2. \A d \in Clients : /\ pc'[d] \in Holding <=> pc[d] \in Holding \/ d = cl
                             /\ pc'[d] = "exchange" <=> pc[d] = "exchange" /\ d # cl
      BY <1>2, <2>1, SMT DEF Holding
    <2>3. Sessions' = Sessions \cup {<<cl, who[cl]>>}
      BY <2>1, <2>2, SMT DEF Sessions, Holding
    <2>4. Greeted' = Greeted \ {<<cl, who[cl]>>} /\ <<cl, who[cl]>> \in Greeted
      BY <2>1, <2>2, SMT DEF Greeted
    <2> QED
      BY <1>1, <1>3, <2>1, <2>3, <2>4 DEF LetIn
  <1>7. CASE \E c \in Configs, t \in Tokens \cup {Empty} : ApplyConfig(cl, c, t)
    <2>1. contested' \in BOOLEAN /\ ~IsConfigured
      BY <1>7, Zenon DEF ApplyConfig, Passes
    <2>2. \A d \in Clients : /\ pc'[d] \in Holding <=> pc[d] \in Holding
                             /\ pc'[d] = "exchange" <=> pc[d] = "exchange"
                             /\ who'[d] = who[d]
      BY <1>2, <1>7, SMT DEF ApplyConfig, Passes, Goto, Holding, InFlight, Gating, Writing, Replacing
    <2>3. Sessions' = Sessions /\ Greeted' = Greeted
      BY <2>2, SessionsKept
    <2> QED
      BY <1>1, <2>1, <2>3 DEF Calls
  <1>8. CASE \/ DialKey(cl) \/ (DialCA(cl) /\ disk["ca.crt"] # who[cl]) \/ Disconnect(cl)
             \/ \E id \in Identities : DialCert(cl, id)
    <2>1. contested' = contested
      BY <1>8, Zenon DEF DialKey, DialCA, Disconnect, DialCert
    <2>2. \A d \in Clients : /\ pc'[d] \in Holding => pc[d] \in Holding /\ who'[d] = who[d]
                             /\ pc'[d] = "exchange" => pc[d] = "exchange" /\ who'[d] = who[d]
      BY <1>2, <1>8, SMT
         DEF DialKey, DialCA, Disconnect, DialCert, Goto, Leave, Holding, InFlight, Gating, Writing,
             Replacing
    <2> QED
      BY <1>1, <2>1, <2>2, SessionsDropped DEF Goes
  <1> QED
    BY <1>5, <1>6, <1>7, <1>8 DEF Handshake, Peer

LEMMA HandlerMaps ==
  ASSUME OrderInv, NEW cl \in Clients, Handler(cl) \/ CallFails(cl)
  PROVE  Maintenance!Next \/ UNCHANGED Maintenance!vars
  <1>1. /\ Sessions' = Sessions /\ Greeted' = Greeted /\ contested' = contested
        /\ ~Save(cl) => config' = config
        /\ ~RemoveToken(cl) => acked' = acked
    BY HandlerSessions DEF OrderInv, AnchorInv
  <1>2. pc[cl] \in InFlight => ask[cl] \in Configs
    BY OnboardingAssumption DEF OnboardingAssumption, OrderInv, AnchorInv, TypeOK, Vetted
  <1>3. CASE Save(cl)
    <2>1. /\ ask[cl] \in Configs /\ config' = ask[cl] /\ acked' = acked
          /\ contested \/ ~IsConfigured
      BY <1>2, <1>3, SMT DEF Save, OrderInv, InOrder, Progress, InFlight, Writing
    <2>2. Maintenance!Install(ask[cl])
      BY <1>1, <2>1 DEF Maintenance!Install, IsConfigured
    <2> QED
      BY <2>1, <2>2 DEF Maintenance!Next
  <1>4. CASE RemoveToken(cl)
    <2>1. /\ ask[cl] \in Configs /\ config' = config /\ acked' = acked \cup {ask[cl]}
          /\ contested \/ config = ask[cl]
      BY <1>2, <1>4, SMT DEF RemoveToken, OrderInv, InOrder, Progress, InFlight, Writing
    <2>2. Maintenance!Acknowledge(ask[cl])
      BY <1>1, <2>1 DEF Maintenance!Acknowledge
    <2> QED
      BY <2>1, <2>2 DEF Maintenance!Next
  <1>5. CASE ~Save(cl) /\ ~RemoveToken(cl)
    BY <1>1, <1>5 DEF Maintenance!vars
  <1> QED
    BY <1>3, <1>4, <1>5

LEMMA PeerMaps ==
  ASSUME OrderInv, NEW cl \in Clients, Handshake(cl) \/ Peer(cl)
  PROVE  Maintenance!Next
  <1>1. /\ config' = config /\ acked' = acked
        /\ Calls \/ IsGreeted(cl) \/ LetIn(cl) \/ Goes
    BY PeerSessions DEF OrderInv, AnchorInv
  <1>2. CASE Calls
    <2>1. Maintenance!Contest
      BY <1>1, <1>2, Zenon DEF Calls, IsConfigured, Maintenance!Contest
    <2> QED
      BY <2>1 DEF Maintenance!Next
  <1>3. CASE IsGreeted(cl)
    <2>1. contested \/ config \in {Absent, who[cl]}
      BY <1>3, SMT DEF IsGreeted, OrderInv, InOrder, Served, IsConfigured
    <2>2. Maintenance!Greet(cl, who[cl])
      BY <1>1, <1>3, <2>1 DEF IsGreeted, Maintenance!Greet
    <2> QED
      BY <1>3, <2>2 DEF IsGreeted, Maintenance!Next
  <1>4. CASE LetIn(cl)
    <2>1. Maintenance!Admit(cl, who[cl])
      BY <1>1, <1>4 DEF LetIn, Maintenance!Admit
    <2> QED
      BY <1>4, <2>1 DEF LetIn, Maintenance!Next
  <1>5. CASE Goes
    <2>1. Maintenance!Drop
      BY <1>1, <1>5 DEF Goes, Maintenance!Drop
    <2> QED
      BY <2>1 DEF Maintenance!Next
  <1> QED
    BY <1>1, <1>2, <1>3, <1>4, <1>5

\* machine.go:301-332, creds.go:17-19: onboarding with all its handshakes, files, crashes
\* and failing calls implements MaintenanceMode, for any number of operators: only calls
\* that overlapped before there was a config can make a node other than it promises.
THEOREM Implements == Spec => MaintenanceSpec
  <1>1. Init => Maintenance!Init
    BY SMT DEF Init, Maintenance!Init, Sessions, Greeted, InFlight, Gating, Writing, Replacing
  <1>2. OrderInv /\ [Next]_vars => [Maintenance!Next]_Maintenance!vars
    <2> SUFFICES ASSUME OrderInv, [Next]_vars
                 PROVE  Maintenance!Next \/ UNCHANGED Maintenance!vars
      OBVIOUS
    <2>1. CASE UNCHANGED vars
      BY <2>1 DEF vars, files, process, sessions, Sessions, Greeted, Maintenance!vars
    <2>2. CASE Boot \/ BootWriteFails \/ Crash \/ Reboot
      <3>1. Maintenance!Drop
        BY <2>2, BootSessions DEF Maintenance!Drop
      <3> QED
        BY <3>1 DEF Maintenance!Next
    <2>3. CASE \E cl \in Clients : Handshake(cl) \/ Handler(cl) \/ Peer(cl) \/ CallFails(cl)
      BY <2>3, HandlerMaps, PeerMaps
    <2> QED
      BY <2>1, <2>2, <2>3 DEF Next
  <1> QED
    BY <1>1, <1>2, OrderInit, OrderStep, PTL DEF Spec, MaintenanceSpec, Maintenance!Spec
=============================================================================
