--------------------------- MODULE MaintenanceMode ---------------------------
(***************************************************************************)
(* What onboarding promises, with no file, token or handshake in sight: a   *)
(* node is given one machine config, in one step and for good; only that    *)
(* config is ever acknowledged; and from that step on whoever is greeted    *)
(* holds an identity of that config.  Peers greeted before it are still let *)
(* in, and sessions opened before it stay.                                  *)
(*                                                                          *)
(* Two things take that back.  Callers may contest a node as long as it has *)
(* no config: then the last of them decides, and nobody knows who is        *)
(* greeted.  And a wipe does: from its start to a boot that finds nothing   *)
(* the node is `undone`, may forget its config and greet whom it has not    *)
(* forgotten; then all of it holds again.  Even an undone node replaces no  *)
(* config by another, if nobody contests it.                                *)
(***************************************************************************)
CONSTANTS Clients, Configs, Identities, None

VARIABLES
    installed,   \* the machine config, or None in maintenance mode
    acked,       \* configs the node acknowledged
    greeted,     \* peers that will be let in, each with its identity
    open,        \* open sessions, each with the identity it was let in with
    contested,   \* whether calls to install a config overlapped
    undone       \* whether a wipe has begun and no boot found its end

vars == <<installed, acked, greeted, open, contested, undone>>

Init ==
    /\ installed = None /\ acked = {} /\ greeted = {} /\ open = {}
    /\ contested = FALSE /\ undone = FALSE

\* Only a node without a config can become contested; one that nothing came of can
\* be had alone again.
Contest ==
    /\ installed = None /\ contested' \in BOOLEAN
    /\ UNCHANGED <<installed, acked, greeted, open, undone>>

Install(c) ==
    /\ installed = None \/ contested
    /\ installed' = c
    /\ UNCHANGED <<acked, greeted, open, contested, undone>>

Acknowledge(c) ==
    /\ installed = c \/ contested \/ undone
    /\ acked' = acked \cup {c}
    /\ UNCHANGED <<installed, greeted, open, contested, undone>>

Greet(cl, id) ==
    /\ installed \in {None, id} \/ contested \/ undone
    /\ greeted' = greeted \cup {<<cl, id>>}
    /\ UNCHANGED <<installed, acked, open, contested, undone>>

Admit(cl, id) ==
    /\ <<cl, id>> \in greeted
    /\ greeted' = greeted \ {<<cl, id>>} /\ open' = open \cup {<<cl, id>>}
    /\ UNCHANGED <<installed, acked, contested, undone>>

\* Peers leave, or the daemon stops and all of them are dropped.
Drop ==
    /\ greeted' \subseteq greeted /\ open' \subseteq open
    /\ UNCHANGED <<installed, acked, contested, undone>>

Undo ==
    /\ undone' = TRUE
    /\ UNCHANGED <<installed, acked, greeted, open, contested>>

Forget ==
    /\ undone /\ installed' = None
    /\ UNCHANGED <<acked, greeted, open, contested, undone>>

\* The node boots with nothing left: it is as it was delivered.
Renew ==
    /\ undone /\ installed = None
    /\ undone' = FALSE /\ greeted' = {} /\ open' = {}
    /\ UNCHANGED <<installed, acked, contested>>

Next ==
    \/ Contest
    \/ \E c \in Configs : Install(c) \/ Acknowledge(c)
    \/ \E cl \in Clients, id \in Identities : Greet(cl, id) \/ Admit(cl, id)
    \/ Drop
    \/ Undo \/ Forget \/ Renew

Spec == Init /\ [][Next]_vars
=============================================================================
