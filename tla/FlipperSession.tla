---------------------------- MODULE FlipperSession ----------------------------
(***************************************************************************)
(* What the plugins of a debug build are promised, with no word of sockets,*)
(* certificates, threads and retries: sessions with the desktop follow one *)
(* another; a plugin is attached and detached within a session, once each  *)
(* in turn; and a session takes its plugins with it when it ends.          *)
(*                                                                         *)
(* The promise is void from the first call of stop on, and from the first  *)
(* plugin on that was not told its connection ended.                       *)
(***************************************************************************)
CONSTANT Plugin

VARIABLES
    up,              \* a session with the desktop is on
    attached,        \* the plugins attached in it
    void             \* the promise holds no longer

svars == <<up, attached, void>>

SInit ==
    /\ up = FALSE
    /\ attached = {}
    /\ void = FALSE

Begin ==
    /\ ~void /\ ~up
    /\ up' = TRUE
    /\ UNCHANGED <<attached, void>>

Attach(p) ==
    /\ up
    /\ p \notin attached
    /\ attached' = attached \cup {p}
    /\ UNCHANGED <<up, void>>

Detach(p) ==
    /\ up
    /\ p \in attached
    /\ attached' = attached \ {p}
    /\ UNCHANGED <<up, void>>

End ==
    /\ up
    /\ up' = FALSE
    /\ attached' = {}
    /\ UNCHANGED void

GiveUp ==
    /\ ~void
    /\ void' = TRUE
    /\ up' = FALSE
    /\ attached' = {}

SNext ==
    \/ Begin
    \/ \E p \in Plugin : Attach(p) \/ Detach(p)
    \/ End
    \/ GiveUp

SSpec == SInit /\ [][SNext]_svars
=============================================================================
