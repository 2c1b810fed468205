--------------------------- MODULE SessionLifecycle ---------------------------
(***************************************************************************)
(* What the routines of src/src/arrow/routine.c promise the application  *)
(* about its cloud session, with the retry loops, the watchdog, the       *)
(* config keys and the event queue left out.  The session holds a gateway *)
(* identity (gw), possibly a device identity (dev), is ready or not       *)
(* (_init_done), and has a set of open MQTT links.                        *)
(*                                                                         *)
(*   - identities are acquired and dropped only while the session is not  *)
(*     ready, and dropped only while no link is open;                     *)
(*   - a device identity is only acquired under a gateway identity;       *)
(*   - a link is opened only in a ready session holding both identities;  *)
(*   - a ready session is left only by a shutdown that closes every link  *)
(*     and drops both identities at once (arrow_close, or a reset).       *)
(***************************************************************************)
CONSTANT Channels

VARIABLES ready, gw, dev, links

avars == <<ready, gw, dev, links>>

Init ==
    /\ ready = FALSE
    /\ gw = FALSE
    /\ dev = FALSE
    /\ links = {}

\* The gateway is registered or restored before the session is ready.
AcquireGateway ==
    /\ ~ready
    /\ gw' = TRUE
    /\ UNCHANGED <<ready, dev, links>>

\* An attempt that gives up drops what the session holds.
Abandon ==
    /\ ~ready /\ links = {}
    /\ gw' \in {gw, FALSE}
    /\ dev' = FALSE
    /\ UNCHANGED <<ready, links>>

\* The session becomes ready under its gateway, with or without acquiring
\* the device in the same step.
BecomeReady ==
    /\ ~ready /\ gw
    /\ ready' = TRUE
    /\ dev' \in {dev, TRUE}
    /\ UNCHANGED <<gw, links>>

\* A link is opened for a ready session with both identities.
Open(c) ==
    /\ ready /\ gw /\ dev
    /\ links' = links \cup {c}
    /\ UNCHANGED <<ready, gw, dev>>

\* Some links are closed.
CloseLinks ==
    /\ links' \subseteq links
    /\ UNCHANGED <<ready, gw, dev>>

\* arrow_close of a ready session, or a reset: everything at once.
Shutdown ==
    /\ ready' = FALSE
    /\ gw' = FALSE
    /\ dev' = FALSE
    /\ links' = {}

Next ==
    \/ AcquireGateway
    \/ Abandon
    \/ BecomeReady
    \/ \E c \in Channels : Open(c)
    \/ CloseLinks
    \/ Shutdown

Spec == Init /\ [][Next]_avars

=============================================================================
