---------------------------- MODULE SessionLines ----------------------------
(***************************************************************************)
(* The dialer implements Lines: through all the half-done handlers of the  *)
(* UI thread and the walks of the RAS thread, also where they meet, the    *)
(* handles in m_HostList and the connections of RAS move as Lines says.    *)
(***************************************************************************)
EXTENDS VpnSession

\* What each connection is for the dialer, and who in m_HostList stores it.
lineState == [c \in Handles |-> CASE ~Held(c) -> "down"
                                  [] ras[c] \in {"failing", "failed"} -> "broken"
                                  [] OTHER -> "up"]
lineOwner == [c \in Handles |-> Holders(c)]

Abstract == INSTANCE Lines WITH state <- lineState, owner <- lineOwner

\* Every step of the dialer is a step of Lines or leaves the lines alone: no
\* path of Connect, InitData or RasDialFunc, whichever calls RAS refuses, dials
\* a second line for a host that stores a handle or forgets a line that is up.
ImplementsLines == Abstract!Spec
=============================================================================
