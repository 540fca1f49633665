------------------------------- MODULE Lines --------------------------------
(***************************************************************************)
(* What the dialer promises about the connections RAS keeps for it, without *)
(* threads, buttons or handlers: a host dials only when it remembers no    *)
(* line, a host remembers a line that is up until it goes down, and a line *)
(* that is up is forgotten only when all are, as the list is rebuilt.      *)
(***************************************************************************)
CONSTANTS
  Ids,     \* the hosts
  Handles  \* the lines

VARIABLES
  state,  \* per line: up (from the dial on), down, or broken: the dial has
          \* failed and nobody has hung it up
  owner   \* per line, the hosts that remember it

vars == <<state, owner>>

LineStates == {"up", "down", "broken"}

Init ==
  /\ state = [c \in Handles |-> "down"]
  /\ owner = [c \in Handles |-> {}]

Others(c) == Handles \ {c}

\* A host remembers what it dials, also when the dial fails at once.
Dial(i, c) ==
  /\ state[c] = "down"
  /\ owner' = [owner EXCEPT ![c] = @ \cup {i}]
  /\ \A d \in Handles : i \notin owner[d]
  /\ \A d \in Others(c) : state'[d] = state[d]
  /\ state' \in [Handles -> LineStates]

\* A dial fails.  Lines are hung up or drop; leaving the program ends several.
End ==
  /\ UNCHANGED owner
  /\ \A c \in Handles : \/ state'[c] \in {state[c], "down"}
                        \/ state[c] = "up" /\ state'[c] = "broken"
  /\ state' \in [Handles -> LineStates]

\* Hosts forget a line that is not up, perhaps hanging it up first.
Forget(c) ==
  /\ state[c] # "up"
  /\ state'[c] \in {state[c], "down"}
  /\ owner'[c] \subseteq owner[c]
  /\ \A d \in Others(c) : state'[d] = state[d] /\ owner'[d] = owner[d]
  /\ state' \in [Handles -> LineStates] /\ owner' \in [Handles -> SUBSET Ids]

\* The list is rebuilt: lines stay up that no host knows.
Abandon ==
  /\ owner' = [c \in Handles |-> {}]
  /\ UNCHANGED state

Next ==
  \/ End
  \/ \E c \in Handles : Forget(c)
  \/ \E c \in Handles, i \in Ids : Dial(i, c)
  \/ Abandon

Spec == Init /\ [][Next]_vars

-----------------------------------------------------------------------------

\* A line that is up, and that a host remembers, is remembered until it is not
\* up any more or every host forgets every line.
UpLinesRemembered ==
  [][\A c \in Handles :
       state[c] = "up" /\ state'[c] = "up" /\ ~(owner[c] \subseteq owner'[c])
         => \A d \in Handles : owner'[d] = {}]_vars
=============================================================================
