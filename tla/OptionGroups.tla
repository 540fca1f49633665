---------------------------- MODULE OptionGroups ----------------------------
(***************************************************************************)
(* COptionUI and the option groups of its paint manager.  An option knows  *)
(* the name of its group, the manager keeps for each name the options that *)
(* have joined, and an option that is selected unselects those.            *)
(***************************************************************************)
CONSTANTS
  Options,
  Groups, \* the names in use
  NONE    \* the empty name

\* What is taken for granted of the constants.
ConstantsAssumption == NONE \notin Groups

VARIABLES
  m_mOptionGroup, \* the members of each group
  m_sGroupName,
  m_bSelected,
  attached,       \* the options with a manager
  alive,
  strays,         \* history: those in each group that have dropped its name by SetGroup(NULL)
  doubled         \* history: the groups joined by a selected option, and not clicked since

vars == <<m_mOptionGroup, m_sGroupName, m_bSelected, attached, alive, strays, doubled>>

TypeOK ==
  /\ m_mOptionGroup \in [Groups -> SUBSET Options]
  /\ m_sGroupName \in [Options -> Groups \cup {NONE}]
  /\ m_bSelected \subseteq alive
  /\ attached \subseteq alive
  /\ alive \subseteq Options
  /\ strays \in [Groups -> SUBSET Options]
  /\ doubled \subseteq Groups

Init ==
  /\ m_mOptionGroup = [g \in Groups |-> {}]
  /\ m_sGroupName = [o \in Options |-> NONE]
  /\ m_bSelected = {} /\ attached = {} /\ alive = {}
  /\ strays = [g \in Groups |-> {}] /\ doubled = {}

\* AddOptionGroup and RemoveOptionGroup; a name that is empty has no group.
Joined(groups, o, g) == IF g = NONE THEN groups ELSE [groups EXCEPT ![g] = @ \cup {o}]
Left(groups, o, g) == IF g = NONE THEN groups ELSE [groups EXCEPT ![g] = @ \ {o}]

\* Selected(b) of an option whose group has the name g.
Chosen(o, g, groups, b) ==
  IF ~b THEN m_bSelected \ {o}
  ELSE (m_bSelected \ (IF o \notin attached \/ g = NONE THEN {} ELSE groups[g])) \cup {o}

\* It leaves one selected option in the group.
Single(o, g, b) == doubled \ (IF b /\ o \in attached THEN {g} ELSE {})

New(o) ==
  /\ o \notin alive
  /\ alive' = alive \cup {o}
  /\ m_sGroupName' = [m_sGroupName EXCEPT ![o] = NONE]
  /\ UNCHANGED <<m_mOptionGroup, m_bSelected, attached, strays, doubled>>

\* The option is put into the window.  One that was given a group before joins it now,
\* selected or not, and unselects nobody.
SetManager(o) ==
  /\ o \in alive \ attached
  /\ attached' = attached \cup {o}
  /\ m_mOptionGroup' = Joined(m_mOptionGroup, o, m_sGroupName[o])
  /\ strays' = Left(strays, o, m_sGroupName[o])
  /\ doubled' = IF o \in m_bSelected THEN doubled \cup ({m_sGroupName[o]} \ {NONE}) ELSE doubled
  /\ UNCHANGED <<m_sGroupName, m_bSelected, alive>>

\* SetGroup's end: Selected(m_bSelected) in the new group.
Regrouped(o, g) ==
  /\ m_sGroupName' = [m_sGroupName EXCEPT ![o] = g]
  /\ m_bSelected' = Chosen(o, g, m_mOptionGroup', o \in m_bSelected)
  /\ doubled' = Single(o, g, o \in m_bSelected)
  /\ strays' = IF o \in attached THEN Left(strays, o, g) ELSE strays
  /\ UNCHANGED <<attached, alive>>

\* Mutant of SetGroup: the option stays in its old group as well.
SetGroupStays(o, g) ==
  /\ o \in alive /\ m_sGroupName[o] # g
  /\ m_mOptionGroup' = IF o \in attached THEN Joined(m_mOptionGroup, o, g) ELSE m_mOptionGroup
  /\ Regrouped(o, g)

\* SetGroup with a text, an empty one to leave the group.
SetGroup(o, g) ==
  /\ o \in alive /\ m_sGroupName[o] # g
  /\ m_mOptionGroup' = IF o \in attached
                       THEN Joined(Left(m_mOptionGroup, o, m_sGroupName[o]), o, g)
                       ELSE m_mOptionGroup
  /\ Regrouped(o, g)

\* SetGroup(NULL), its default: the name is emptied first, so that the option leaves the
\* group of the empty name, which nobody joins, and stays in its own.
SetGroupNull(o) ==
  /\ o \in alive /\ m_sGroupName[o] # NONE
  /\ m_sGroupName' = [m_sGroupName EXCEPT ![o] = NONE]
  /\ strays' = IF o \in attached THEN Joined(strays, o, m_sGroupName[o]) ELSE strays
  /\ UNCHANGED <<m_mOptionGroup, m_bSelected, attached, alive, doubled>>

\* Selected by the application, in a window or before.
Selected(o, b) ==
  /\ o \in alive
  /\ m_bSelected' = Chosen(o, m_sGroupName[o], m_mOptionGroup, b)
  /\ doubled' = Single(o, m_sGroupName[o], b)
  /\ UNCHANGED <<m_mOptionGroup, m_sGroupName, attached, alive, strays>>

\* A click: an option of a group is selected, any other one changes.
Activate(o) == Selected(o, m_sGroupName[o] # NONE \/ o \notin m_bSelected)

\* The destructor leaves the group of the name.
Destroy(o) ==
  /\ o \in alive
  /\ m_mOptionGroup' = IF o \in attached THEN Left(m_mOptionGroup, o, m_sGroupName[o])
                       ELSE m_mOptionGroup
  /\ alive' = alive \ {o} /\ attached' = attached \ {o} /\ m_bSelected' = m_bSelected \ {o}
  /\ m_sGroupName' = [m_sGroupName EXCEPT ![o] = NONE]
  /\ UNCHANGED <<strays, doubled>>

Next ==
  \E o \in Options :
    \/ New(o) \/ SetManager(o) \/ SetGroupNull(o) \/ Activate(o) \/ Destroy(o)
    \/ \E g \in Groups \cup {NONE} : SetGroup(o, g)
    \/ \E b \in BOOLEAN : Selected(o, b)

Spec == Init /\ [][Next]_vars

-----------------------------------------------------------------------------
(* Properties.                                                             *)

\* A group has as its members just the options of the window with its name and those that
\* dropped it by SetGroup(NULL): a selection reaches all of them, and a destroyed one is
\* left in a group only in this way.
MembersMatch ==
  \A g \in Groups : m_mOptionGroup[g] = {o \in attached : m_sGroupName[o] = g} \cup strays[g]

\* However options are grouped, regrouped, added and clicked, no two of a group are selected;
\* but from the time a selected option joins one to the next selection in it they may be.
OneSelected ==
  \A o, p \in m_bSelected \cap attached :
    m_sGroupName[o] = m_sGroupName[p] /\ m_sGroupName[o] \notin doubled \cup {NONE} => o = p
=============================================================================
