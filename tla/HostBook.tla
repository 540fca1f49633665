------------------------------ MODULE HostBook ------------------------------
(***************************************************************************)
(* Table vpn of yvpn.db, the form that adds and edits its rows and the     *)
(* copy of the rows a window works with (m_HostList and the list).  WinMain *)
(* does not look for another instance, so several windows, each a process  *)
(* of its own, share the table; a window may stop at any time and start    *)
(* again.  What RAS does to a host is in VpnSession, how a host is dialled *)
(* in DialCall.                                                            *)
(*                                                                         *)
(* A row keeps the texts of the edit controls and the positions of the two *)
(* combos; GetCurSel is -1 for a combo with no selection.                  *)
(***************************************************************************)
EXTENDS Integers

CONSTANTS
  Windows,   \* the processes
  MaxId,     \* bound: the largest id AUTOINCREMENT hands out
  CryptItems,  \* the items of cryptcombo, four in main_frame.xml
  Edits,     \* the edit controls of the form
  Required,  \* those Save insists on: host, user name, password
  Texts,     \* what a control can hold
  Empty,     \* the empty text
  Rejected,  \* not a text: the statement SQLite refuses
  StoredAs   \* what '%s' of a text in an SQL statement stores

ASSUME MaxIdAssumption == MaxId \in Nat
ASSUME CryptAssumption == 1 \in CryptItems /\ CryptItems \subseteq Nat
ASSUME EditsAssumption == Required \subseteq Edits
ASSUME TextsAssumption == Empty \in Texts /\ Rejected \notin Texts
ASSUME StoredAssumption ==
  /\ StoredAs \in [Texts -> Texts \cup {Rejected}]
  /\ StoredAs[Empty] = Empty

VARIABLES
  table,     \* table vpn: id -> row
  nextId,    \* next id of the AUTOINCREMENT key
  hostList,  \* per window, m_HostList: id -> the row as it was read
  form,      \* per window, the contents of the form
  tab,       \* per window, the page of tab_bar: 0 hosts, 1 form, 2 settings
  editId,    \* per window, m_EditId
  running,   \* the windows that are open
  touched    \* history: the windows whose form was changed since it opened

database == <<table, nextId>>
vars == <<database, hostList, form, tab, editId, running, touched>>

Ids == 1..MaxId
TypeItems == 0..1

Row == [text : [Edits -> Texts], type : {-1} \cup TypeItems,
        crypt : {-1} \cup CryptItems]
Rows == UNION {[ids -> Row] : ids \in SUBSET Ids}

\* Rows that earlier runs have left.
StoredRow ==
  {r \in [text : [Edits -> Texts], type : TypeItems, crypt : CryptItems] :
     /\ \A e \in Edits : \E t \in Texts : r.text[e] = StoredAs[t]
     /\ \A e \in Required : r.text[e] # Empty}

Cleared == [e \in Edits |-> Empty]

\* main_frame.xml preselects PPTP and optional encryption.
NewForm == [text |-> Cleared, type |-> 0, crypt |-> 1]

TypeOK ==
  /\ table \in Rows
  /\ nextId \in 1..(MaxId + 1)
  /\ hostList \in [Windows -> Rows]
  /\ form \in [Windows -> Row]
  /\ tab \in [Windows -> 0..2]
  /\ editId \in [Windows -> 0..MaxId]
  /\ running \in SUBSET Windows
  /\ touched \in SUBSET Windows

Init ==
  /\ nextId \in 1..(MaxId + 1)
  /\ \E ids \in SUBSET (1..(nextId - 1)) : table \in [ids -> StoredRow]
  /\ hostList = [w \in Windows |-> table]
  /\ form = [w \in Windows |-> NewForm]
  /\ tab = [w \in Windows |-> 0]
  /\ editId = [w \in Windows |-> 0]
  /\ running = Windows
  /\ touched = {}

InitData(w) == hostList' = [hostList EXCEPT ![w] = table']

-----------------------------------------------------------------------------

ClickTab(w, t) ==
  /\ w \in running
  /\ tab' = [tab EXCEPT ![w] = t]
  /\ UNCHANGED <<database, hostList, form, editId, running, touched>>

\* Mutant of ClearControl: the combos are cleared as well.
ClearControlAndCombos(w) ==
  form' = [form EXCEPT ![w] = [text |-> Cleared, type |-> -1, crypt |-> -1]]

\* ClearControl empties the edit controls and leaves the combos alone.
ClearControl(w) == form' = [form EXCEPT ![w] = [@ EXCEPT !.text = Cleared]]

ClickAdd(w) ==
  /\ w \in running
  /\ editId' = [editId EXCEPT ![w] = 0]
  /\ ClearControl(w)
  /\ tab' = [tab EXCEPT ![w] = 1]
  /\ touched' = touched \ {w}
  /\ UNCHANGED <<database, hostList, running>>

\* Mutant of Edit: the combos keep what they showed before.
EditTextsOnly(w, i) ==
  /\ w \in running /\ tab[w] = 0 /\ i \in DOMAIN hostList[w]
  /\ editId' = [editId EXCEPT ![w] = i]
  /\ form' = [form EXCEPT ![w] = [@ EXCEPT !.text = hostList[w][i].text]]
  /\ tab' = [tab EXCEPT ![w] = 1]
  /\ touched' = touched \ {w}
  /\ UNCHANGED <<database, hostList, running>>

Edit(w, i) ==
  /\ w \in running /\ tab[w] = 0 /\ i \in DOMAIN hostList[w]
  /\ editId' = [editId EXCEPT ![w] = i]
  /\ form' = [form EXCEPT ![w] = hostList[w][i]]
  /\ tab' = [tab EXCEPT ![w] = 1]
  /\ touched' = touched \ {w}
  /\ UNCHANGED <<database, hostList, running>>

\* The user types into a control or picks an item of a combo.
Fill(w) ==
  /\ w \in running /\ tab[w] = 1
  /\ \/ \E e \in Edits, t \in Texts :
          form' = [form EXCEPT ![w] = [@ EXCEPT !.text[e] = t]]
     \/ \E k \in TypeItems : form' = [form EXCEPT ![w] = [@ EXCEPT !.type = k]]
     \/ \E k \in CryptItems : form' = [form EXCEPT ![w] = [@ EXCEPT !.crypt = k]]
  /\ touched' = touched \cup {w}
  /\ UNCHANGED <<database, hostList, tab, editId, running>>

CanSave(w) ==
  w \in running /\ tab[w] = 1 /\ \A e \in Required : form[w].text[e] # Empty

\* Mutant of Accepted: a refused statement is taken for a stored one.
AcceptedAlways(w) == w \in Windows

Accepted(w) == \A e \in Edits : StoredAs[form[w].text[e]] # Rejected
Stored(w) == [form[w] EXCEPT !.text = [e \in Edits |-> StoredAs[form[w].text[e]]]]

\* What Save does once execDML has changed a row.
Saved(w) ==
  /\ ClearControl(w)
  /\ InitData(w)
  /\ tab' = [tab EXCEPT ![w] = 0]
  /\ UNCHANGED <<editId, running, touched>>

Add(w) ==
  /\ CanSave(w) /\ Accepted(w) /\ editId[w] = 0
  /\ nextId <= MaxId
  /\ table' = [i \in DOMAIN table \cup {nextId} |->
                IF i = nextId THEN Stored(w) ELSE table[i]]
  /\ nextId' = nextId + 1
  /\ Saved(w)

\* Mutant of Set: INSERT OR REPLACE instead of UPDATE.
SetReplaces(w) ==
  /\ CanSave(w) /\ Accepted(w) /\ editId[w] # 0
  /\ table' = [i \in DOMAIN table \cup {editId[w]} |->
                IF i = editId[w] THEN Stored(w) ELSE table[i]]
  /\ UNCHANGED nextId
  /\ Saved(w)

\* The UPDATE of a row that another window has deleted changes nothing, and
\* Save then leaves the window as it is.
Set(w) ==
  /\ CanSave(w) /\ Accepted(w) /\ editId[w] \in DOMAIN table
  /\ table' = [table EXCEPT ![editId[w]] = Stored(w)]
  /\ UNCHANGED nextId
  /\ Saved(w)

Del(w, i) ==
  /\ w \in running /\ tab[w] = 0 /\ i \in DOMAIN hostList[w]
  /\ table' = [j \in DOMAIN table \ {i} |-> table[j]]
  /\ InitData(w)
  /\ UNCHANGED <<nextId, form, tab, editId, running, touched>>

\* The process ends: closebtn, by force, or because a statement was refused
\* and nobody catches the exception that leaves Save.
Stop(w) ==
  /\ w \in running
  /\ running' = running \ {w}
  /\ UNCHANGED <<database, hostList, form, tab, editId, touched>>

\* The next run: "windowinit" on a new window.
Start(w) ==
  /\ w \notin running
  /\ running' = running \cup {w}
  /\ UNCHANGED database
  /\ InitData(w)
  /\ form' = [form EXCEPT ![w] = NewForm]
  /\ tab' = [tab EXCEPT ![w] = 0]
  /\ editId' = [editId EXCEPT ![w] = 0]
  /\ touched' = touched \ {w}

Next ==
  \E w \in Windows :
    \/ \E t \in {0, 2} : ClickTab(w, t)
    \/ ClickAdd(w) \/ Fill(w) \/ Add(w) \/ Set(w) \/ Stop(w) \/ Start(w)
    \/ \E i \in Ids : Edit(w, i) \/ Del(w, i)

Spec == Init /\ [][Next]_vars

-----------------------------------------------------------------------------
(* Properties.                                                             *)

\* What a window shows for the protocol of a host.
TypeText(row) == IF row.type = 0 THEN "PPTP" ELSE "L2TP"

\* The protocol Connect dials.
Dials(row) == IF row.type = 1 THEN "L2TP" ELSE "PPTP"

\* The list never announces another protocol than the one that is dialled:
\* InitData tests the type for 0 and Connect for 1 (lines 295 and 1050), which
\* agree as long as no row is ever saved from a combo without a selection.
CaptionTellsProtocol ==
  \A w \in running : \A i \in DOMAIN hostList[w] :
    TypeText(hostList[w][i]) = Dials(hostList[w][i])

\* A form opened for a host and left alone shows the host the window lists
\* under the id Save will write to, whatever was edited, added, deleted or
\* looked at before, here or in another window.
FormShowsHost ==
  \A w \in running \ touched :
    tab[w] = 1 /\ editId[w] # 0 =>
      /\ editId[w] \in DOMAIN hostList[w]
      /\ form[w] = hostList[w][editId[w]]

\* A host that was deleted stays deleted: neither the save of a window that
\* still has it in its form nor a new host brings its id back, under which
\* other windows still list and dial it.
DeletedStaysDeleted ==
  [][\A i \in 1..(nextId - 1) : i \notin DOMAIN table => i \notin DOMAIN table']_vars

\* With one window, saving a form nobody has changed leaves the row as it is,
\* unless SQLite reads one of its texts differently from how it is written.
UntouchedSaveKeepsRow ==
  [][\A i \in DOMAIN table \cap DOMAIN table' :
       table'[i] # table[i] =>
         \/ \E w \in touched : editId[w] = i
         \/ \E e \in Edits : StoredAs[table[i].text[e]] # table[i].text[e]]_vars
=============================================================================
