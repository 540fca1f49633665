----------------------------- MODULE VpnSession -----------------------------
(***************************************************************************)
(* The running dialer of yvpn/mainframe.cpp: the UI thread that handles    *)
(* the clicks of CMainFrame, the thread on which RAS calls RasDialFunc,    *)
(* the RAS service itself (external) and the ids of the rows of yvpn.db.   *)
(*                                                                         *)
(* m_HostList (id -> INFO) is kept as its key set "known", the field INFO.h*)
(* as "h", and the INFOs that were deleted while the map still points to   *)
(* them as "freed".  Neither thread takes a lock, so a handler is split    *)
(* where the other thread may slip in: RasDial | SetText/SetEnabled,       *)
(* RasHangUp | h = NULL, delete INFO | rebuild, and, in RasDialFunc,       *)
(* walk of the map | SetText/SetEnabled.                                   *)
(***************************************************************************)
EXTENDS Naturals

CONSTANTS
  MaxId,    \* bound: the largest id AUTOINCREMENT hands out
  Handles,  \* the HRASCONN values of RAS
  NULL      \* no connection

ASSUME MaxIdAssumption == MaxId \in Nat
ASSUME NullAssumption == NULL \notin Handles

VARIABLES
  rows,     \* ids of table vpn
  nextId,   \* next id of the AUTOINCREMENT key
  known,    \* keys of m_HostList
  freed,    \* keys whose INFO has been deleted
  h,        \* INFO.h
  listed,   \* ids with an element in the list "hosts"
  button,   \* connbtn_<id>: caption and enabled state
  tab,      \* page of tab_bar: 0 hosts, 1 form, 2 settings
  editId,   \* m_EditId
  ui,       \* where the UI thread is
  target,   \* id the handler in progress works on, 0 if none
  ras,      \* state of each RAS connection
  cb,       \* per connection, the buttons RasDialFunc is about to update
  overlap   \* history: the two threads have met on the same entry, or two
            \* entries have got the same handle

table    == <<rows, nextId>>
hosts    == <<known, freed, h>>
form     == <<tab, editId>>
handler  == <<ui, target>>
vars     == <<table, hosts, listed, button, form, handler, ras, cb, overlap>>

Ids == 1..MaxId

\* "failing", "answering" and "dropping" are changes RAS has not reported yet;
\* "failed" is a failed connection nobody has hung up.
RasStates == {"free", "dialing", "failing", "failed", "answering",
              "connected", "dropping"}
Unreported == {"failing", "answering", "dropping"}

Captions == {"connect", "dialing", "disconnect"}
NewButton == [text |-> "connect", enabled |-> TRUE]
NoUpdate == [targets |-> {}, text |-> "connect", dangling |-> FALSE]

UiStates == {"idle", "dialed", "confirmHangUp", "hungUp", "confirmDelete",
             "confirmClose", "loading", "quit", "exited", "crashed"}

TypeOK ==
  /\ rows \in SUBSET Ids
  /\ nextId \in 1..(MaxId + 1)
  /\ known \in SUBSET Ids
  /\ freed \in SUBSET Ids
  /\ h \in [Ids -> Handles \cup {NULL}]
  /\ listed \in SUBSET Ids
  /\ button \in [Ids -> [text : Captions, enabled : BOOLEAN]]
  /\ tab \in 0..2
  /\ editId \in 0..MaxId
  /\ ui \in UiStates
  /\ target \in 0..MaxId
  /\ ras \in [Handles -> RasStates]
  /\ cb \in [Handles -> [targets : SUBSET Ids, text : Captions,
                         dangling : BOOLEAN]]
  /\ overlap \in BOOLEAN

\* The window after "windowinit": InitData has loaded a table some earlier
\* run of the program left behind, and no VPN is up.
Init ==
  /\ nextId \in 1..(MaxId + 1)
  /\ rows \in SUBSET (1..(nextId - 1))
  /\ known = rows
  /\ freed = {}
  /\ h = [i \in Ids |-> NULL]
  /\ listed = rows
  /\ button = [i \in Ids |-> NewButton]
  /\ tab = 0
  /\ editId = 0
  /\ ui = "idle"
  /\ target = 0
  /\ ras = [c \in Handles |-> "free"]
  /\ cb = [c \in Handles |-> NoUpdate]
  /\ overlap = FALSE

Alive == ui \notin {"exited", "crashed"}
\* RAS keeps the connection and its port until somebody hangs it up.
Held(c) == ras[c] \notin {"free", "dropping"}
Holders(c) == {i \in known : h[i] = c}
Updating(i) == \E c \in Handles : i \in cb[c].targets

SetButtons(ids, caption) ==
  button' = [i \in Ids |-> IF i \in ids
                           THEN [text |-> caption, enabled |-> caption # "dialing"]
                           ELSE button[i]]

-----------------------------------------------------------------------------
(* The UI thread: navigation and the host form.                            *)

Idle == ui = "idle"

\* Mutant of ClickTab: pages counted from one.
ClickTabFromOne(t) ==
  /\ Idle
  /\ tab' = t + 1
  /\ UNCHANGED <<table, hosts, listed, button, editId, handler, ras, cb, overlap>>

ClickTab(t) ==
  /\ Idle
  /\ tab' = t
  /\ UNCHANGED <<table, hosts, listed, button, editId, handler, ras, cb, overlap>>

\* Mutant of ClickAdd: m_EditId keeps the host edited last.
ClickAddKeepsEditId ==
  /\ Idle
  /\ tab' = 1
  /\ UNCHANGED <<table, hosts, listed, button, editId, handler, ras, cb, overlap>>

ClickAdd ==
  /\ Idle
  /\ editId' = 0
  /\ tab' = 1
  /\ UNCHANGED <<table, hosts, listed, button, handler, ras, cb, overlap>>

ClickEdit(i) ==
  /\ Idle /\ tab = 0 /\ i \in listed
  /\ editId' = i
  /\ tab' = 1
  /\ UNCHANGED <<table, hosts, listed, button, handler, ras, cb, overlap>>

\* First half of InitData: if the list has elements, RemoveAll and delete
\* every INFO.  A callback between its walk and its update dangles.
InitDataClear ==
  /\ listed' = {}
  /\ freed' = IF listed = {} THEN freed ELSE known
  /\ cb' = [c \in Handles |->
             IF listed # {} /\ cb[c].targets # {}
             THEN [cb[c] EXCEPT !.dangling = TRUE] ELSE cb[c]]
  /\ ui' = "loading"
  /\ UNCHANGED <<known, h>>

\* Mutant of InitDataLoad: the map is not cleared before it is filled.
InitDataLoadWithoutClear ==
  /\ ui = "loading"
  /\ known' = known \cup rows
  /\ freed' = freed \ rows
  /\ h' = [i \in Ids |-> NULL]
  /\ listed' = listed \cup rows
  /\ SetButtons(rows, "connect")
  /\ tab' = 0
  /\ ui' = "idle"
  /\ target' = 0
  /\ UNCHANGED <<table, editId, ras, cb, overlap>>

\* Second half: clear the map, read the table, one new INFO with h = NULL,
\* one list element and one button per row.  Save then shows page 0, and Del
\* already runs there.
InitDataLoad ==
  /\ ui = "loading"
  /\ known' = (known \ freed) \cup rows
  /\ freed' = {}
  /\ h' = [i \in Ids |-> IF i \in (known \ freed) \ rows THEN h[i] ELSE NULL]
  /\ listed' = listed \cup rows
  /\ SetButtons(rows, "connect")
  /\ tab' = 0
  /\ ui' = "idle"
  /\ target' = 0
  /\ UNCHANGED <<table, editId, ras, cb, overlap>>

\* Save of a new host; the form fields are valid.
SaveAdd ==
  /\ Idle /\ tab = 1 /\ editId = 0
  /\ nextId <= MaxId
  /\ rows' = rows \cup {nextId}
  /\ nextId' = nextId + 1
  /\ InitDataClear
  /\ UNCHANGED <<button, form, target, ras, overlap>>

\* Save of an edited host.  When the UPDATE changes no row nothing is
\* reloaded and the form stays.
SaveSet ==
  /\ Idle /\ tab = 1 /\ editId # 0
  /\ editId \in rows
  /\ InitDataClear
  /\ UNCHANGED <<table, button, form, target, ras, overlap>>

ClickDelete(i) ==
  /\ Idle /\ tab = 0 /\ i \in listed
  /\ ui' = "confirmDelete"
  /\ target' = i
  /\ UNCHANGED <<table, hosts, listed, button, form, ras, cb, overlap>>

Delete ==
  /\ ui = "confirmDelete"
  /\ rows' = rows \ {target}
  /\ InitDataClear
  /\ UNCHANGED <<nextId, button, form, target, ras, overlap>>

\* CppSQLite3Exception leaves Save, Del or InitData uncaught.
DatabaseThrows ==
  /\ \/ Idle /\ tab = 1
     \/ ui \in {"confirmDelete", "loading"}
  /\ ui' = "crashed"
  /\ UNCHANGED <<table, hosts, listed, button, form, target, ras, cb, overlap>>

-----------------------------------------------------------------------------
(* The UI thread: Connect(id).                                             *)

\* RAS gives a dial any handle value that is not in use.  An INFO may still
\* store it: of a dial that failed at once, or of a drop nobody reported.
Fresh(c) == ras[c] = "free" /\ cb[c].targets = {}
Stored(c) == \E i \in Ids : h[i] = c

CanClick(i) == Idle /\ tab = 0 /\ i \in listed /\ button[i].enabled

\* Mutant of DialStarts: the click dials although INFO.h holds a connection.
DialStartsAgain(i) ==
  /\ CanClick(i)
  /\ \E c \in Handles : /\ Fresh(c)
                        /\ h' = [h EXCEPT ![i] = c]
                        /\ ras' = [ras EXCEPT ![c] = "dialing"]
                        /\ overlap' = (overlap \/ Updating(i) \/ Stored(c))
  /\ ui' = "dialed"
  /\ target' = i
  /\ UNCHANGED <<table, known, freed, listed, button, form, cb>>

\* RasDial returned 0; the button is updated by the next step.
DialStarts(i) ==
  /\ CanClick(i) /\ h[i] = NULL
  /\ \E c \in Handles : /\ Fresh(c)
                        /\ h' = [h EXCEPT ![i] = c]
                        /\ ras' = [ras EXCEPT ![c] = "dialing"]
                        /\ overlap' = (overlap \/ Updating(i) \/ Stored(c))
  /\ ui' = "dialed"
  /\ target' = i
  /\ UNCHANGED <<table, known, freed, listed, button, form, cb>>

ShowDialing ==
  /\ ui = "dialed"
  /\ SetButtons({target}, "dialing")
  /\ ui' = "idle"
  /\ target' = 0
  /\ UNCHANGED <<table, hosts, listed, form, ras, cb, overlap>>

\* RasDial returned an error and a handle.  ConnectionL2tpVPN hangs it up, the
\* other three leave it to RAS; none of them clears INFO.h.
DialFails(i) ==
  /\ CanClick(i) /\ h[i] = NULL
  /\ \E c \in Handles, left \in {"free", "failed"} :
       /\ Fresh(c)
       /\ h' = [h EXCEPT ![i] = c]
       /\ ras' = [ras EXCEPT ![c] = left]
       /\ overlap' = (overlap \/ Updating(i) \/ Stored(c))
  /\ UNCHANGED <<table, known, freed, listed, button, form, handler, cb>>

ClickDisconnect(i) ==
  /\ CanClick(i) /\ h[i] # NULL
  /\ ui' = "confirmHangUp"
  /\ target' = i
  /\ overlap' = (overlap \/ Updating(i))
  /\ UNCHANGED <<table, hosts, listed, button, form, ras, cb>>

\* RasHangUp(INFO.h) returned 0.  RAS may still report the disconnection.
HangUpSucceeds ==
  /\ ui = "confirmHangUp"
  /\ h[target] # NULL
  /\ ras[h[target]] # "free"
  /\ \E s \in {"free", "dropping"} : ras' = [ras EXCEPT ![h[target]] = s]
  /\ ui' = "hungUp"
  /\ overlap' = (overlap \/ Updating(target))
  /\ UNCHANGED <<table, hosts, listed, button, form, target, cb>>

ShowHungUp ==
  /\ ui = "hungUp"
  /\ h' = [h EXCEPT ![target] = NULL]
  /\ button' = [button EXCEPT ![target].text = "connect"]
  /\ ui' = "idle"
  /\ target' = 0
  /\ UNCHANGED <<table, known, freed, listed, form, ras, cb, overlap>>

\* Mutant of Return: a failed RasHangUp clears INFO.h like a successful one.
ReturnForgetsHandle ==
  /\ ui \in {"confirmHangUp", "confirmDelete", "confirmClose"}
  /\ h' = IF ui = "confirmHangUp" THEN [h EXCEPT ![target] = NULL] ELSE h
  /\ ui' = "idle"
  /\ target' = 0
  /\ UNCHANGED <<table, known, freed, listed, button, form, ras, cb, overlap>>

\* The user answers "no" to one of the three questions, or RasHangUp fails:
\* the handler returns and nothing else changes.
Return ==
  /\ ui \in {"confirmHangUp", "confirmDelete", "confirmClose"}
  /\ ui' = "idle"
  /\ target' = 0
  /\ UNCHANGED <<table, hosts, listed, button, form, ras, cb, overlap>>

-----------------------------------------------------------------------------
(* The UI thread: leaving the program.                                     *)

ClickClose ==
  /\ Idle
  /\ ui' = "confirmClose"
  /\ UNCHANGED <<table, hosts, listed, button, form, target, ras, cb, overlap>>

\* closebtn, answered "yes": RasHangUp, whose result is ignored, for every
\* stored handle, and every INFO of m_HostList is deleted; the map keeps its
\* pointers until the process ends.
Close ==
  /\ ui = "confirmClose"
  /\ \E refused \in SUBSET Handles :
       ras' = [c \in Handles |-> IF Holders(c) # {} /\ c \notin refused
                                 THEN "free" ELSE ras[c]]
  /\ freed' = known
  /\ cb' = [c \in Handles |-> IF cb[c].targets # {}
                              THEN [cb[c] EXCEPT !.dangling = TRUE] ELSE cb[c]]
  /\ ui' = "quit"
  /\ UNCHANGED <<table, known, h, listed, button, form, target, overlap>>

Quit ==
  /\ ui = "quit"
  /\ ui' = "exited"
  /\ UNCHANGED <<table, hosts, listed, button, form, target, ras, cb, overlap>>

\* WM_CLOSE that does not come from closebtn (Alt+F4, the taskbar).
CloseWindow ==
  /\ Idle
  /\ ui' = "exited"
  /\ UNCHANGED <<table, hosts, listed, button, form, target, ras, cb, overlap>>

-----------------------------------------------------------------------------
(* RAS (external).                                                         *)

RasChange(c, from, to) ==
  /\ ras[c] = from
  /\ ras' = [ras EXCEPT ![c] = to]
  /\ UNCHANGED <<table, hosts, listed, button, form, handler, cb, overlap>>

DialResolves(c) == \E s \in {"failing", "answering"} : RasChange(c, "dialing", s)
\* A connection that goes down is reported, or not.
Drops(c) == \E s \in {"dropping", "free"} : RasChange(c, "connected", s)

-----------------------------------------------------------------------------
(* RasDialFunc, on a thread of RAS.                                        *)

\* The UI thread is inside InitData or has deleted the INFOs for good.
Rebuilding == ui \in {"loading", "quit"}

\* What the report leaves of the connection.  The error branch hangs up what
\* its walk matched and does not look at the result.
Reported(c, matched) ==
  CASE ras[c] = "answering" -> {"connected"}
    [] ras[c] = "dropping"  -> {"free"}
    [] OTHER -> IF matched = {} THEN {"failed"} ELSE {"free", "failed"}

\* Mutant of Caption: the switch labels of the two outcomes are swapped.
CaptionSwapped(c) == IF ras[c] = "answering" THEN "connect" ELSE "disconnect"

Caption(c) == IF ras[c] = "answering" THEN "disconnect" ELSE "connect"

\* The walk over m_HostList: every INFO with this handle is matched, and
\* cleared unless the connection came up.
Walk(c) ==
  /\ Alive /\ ~Rebuilding
  /\ ras[c] \in Unreported /\ cb[c].targets = {}
  /\ \E s \in Reported(c, Holders(c)) : ras' = [ras EXCEPT ![c] = s]
  /\ h' = [i \in Ids |-> IF i \in Holders(c) /\ ras[c] # "answering"
                         THEN NULL ELSE h[i]]
  /\ cb' = [cb EXCEPT ![c] = [targets |-> Holders(c), text |-> Caption(c),
                              dangling |-> FALSE]]
  /\ overlap' = (overlap \/ (ui \in {"dialed", "hungUp"} /\ target \in Holders(c)))
  /\ UNCHANGED <<table, known, freed, listed, button, form, handler>>

\* The same walk while the INFOs are freed: undefined.  It faults, finds
\* nothing, or still reads the old contents.
WalkFreed(c) ==
  /\ Rebuilding
  /\ ras[c] \in Unreported /\ cb[c].targets = {}
  /\ overlap' = TRUE
  /\ \/ /\ ui' = "crashed"
        /\ UNCHANGED <<ras, cb>>
     \/ \E matched \in {{}, {i \in freed : h[i] = c}} :
          /\ \E s \in Reported(c, matched) : ras' = [ras EXCEPT ![c] = s]
          /\ cb' = [cb EXCEPT ![c] = [targets |-> matched, text |-> Caption(c),
                                      dangling |-> TRUE]]
          /\ UNCHANGED ui
  /\ UNCHANGED <<table, hosts, listed, button, form, target>>

\* Mutant of Update: SetText without SetEnabled(true).
UpdateTextOnly(c) ==
  /\ Alive
  /\ cb[c].targets # {} /\ ~cb[c].dangling
  /\ button' = [i \in Ids |-> IF i \in cb[c].targets
                              THEN [button[i] EXCEPT !.text = cb[c].text] ELSE button[i]]
  /\ cb' = [cb EXCEPT ![c] = NoUpdate]
  /\ UNCHANGED <<table, hosts, listed, form, handler, ras, overlap>>

\* SetText and SetEnabled(true) on connbtn_<id> of the matched entries.
Update(c) ==
  /\ Alive
  /\ cb[c].targets # {} /\ ~cb[c].dangling
  /\ SetButtons(cb[c].targets, cb[c].text)
  /\ cb' = [cb EXCEPT ![c] = NoUpdate]
  /\ UNCHANGED <<table, hosts, listed, form, handler, ras, overlap>>

\* The same after the INFOs were deleted: the id is read from freed memory,
\* which may be an INFO again.  Without a button of that name FindControl
\* returns NULL and the call faults.
UpdateFreed(c) ==
  /\ Alive
  /\ cb[c].targets # {} /\ cb[c].dangling
  /\ overlap' = TRUE
  /\ \/ /\ ui' = "crashed"
        /\ UNCHANGED <<button, cb>>
     \/ /\ \E i \in listed : SetButtons({i}, cb[c].text)
        /\ cb' = [cb EXCEPT ![c] = NoUpdate]
        /\ UNCHANGED ui
  /\ UNCHANGED <<table, hosts, listed, form, target, ras>>

-----------------------------------------------------------------------------

Clicks ==
  \/ \E t \in {0, 2} : ClickTab(t)
  \/ ClickAdd \/ SaveAdd \/ SaveSet \/ ClickClose \/ CloseWindow
  \/ \E i \in Ids : \/ ClickEdit(i)
                    \/ ClickDelete(i)
                    \/ DialStarts(i)
                    \/ DialFails(i)
                    \/ ClickDisconnect(i)

Answers == Delete \/ HangUpSucceeds \/ Close \/ Return

Continues == InitDataLoad \/ ShowDialing \/ ShowHungUp \/ Quit

RasThread(c) == Walk(c) \/ WalkFreed(c) \/ Update(c) \/ UpdateFreed(c)

Next ==
  \/ Clicks
  \/ Answers
  \/ Continues
  \/ DatabaseThrows
  \/ \E c \in Handles : DialResolves(c) \/ Drops(c) \/ RasThread(c)

Spec == Init /\ [][Next]_vars

\* The handlers run to their end and RAS finishes every dial and delivers
\* what it has to report; nobody has to click or to answer.
Fairness ==
  /\ WF_vars(Continues)
  /\ \A c \in Handles : WF_vars(DialResolves(c)) /\ WF_vars(RasThread(c))

FairSpec == Spec /\ Fairness

-----------------------------------------------------------------------------
(* Properties.                                                             *)

\* Whenever the UI thread waits for a click, m_HostList, the list on screen and
\* table vpn have exactly the same ids and no INFO of the map is deleted: the
\* two-part clearing of InitData (lines 244-253) never leaves one of them behind.
ListMirrorsTable == Idle => known = rows /\ listed = rows /\ freed = {}

\* The form never edits a host that has been deleted meanwhile: Save's UPDATE
\* (line 421) always finds its row.
FormTargetsRow == tab = 1 /\ editId # 0 => editId \in rows

\* As long as the RAS thread has never been inside RasDialFunc for an entry the
\* UI thread was working on, and no dial was given a handle that an entry still
\* stored, every button at rest tells the truth: a disabled
\* "dialing" button has a dial that RAS will still report, "disconnect" has a
\* handle to hang up, and only "dialing" is disabled.
ButtonTellsTruth(i) ==
  /\ button[i].enabled <=> button[i].text # "dialing"
  /\ button[i].text = "dialing" =>
       h[i] # NULL /\ ras[h[i]] \in {"dialing", "failing", "answering"}
  /\ button[i].text = "disconnect" => h[i] # NULL

ButtonsTellTruth ==
  ~overlap /\ Idle => \A i \in listed : Updating(i) \/ ButtonTellsTruth(i)

\* A connection RAS still holds is dropped from m_HostList only where InitData
\* rebuilds the map, and, if its dial has failed, where RasDialFunc forgets the
\* handle although RasHangUp was refused (lines 891-892): a connection that is
\* being dialled or is up is lost in no other way, whichever calls RAS refuses.
Tracked(c) == Holders(c) # {}

Loses(c) == Held(c) /\ Tracked(c) /\ Held(c)' /\ ~Tracked(c)'
FailsForGood(c) == ras[c] = "failing" /\ ras'[c] = "failed"

LostOnlyByReload ==
  [][\A c \in Handles : Loses(c) => ui = "loading" \/ FailsForGood(c)]_vars

\* A button that is disabled while RAS still dials its connection, whose handle
\* no other entry stores, is enabled again, or its row is gone or the process
\* is: whatever the two threads do in between, the report of the outcome
\* re-enables it.  (With a shared handle the other entry's click hangs it up.)
Waiting(i) ==
  /\ Alive /\ i \in listed /\ ~button[i].enabled
  /\ h[i] # NULL /\ Holders(h[i]) = {i}
  /\ ras[h[i]] = "dialing"

DisabledButtonReturns ==
  \A i \in Ids : Waiting(i) ~> (i \notin listed \/ button[i].enabled \/ ~Alive)

\* The inductive invariant behind the three safety properties.  A handler that
\* is not inside InitData works on a list, a map and a table that agree; inside
\* it the list is empty and every INFO of the map is gone; the host to delete
\* was chosen on page 0, so the form is not open; and after RasHangUp returned
\* 0 the handle still stored in INFO.h is no longer held by RAS.
Working == {"idle", "dialed", "confirmHangUp", "hungUp", "confirmDelete",
            "confirmClose"}

SessionInv ==
  /\ ui \in Working => known = rows /\ listed = rows /\ freed = {}
  /\ ui = "loading" => listed = {} /\ freed = known
  /\ ui = "confirmDelete" => tab = 0
  /\ ui \in {"dialed", "confirmHangUp", "hungUp"} => target \in Ids
  /\ FormTargetsRow
  /\ ui = "hungUp" => h[target] = NULL \/ ~Held(h[target])

\* What the question of closebtn says (line 117): leaving by it hangs up every
\* VPN.  For one whose handle is stored RasHangUp has been called, though RAS
\* may refuse; what the run finds, the threads never having met on an entry, is
\* a VPN for which it was not.
CloseHangsUpAll ==
  ui = "quit" /\ ~overlap =>
    \A c \in Handles : ras[c] = "connected" => Tracked(c)
=============================================================================
