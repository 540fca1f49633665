-------------------------- MODULE VpnSession_proof --------------------------
(* Proofs about VpnSession, and that it implements Lines, for any number of *)
(* rows and of RAS handles.                                                *)
EXTENDS SessionLines, TLAPS

\* What SetButtons leaves behind has the type of a button, whatever it was told.
LEMMA SetButtonsType ==
  ASSUME button \in [Ids -> [text : Captions, enabled : BOOLEAN]],
         NEW ids, NEW caption \in Captions, SetButtons(ids, caption)
  PROVE  button' \in [Ids -> [text : Captions, enabled : BOOLEAN]]
BY DEF SetButtons

\* Marking pending updates as dangling keeps the type of cb.
LEMMA DanglingType ==
  ASSUME cb \in [Handles -> [targets : SUBSET Ids, text : Captions,
                             dangling : BOOLEAN]],
         NEW c \in Handles
  PROVE  [cb[c] EXCEPT !.dangling = TRUE] \in
           [targets : SUBSET Ids, text : Captions, dangling : BOOLEAN]
<1>1. cb[c] \in [targets : SUBSET Ids, text : Captions, dangling : BOOLEAN]
  OBVIOUS
<1>2. QED
  BY <1>1

\* The first half of InitData keeps the types of what it changes.
LEMMA InitDataClearType ==
  ASSUME TypeOK, InitDataClear
  PROVE  /\ listed' \in SUBSET Ids /\ freed' \in SUBSET Ids
         /\ known' \in SUBSET Ids /\ h' \in [Ids -> Handles \cup {NULL}]
         /\ ui' \in UiStates
         /\ cb' \in [Handles -> [targets : SUBSET Ids, text : Captions,
                                 dangling : BOOLEAN]]
<1>1. cb' \in [Handles -> [targets : SUBSET Ids, text : Captions,
                          dangling : BOOLEAN]]
  BY DanglingType DEF TypeOK, InitDataClear
<1>2. QED
  BY <1>1 DEF TypeOK, InitDataClear, UiStates

\* The walk leaves a connection in a state RAS knows.
LEMMA ReportedType ==
  ASSUME NEW c, NEW matched
  PROVE  Reported(c, matched) \subseteq RasStates /\ Caption(c) \in Captions
BY DEF Reported, Caption, RasStates, Captions

\* Every variable of the dialer keeps its type in every behaviour.
THEOREM TypeCorrect == Spec => []TypeOK
<1> USE MaxIdAssumption DEF Ids, TypeOK, RasStates, UiStates, Captions
<1>1. Init => TypeOK
  <2> SUFFICES ASSUME Init PROVE TypeOK
    OBVIOUS
  <2>1. rows \in SUBSET Ids
    BY DEF Init
  <2>2. button \in [Ids -> [text : Captions, enabled : BOOLEAN]]
    BY DEF Init, NewButton
  <2>3. cb \in [Handles -> [targets : SUBSET Ids, text : Captions,
                            dangling : BOOLEAN]]
    BY DEF Init, NoUpdate
  <2>4. h \in [Ids -> Handles \cup {NULL}] /\ ras \in [Handles -> RasStates]
    BY DEF Init
  <2>5. known \in SUBSET Ids /\ freed \in SUBSET Ids /\ listed \in SUBSET Ids
    BY <2>1 DEF Init
  <2>6. /\ nextId \in 1..(MaxId + 1) /\ tab \in 0..2 /\ editId \in 0..MaxId
        /\ ui \in UiStates /\ target \in 0..MaxId
    BY DEF Init
  <2>7. overlap \in BOOLEAN
    BY DEF Init
  <2>8. QED
    BY <2>1, <2>2, <2>3, <2>4, <2>5, <2>6, <2>7 DEF TypeOK
<1>2. TypeOK /\ [Next]_vars => TypeOK'
  <2> SUFFICES ASSUME TypeOK, [Next]_vars
               PROVE  TypeOK'
    OBVIOUS
  <2> USE DEF table, hosts, form, handler, Idle
  <2>1. CASE Clicks
    <3>1. ASSUME NEW t \in {0, 2}, ClickTab(t) PROVE TypeOK'
      BY <3>1 DEF ClickTab
    <3>2. CASE ClickAdd
      BY <3>2 DEF ClickAdd
    <3>3. CASE SaveAdd
      BY <3>3, InitDataClearType DEF SaveAdd
    <3>4. CASE SaveSet
      BY <3>4, InitDataClearType DEF SaveSet
    <3>5. CASE ClickClose
      BY <3>5 DEF ClickClose
    <3>6. CASE CloseWindow
      BY <3>6 DEF CloseWindow
    <3>7. ASSUME NEW i \in Ids, ClickEdit(i) PROVE TypeOK'
      BY <3>7 DEF ClickEdit
    <3>8. ASSUME NEW i \in Ids, ClickDelete(i) PROVE TypeOK'
      BY <3>8 DEF ClickDelete
    <3>9. ASSUME NEW i \in Ids, DialStarts(i) PROVE TypeOK'
      <4>1. overlap' \in BOOLEAN
        BY <3>9 DEF DialStarts
      <4>2. QED
        BY <3>9, <4>1 DEF DialStarts, CanClick
    <3>10. ASSUME NEW i \in Ids, DialFails(i) PROVE TypeOK'
      <4>1. overlap' \in BOOLEAN
        BY <3>10 DEF DialFails
      <4>2. QED
        BY <3>10, <4>1 DEF DialFails, CanClick
    <3>11. ASSUME NEW i \in Ids, ClickDisconnect(i) PROVE TypeOK'
      BY <3>11 DEF ClickDisconnect, CanClick
    <3>12. QED
      BY <2>1, <3>1, <3>2, <3>3, <3>4, <3>5, <3>6, <3>7, <3>8, <3>9, <3>10,
         <3>11 DEF Clicks
  <2>2. CASE Answers
    <3>1. CASE Delete
      BY <3>1, InitDataClearType DEF Delete
    <3>2. CASE HangUpSucceeds
      BY <3>2 DEF HangUpSucceeds
    <3>3. CASE Close
      <4>1. ras' \in [Handles -> RasStates]
        BY <3>3 DEF Close
      <4>2. cb' \in [Handles -> [targets : SUBSET Ids, text : Captions,
                                dangling : BOOLEAN]]
        BY <3>3, DanglingType DEF Close
      <4>3. QED
        BY <3>3, <4>1, <4>2 DEF Close
    <3>4. CASE Return
      BY <3>4 DEF Return
    <3>5. QED
      BY <2>2, <3>1, <3>2, <3>3, <3>4 DEF Answers
  <2>3. CASE Continues
    <3>1. CASE InitDataLoad
      <4>1. button' \in [Ids -> [text : Captions, enabled : BOOLEAN]]
        <5>1. SetButtons(rows, "connect")
          BY <3>1 DEF InitDataLoad
        <5>2. QED
          BY <5>1 DEF SetButtons
      <4>2. h' \in [Ids -> Handles \cup {NULL}]
        BY <3>1 DEF InitDataLoad
      <4>3. QED
        BY <3>1, <4>1, <4>2 DEF InitDataLoad
    <3>2. CASE ShowDialing
      <4>1. button' \in [Ids -> [text : Captions, enabled : BOOLEAN]]
        <5>1. SetButtons({target}, "dialing")
          BY <3>2 DEF ShowDialing
        <5>2. QED
          BY <5>1 DEF SetButtons
      <4>2. QED
        BY <3>2, <4>1 DEF ShowDialing
    <3>3. CASE ShowHungUp
      <4>1. button' \in [Ids -> [text : Captions, enabled : BOOLEAN]]
        <5>1. target \in Ids => [button[target] EXCEPT !.text = "connect"]
                                 \in [text : Captions, enabled : BOOLEAN]
          <6>1. target \in Ids => button[target] \in [text : Captions, enabled : BOOLEAN]
            OBVIOUS
          <6>2. QED
            BY <6>1
        <5>2. QED
          BY <3>3, <5>1 DEF ShowHungUp
      <4>2. h' \in [Ids -> Handles \cup {NULL}]
        BY <3>3 DEF ShowHungUp
      <4>3. QED
        BY <3>3, <4>1, <4>2 DEF ShowHungUp
    <3>4. CASE Quit
      BY <3>4 DEF Quit
    <3>5. QED
      BY <2>3, <3>1, <3>2, <3>3, <3>4 DEF Continues
  <2>4. CASE DatabaseThrows
    BY <2>4 DEF DatabaseThrows
  <2>5. ASSUME NEW c \in Handles, DialResolves(c) PROVE TypeOK'
    BY <2>5 DEF DialResolves, RasChange
  <2>6. ASSUME NEW c \in Handles, Drops(c) PROVE TypeOK'
    BY <2>6 DEF Drops, RasChange
  <2>7. ASSUME NEW c \in Handles, RasThread(c) PROVE TypeOK'
    <3>1. CASE Walk(c)
      <4>1. ras' \in [Handles -> RasStates]
        BY <3>1, ReportedType DEF Walk
      <4>2. cb' \in [Handles -> [targets : SUBSET Ids, text : Captions,
                                dangling : BOOLEAN]]
        BY <3>1, ReportedType DEF Walk, Holders
      <4>3. h' \in [Ids -> Handles \cup {NULL}]
        BY <3>1 DEF Walk
      <4>4. QED
        BY <3>1, <4>1, <4>2, <4>3 DEF Walk
    <3>2. CASE WalkFreed(c)
      <4>1. ras' \in [Handles -> RasStates]
        BY <3>2, ReportedType DEF WalkFreed
      <4>2. cb' \in [Handles -> [targets : SUBSET Ids, text : Captions,
                                dangling : BOOLEAN]]
        <5>1. CASE UNCHANGED cb
          BY <5>1
        <5>2. ASSUME NEW matched \in {{}, {i \in freed : h[i] = c}},
                     cb' = [cb EXCEPT ![c] = [targets |-> matched, text |-> Caption(c),
                                              dangling |-> TRUE]]
              PROVE  cb' \in [Handles -> [targets : SUBSET Ids, text : Captions,
                                         dangling : BOOLEAN]]
          <6>1. matched \in SUBSET Ids
            OBVIOUS
          <6>2. QED
            BY <5>2, <6>1, ReportedType
        <5>3. QED
          BY <3>2, <5>1, <5>2 DEF WalkFreed
      <4>3. QED
        BY <3>2, <4>1, <4>2 DEF WalkFreed
    <3>3. CASE Update(c)
      <4>1. button' \in [Ids -> [text : Captions, enabled : BOOLEAN]]
        <5>1. SetButtons(cb[c].targets, cb[c].text)
          BY <3>3 DEF Update
        <5>2. cb[c].text \in Captions
          OBVIOUS
        <5>3. QED
          BY <5>1, <5>2, SetButtonsType
      <4>2. cb' \in [Handles -> [targets : SUBSET Ids, text : Captions,
                                dangling : BOOLEAN]]
        <5>1. cb' = [cb EXCEPT ![c] = NoUpdate]
          BY <3>3 DEF Update
        <5>2. NoUpdate \in [targets : SUBSET Ids, text : Captions, dangling : BOOLEAN]
          BY DEF NoUpdate
        <5>3. QED
          BY <5>1, <5>2
      <4>3. QED
        BY <3>3, <4>1, <4>2 DEF Update
    <3>4. CASE UpdateFreed(c)
      <4>1. button' \in [Ids -> [text : Captions, enabled : BOOLEAN]]
        <5>1. button' = button \/ \E i \in listed : SetButtons({i}, cb[c].text)
          BY <3>4 DEF UpdateFreed
        <5>2. cb[c].text \in Captions
          BY <3>4
        <5>3. ASSUME NEW i \in listed, SetButtons({i}, cb[c].text)
              PROVE  button' \in [Ids -> [text : Captions, enabled : BOOLEAN]]
          BY <5>2, <5>3, SetButtonsType
        <5>4. QED
          BY <5>1, <5>3
      <4>2. QED
        <5>1. cb' \in [Handles -> [targets : SUBSET Ids, text : Captions,
                                  dangling : BOOLEAN]]
          <6>1. cb' = cb \/ cb' = [cb EXCEPT ![c] = NoUpdate]
            BY <3>4 DEF UpdateFreed
          <6>2. NoUpdate \in [targets : SUBSET Ids, text : Captions, dangling : BOOLEAN]
            BY DEF NoUpdate
          <6>3. QED
            BY <6>1, <6>2
        <5>2. QED
          BY <3>4, <4>1, <5>1 DEF UpdateFreed
    <3>5. QED
      BY <2>7, <3>1, <3>2, <3>3, <3>4 DEF RasThread
  <2>8. CASE UNCHANGED vars
    BY <2>8 DEF vars
  <2>9. QED
    BY <2>1, <2>2, <2>3, <2>4, <2>5, <2>6, <2>7, <2>8 DEF Next
<1>3. QED
  BY <1>1, <1>2, PTL DEF Spec

\* SessionInv is inductive: no step of either thread, undefined ones included,
\* lets the map, the list and the table drift apart.
THEOREM SessionInvariant == Spec => []SessionInv
<1>1. Init => SessionInv
  BY DEF Init, SessionInv, Working, FormTargetsRow
<1>2. TypeOK /\ SessionInv /\ [Next]_vars => SessionInv'
  <2> SUFFICES ASSUME TypeOK, SessionInv, [Next]_vars
               PROVE  SessionInv'
    OBVIOUS
  <2> USE DEF table, hosts, form, handler, Idle, SessionInv, Working,
              FormTargetsRow, Held
  <2>1. CASE Clicks
    <3>1. ASSUME NEW t \in {0, 2}, ClickTab(t) PROVE SessionInv'
      BY <3>1 DEF ClickTab
    <3>2. CASE ClickAdd
      BY <3>2 DEF ClickAdd
    <3>3. CASE SaveAdd
      BY <3>3 DEF SaveAdd, InitDataClear
    <3>4. CASE SaveSet
      BY <3>4 DEF SaveSet, InitDataClear
    <3>5. CASE ClickClose
      BY <3>5 DEF ClickClose
    <3>6. CASE CloseWindow
      BY <3>6 DEF CloseWindow
    <3>7. ASSUME NEW i \in Ids, ClickEdit(i) PROVE SessionInv'
      BY <3>7 DEF ClickEdit
    <3>8. ASSUME NEW i \in Ids, ClickDelete(i) PROVE SessionInv'
      BY <3>8 DEF ClickDelete
    <3>9. ASSUME NEW i \in Ids, DialStarts(i) PROVE SessionInv'
      BY <3>9 DEF DialStarts, CanClick
    <3>10. ASSUME NEW i \in Ids, DialFails(i) PROVE SessionInv'
      BY <3>10 DEF DialFails, CanClick
    <3>11. ASSUME NEW i \in Ids, ClickDisconnect(i) PROVE SessionInv'
      BY <3>11 DEF ClickDisconnect, CanClick
    <3>12. QED
      BY <2>1, <3>1, <3>2, <3>3, <3>4, <3>5, <3>6, <3>7, <3>8, <3>9, <3>10,
         <3>11 DEF Clicks
  <2>2. CASE Answers
    <3>1. CASE Delete
      <4>1. rows' \in SUBSET rows /\ tab' = 0
        BY <3>1 DEF Delete
      <4>2. listed' = {} /\ freed' = known' /\ ui' = "loading"
        BY <3>1 DEF Delete, InitDataClear
      <4>3. QED
        BY <4>1, <4>2
    <3>2. CASE HangUpSucceeds
      <4>1. h[target] \in Handles /\ h'[target'] = h[target]
        BY <3>2 DEF HangUpSucceeds, TypeOK
      <4>2. ras'[h[target]] \in {"free", "dropping"}
        BY <3>2, <4>1 DEF HangUpSucceeds, TypeOK
      <4>3. QED
        BY <3>2, <4>1, <4>2 DEF HangUpSucceeds
    <3>3. CASE Close
      BY <3>3 DEF Close
    <3>4. CASE Return
      BY <3>4 DEF Return
    <3>5. QED
      BY <2>2, <3>1, <3>2, <3>3, <3>4 DEF Answers
  <2>3. CASE Continues
    <3>1. CASE InitDataLoad
      BY <3>1 DEF InitDataLoad
    <3>2. CASE ShowDialing
      BY <3>2 DEF ShowDialing
    <3>3. CASE ShowHungUp
      BY <3>3 DEF ShowHungUp
    <3>4. CASE Quit
      BY <3>4 DEF Quit
    <3>5. QED
      BY <2>3, <3>1, <3>2, <3>3, <3>4 DEF Continues
  <2>4. CASE DatabaseThrows
    BY <2>4 DEF DatabaseThrows
  <2>5. ASSUME NEW c \in Handles, DialResolves(c) PROVE SessionInv'
    BY <2>5 DEF DialResolves, RasChange, TypeOK
  <2>6. ASSUME NEW c \in Handles, Drops(c) PROVE SessionInv'
    BY <2>6 DEF Drops, RasChange, TypeOK
  <2>7. ASSUME NEW c \in Handles, RasThread(c) PROVE SessionInv'
    <3>1. CASE Walk(c)
      <4>1. ASSUME ui = "hungUp", h'[target] # NULL
            PROVE  ras'[h'[target]] \in {"free", "dropping"}
        <5>1. h'[target] = h[target] /\ h[target] \in Handles
          BY <3>1, <4>1 DEF Walk, TypeOK
        <5>2. ras[h[target]] \in {"free", "dropping"}
          BY <4>1, <5>1
        <5>3. CASE h[target] = c
          <6>1. Reported(c, Holders(c)) = {"free"}
            BY <3>1, <5>2, <5>3 DEF Walk, Reported, Unreported
          <6>2. ras' = [ras EXCEPT ![c] = "free"]
            BY <3>1, <6>1 DEF Walk
          <6>3. QED
            BY <5>1, <5>3, <6>2 DEF TypeOK
        <5>4. CASE h[target] # c
          BY <3>1, <5>1, <5>2, <5>4 DEF Walk, TypeOK
        <5>5. QED
          BY <5>3, <5>4
      <4>2. QED
        BY <3>1, <4>1 DEF Walk
    <3>2. CASE WalkFreed(c)
      BY <3>2 DEF WalkFreed, Rebuilding
    <3>3. CASE Update(c)
      BY <3>3 DEF Update
    <3>4. CASE UpdateFreed(c)
      BY <3>4 DEF UpdateFreed
    <3>5. QED
      BY <2>7, <3>1, <3>2, <3>3, <3>4 DEF RasThread
  <2>8. CASE UNCHANGED vars
    BY <2>8 DEF vars
  <2>9. QED
    BY <2>1, <2>2, <2>3, <2>4, <2>5, <2>6, <2>7, <2>8 DEF Next
<1>3. QED
  BY <1>1, <1>2, TypeCorrect, PTL DEF Spec

\* At rest, m_HostList, the list on screen and table vpn have the same ids.
THEOREM ListAlwaysMirrorsTable == Spec => []ListMirrorsTable
<1>1. SessionInv => ListMirrorsTable
  BY DEF SessionInv, Working, ListMirrorsTable, Idle
<1>2. QED
  BY <1>1, SessionInvariant, PTL

\* The form never edits a deleted host.
THEOREM FormAlwaysTargetsRow == Spec => []FormTargetsRow
<1>1. SessionInv => FormTargetsRow
  BY DEF SessionInv
<1>2. QED
  BY <1>1, SessionInvariant, PTL

\* A step that leaves m_HostList and INFO.h alone loses no connection.
LEMMA KeepsHandles ==
  ASSUME NEW c \in Handles, known' = known, h' = h
  PROVE  ~Loses(c)
BY DEF Loses, Tracked, Holders

\* A connection RAS still holds leaves m_HostList only when InitData rebuilds
\* the map, or when its dial has failed and RasDialFunc's RasHangUp is refused:
\* Connect clears INFO.h only after a hang-up that RAS has accepted.
THEOREM ConnectionsLostOnlyByReload == Spec => LostOnlyByReload
<1>1. TypeOK /\ SessionInv /\ [Next]_vars
        => [\A c \in Handles : Loses(c) => ui = "loading" \/ FailsForGood(c)]_vars
  <2> SUFFICES ASSUME TypeOK, SessionInv, Next, NEW d \in Handles, Loses(d)
               PROVE  ui = "loading" \/ FailsForGood(d)
    OBVIOUS
  <2> USE DEF table, hosts
  <2>1. CASE Clicks
    <3>1. ASSUME NEW i \in Ids, DialStarts(i) \/ DialFails(i) PROVE FALSE
      <4>1. PICK c \in Handles : /\ h' = [h EXCEPT ![i] = c] /\ h[i] = NULL
                                 /\ known' = known
        BY <3>1 DEF DialStarts, DialFails
      <4>2. Holders(d) \subseteq Holders(d)'
        BY <4>1, NullAssumption DEF Holders, TypeOK
      <4>3. QED
        BY <4>2 DEF Loses, Tracked
    <3>2. CASE UNCHANGED <<known, h>>
      BY <3>2, KeepsHandles
    <3>3. QED
      BY <2>1, <3>1, <3>2 DEF Clicks, ClickTab, ClickAdd, SaveAdd, SaveSet,
         ClickClose, CloseWindow, ClickEdit, ClickDelete, ClickDisconnect,
         InitDataClear
  <2>2. CASE Answers
    BY <2>2, KeepsHandles DEF Answers, Delete, HangUpSucceeds, Close, Return,
       InitDataClear
  <2>3. CASE Continues
    <3>1. CASE ShowHungUp
      <4>1. target \in Ids /\ (h[target] = NULL \/ ~Held(h[target]))
        BY <3>1 DEF ShowHungUp, SessionInv
      <4>2. h[target] # d
        BY <4>1, NullAssumption DEF Loses
      <4>3. Holders(d) \subseteq Holders(d)'
        BY <3>1, <4>2 DEF ShowHungUp, Holders, TypeOK
      <4>4. QED
        BY <4>3 DEF Loses, Tracked
    <3>2. CASE ui # "hungUp" /\ ui # "loading"
      BY <2>3, <3>2, KeepsHandles DEF Continues, InitDataLoad, ShowDialing,
         ShowHungUp, Quit
    <3>3. QED
      BY <2>3, <3>1, <3>2 DEF Continues, InitDataLoad, ShowDialing, Quit
  <2>4. CASE DatabaseThrows
    BY <2>4, KeepsHandles DEF DatabaseThrows
  <2>5. ASSUME NEW c \in Handles, DialResolves(c) \/ Drops(c) PROVE FALSE
    BY <2>5, KeepsHandles DEF DialResolves, Drops, RasChange
  <2>6. ASSUME NEW c \in Handles, RasThread(c) PROVE FailsForGood(d)
    <3>1. CASE Walk(c)
      <4>1. d # c => Holders(d)' = Holders(d)
        <5>1. ASSUME d # c, NEW i \in known
              PROVE  h'[i] = d <=> h[i] = d
          BY <3>1, <5>1, NullAssumption DEF Walk, Holders, TypeOK
        <5>2. QED
          BY <3>1, <5>1 DEF Walk, Holders
      <4>2. ras[c] = "answering" => Holders(c)' = Holders(c)
        BY <3>1 DEF Walk, Holders, TypeOK
      <4>3. \/ ras[c] = "answering" /\ ras'[c] = "connected"
            \/ ras[c] = "dropping" /\ ras'[c] = "free"
            \/ ras[c] = "failing" /\ ras'[c] \in {"free", "failed"}
        BY <3>1 DEF Walk, Reported, Unreported, TypeOK
      <4>4. QED
        BY <4>1, <4>2, <4>3 DEF Loses, Tracked, Held, FailsForGood
    <3>2. CASE UNCHANGED <<known, h>>
      BY <3>2, KeepsHandles
    <3>3. QED
      BY <2>6, <3>1, <3>2 DEF RasThread, WalkFreed, Update, UpdateFreed
  <2>7. QED
    BY <2>1, <2>2, <2>3, <2>4, <2>5, <2>6 DEF Next
<1>2. QED
  BY <1>1, TypeCorrect, SessionInvariant, PTL DEF Spec, LostOnlyByReload

-----------------------------------------------------------------------------
(* The buttons.                                                            *)

\* An update under way of INFOs that still exist: RasDialFunc has matched entries of the
\* list and, where it will write "disconnect", their handle is the one it walked with.
UpdateIsDue(c) ==
  cb[c].targets # {} /\ ~cb[c].dangling =>
    /\ cb[c].targets \subseteq listed
    /\ cb[c].text # "dialing"
    /\ cb[c].text = "disconnect" => \A i \in cb[c].targets : h[i] = c

\* The entry whose button ShowDialing or ShowHungUp is about to write.
AtWork(i) == ui \in {"dialed", "hungUp"} /\ target = i

\* What ShowDialing and ShowHungUp find: nobody else updates the button, the dial is still
\* to be reported, the button clicked on is enabled.
WorkIsOn ==
  /\ ui \in {"dialed", "hungUp"} => ~Updating(target)
  /\ ui = "dialed" =>
       /\ target \in listed /\ h[target] # NULL
       /\ ras[h[target]] \in {"dialing", "failing", "answering"}
  /\ ui \in {"confirmHangUp", "hungUp"} => button[target].enabled = TRUE

HandleOfOne == \A i, j \in Ids : h[i] # NULL /\ h[i] = h[j] => i = j
HandlesApart == ~overlap => HandleOfOne

\* As long as the threads have not met: every button not being worked on tells the truth,
\* every update that is due will, and inside InitData no update is due any more.
TruthInv ==
  /\ HandlesApart
  /\ ~overlap /\ ui = "loading" => \A c \in Handles : cb[c].targets # {} => cb[c].dangling
  /\ ~overlap /\ ui \in Working =>
       /\ \A c \in Handles : UpdateIsDue(c)
       /\ \A i \in listed : Updating(i) \/ AtWork(i) \/ ButtonTellsTruth(i)
       /\ WorkIsOn

\* The window after "windowinit" has only enabled "connect" buttons and no update.
LEMMA TruthInvInit == Init => TruthInv
<1> SUFFICES ASSUME Init PROVE TruthInv
  OBVIOUS
<1>1. HandlesApart
  BY DEF Init, HandleOfOne, HandlesApart
<1>2. ASSUME NEW i \in Ids PROVE ButtonTellsTruth(i)
  BY DEF Init, NewButton, ButtonTellsTruth
<1>3. ASSUME NEW c \in Handles PROVE UpdateIsDue(c)
  BY DEF Init, NoUpdate, UpdateIsDue
<1>4. listed \subseteq Ids
  BY MaxIdAssumption DEF Init, Ids
<1> QED  BY <1>1, <1>2, <1>3, <1>4 DEF Init, TruthInv, WorkIsOn

\* No two entries get the same handle unnoticed: a dial looks whether one is stored, everybody
\* else forgets.
LEMMA HandlesApartNext ==
  ASSUME TypeOK, HandlesApart, [Next]_vars
  PROVE  HandlesApart'
<1> USE DEF HandleOfOne, HandlesApart
<1>1. ASSUME NEW i \in Ids, DialStarts(i) \/ DialFails(i) PROVE HandlesApart'
  <2>1. PICK c \in Handles : /\ h' = [h EXCEPT ![i] = c]
                             /\ overlap' = (overlap \/ Updating(i) \/ Stored(c))
    BY <1>1 DEF DialStarts, DialFails
  <2>2. ~overlap' => ~overlap /\ \A j \in Ids : h[j] # c
    BY <2>1 DEF Stored
  <2> QED  BY <2>1, <2>2 DEF TypeOK
<1>2. ASSUME \A i \in Ids : h'[i] = h[i] \/ h'[i] = NULL, ~overlap' => ~overlap
      PROVE  HandlesApart'
  BY <1>2
<1>3. CASE InitDataLoad \/ ShowHungUp
  <2>1. \A i \in Ids : h'[i] = h[i] \/ h'[i] = NULL
    BY <1>3 DEF InitDataLoad, ShowHungUp, TypeOK
  <2> QED  BY <1>2, <1>3, <2>1 DEF InitDataLoad, ShowHungUp
<1>4. ASSUME NEW c \in Handles, Walk(c) PROVE HandlesApart'
  <2>1. \A i \in Ids : h'[i] = h[i] \/ h'[i] = NULL
    BY <1>4 DEF Walk
  <2>2. ~overlap' => ~overlap
    BY <1>4 DEF Walk
  <2> QED  BY <1>2, <2>1, <2>2
<1>5. Clicks => \/ h' = h /\ (~overlap' => ~overlap)
                \/ \E i \in Ids : DialStarts(i) \/ DialFails(i)
  <2>1. ASSUME NEW i \in Ids, ClickDisconnect(i) PROVE h' = h /\ (~overlap' => ~overlap)
    <3>1. h' = h /\ overlap' = (overlap \/ Updating(i))
      BY <2>1 DEF ClickDisconnect, hosts
    <3> QED  BY <3>1
  <2>2. Clicks => \/ h' = h /\ overlap' = overlap
                  \/ \E i \in Ids : DialStarts(i) \/ DialFails(i) \/ ClickDisconnect(i)
    BY DEF Clicks, ClickTab, ClickAdd, SaveAdd, SaveSet, ClickClose, CloseWindow, ClickEdit,
           ClickDelete, InitDataClear, hosts
  <2> QED  BY <2>1, <2>2
<1>6. Answers \/ DatabaseThrows => h' = h /\ (~overlap' => ~overlap)
  <2>1. ASSUME HangUpSucceeds PROVE h' = h /\ (~overlap' => ~overlap)
    <3>1. h' = h /\ overlap' = (overlap \/ Updating(target))
      BY <2>1 DEF HangUpSucceeds, hosts
    <3> QED  BY <3>1
  <2>2. Answers \/ DatabaseThrows => (h' = h /\ overlap' = overlap) \/ HangUpSucceeds
    BY DEF Answers, Delete, Close, Return, InitDataClear, DatabaseThrows, hosts
  <2> QED  BY <2>1, <2>2
<1>7. Continues => (h' = h /\ (~overlap' => ~overlap)) \/ InitDataLoad \/ ShowHungUp
  BY DEF Continues, ShowDialing, Quit, hosts
<1>8. ASSUME NEW c \in Handles, DialResolves(c) \/ Drops(c) \/ RasThread(c)
      PROVE  (h' = h /\ (~overlap' => ~overlap)) \/ Walk(c)
  BY <1>8 DEF DialResolves, Drops, RasChange, RasThread, WalkFreed, Update, UpdateFreed, hosts
<1>9. UNCHANGED vars => h' = h /\ (~overlap' => ~overlap)
  BY DEF vars, hosts
<1> QED
  BY <1>1, <1>3, <1>4, <1>5, <1>6, <1>7, <1>8, <1>9 DEF Next

\* Once the threads have met, or the process is at its end, nothing is claimed.
LEMMA NothingClaimed ==
  ASSUME HandlesApart', overlap' = TRUE \/ ui' \in {"quit", "exited", "crashed"}
  PROVE  TruthInv'
  BY DEF TruthInv, Working

\* A step of the UI thread that only moves between the questions and the pages.
LEMMA TruthStays ==
  ASSUME TypeOK, TruthInv, HandlesApart',
         UNCHANGED <<h, listed, button, ras, cb>>, overlap' = overlap \/ overlap' = TRUE,
         ui \in Working \ {"dialed", "hungUp"},
         ui' \in Working \ {"dialed", "hungUp"},
         ui' = "confirmHangUp" => button[target'].enabled = TRUE
  PROVE  TruthInv'
<1>1. CASE overlap' = TRUE
  BY <1>1, NothingClaimed
<1>2. CASE overlap' = overlap /\ ~overlap
  BY <1>2 DEF TruthInv, Working, UpdateIsDue, Updating, AtWork, ButtonTellsTruth, WorkIsOn
<1> QED  BY <1>1, <1>2 DEF TypeOK

\* InitData leaves no update that is not dangling: what RasDialFunc has matched was listed.
LEMMA TruthAfterClear ==
  ASSUME TypeOK, TruthInv, HandlesApart', ui \in Working, InitDataClear, overlap' = overlap
  PROVE  TruthInv'
<1>1. CASE overlap
  BY <1>1, NothingClaimed
<1>2. CASE ~overlap
  <2>1. ui' = "loading"
    BY DEF InitDataClear
  <2>2. ASSUME NEW c \in Handles, cb'[c].targets # {} PROVE cb'[c].dangling
    <3>1. CASE listed # {} /\ cb[c].targets # {}
      <4>1. cb'[c] = [cb[c] EXCEPT !.dangling = TRUE]
        BY <3>1 DEF InitDataClear
      <4>2. cb[c] \in [targets : SUBSET Ids, text : Captions, dangling : BOOLEAN]
        BY DEF TypeOK
      <4> QED  BY <4>1, <4>2
    <3>2. CASE ~(listed # {} /\ cb[c].targets # {})
      <4>1. cb'[c] = cb[c]
        BY <3>2 DEF InitDataClear
      <4> QED  BY <1>2, <2>2, <3>2, <4>1 DEF TruthInv, UpdateIsDue
    <3> QED  BY <3>1, <3>2
  <2> QED  BY <2>1, <2>2 DEF TruthInv, Working
<1> QED  BY <1>1, <1>2

\* A button that SetButtons writes is enabled exactly if it does not say "dialing".
LEMMA SetButtonsTells ==
  ASSUME NEW ids, NEW caption, SetButtons(ids, caption), NEW i \in Ids, i \in ids
  PROVE  button'[i].text = caption /\ button'[i].enabled = (caption # "dialing")
<1>1. button'[i] = [text |-> caption, enabled |-> caption # "dialing"]
  BY DEF SetButtons
<1>2. [text |-> caption, enabled |-> caption # "dialing"].enabled = (caption # "dialing")
  OBVIOUS
<1> QED  BY <1>1, <1>2

\* The rebuilt list has fresh buttons, and only dangling updates are left.
LEMMA TruthAfterLoad ==
  ASSUME TypeOK, SessionInv, TruthInv, HandlesApart', InitDataLoad
  PROVE  TruthInv'
<1>1. overlap' = overlap /\ cb' = cb /\ ui = "loading" /\ ui' = "idle"
  BY DEF InitDataLoad
<1>2. CASE overlap
  BY <1>1, <1>2, NothingClaimed
<1>3. CASE ~overlap
  <2>1. ASSUME NEW c \in Handles PROVE UpdateIsDue(c)'
    BY <1>1, <1>3 DEF TruthInv, UpdateIsDue
  <2>2. listed' = rows /\ rows \subseteq Ids
    BY <1>1 DEF InitDataLoad, SessionInv, TypeOK
  <2>3. ASSUME NEW i \in listed' PROVE ButtonTellsTruth(i)'
    <3>1. i \in Ids /\ i \in rows
      BY <2>2, <2>3
    <3>2. button'[i].text = "connect" /\ button'[i].enabled = ("connect" # "dialing")
      BY <3>1, SetButtonsTells DEF InitDataLoad
    <3> QED  BY <3>2 DEF ButtonTellsTruth
  <2>4. WorkIsOn'
    BY <1>1 DEF WorkIsOn
  <2> QED  BY <1>1, <2>1, <2>3, <2>4 DEF TruthInv, Working
<1> QED  BY <1>2, <1>3

\* A dial, successful or not: the entry had no handle and its button was enabled, so it
\* said "connect"; and the new handle is no other entry's.
LEMMA TruthAfterDial ==
  ASSUME TypeOK, TruthInv, HandlesApart', NEW i \in Ids, DialStarts(i) \/ DialFails(i)
  PROVE  TruthInv'
<1>1. PICK c \in Handles : /\ Fresh(c) /\ h' = [h EXCEPT ![i] = c]
                           /\ \E s \in RasStates : ras' = [ras EXCEPT ![c] = s]
                           /\ DialStarts(i) => ras'[c] = "dialing"
                           /\ overlap' = (overlap \/ Updating(i) \/ Stored(c))
  BY DEF DialStarts, DialFails, RasStates, TypeOK
<1>2. /\ i \in listed /\ h[i] = NULL /\ button[i].enabled = TRUE /\ ui = "idle"
      /\ UNCHANGED <<listed, button, cb>>
  <2>1. button[i].enabled \in BOOLEAN
    BY DEF TypeOK
  <2> QED  BY <2>1 DEF DialStarts, DialFails, CanClick, Idle
<1>3. CASE overlap'
  <2>1. overlap' = TRUE
    BY <1>1, <1>3
  <2> QED  BY <2>1, NothingClaimed
<1>4. CASE ~overlap'
  <2>1. ~overlap /\ ~Updating(i) /\ ~Stored(c)
    BY <1>1, <1>4
  <2>2. ASSUME NEW d \in Handles PROVE UpdateIsDue(d)'
    <3>1. UpdateIsDue(d) /\ i \notin cb[d].targets
      BY <1>2, <2>1 DEF TruthInv, Working, Updating
    <3>2. cb[d].targets \subseteq Ids
      BY DEF TypeOK
    <3>3. \A j \in cb[d].targets : h'[j] = h[j]
      BY <1>1, <3>1, <3>2 DEF TypeOK
    <3> QED  BY <1>2, <3>1, <3>3 DEF UpdateIsDue
  <2>3. ASSUME NEW j \in listed, j # i, ~Updating(j) PROVE ButtonTellsTruth(j)'
    <3>1. ButtonTellsTruth(j) /\ j \in Ids
      BY <1>2, <2>1, <2>3 DEF TruthInv, Working, AtWork, TypeOK
    <3>2. h'[j] = h[j] /\ h[j] # c
      BY <1>1, <2>1, <2>3, <3>1 DEF Stored, TypeOK
    <3>3. h[j] # NULL => ras'[h[j]] = ras[h[j]]
      BY <1>1, <3>1, <3>2 DEF TypeOK
    <3> QED  BY <1>2, <3>1, <3>2, <3>3 DEF ButtonTellsTruth
  <2>4. ButtonTellsTruth(i) /\ button[i].text = "connect"
    <3>1. ButtonTellsTruth(i)
      BY <1>2, <2>1 DEF TruthInv, Working, AtWork
    <3>2. button[i].text \in Captions
      BY DEF TypeOK
    <3> QED  BY <1>2, <3>1, <3>2 DEF ButtonTellsTruth, Captions
  <2>5. ButtonTellsTruth(i)'
    BY <1>2, <2>4 DEF ButtonTellsTruth
  <2>6. \A j \in listed' : Updating(j)' \/ ButtonTellsTruth(j)'
    BY <1>2, <2>3, <2>5 DEF Updating
  <2>7. CASE DialStarts(i)
    <3>1. ui' = "dialed" /\ target' = i
      BY <2>7 DEF DialStarts
    <3>2. h'[i] = c /\ ras'[c] = "dialing" /\ c # NULL
      BY <1>1, <2>7, NullAssumption DEF TypeOK
    <3>3. ~Updating(i)'
      BY <1>2, <2>1 DEF Updating
    <3>4. WorkIsOn'
      BY <1>2, <3>1, <3>2, <3>3 DEF WorkIsOn, Updating
    <3> QED  BY <2>2, <2>6, <3>1, <3>4 DEF TruthInv, Working
  <2>8. CASE DialFails(i)
    <3>1. ui' = "idle"
      BY <1>2, <2>8 DEF DialFails, handler
    <3>2. WorkIsOn'
      BY <3>1 DEF WorkIsOn
    <3> QED  BY <2>2, <2>6, <3>1, <3>2 DEF TruthInv, Working
  <2> QED  BY <2>7, <2>8
<1> QED  BY <1>3, <1>4

\* "dialing" is shown while the dial has not been reported: a report walks over the entry
\* and would have made the threads meet.
LEMMA TruthAfterShowDialing ==
  ASSUME TypeOK, SessionInv, TruthInv, HandlesApart', ShowDialing
  PROVE  TruthInv'
<1>1. /\ ui = "dialed" /\ ui' = "idle" /\ SetButtons({target}, "dialing")
      /\ UNCHANGED <<h, listed, ras, cb, overlap>>
  BY DEF ShowDialing, hosts
<1>2. CASE overlap
  BY <1>1, <1>2, NothingClaimed
<1>3. CASE ~overlap
  <2>1. PICK i \in Ids : i = target
    BY <1>1 DEF SessionInv
  <2>2. WorkIsOn
    BY <1>1, <1>3 DEF TruthInv, Working
  <2>3. ButtonTellsTruth(i)'
    <3>1. button'[i].text = "dialing" /\ button'[i].enabled = ("dialing" # "dialing")
      BY <1>1, <2>1, SetButtonsTells
    <3>2. h[i] # NULL /\ ras[h[i]] \in {"dialing", "failing", "answering"}
      BY <1>1, <2>1, <2>2 DEF WorkIsOn
    <3> QED  BY <1>1, <3>1, <3>2 DEF ButtonTellsTruth
  <2>4. ASSUME NEW j \in listed, j # i, ~Updating(j) PROVE ButtonTellsTruth(j)'
    <3>1. ButtonTellsTruth(j) /\ j \in Ids
      BY <1>1, <1>3, <2>1, <2>4 DEF TruthInv, Working, AtWork, TypeOK
    <3>2. button'[j] = button[j]
      BY <1>1, <2>1, <2>4, <3>1 DEF SetButtons
    <3> QED  BY <1>1, <3>1, <3>2 DEF ButtonTellsTruth
  <2>5. \A j \in listed' : Updating(j)' \/ ButtonTellsTruth(j)'
    <3>1. listed' = listed /\ \A j : Updating(j)' <=> Updating(j)
      BY <1>1 DEF Updating
    <3> QED  BY <2>3, <2>4, <3>1
  <2>6. \A c \in Handles : UpdateIsDue(c)'
    BY <1>1, <1>3 DEF TruthInv, Working, UpdateIsDue
  <2>7. WorkIsOn'
    BY <1>1 DEF WorkIsOn
  <2> QED  BY <1>1, <2>5, <2>6, <2>7 DEF TruthInv, Working
<1> QED  BY <1>2, <1>3

\* A hang-up ends the connection of the entry at work and of no other.
LEMMA TruthAfterHangUp ==
  ASSUME TypeOK, SessionInv, TruthInv, HandlesApart', HangUpSucceeds
  PROVE  TruthInv'
<1>1. /\ ui = "confirmHangUp" /\ ui' = "hungUp" /\ h[target] # NULL
      /\ UNCHANGED <<h, listed, button, cb, target>>
      /\ overlap' = (overlap \/ Updating(target))
  BY DEF HangUpSucceeds, hosts
<1>2. target \in Ids /\ h[target] \in Handles
  BY <1>1 DEF SessionInv, TypeOK
<1>3. CASE overlap'
  BY <1>3, NothingClaimed DEF TypeOK
<1>4. CASE ~overlap'
  <2>1. ~overlap /\ ~Updating(target)
    BY <1>1, <1>4
  <2>2. \A c \in Handles : UpdateIsDue(c)'
    BY <1>1, <2>1 DEF TruthInv, Working, UpdateIsDue
  <2>3. ASSUME NEW j \in listed, j # target, ~Updating(j) PROVE ButtonTellsTruth(j)'
    <3>1. ButtonTellsTruth(j) /\ j \in Ids
      BY <1>1, <2>1, <2>3 DEF TruthInv, Working, AtWork, TypeOK
    <3>2. h[j] # NULL => h[j] # h[target]
      BY <1>2, <2>1, <2>3, <3>1 DEF TruthInv, HandlesApart, HandleOfOne
    <3>3. h[j] # NULL => ras'[h[j]] = ras[h[j]]
      BY <1>2, <3>1, <3>2 DEF HangUpSucceeds, TypeOK
    <3> QED  BY <1>1, <3>1, <3>3 DEF ButtonTellsTruth
  <2>4. \A j \in listed' : Updating(j)' \/ AtWork(j)' \/ ButtonTellsTruth(j)'
    BY <1>1, <2>3 DEF Updating, AtWork
  <2>5. WorkIsOn'
    BY <1>1, <2>1 DEF TruthInv, Working, WorkIsOn, Updating
  <2> QED  BY <1>1, <2>2, <2>4, <2>5 DEF TruthInv, Working
<1> QED  BY <1>3, <1>4

\* The entry that was hung up gets a "connect" button, still enabled, and no handle.
LEMMA TruthAfterShowHungUp ==
  ASSUME TypeOK, SessionInv, TruthInv, HandlesApart', ShowHungUp
  PROVE  TruthInv'
<1>1. /\ ui = "hungUp" /\ ui' = "idle" /\ h' = [h EXCEPT ![target] = NULL]
      /\ button' = [button EXCEPT ![target].text = "connect"]
      /\ UNCHANGED <<listed, ras, cb, overlap>>
  BY DEF ShowHungUp
<1>2. PICK i \in Ids : i = target
  BY <1>1 DEF SessionInv
<1>3. CASE overlap
  BY <1>1, <1>3, NothingClaimed
<1>4. CASE ~overlap
  <2>1. WorkIsOn
    BY <1>1, <1>4 DEF TruthInv, Working
  <2>2. ButtonTellsTruth(i)'
    <3>1. button'[i] = [button[i] EXCEPT !.text = "connect"]
      BY <1>1, <1>2 DEF TypeOK
    <3>2. button[i] \in [text : Captions, enabled : BOOLEAN]
      BY <1>2 DEF TypeOK
    <3>3. button'[i].text = "connect" /\ button'[i].enabled = TRUE
      BY <1>1, <1>2, <2>1, <3>1, <3>2 DEF WorkIsOn
    <3> QED  BY <3>3 DEF ButtonTellsTruth
  <2>3. ASSUME NEW j \in listed, j # i, ~Updating(j) PROVE ButtonTellsTruth(j)'
    <3>1. ButtonTellsTruth(j) /\ j \in Ids
      BY <1>1, <1>2, <1>4, <2>3 DEF TruthInv, Working, AtWork, TypeOK
    <3>2. button'[j] = button[j] /\ h'[j] = h[j]
      BY <1>1, <1>2, <2>3, <3>1 DEF TypeOK
    <3> QED  BY <1>1, <3>1, <3>2 DEF ButtonTellsTruth
  <2>4. \A j \in listed' : Updating(j)' \/ ButtonTellsTruth(j)'
    <3>1. listed' = listed /\ \A j : Updating(j)' <=> Updating(j)
      BY <1>1 DEF Updating
    <3> QED  BY <2>2, <2>3, <3>1
  <2>5. ASSUME NEW c \in Handles PROVE UpdateIsDue(c)'
    <3>1. UpdateIsDue(c) /\ i \notin cb[c].targets
      BY <1>1, <1>2, <1>4, <2>1 DEF TruthInv, Working, WorkIsOn, Updating
    <3>2. cb[c].targets \subseteq Ids
      BY DEF TypeOK
    <3>3. \A j \in cb[c].targets : h'[j] = h[j]
      BY <1>1, <1>2, <3>1, <3>2 DEF TypeOK
    <3> QED  BY <1>1, <3>1, <3>3 DEF UpdateIsDue
  <2>6. WorkIsOn'
    BY <1>1 DEF WorkIsOn
  <2> QED  BY <1>1, <2>4, <2>5, <2>6 DEF TruthInv, Working
<1> QED  BY <1>3, <1>4

\* RAS changes a connection: a dial stays one to be reported, and no other state of a
\* connection is shown.
LEMMA TruthAfterRasChange ==
  ASSUME TypeOK, TruthInv, HandlesApart', NEW c \in Handles, DialResolves(c) \/ Drops(c)
  PROVE  TruthInv'
<1>1. UNCHANGED <<h, listed, button, cb, ui, target, overlap>>
  BY DEF DialResolves, Drops, RasChange, hosts, handler
<1>2. PICK s \in RasStates : ras' = [ras EXCEPT ![c] = s]
  BY DEF DialResolves, Drops, RasChange, RasStates
<1>3. ras[c] \in {"dialing", "failing", "answering"} =>
        s \in {"dialing", "failing", "answering"}
  <2>1. ras'[c] = s
    BY <1>2 DEF TypeOK
  <2>2. CASE DialResolves(c)
    BY <2>1, <2>2 DEF DialResolves, RasChange, TypeOK
  <2>3. CASE Drops(c)
    BY <2>3 DEF Drops, RasChange
  <2> QED  BY <2>2, <2>3
<1>4. \A d \in Handles : ras[d] \in {"dialing", "failing", "answering"} =>
                         ras'[d] \in {"dialing", "failing", "answering"}
  BY <1>2, <1>3 DEF TypeOK
<1>5. CASE overlap
  BY <1>1, <1>5, NothingClaimed
<1>6. CASE ~overlap /\ ui = "loading"
  BY <1>1, <1>6 DEF TruthInv, Working
<1>7. CASE ~overlap /\ ui \in Working
  <2>1. \A d \in Handles : UpdateIsDue(d)'
    BY <1>1, <1>7 DEF TruthInv, UpdateIsDue
  <2>2. ASSUME NEW j \in listed, ButtonTellsTruth(j) PROVE ButtonTellsTruth(j)'
    <3>1. h[j] \in Handles \cup {NULL}
      BY DEF TypeOK
    <3> QED  BY <1>1, <1>4, <2>2, <3>1 DEF ButtonTellsTruth
  <2>3. \A j \in listed' : Updating(j)' \/ AtWork(j)' \/ ButtonTellsTruth(j)'
    BY <1>1, <1>7, <2>2 DEF TruthInv, Updating, AtWork
  <2>4. WorkIsOn'
    <3>1. WorkIsOn
      BY <1>7 DEF TruthInv
    <3>2. h[target] \in Handles \/ ui # "dialed" \/ h[target] = NULL
      BY <3>1 DEF WorkIsOn, TypeOK
    <3> QED  BY <1>1, <1>4, <3>1, <3>2 DEF WorkIsOn, Updating
  <2> QED  BY <1>1, <1>7, <2>1, <2>3, <2>4 DEF TruthInv, Working
<1>8. CASE ~overlap /\ ui \notin Working /\ ui # "loading"
  BY <1>1, <1>8 DEF TruthInv
<1> QED  BY <1>5, <1>6, <1>7, <1>8 DEF TypeOK

\* The walk of RasDialFunc touches only the entries it will update, none of which is at
\* work unless the threads meet.
LEMMA TruthAfterWalk ==
  ASSUME TypeOK, SessionInv, TruthInv, HandlesApart', NEW c \in Handles, Walk(c)
  PROVE  TruthInv'
<1> DEFINE held == Holders(c)
<1>1. /\ UNCHANGED <<known, listed, button, ui, target>>
      /\ \E s \in RasStates : ras' = [ras EXCEPT ![c] = s]
      /\ h' = [i \in Ids |-> IF i \in held /\ ras[c] # "answering" THEN NULL ELSE h[i]]
      /\ cb' = [cb EXCEPT ![c] = [targets |-> held, text |-> Caption(c), dangling |-> FALSE]]
      /\ cb[c].targets = {} /\ ui \notin {"loading", "quit"}
      /\ overlap' = (overlap \/ (ui \in {"dialed", "hungUp"} /\ target \in held))
  BY ReportedType DEF Walk, Rebuilding, form, handler
<1>2. held = {i \in known : h[i] = c} /\ held \subseteq Ids
  BY DEF Holders, TypeOK
<1>3. cb'[c] = [targets |-> held, text |-> Caption(c), dangling |-> FALSE]
  BY <1>1 DEF TypeOK
<1>4. cb'[c].targets = held /\ cb'[c].text = Caption(c)
  BY <1>3
<1>5. \A d \in Handles \ {c} : cb'[d] = cb[d]
  BY <1>1 DEF TypeOK
<1> HIDE DEF held
<1>6. CASE overlap'
  BY <1>6, NothingClaimed DEF TypeOK
<1>7. CASE ~overlap' /\ ui \notin Working
  BY <1>1, <1>7 DEF TruthInv
<1>8. CASE ~overlap' /\ ui \in Working
  <2>1. ~overlap /\ known = listed
    BY <1>1, <1>8 DEF SessionInv
  <2>2. ui \in {"dialed", "hungUp"} => target \notin held
    BY <1>1, <1>8
  <2>3. UpdateIsDue(c)'
    <3>1. held \subseteq listed
      BY <1>2, <2>1
    <3>2. Caption(c) # "dialing"
      BY DEF Caption
    <3>3. Caption(c) = "disconnect" => \A i \in held : h'[i] = c
      BY <1>1, <1>2 DEF Caption
    <3> QED  BY <1>1, <1>4, <3>1, <3>2, <3>3 DEF UpdateIsDue
  <2>4. ASSUME NEW d \in Handles \ {c} PROVE UpdateIsDue(d)'
    <3>1. UpdateIsDue(d) /\ cb[d].targets \subseteq Ids
      BY <1>8, <2>1 DEF TruthInv, TypeOK
    <3>2. ASSUME NEW i \in cb[d].targets, h[i] = d PROVE h'[i] = d
      BY <1>1, <1>2, <3>1, <3>2
    <3> QED  BY <1>1, <1>5, <3>1, <3>2 DEF UpdateIsDue
  <2>5. \A i : Updating(i)' <=> i \in held \/ Updating(i)
    BY <1>1, <1>4, <1>5 DEF Updating
  <2>6. ASSUME NEW j \in listed, j \notin held, ButtonTellsTruth(j) PROVE ButtonTellsTruth(j)'
    <3>1. j \in Ids /\ h'[j] = h[j] /\ h[j] # c
      BY <1>1, <1>2, <2>1, <2>6 DEF TypeOK
    <3>2. h[j] # NULL => ras'[h[j]] = ras[h[j]]
      BY <1>1, <3>1 DEF TypeOK
    <3> QED  BY <1>1, <2>6, <3>1, <3>2 DEF ButtonTellsTruth
  <2>7. \A j \in listed' : Updating(j)' \/ AtWork(j)' \/ ButtonTellsTruth(j)'
    BY <1>1, <1>8, <2>1, <2>5, <2>6 DEF TruthInv, AtWork
  <2>8. WorkIsOn'
    <3>1. WorkIsOn
      BY <1>8, <2>1 DEF TruthInv
    <3>2. CASE ui = "dialed"
      <4>1. target \in listed /\ target \in Ids /\ target \notin held /\ ~Updating(target)
        BY <2>2, <3>1, <3>2 DEF WorkIsOn, TypeOK
      <4>2. h'[target] = h[target] /\ h[target] # c /\ h[target] # NULL
        BY <1>1, <1>2, <2>1, <3>1, <3>2, <4>1 DEF WorkIsOn
      <4>3. ras'[h[target]] = ras[h[target]]
        BY <1>1, <4>1, <4>2 DEF TypeOK
      <4>4. ~ (\E d \in Handles : target \in cb'[d].targets)
        BY <1>1, <1>4, <1>5, <4>1 DEF Updating
      <4> QED  BY <1>1, <3>1, <3>2, <4>1, <4>2, <4>3, <4>4 DEF WorkIsOn, Updating
    <3>3. CASE ui = "hungUp"
      <4>1. ~ (\E d \in Handles : target \in cb'[d].targets)
        BY <1>1, <1>4, <1>5, <2>2, <3>1, <3>3 DEF WorkIsOn, Updating
      <4> QED  BY <1>1, <3>1, <3>3, <4>1 DEF WorkIsOn, Updating
    <3>4. CASE ui \notin {"dialed", "hungUp"}
      BY <1>1, <3>1, <3>4 DEF WorkIsOn
    <3> QED  BY <3>2, <3>3, <3>4
  <2> QED  BY <1>1, <1>8, <2>3, <2>4, <2>7, <2>8 DEF TruthInv, Working
<1> QED  BY <1>6, <1>7, <1>8 DEF TypeOK

\* The update writes "connect", or "disconnect" where the handle is still there; inside
\* InitData none is left to do.
LEMMA TruthAfterUpdate ==
  ASSUME TypeOK, SessionInv, TruthInv, HandlesApart', NEW c \in Handles, Update(c)
  PROVE  TruthInv'
<1>1. /\ UNCHANGED <<h, listed, ui, target, ras, overlap>>
      /\ cb[c].targets # {} /\ ~cb[c].dangling
      /\ SetButtons(cb[c].targets, cb[c].text)
      /\ cb' = [cb EXCEPT ![c] = NoUpdate]
  BY DEF Update, hosts, handler
<1>2. cb'[c] = NoUpdate /\ \A d \in Handles \ {c} : cb'[d] = cb[d]
  BY <1>1 DEF TypeOK
<1>3. cb'[c].targets = {}
  BY <1>2 DEF NoUpdate
<1>4. CASE overlap
  BY <1>1, <1>4, NothingClaimed
<1>5. CASE ~overlap /\ ui = "loading"
  BY <1>1, <1>5 DEF TruthInv
<1>6. CASE ~overlap /\ ui \notin Working /\ ui # "loading"
  BY <1>1, <1>6 DEF TruthInv
<1>7. CASE ~overlap /\ ui \in Working
  <2>1. UpdateIsDue(c) /\ cb[c].targets \subseteq Ids /\ cb[c].text \in Captions
    BY <1>7 DEF TruthInv, TypeOK
  <2>2. \A d \in Handles : UpdateIsDue(d)'
    BY <1>1, <1>2, <1>3, <1>7 DEF TruthInv, UpdateIsDue
  <2>3. \A j : Updating(j) => j \in cb[c].targets \/ Updating(j)'
    BY <1>2 DEF Updating
  <2>4. \A j : Updating(j)' => Updating(j)
    BY <1>2, <1>3 DEF Updating
  <2>5. ASSUME NEW j \in cb[c].targets PROVE ButtonTellsTruth(j)'
    <3>1. button'[j].text = cb[c].text /\ button'[j].enabled = (cb[c].text # "dialing")
      BY <1>1, <2>1, SetButtonsTells
    <3>2. cb[c].text # "dialing"
      BY <1>1, <2>1 DEF UpdateIsDue
    <3>3. cb[c].text = "disconnect" => h[j] # NULL
      BY <1>1, <2>1, NullAssumption DEF UpdateIsDue
    <3> QED  BY <1>1, <3>1, <3>2, <3>3 DEF ButtonTellsTruth
  <2>6. ASSUME NEW j \in listed, j \notin cb[c].targets, ButtonTellsTruth(j)
        PROVE  ButtonTellsTruth(j)'
    <3>1. button'[j] = button[j]
      BY <1>1, <2>6 DEF SetButtons, TypeOK
    <3> QED  BY <1>1, <2>6, <3>1 DEF ButtonTellsTruth
  <2>7. \A j \in listed' : Updating(j)' \/ AtWork(j)' \/ ButtonTellsTruth(j)'
    BY <1>1, <1>7, <2>3, <2>5, <2>6 DEF TruthInv, AtWork
  <2>8. WorkIsOn'
    <3>1. WorkIsOn
      BY <1>7 DEF TruthInv
    <3>2. ASSUME ui \in {"dialed", "hungUp"}
          PROVE  ~ (\E d \in Handles : target \in cb'[d].targets)
      BY <1>2, <1>3, <3>1, <3>2 DEF WorkIsOn, Updating
    <3>3. ASSUME ui \in {"confirmHangUp", "hungUp"} PROVE button'[target].enabled = TRUE
      <4>1. target \in Ids
        BY <3>3 DEF SessionInv
      <4>2. CASE target \in cb[c].targets
        <5>1. button'[target].enabled = (cb[c].text # "dialing")
          BY <1>1, <4>1, <4>2, SetButtonsTells
        <5>2. cb[c].text # "dialing"
          BY <1>1, <2>1 DEF UpdateIsDue
        <5> QED  BY <5>1, <5>2
      <4>3. CASE target \notin cb[c].targets
        <5>1. button'[target] = button[target]
          BY <1>1, <4>1, <4>3 DEF SetButtons
        <5> QED  BY <3>1, <3>3, <5>1 DEF WorkIsOn
      <4> QED  BY <4>2, <4>3
    <3> QED  BY <1>1, <3>1, <3>2, <3>3 DEF WorkIsOn, Updating
  <2> QED  BY <1>1, <1>7, <2>2, <2>7, <2>8 DEF TruthInv, Working
<1> QED  BY <1>4, <1>5, <1>6, <1>7 DEF TypeOK

\* No step of either thread or of RAS breaks the invariant.
LEMMA TruthInvNext == TypeOK /\ SessionInv /\ TruthInv /\ [Next]_vars => TruthInv'
<1> SUFFICES ASSUME TypeOK, SessionInv, TruthInv, [Next]_vars PROVE TruthInv'
  OBVIOUS
<1>1. HandlesApart'
  BY HandlesApartNext DEF TruthInv
<1>2. CASE Clicks
  <2>1. ASSUME NEW t \in {0, 2}, ClickTab(t) PROVE TruthInv'
    BY <1>1, <2>1, TruthStays DEF ClickTab, Idle, hosts, handler, Working
  <2>2. CASE ClickAdd
    BY <1>1, <2>2, TruthStays DEF ClickAdd, Idle, hosts, handler, Working
  <2>3. CASE SaveAdd \/ SaveSet
    BY <1>1, <2>3, TruthAfterClear DEF SaveAdd, SaveSet, Idle, Working
  <2>4. CASE ClickClose
    BY <1>1, <2>4, TruthStays DEF ClickClose, Idle, hosts, Working
  <2>5. CASE CloseWindow
    BY <1>1, <2>5, NothingClaimed DEF CloseWindow
  <2>6. ASSUME NEW i \in Ids, ClickEdit(i) PROVE TruthInv'
    BY <1>1, <2>6, TruthStays DEF ClickEdit, Idle, hosts, handler, Working
  <2>7. ASSUME NEW i \in Ids, ClickDelete(i) PROVE TruthInv'
    BY <1>1, <2>7, TruthStays DEF ClickDelete, Idle, hosts, Working
  <2>8. ASSUME NEW i \in Ids, DialStarts(i) \/ DialFails(i) PROVE TruthInv'
    BY <1>1, <2>8, TruthAfterDial
  <2>9. ASSUME NEW i \in Ids, ClickDisconnect(i) PROVE TruthInv'
    <3>1. button[i].enabled \in BOOLEAN /\ overlap \in BOOLEAN
      BY DEF TypeOK
    <3>2. /\ UNCHANGED <<h, listed, button, ras, cb>> /\ ui = "idle"
          /\ ui' = "confirmHangUp" /\ target' = i
          /\ button[i].enabled = TRUE
          /\ overlap' = (overlap \/ Updating(i))
      BY <2>9, <3>1 DEF ClickDisconnect, CanClick, Idle, hosts
    <3>3. overlap' = overlap \/ overlap' = TRUE
      BY <3>1, <3>2
    <3> QED  BY <1>1, <3>2, <3>3, TruthStays DEF Working
  <2> QED  BY <1>2, <2>1, <2>2, <2>3, <2>4, <2>5, <2>6, <2>7, <2>8, <2>9 DEF Clicks
<1>3. CASE Answers
  <2>1. CASE Delete
    BY <1>1, <2>1, TruthAfterClear DEF Delete, Working
  <2>2. CASE HangUpSucceeds
    BY <1>1, <2>2, TruthAfterHangUp
  <2>3. CASE Close
    BY <1>1, <2>3, NothingClaimed DEF Close
  <2>4. CASE Return
    BY <1>1, <2>4, TruthStays DEF Return, hosts, Working
  <2> QED  BY <1>3, <2>1, <2>2, <2>3, <2>4 DEF Answers
<1>4. CASE Continues
  <2>1. CASE Quit
    BY <1>1, <2>1, NothingClaimed DEF Quit
  <2> QED
    BY <1>1, <1>4, <2>1, TruthAfterLoad, TruthAfterShowDialing, TruthAfterShowHungUp
    DEF Continues
<1>5. CASE DatabaseThrows
  BY <1>1, <1>5, NothingClaimed DEF DatabaseThrows
<1>6. ASSUME NEW c \in Handles, DialResolves(c) \/ Drops(c) PROVE TruthInv'
  BY <1>1, <1>6, TruthAfterRasChange
<1>7. ASSUME NEW c \in Handles, RasThread(c) PROVE TruthInv'
  <2>1. CASE WalkFreed(c) \/ UpdateFreed(c)
    BY <1>1, <2>1, NothingClaimed DEF WalkFreed, UpdateFreed
  <2> QED  BY <1>1, <1>7, <2>1, TruthAfterWalk, TruthAfterUpdate DEF RasThread
<1>8. CASE UNCHANGED vars
  BY <1>1, <1>8 DEF vars, hosts, handler, TruthInv, Working, UpdateIsDue, Updating, AtWork,
                    ButtonTellsTruth, WorkIsOn
<1> QED  BY <1>2, <1>3, <1>4, <1>5, <1>6, <1>7, <1>8 DEF Next

\* As long as the two threads never met on an entry, every button at rest tells the truth,
\* however many entries and connections there are.
THEOREM ButtonsAlwaysTellTruth == Spec => []ButtonsTellTruth
<1>1. TruthInv => ButtonsTellTruth
  BY DEF TruthInv, ButtonsTellTruth, Idle, Working, AtWork
<1> QED  BY <1>1, TypeCorrect, SessionInvariant, TruthInvInit, TruthInvNext, PTL DEF Spec
-----------------------------------------------------------------------------
(* The refinement of Lines. *)

\* The lines are a function of what RAS holds and of the handles in the map.
LEMMA LinesUnchanged ==
  ASSUME UNCHANGED <<known, h, ras>>
  PROVE  UNCHANGED <<lineState, lineOwner>>
BY DEF lineState, lineOwner, Held, Holders

\* The state of a line, without the function.
StateOf(c) == IF ras[c] \in {"free", "dropping"} THEN "down"
              ELSE IF ras[c] \in {"failing", "failed"} THEN "broken" ELSE "up"

LEMMA LineStateIs ==
  ASSUME NEW c \in Handles
  PROVE  /\ lineState[c] = StateOf(c) /\ lineState'[c] = StateOf(c)'
         /\ lineState' \in [Handles -> Abstract!LineStates]
         /\ lineOwner[c] = Holders(c) /\ lineOwner'[c] = Holders(c)'
BY DEF lineState, lineOwner, StateOf, Held, Abstract!LineStates

\* Whatever ends, nobody forgets.
LEMMA Ends ==
  ASSUME \A d \in Handles : Holders(d)' = Holders(d),
         \A d \in Handles : \/ StateOf(d)' \in {StateOf(d), "down"}
                            \/ StateOf(d) = "up" /\ StateOf(d)' = "broken"
  PROVE  Abstract!Next
<1>1. lineOwner' = lineOwner
  BY DEF lineOwner
<1>2. lineState' \in [Handles -> Abstract!LineStates]
  BY DEF lineState, Abstract!LineStates
<1>3. Abstract!End
  BY <1>1, <1>2, LineStateIs DEF Abstract!End
<1> QED  BY <1>3 DEF Abstract!Next

\* A line that is not up is forgotten, the others are left alone.
LEMMA Forgets ==
  ASSUME TypeOK, TypeOK', NEW c \in Handles, StateOf(c) # "up",
         StateOf(c)' \in {StateOf(c), "down"}, Holders(c)' \subseteq Holders(c),
         \A d \in Handles \ {c} : Holders(d)' = Holders(d) /\ StateOf(d)' = StateOf(d)
  PROVE  Abstract!Next
<1>1. lineState' \in [Handles -> Abstract!LineStates]
  BY DEF lineState, Abstract!LineStates
<1>2. lineOwner' \in [Handles -> SUBSET Ids]
  BY DEF lineOwner, Holders, TypeOK
<1>3. Abstract!Forget(c)
  BY <1>1, <1>2, LineStateIs DEF Abstract!Forget, Abstract!Others
<1> QED  BY <1>3 DEF Abstract!Next

\* A dial takes a connection that is down, for an entry that has none; what
\* becomes of the dial, and who still stores the handle, does not matter.
LEMMA Dials ==
  ASSUME TypeOK, NEW i \in Ids, NEW c \in Handles,
         i \in known, h[i] = NULL, Fresh(c), h' = [h EXCEPT ![i] = c],
         NEW s \in RasStates, ras' = [ras EXCEPT ![c] = s], known' = known
  PROVE  Abstract!Next
<1>1. StateOf(c) = "down" /\ \A d \in Handles \ {c} : StateOf(d)' = StateOf(d)
  BY DEF Fresh, StateOf, TypeOK
<1>2. \A d \in Handles \ {c} : Holders(d)' = Holders(d)
  BY NullAssumption DEF Holders, TypeOK
<1>3. Holders(c)' = Holders(c) \cup {i}
  BY NullAssumption DEF Holders, TypeOK
<1>4. \A d \in Handles : i \notin Holders(d)
  BY NullAssumption DEF Holders
<1>5. lineState' \in [Handles -> Abstract!LineStates]
  BY DEF lineState, Abstract!LineStates
<1>6. lineOwner' = [lineOwner EXCEPT ![c] = @ \cup {i}]
  BY <1>2, <1>3 DEF lineOwner
<1>7. Abstract!Dial(i, c)
  BY <1>1, <1>4, <1>5, <1>6, LineStateIs DEF Abstract!Dial, Abstract!Others
<1> QED  BY <1>7 DEF Abstract!Next

\* The initial states of the dialer are initial states of Lines.
LEMMA LinesInit == Init => Abstract!Init
<1> SUFFICES ASSUME Init PROVE Abstract!Init
  OBVIOUS
<1>1. /\ known \subseteq Ids /\ h = [i \in Ids |-> NULL]
      /\ ras = [c \in Handles |-> "free"]
  BY MaxIdAssumption DEF Init, Ids
<1>2. \A c \in Handles : ~Held(c) /\ Holders(c) = {}
  BY <1>1, NullAssumption DEF Held, Holders
<1>3. lineState = [c \in Handles |-> "down"] /\ lineOwner = [c \in Handles |-> {}]
  <2>1. \A c \in Handles : lineState[c] = "down" /\ lineOwner[c] = {}
    BY <1>1, <1>2, LineStateIs DEF StateOf
  <2>2. lineState = [c \in Handles |-> lineState[c]] /\ lineOwner = [c \in Handles |-> lineOwner[c]]
    BY DEF lineState, lineOwner
  <2> QED  BY <2>1, <2>2
<1> QED  BY <1>3 DEF Abstract!Init

\* Every step of either thread and of RAS is a step of Lines or none.
LEMMA LinesNext ==
  TypeOK /\ SessionInv /\ TypeOK' /\ [Next]_vars => [Abstract!Next]_(Abstract!vars)
<1> SUFFICES ASSUME TypeOK, SessionInv, TypeOK', [Next]_vars
             PROVE  Abstract!Next \/ UNCHANGED <<lineState, lineOwner>>
  BY DEF Abstract!vars
<1> USE DEF table, hosts
<1>1. CASE Clicks
  <2>1. ASSUME NEW i \in Ids, DialStarts(i) PROVE Abstract!Next
    <3>1. i \in known
      BY <2>1 DEF DialStarts, CanClick, Idle, SessionInv, Working
    <3>2. "dialing" \in RasStates
      BY DEF RasStates
    <3>3. QED
      BY <2>1, <3>1, <3>2, Dials DEF DialStarts
  <2>2. ASSUME NEW i \in Ids, DialFails(i) PROVE Abstract!Next
    <3>1. i \in known
      BY <2>2 DEF DialFails, CanClick, Idle, SessionInv, Working
    <3>2. "free" \in RasStates /\ "failed" \in RasStates
      BY DEF RasStates
    <3>3. QED
      BY <2>2, <3>1, <3>2, Dials DEF DialFails
  <2>3. CASE UNCHANGED <<known, h, ras>>
    BY <2>3, LinesUnchanged
  <2>4. QED
    BY <1>1, <2>1, <2>2, <2>3 DEF Clicks, ClickTab, ClickAdd, SaveAdd, SaveSet,
       ClickClose, CloseWindow, ClickEdit, ClickDelete, ClickDisconnect,
       InitDataClear
<1>2. CASE Answers
  <2>1. CASE HangUpSucceeds
    <3>1. h[target] \in Handles /\ known' = known /\ h' = h
      BY <2>1 DEF HangUpSucceeds, SessionInv, TypeOK
    <3>2. PICK s \in {"free", "dropping"} : ras' = [ras EXCEPT ![h[target]] = s]
      BY <2>1 DEF HangUpSucceeds
    <3>3. \A d \in Handles : StateOf(d)' \in {StateOf(d), "down"}
      BY <3>1, <3>2 DEF StateOf, TypeOK
    <3>4. QED
      BY <3>1, <3>3, Ends DEF Holders
  <2>2. CASE Close
    <3>1. PICK refused \in SUBSET Handles :
            ras' = [c \in Handles |-> IF Holders(c) # {} /\ c \notin refused
                                      THEN "free" ELSE ras[c]]
      BY <2>2 DEF Close
    <3>2. \A d \in Handles : StateOf(d)' \in {StateOf(d), "down"}
      BY <3>1 DEF StateOf
    <3>3. \A d \in Handles : Holders(d)' = Holders(d)
      BY <2>2 DEF Close, Holders
    <3>4. QED
      BY <3>2, <3>3, Ends
  <2>3. CASE Delete \/ Return
    BY <2>3, LinesUnchanged DEF Delete, Return, InitDataClear
  <2>4. QED
    BY <1>2, <2>1, <2>2, <2>3 DEF Answers
<1>3. CASE Continues
  <2>1. CASE InitDataLoad
    <3>1. \A c \in Handles : Holders(c)' = {}
      BY <2>1, NullAssumption DEF InitDataLoad, SessionInv, Holders, TypeOK
    <3>2. lineOwner' = [c \in Handles |-> {}]
      BY <3>1 DEF lineOwner
    <3>3. lineState' = lineState
      BY <2>1 DEF InitDataLoad, lineState, Held
    <3>4. QED
      BY <3>2, <3>3 DEF Abstract!Next, Abstract!Abandon
  <2>2. CASE ShowHungUp
    <3>1. target \in Ids /\ (h[target] = NULL \/ ~Held(h[target]))
      BY <2>2 DEF ShowHungUp, SessionInv
    <3>2. h' = [h EXCEPT ![target] = NULL] /\ known' = known /\ ras' = ras
      BY <2>2 DEF ShowHungUp
    <3>3. \A d \in Handles : StateOf(d)' = StateOf(d)
      BY <3>2 DEF StateOf
    <3>4. \A d \in Handles : h[target] # d => Holders(d)' = Holders(d)
      BY <3>1, <3>2, NullAssumption DEF Holders, TypeOK
    <3>5. CASE h[target] = NULL
      BY <3>3, <3>4, <3>5, NullAssumption, Ends
    <3>6. CASE h[target] # NULL
      <4>1. PICK c \in Handles : c = h[target]
        BY <3>1, <3>6 DEF TypeOK
      <4>2. StateOf(c) = "down"
        BY <3>1, <3>6, <4>1 DEF StateOf, Held
      <4>3. Holders(c)' \subseteq Holders(c)
        BY <3>1, <3>2, NullAssumption DEF Holders, TypeOK
      <4>4. QED
        BY <3>3, <3>4, <4>1, <4>2, <4>3, Forgets
    <3>7. QED
      BY <3>5, <3>6
  <2>3. CASE ShowDialing \/ Quit
    BY <2>3, LinesUnchanged DEF ShowDialing, Quit
  <2>4. QED
    BY <1>3, <2>1, <2>2, <2>3 DEF Continues
<1>4. CASE DatabaseThrows
  BY <1>4, LinesUnchanged DEF DatabaseThrows
<1>5. ASSUME NEW c \in Handles, DialResolves(c) \/ Drops(c) PROVE Abstract!Next
  <2>1. h' = h /\ known' = known
    BY <1>5 DEF DialResolves, Drops, RasChange
  <2>2. \/ ras[c] = "dialing" /\ \E s \in {"failing", "answering"} : ras' = [ras EXCEPT ![c] = s]
        \/ ras[c] = "connected" /\ \E s \in {"dropping", "free"} : ras' = [ras EXCEPT ![c] = s]
    BY <1>5 DEF DialResolves, Drops, RasChange
  <2>3. \A d \in Handles : \/ StateOf(d)' \in {StateOf(d), "down"}
                           \/ StateOf(d) = "up" /\ StateOf(d)' = "broken"
    BY <2>2 DEF StateOf, TypeOK
  <2>4. QED
    BY <2>1, <2>3, Ends DEF Holders
<1>6. ASSUME NEW c \in Handles, RasThread(c)
      PROVE  Abstract!Next \/ UNCHANGED <<lineState, lineOwner>>
  <2>1. ASSUME NEW matched, NEW s \in Reported(c, matched), ras' = [ras EXCEPT ![c] = s],
               ras[c] \in Unreported
        PROVE  /\ StateOf(c)' \in {StateOf(c), "down"}
               /\ \A d \in Handles \ {c} : StateOf(d)' = StateOf(d)
    <3>1. \/ ras[c] = "answering" /\ s = "connected"
          \/ ras[c] = "dropping" /\ s = "free"
          \/ ras[c] = "failing" /\ s \in {"free", "failed"}
      BY <2>1 DEF Reported, Unreported
    <3>2. QED
      BY <2>1, <3>1 DEF StateOf, TypeOK
  <2>2. CASE Walk(c)
    <3>1. PICK s \in Reported(c, Holders(c)) : ras' = [ras EXCEPT ![c] = s]
      BY <2>2 DEF Walk
    <3>2. /\ StateOf(c)' \in {StateOf(c), "down"}
          /\ \A d \in Handles \ {c} : StateOf(d)' = StateOf(d)
      BY <2>1, <2>2, <3>1 DEF Walk
    <3>3. /\ known' = known
          /\ h' = [i \in Ids |-> IF i \in Holders(c) /\ ras[c] # "answering"
                                 THEN NULL ELSE h[i]]
      BY <2>2 DEF Walk
    <3>4. \A d \in Handles \ {c} : Holders(d)' = Holders(d)
      <4>1. ASSUME NEW d \in Handles \ {c}, NEW i \in known PROVE h'[i] = d <=> h[i] = d
        BY <3>3, NullAssumption DEF Holders, TypeOK
      <4>2. QED
        BY <3>3, <4>1 DEF Holders
    <3>5. CASE ras[c] = "answering"
      <4>1. \A d \in Handles : Holders(d)' = Holders(d)
        BY <3>3, <3>5 DEF Holders, TypeOK
      <4>2. QED
        BY <3>2, <4>1, Ends
    <3>6. CASE ras[c] # "answering"
      <4>1. Holders(c)' \subseteq Holders(c)
        BY <3>3, NullAssumption DEF Holders, TypeOK
      <4>2. StateOf(c) # "up"
        BY <2>2, <3>6 DEF Walk, Unreported, StateOf
      <4>3. QED
        BY <3>2, <3>4, <4>1, <4>2, Forgets
    <3>7. QED
      BY <3>5, <3>6
  <2>3. CASE WalkFreed(c)
    <3>1. known' = known /\ h' = h /\ ras[c] \in Unreported
      BY <2>3 DEF WalkFreed
    <3>2. CASE UNCHANGED ras
      BY <3>1, <3>2, LinesUnchanged
    <3>3. ASSUME NEW matched, NEW s \in Reported(c, matched), ras' = [ras EXCEPT ![c] = s]
          PROVE  Abstract!Next
      <4>1. \A d \in Handles : StateOf(d)' \in {StateOf(d), "down"}
        BY <2>1, <3>1, <3>3
      <4>2. QED
        BY <3>1, <4>1, Ends DEF Holders
    <3>4. QED
      BY <2>3, <3>2, <3>3 DEF WalkFreed
  <2>4. CASE Update(c) \/ UpdateFreed(c)
    BY <2>4, LinesUnchanged DEF Update, UpdateFreed
  <2>5. QED
    BY <1>6, <2>2, <2>3, <2>4 DEF RasThread
<1>7. CASE UNCHANGED vars
  BY <1>7, LinesUnchanged DEF vars
<1>8. QED
  BY <1>1, <1>2, <1>3, <1>4, <1>5, <1>6, <1>7 DEF Next

\* The dialer implements Lines.
THEOREM DialerImplementsLines == Spec => ImplementsLines
<1>1. QED
  BY LinesInit, LinesNext, TypeCorrect, SessionInvariant, PTL
     DEF Spec, ImplementsLines, Abstract!Spec

\* A line that is up, and whose handle a host of m_HostList stores, is stored
\* until it is not up any more or the whole list is rebuilt.
THEOREM UpLinesAlwaysRemembered == Spec => Abstract!UpLinesRemembered
<1>1. [Abstract!Next]_(Abstract!vars)
        => [\A c \in Handles :
              lineState[c] = "up" /\ lineState'[c] = "up" /\ ~(lineOwner[c] \subseteq lineOwner'[c])
                => \A d \in Handles : lineOwner'[d] = {}]_(Abstract!vars)
  <2> SUFFICES ASSUME Abstract!Next, NEW c \in Handles,
                      lineState[c] = "up", lineState'[c] = "up",
                      ~(lineOwner[c] \subseteq lineOwner'[c])
               PROVE  \A d \in Handles : lineOwner'[d] = {}
    OBVIOUS
  <2>1. ~Abstract!End
    BY DEF Abstract!End
  <2>2. ASSUME NEW d \in Handles PROVE ~Abstract!Forget(d)
    BY DEF Abstract!Forget, Abstract!Others
  <2>3. ASSUME NEW d \in Handles, NEW i \in Ids, Abstract!Dial(i, d) PROVE FALSE
    BY <2>3 DEF Abstract!Dial, lineOwner
  <2>4. Abstract!Abandon
    BY <2>1, <2>2, <2>3 DEF Abstract!Next
  <2>5. QED
    BY <2>4 DEF Abstract!Abandon
<1>2. QED
  BY <1>1, DialerImplementsLines, PTL
     DEF ImplementsLines, Abstract!Spec, Abstract!UpLinesRemembered
=============================================================================
