---------------------------- MODULE PaintManager ----------------------------
(***************************************************************************)
(* CPaintManagerUI of DuiLib: the pointers it keeps to controls, and the   *)
(* life of the controls they point to.  A control that is removed from the *)
(* tree is deleted later, by the message WM_APP + 1; the handlers of mouse *)
(* and keyboard call Event of a control in their middle, and the code of   *)
(* the application that runs there may remove controls, the one being      *)
(* called included, move the focus, queue notifications, attach another    *)
(* dialog or open a message box with its own message loop.                 *)
(*                                                                         *)
(* The call stack of the UI thread is a sequence of calls: the last one is *)
(* running, the others are what its callers do when it returns.            *)
(***************************************************************************)
EXTENDS Naturals, Sequences

CONSTANTS
  Controls,  \* controls that exist at some time
  Names,
  NameOf,    \* the name of each control
  NULL,
  MaxCalls,  \* bound: length of the stack on which the application calls
  MaxQueue,  \* bound: notifications queued
  MaxModal   \* bound: message boxes open at a time

ASSUME NameOfAssumption == NameOf \in [Controls -> Names]
ASSUME NullAssumption == NULL \notin Controls
ASSUME BoundAssumption == MaxCalls \in Nat /\ MaxQueue \in Nat /\ MaxModal \in Nat

VARIABLES
  life,      \* of each control: "new", "tree", "removed" or "deleted"
  m_pFocus,
  m_pEventHover,
  m_pEventClick,
  m_pEventKey,
  m_mNameHash,
  m_aAsyncNotify,  \* senders of the notifications queued
  calls,
  pulled     \* history: controls deleted while a call in progress had them in
             \* hand, which takes a message box inside an event

pointers == <<m_pFocus, m_pEventHover, m_pEventClick, m_pEventKey>>
vars == <<life, pointers, m_mNameHash, m_aAsyncNotify, calls, pulled>>

Pointer == Controls \cup {NULL}
Call(what, c) == [what |-> what, on |-> c]

\* "event" is Event of a control, "notify" is OnNotify or Notify; both run code of
\* the application.  The others are the rest of a handler after a call returned.
Rests == {"setFocus", "focusKilled", "eventClick", "setClick",
         "clearClick", "setKey", "clearKey", "leave", "clearHover", "enter",
          "setHover", "move", "attach", "modal"}

TypeOK ==
  /\ life \in [Controls -> {"new", "tree", "removed", "deleted"}]
  /\ {m_pFocus, m_pEventHover, m_pEventClick, m_pEventKey} \subseteq Pointer
  /\ m_mNameHash \in [Names -> Pointer]
  /\ m_aAsyncNotify \in Seq(Pointer)
  /\ calls \in Seq([what : {"event"}, on : Controls]
                     \cup [what : Rests \cup {"notify"}, on : Pointer])
  /\ pulled \subseteq Controls

Tree == {c \in Controls : life[c] = "tree"}
\* m_aDelayedCleanup
Removed == {c \in Controls : life[c] = "removed"}

\* The dialog is attached and no message has come yet.
Init ==
  /\ \E S \in SUBSET Controls :
       /\ \A c, d \in S : NameOf[c] = NameOf[d] => c = d
       /\ life = [c \in Controls |-> IF c \in S THEN "tree" ELSE "new"]
  /\ m_pFocus = NULL /\ m_pEventHover = NULL
  /\ m_pEventClick = NULL /\ m_pEventKey = NULL
  /\ m_mNameHash = [n \in Names |->
                     IF \E c \in Tree : NameOf[c] = n
                     THEN CHOOSE c \in Tree : NameOf[c] = n ELSE NULL]
  /\ m_aAsyncNotify = <<>>
  /\ calls = <<>>
  /\ pulled = {}

Running(what) == calls # <<>> /\ calls[Len(calls)].what = what
On == calls[Len(calls)].on
Callers == SubSeq(calls, 1, Len(calls) - 1)
InHand(c) == \E k \in DOMAIN calls : calls[k].on = c
\* The running call returns, after it made these calls, the last one first.
ReturnsTo(s) == calls' = Callers \o s /\ UNCHANGED pulled
EventIf(c) == IF c = NULL THEN <<>> ELSE <<Call("event", c)>>

-----------------------------------------------------------------------------
(* Messages.  A message box has disabled the window: only its own posted   *)
(* message and the queue are served then.                                  *)

AtLoop == calls = <<>> \/ Running("modal")

\* MessageHandler first empties the queue, then handles the message.
Dispatch(s) ==
  /\ calls = <<>> /\ m_aAsyncNotify = <<>>
  /\ calls' = s
  /\ UNCHANGED pulled

WM_LBUTTONDOWN(c) ==
  /\ c \in Tree
  /\ Dispatch(<<Call("event", c), Call("setFocus", c)>>)
  /\ m_pEventClick' = c
  /\ UNCHANGED <<life, m_pFocus, m_pEventHover, m_pEventKey, m_mNameHash,
                 m_aAsyncNotify>>

WM_LBUTTONDBLCLK(c) ==
  /\ c \in Tree
  /\ Dispatch(<<Call("setClick", c), Call("event", c)>>)
  /\ UNCHANGED <<life, pointers, m_mNameHash, m_aAsyncNotify>>

WM_RBUTTONDOWN(c) ==
  /\ c \in Tree
  /\ Dispatch(<<Call("setClick", c), Call("event", c), Call("setFocus", c)>>)
  /\ UNCHANGED <<life, pointers, m_mNameHash, m_aAsyncNotify>>

\* Mutant of WM_LBUTTONUP: nothing tells that no button was down.
WM_LBUTTONUP_Unchecked ==
  /\ Dispatch(<<Call("clearClick", NULL), Call("event", m_pEventClick)>>)
  /\ UNCHANGED <<life, pointers, m_mNameHash, m_aAsyncNotify>>

\* WM_LBUTTONUP and WM_CONTEXTMENU.
WM_LBUTTONUP ==
  /\ m_pEventClick # NULL
  /\ Dispatch(<<Call("clearClick", NULL), Call("event", m_pEventClick)>>)
  /\ UNCHANGED <<life, pointers, m_mNameHash, m_aAsyncNotify>>

WM_MOUSEMOVE(c) ==
  /\ c \in Tree \cup {NULL}
  /\ Dispatch(<<Call("move", c), Call("enter", c), Call("leave", c)>>)
  /\ UNCHANGED <<life, pointers, m_mNameHash, m_aAsyncNotify>>

\* The WM_MOUSEMOVE it sends afterwards is one of those above.
WM_MOUSEWHEEL(c) ==
  /\ c \in Tree
  /\ Dispatch(<<Call("event", c)>>)
  /\ UNCHANGED <<life, pointers, m_mNameHash, m_aAsyncNotify>>

WM_KEYDOWN ==
  /\ m_pFocus # NULL
  /\ Dispatch(<<Call("setKey", NULL), Call("event", m_pFocus)>>)
  /\ UNCHANGED <<life, pointers, m_mNameHash, m_aAsyncNotify>>

WM_KEYUP ==
  /\ m_pEventKey # NULL
  /\ Dispatch(<<Call("clearKey", NULL), Call("event", m_pEventKey)>>)
  /\ UNCHANGED <<life, pointers, m_mNameHash, m_aAsyncNotify>>

\* WM_CHAR and WM_SIZE.
WM_CHAR ==
  /\ m_pFocus # NULL
  /\ Dispatch(<<Call("event", m_pFocus)>>)
  /\ UNCHANGED <<life, pointers, m_mNameHash, m_aAsyncNotify>>

WM_CLOSE ==
  /\ Dispatch(<<Call("setFocus", NULL), Call("eventClick", NULL)>>
                \o EventIf(m_pEventHover))
  /\ UNCHANGED <<life, pointers, m_mNameHash, m_aAsyncNotify>>

\* Mutant of ReapObjects: the pointer of the key that is down is forgotten.
ReapObjectsButKey(gone) ==
  LET Kept(p) == IF p \in gone THEN NULL ELSE p
  IN /\ m_pFocus' = Kept(m_pFocus)
     /\ m_pEventHover' = Kept(m_pEventHover)
     /\ m_pEventClick' = Kept(m_pEventClick)
     /\ UNCHANGED m_pEventKey
     /\ m_mNameHash' = [n \in Names |-> Kept(m_mNameHash[n])]
     /\ m_aAsyncNotify' = [k \in DOMAIN m_aAsyncNotify |-> Kept(m_aAsyncNotify[k])]

\* Mutant of ReapObjects: the name is removed whoever it stands for now.
ReapObjectsByName(gone) ==
  LET Kept(p) == IF p \in gone THEN NULL ELSE p
  IN /\ m_pFocus' = Kept(m_pFocus)
     /\ m_pEventHover' = Kept(m_pEventHover)
     /\ m_pEventClick' = Kept(m_pEventClick)
     /\ m_pEventKey' = Kept(m_pEventKey)
     /\ m_mNameHash' = [n \in Names |-> IF \E c \in gone : NameOf[c] = n THEN NULL
                                        ELSE m_mNameHash[n]]
     /\ m_aAsyncNotify' = [k \in DOMAIN m_aAsyncNotify |-> Kept(m_aAsyncNotify[k])]

\* What the destructors of these controls make the manager forget.
ReapObjects(gone) ==
  LET Kept(p) == IF p \in gone THEN NULL ELSE p
  IN /\ m_pFocus' = Kept(m_pFocus)
     /\ m_pEventHover' = Kept(m_pEventHover)
     /\ m_pEventClick' = Kept(m_pEventClick)
     /\ m_pEventKey' = Kept(m_pEventKey)
     /\ m_mNameHash' = [n \in Names |-> Kept(m_mNameHash[n])]
     /\ m_aAsyncNotify' = [k \in DOMAIN m_aAsyncNotify |-> Kept(m_aAsyncNotify[k])]

\* Mutant of DelayedCleanup: the control that has the focus is spared.
DelayedCleanupButFocus ==
  /\ AtLoop /\ m_aAsyncNotify = <<>> /\ Removed \ {m_pFocus} # {}
  /\ life' = [c \in Controls |-> IF c \in Removed \ {m_pFocus} THEN "deleted" ELSE life[c]]
  /\ ReapObjects(Removed \ {m_pFocus})
  /\ pulled' = pulled \cup {c \in Removed \ {m_pFocus} : InHand(c)}
  /\ UNCHANGED calls

\* WM_APP + 1, which AddDelayedCleanup has posted.  The loop of a message box
\* handles it too, whoever opened the box.
DelayedCleanup ==
  /\ AtLoop /\ m_aAsyncNotify = <<>> /\ Removed # {}
  /\ life' = [c \in Controls |-> IF c \in Removed THEN "deleted" ELSE life[c]]
  /\ ReapObjects(Removed)
  /\ pulled' = pulled \cup {c \in Removed : InHand(c)}
  /\ UNCHANGED calls

\* One turn of the loop at both ends of MessageHandler: OnNotify of the sender,
\* then the notifiers, which look at the sender too.
DeliverNotify ==
  /\ AtLoop /\ m_aAsyncNotify # <<>>
  /\ m_aAsyncNotify' = Tail(m_aAsyncNotify)
  /\ LET sender == Head(m_aAsyncNotify)
     IN calls' = calls \o <<Call("notify", sender)>>
                       \o IF sender = NULL THEN <<>> ELSE <<Call("notify", sender)>>
  /\ UNCHANGED <<life, pointers, m_mNameHash, pulled>>

Message ==
  \/ \E c \in Controls : \/ WM_LBUTTONDOWN(c)
                         \/ WM_LBUTTONDBLCLK(c)
                         \/ WM_RBUTTONDOWN(c)
                         \/ WM_MOUSEWHEEL(c)
  \/ \E c \in Pointer : WM_MOUSEMOVE(c)
  \/ WM_LBUTTONUP \/ WM_KEYDOWN \/ WM_KEYUP \/ WM_CHAR \/ WM_CLOSE

-----------------------------------------------------------------------------
(* The handlers after a call has returned.                                 *)

SetFocus ==
  /\ Running("setFocus")
  /\ ReturnsTo(IF On = m_pFocus THEN <<>>
               ELSE <<Call("focusKilled", On)>> \o EventIf(m_pFocus))
  /\ UNCHANGED <<life, pointers, m_mNameHash, m_aAsyncNotify>>

\* The new focus is taken if that control is visible and enabled.
FocusKilled ==
  /\ Running("focusKilled")
  /\ \/ m_pFocus' = NULL /\ ReturnsTo(<<>>)
     \/ On # NULL /\ m_pFocus' = On /\ ReturnsTo(<<Call("event", On)>>)
  /\ UNCHANGED <<life, m_pEventHover, m_pEventClick, m_pEventKey, m_mNameHash,
                 m_aAsyncNotify>>

EventClick ==
  /\ Running("eventClick")
  /\ ReturnsTo(EventIf(m_pEventClick))
  /\ UNCHANGED <<life, pointers, m_mNameHash, m_aAsyncNotify>>

AfterClick ==
  /\ Running("setClick") \/ Running("clearClick")
  /\ m_pEventClick' = On
  /\ ReturnsTo(<<>>)
  /\ UNCHANGED <<life, m_pFocus, m_pEventHover, m_pEventKey, m_mNameHash,
                 m_aAsyncNotify>>

\* WM_KEYDOWN reads the focus again after the event.
AfterKey ==
  /\ Running("setKey") \/ Running("clearKey")
  /\ m_pEventKey' = IF Running("setKey") THEN m_pFocus ELSE NULL
  /\ ReturnsTo(<<>>)
  /\ UNCHANGED <<life, m_pFocus, m_pEventHover, m_pEventClick, m_mNameHash,
                 m_aAsyncNotify>>

\* The three parts of WM_MOUSEMOVE, each looking at the pointers as they are
\* when it begins.
MouseMoves ==
  /\ \/ /\ Running("leave")
        /\ ReturnsTo(IF On # m_pEventHover /\ m_pEventHover # NULL
                     THEN <<Call("clearHover", NULL), Call("event", m_pEventHover)>>
                     ELSE <<>>)
     \/ /\ Running("enter")
        /\ ReturnsTo(IF On # m_pEventHover /\ On # NULL
                     THEN <<Call("setHover", On), Call("event", On)>> ELSE <<>>)
     \/ /\ Running("move")
        /\ ReturnsTo(EventIf(IF m_pEventClick # NULL THEN m_pEventClick ELSE On))
  /\ UNCHANGED <<life, pointers, m_mNameHash, m_aAsyncNotify>>

AfterHover ==
  /\ Running("clearHover") \/ Running("setHover")
  /\ m_pEventHover' = On
  /\ ReturnsTo(<<>>)
  /\ UNCHANGED <<life, m_pFocus, m_pEventClick, m_pEventKey, m_mNameHash,
                 m_aAsyncNotify>>

\* AttachDialog after SetFocus(NULL): the old tree waits for WM_APP + 1, the
\* new one gets its names into the hash.
AttachDialog ==
  /\ Running("attach")
  /\ m_pEventKey' = NULL /\ m_pEventHover' = NULL /\ m_pEventClick' = NULL
  /\ \E S \in SUBSET {c \in Controls : life[c] = "new"} :
       /\ \A c, d \in S : NameOf[c] = NameOf[d] => c = d
       /\ life' = [c \in Controls |->
                    IF c \in Tree THEN "removed" ELSE IF c \in S THEN "tree" ELSE life[c]]
       /\ m_mNameHash' = [n \in Names |->
                           IF \E c \in S : NameOf[c] = n
                           THEN CHOOSE c \in S : NameOf[c] = n ELSE m_mNameHash[n]]
  /\ ReturnsTo(<<>>)
  /\ UNCHANGED <<m_pFocus, m_aAsyncNotify>>

Continue ==
  \/ SetFocus \/ FocusKilled \/ EventClick \/ AfterClick \/ AfterKey
  \/ MouseMoves \/ AfterHover \/ AttachDialog

-----------------------------------------------------------------------------
(* The application, inside Event, OnNotify or Notify.  Event of a control  *)
(* that has been deleted runs on freed memory; of the outcomes, a fault    *)
(* ends everything and the other, that it still reads as before, goes on.  *)

InApplication == Running("event") \/ Running("notify")

\* Mutant of RemoveControl: the control is deleted at once.
RemoveControlNow(c) ==
  /\ InApplication /\ c \in Tree
  /\ life' = [life EXCEPT ![c] = "deleted"]
  /\ ReapObjects({c})
  /\ UNCHANGED <<calls, pulled>>

\* CContainerUI::Remove or RemoveAll with m_bDelayedDestroy.
RemoveControl(c) ==
  /\ InApplication /\ c \in Tree
  /\ life' = [life EXCEPT ![c] = "removed"]
  /\ UNCHANGED <<pointers, m_mNameHash, m_aAsyncNotify, calls, pulled>>

\* CContainerUI::Add of a control no control of the tree shares the name with.
AddControl(c) ==
  /\ InApplication /\ life[c] = "new"
  /\ \A d \in Tree : NameOf[d] # NameOf[c]
  /\ life' = [life EXCEPT ![c] = "tree"]
  /\ m_mNameHash' = [m_mNameHash EXCEPT ![NameOf[c]] = c]
  /\ UNCHANGED <<pointers, m_aAsyncNotify, calls, pulled>>

\* SendNotify with bAsync.
SendNotifyAsync(c) ==
  /\ InApplication /\ c \in Tree /\ Len(m_aAsyncNotify) < MaxQueue
  /\ m_aAsyncNotify' = Append(m_aAsyncNotify, c)
  /\ UNCHANGED <<life, pointers, m_mNameHash, calls, pulled>>

Calls(s) ==
  /\ InApplication /\ Len(calls) < MaxCalls
  /\ calls' = calls \o s
  /\ UNCHANGED <<life, pointers, m_mNameHash, m_aAsyncNotify, pulled>>

CallSetFocus(c) == c \in Tree \cup {NULL} /\ Calls(<<Call("setFocus", c)>>)
CallAttachDialog == Calls(<<Call("attach", NULL), Call("setFocus", NULL)>>)

Modals == {k \in DOMAIN calls : calls[k].what = "modal"}
CallMessageBox ==
  /\ \E n \in 1..MaxModal : \A k \in Modals : k > n
  /\ Calls(<<Call("modal", NULL)>>)

\* An event handler returns; a message box is closed.
Return ==
  /\ InApplication \/ Running("modal")
  /\ ReturnsTo(<<>>)
  /\ UNCHANGED <<life, pointers, m_mNameHash, m_aAsyncNotify>>

Application ==
  \/ \E c \in Controls : \/ RemoveControl(c)
                         \/ AddControl(c)
                         \/ SendNotifyAsync(c)
  \/ \E c \in Pointer : CallSetFocus(c)
  \/ CallAttachDialog \/ CallMessageBox

Next == Message \/ DelayedCleanup \/ DeliverNotify \/ Continue \/ Application \/ Return

Spec == Init /\ [][Next]_vars

\* Handlers run to their end, those of the application return whatever they call
\* and leave their message boxes, and GetMessage prefers a posted message to
\* input: however much input there is, WM_APP + 1 is handled.
FairSpec ==
  /\ Spec
  /\ WF_vars(Continue) /\ WF_vars(DeliverNotify)
  /\ \A k \in 1..(MaxCalls + 3) : SF_vars(Return /\ Len(calls) = k)
  /\ SF_vars(DelayedCleanup)

-----------------------------------------------------------------------------
(* Properties.                                                             *)

\* No pointer the manager keeps, to a control it will call, to the sender of a
\* queued notification or under a name, is left pointing to a deleted control:
\* unless the loop of a message box deleted it while a handler had it in hand,
\* the handlers that store a pointer after Event (lines 1165, 1220, 1260, and
\* SetFocus) included.
NoStalePointer ==
  \A p \in {m_pFocus, m_pEventHover, m_pEventClick, m_pEventKey}
             \cup {m_mNameHash[n] : n \in Names}
             \cup {m_aAsyncNotify[k] : k \in DOMAIN m_aAsyncNotify} :
    p # NULL => life[p] # "deleted" \/ p \in pulled

\* The comment of AttachDialog (lines 1435-1437): the cleanup is delayed because
\* one might be inside an event, and the memory of the calling code must stay.
\* The delay keeps every control that a call in progress still works on, but
\* those the loop of a message box inside the event has deleted.
CallersKeepControls ==
  \A c \in Controls : InHand(c) => life[c] # "deleted" \/ c \in pulled

\* Every control of the tree is found under its name, also where it replaces a
\* removed control of the same name that is deleted only afterwards.
NamesFound == \A c \in Tree : m_mNameHash[NameOf[c]] = c

\* A control taken out of the tree is deleted in the end.
RemovedIsDeleted ==
  \A c \in Controls : life[c] = "removed" ~> life[c] = "deleted"
=============================================================================
