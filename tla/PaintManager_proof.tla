------------------------- MODULE PaintManager_proof -------------------------
(* For any controls, names, depth of calls, length of the queue and number *)
(* of message boxes: the only deleted controls that a pointer or a call in *)
(* progress is left with are those that the loop of a message box deleted  *)
(* while a call had them in hand.                                          *)
EXTENDS PaintManager, SequenceTheorems, TLAPS

\* Pointers to a control that is not deleted, or was deleted in a caller's hand, or to none.
Live == {p \in Pointer : p # NULL => life[p] # "deleted" \/ p \in pulled}

\* Calls on such a pointer.
LiveCalls ==
  [what : {"event"}, on : Live \ {NULL}] \cup [what : Rests \cup {"notify"}, on : Live]

\* Whatever the manager keeps and whatever its handlers still have in hand is live.  The
\* calls have to be part of it: when they return, the pointers are set from them.
PaintInv ==
  /\ life \in [Controls -> {"new", "tree", "removed", "deleted"}]
  /\ {m_pFocus, m_pEventHover, m_pEventClick, m_pEventKey} \subseteq Live
  /\ m_mNameHash \in [Names -> Live]
  /\ m_aAsyncNotify \in Seq(Live)
  /\ calls \in Seq(LiveCalls)

-----------------------------------------------------------------------------

\* A sequence over a set is one over any larger set.
LEMMA LargerSeq ==
  ASSUME NEW S, NEW T, S \subseteq T, NEW s \in Seq(S)
  PROVE  s \in Seq(T)
<1>1. Len(s) \in Nat /\ s \in [1..Len(s) -> S]
  BY LenProperties
<1>2. s \in [1..Len(s) -> T]
  BY <1>1
<1> QED  BY <1>1, <1>2, SeqDef

\* The lists of calls the handlers make.
LEMMA ShortSeqs ==
  ASSUME NEW S
  PROVE  /\ <<>> \in Seq(S)
         /\ \A a \in S : <<a>> \in Seq(S)
         /\ \A a, b \in S : <<a, b>> \in Seq(S)
         /\ \A a, b, c \in S : <<a, b, c>> \in Seq(S)
  OBVIOUS

\* A call on a live pointer is a live call.
LEMMA CallIsLive ==
  /\ \A c \in Live \ {NULL} : Call("event", c) \in LiveCalls
  /\ \A c \in Live, what \in Rests \cup {"notify"} :
       Call(what, c) \in LiveCalls
  BY DEF Call, LiveCalls

\* The call of Event of a pointer that may be NULL.
LEMMA EventIfIsLive ==
  ASSUME NEW c \in Live
  PROVE  EventIf(c) \in Seq(LiveCalls)
<1>1. CASE c = NULL
  BY <1>1, ShortSeqs DEF EventIf
<1>2. CASE c # NULL
  BY <1>2, ShortSeqs, CallIsLive DEF EventIf
<1> QED  BY <1>1, <1>2

\* The running call has a live pointer.
LEMMA RunningIsLive ==
  ASSUME PaintInv, calls # <<>>
  PROVE  On \in Live
<1>1. Len(calls) \in DOMAIN calls
  BY EmptySeq, LenProperties DEF PaintInv
<1>2. calls[Len(calls)] \in LiveCalls
  BY <1>1, ElementOfSeq, LenProperties DEF PaintInv
<1> QED  BY <1>2 DEF LiveCalls, On

\* When it returns after more live calls, all calls are live.
LEMMA ReturnKeepsLive ==
  ASSUME PaintInv, calls # <<>>, NEW s \in Seq(LiveCalls), ReturnsTo(s)
  PROVE  calls' \in Seq(LiveCalls)
<1>1. Len(calls) \in Nat \ {0}
  BY EmptySeq, LenProperties DEF PaintInv
<1>2. Callers \in Seq(LiveCalls)
  BY <1>1, SubSeqProperties DEF PaintInv, Callers
<1> QED  BY <1>2, ConcatProperties DEF ReturnsTo

\* A step that deletes no control and adds only live calls keeps live what was.
LEMMA LiveStays ==
  ASSUME PaintInv, \A c \in Controls : life'[c] = "deleted" => life[c] = "deleted",
         pulled' = pulled
  PROVE  Live \subseteq Live' /\ LiveCalls \subseteq LiveCalls'
<1>1. Live \subseteq Live'
  BY DEF Live, Pointer
<1>2. LiveCalls \subseteq LiveCalls'
  BY <1>1 DEF LiveCalls
<1> QED  BY <1>1, <1>2

\* Without a change of life, live means the same.
LEMMA SameLife ==
  ASSUME life' = life, pulled' = pulled
  PROVE  Live' = Live /\ LiveCalls' = LiveCalls
  BY DEF Live, LiveCalls

\* Controls of the tree are live.
LEMMA TreeIsLive == NULL \in Live /\ Tree \subseteq Live \ {NULL}
  BY NullAssumption DEF Live, Tree, Pointer

-----------------------------------------------------------------------------

\* Before the first message there are no calls, and only names of the tree.
LEMMA PaintInvInit == Init => PaintInv
<1> SUFFICES ASSUME Init PROVE PaintInv
  OBVIOUS
<1>1. life \in [Controls -> {"new", "tree", "removed", "deleted"}]
  BY DEF Init
<1>2. m_mNameHash \in [Names -> Live]
  <2> SUFFICES ASSUME NEW n \in Names
               PROVE  (IF \E c \in Tree : NameOf[c] = n
                       THEN CHOOSE c \in Tree : NameOf[c] = n ELSE NULL) \in Live
    BY DEF Init
  <2>1. CASE \E c \in Tree : NameOf[c] = n
    BY <2>1, TreeIsLive
  <2>2. CASE ~ \E c \in Tree : NameOf[c] = n
    BY <2>2, TreeIsLive
  <2> QED  BY <2>1, <2>2
<1>3. m_aAsyncNotify \in Seq(Live) /\ calls \in Seq(LiveCalls)
  BY ShortSeqs DEF Init
<1> QED  BY <1>1, <1>2, <1>3, TreeIsLive DEF Init, PaintInv

\* A message from the loop calls controls of the tree or what the pointers point to.
LEMMA PaintInvMessage ==
  ASSUME PaintInv, Message
  PROVE  PaintInv'
<1> DEFINE Ls == Seq(LiveCalls)
<1>1. ASSUME NEW s \in Ls, Dispatch(s), life' = life,
             m_mNameHash' = m_mNameHash, m_aAsyncNotify' = m_aAsyncNotify,
             {m_pFocus', m_pEventHover', m_pEventClick', m_pEventKey'} \subseteq Live
      PROVE  PaintInv'
  BY <1>1, SameLife DEF Dispatch, PaintInv
<1>2. {m_pFocus, m_pEventHover, m_pEventClick, m_pEventKey} \subseteq Live
  BY DEF PaintInv
<1>3. ASSUME NEW c \in Controls, WM_LBUTTONDOWN(c) PROVE PaintInv'
  <2>1. c \in Live \ {NULL}
    BY <1>3, TreeIsLive DEF WM_LBUTTONDOWN
  <2>2. <<Call("event", c), Call("setFocus", c)>> \in Ls
    BY <2>1, ShortSeqs, CallIsLive DEF Rests
  <2> QED  BY <1>1, <1>2, <1>3, <2>1, <2>2 DEF WM_LBUTTONDOWN
<1>4. ASSUME NEW c \in Controls, WM_LBUTTONDBLCLK(c) PROVE PaintInv'
  <2>1. c \in Live \ {NULL}
    BY <1>4, TreeIsLive DEF WM_LBUTTONDBLCLK
  <2>2. <<Call("setClick", c), Call("event", c)>> \in Ls
    BY <2>1, ShortSeqs, CallIsLive DEF Rests
  <2> QED  BY <1>1, <1>2, <1>4, <2>2 DEF WM_LBUTTONDBLCLK, pointers
<1>5. ASSUME NEW c \in Controls, WM_RBUTTONDOWN(c) PROVE PaintInv'
  <2>1. c \in Live \ {NULL}
    BY <1>5, TreeIsLive DEF WM_RBUTTONDOWN
  <2>2. <<Call("setClick", c), Call("event", c), Call("setFocus", c)>> \in Ls
    BY <2>1, ShortSeqs, CallIsLive DEF Rests
  <2> QED  BY <1>1, <1>2, <1>5, <2>2 DEF WM_RBUTTONDOWN, pointers
<1>6. ASSUME NEW c \in Controls, WM_MOUSEWHEEL(c) PROVE PaintInv'
  <2>1. <<Call("event", c)>> \in Ls
    BY <1>6, TreeIsLive, ShortSeqs, CallIsLive DEF WM_MOUSEWHEEL
  <2> QED  BY <1>1, <1>2, <1>6, <2>1 DEF WM_MOUSEWHEEL, pointers
<1>7. ASSUME NEW c \in Pointer, WM_MOUSEMOVE(c) PROVE PaintInv'
  <2>1. c \in Live
    BY <1>7, TreeIsLive DEF WM_MOUSEMOVE
  <2>2. <<Call("move", c), Call("enter", c), Call("leave", c)>> \in Ls
    BY <2>1, ShortSeqs, CallIsLive DEF Rests
  <2> QED  BY <1>1, <1>2, <1>7, <2>2 DEF WM_MOUSEMOVE, pointers
<1>8. CASE WM_LBUTTONUP
  <2>1. <<Call("clearClick", NULL), Call("event", m_pEventClick)>> \in Ls
    BY <1>2, <1>8, TreeIsLive, ShortSeqs, CallIsLive DEF WM_LBUTTONUP, Rests
  <2> QED  BY <1>1, <1>2, <1>8, <2>1 DEF WM_LBUTTONUP, pointers
<1>9. CASE WM_KEYDOWN
  <2>1. <<Call("setKey", NULL), Call("event", m_pFocus)>> \in Ls
    BY <1>2, <1>9, TreeIsLive, ShortSeqs, CallIsLive DEF WM_KEYDOWN, Rests
  <2> QED  BY <1>1, <1>2, <1>9, <2>1 DEF WM_KEYDOWN, pointers
<1>10. CASE WM_KEYUP
  <2>1. <<Call("clearKey", NULL), Call("event", m_pEventKey)>> \in Ls
    BY <1>2, <1>10, TreeIsLive, ShortSeqs, CallIsLive DEF WM_KEYUP, Rests
  <2> QED  BY <1>1, <1>2, <1>10, <2>1 DEF WM_KEYUP, pointers
<1>11. CASE WM_CHAR
  <2>1. <<Call("event", m_pFocus)>> \in Ls
    BY <1>2, <1>11, ShortSeqs, CallIsLive DEF WM_CHAR
  <2> QED  BY <1>1, <1>2, <1>11, <2>1 DEF WM_CHAR, pointers
<1>12. CASE WM_CLOSE
  <2>1. <<Call("setFocus", NULL), Call("eventClick", NULL)>> \in Ls
    BY TreeIsLive, ShortSeqs, CallIsLive DEF Rests
  <2>2. EventIf(m_pEventHover) \in Ls
    BY <1>2, EventIfIsLive
  <2>3. <<Call("setFocus", NULL), Call("eventClick", NULL)>> \o EventIf(m_pEventHover) \in Ls
    BY <2>1, <2>2, ConcatProperties
  <2> QED  BY <1>1, <1>2, <1>12, <2>3 DEF WM_CLOSE, pointers
<1> QED
  BY <1>3, <1>4, <1>5, <1>6, <1>7, <1>8, <1>9, <1>10, <1>11, <1>12 DEF Message

\* The destructors take the controls out of everything the manager keeps; what a call has in
\* hand is deleted only in the loop of a message box, and then counts as pulled.
LEMMA PaintInvCleanup ==
  ASSUME PaintInv, DelayedCleanup
  PROVE  PaintInv'
<1>1. calls' = calls /\ pulled' = pulled \cup {c \in Removed : InHand(c)}
  BY DEF DelayedCleanup
<1> DEFINE Kept(p) == IF p \in Removed THEN NULL ELSE p
<1>2. life' = [c \in Controls |-> IF c \in Removed THEN "deleted" ELSE life[c]]
  BY DEF DelayedCleanup
<1>3. \A p \in Live : Kept(p) \in Live'
  BY <1>1, <1>2, NullAssumption DEF Live, Pointer, Removed
<1>4. {m_pFocus', m_pEventHover', m_pEventClick', m_pEventKey'} \subseteq Live'
  BY <1>3 DEF PaintInv, DelayedCleanup, ReapObjects
<1>5. m_mNameHash' \in [Names -> Live']
  BY <1>3 DEF PaintInv, DelayedCleanup, ReapObjects
<1>6. m_aAsyncNotify' \in Seq(Live')
  BY ShortSeqs DEF PaintInv, DelayedCleanup, ReapObjects
<1>7. calls' \in Seq(LiveCalls')
  <2>1. Len(calls) \in Nat /\ calls \in [1..Len(calls) -> LiveCalls] /\ DOMAIN calls = 1..Len(calls)
    BY LenProperties DEF PaintInv
  <2>2. ASSUME NEW k \in 1..Len(calls) PROVE calls[k] \in LiveCalls'
    <3>1. calls[k] \in LiveCalls
      BY <2>1
    <3>2. calls[k].on \in Live /\ InHand(calls[k].on)
      BY <2>1, <3>1 DEF LiveCalls, InHand
    <3>3. calls[k].on \in Live'
      BY <1>1, <1>2, <3>2 DEF Live, Pointer, Removed
    <3>4. CASE calls[k] \in [what : {"event"}, on : Live \ {NULL}]
      <4>1. calls[k] \in [what : {"event"}, on : Live' \ {NULL}]
        BY <3>3, <3>4
      <4> QED  BY <4>1 DEF LiveCalls
    <3>5. CASE calls[k] \in [what : Rests \cup {"notify"}, on : Live]
      <4>1. calls[k] \in [what : Rests \cup {"notify"}, on : Live']
        BY <3>3, <3>5
      <4> QED  BY <4>1 DEF LiveCalls
    <3> QED  BY <3>1, <3>4, <3>5 DEF LiveCalls
  <2>3. calls \in [1..Len(calls) -> LiveCalls']
    BY <2>1, <2>2
  <2> QED  BY <1>1, <2>1, <2>3, SeqDef
<1>8. life' \in [Controls -> {"new", "tree", "removed", "deleted"}]
  BY <1>2 DEF PaintInv
<1> QED  BY <1>4, <1>5, <1>6, <1>7, <1>8 DEF PaintInv

\* The sender of a queued notification is live when it is delivered.
LEMMA PaintInvNotify ==
  ASSUME PaintInv, DeliverNotify
  PROVE  PaintInv'
<1> DEFINE sender == Head(m_aAsyncNotify)
           more == <<Call("notify", sender)>>
                     \o IF sender = NULL THEN <<>> ELSE <<Call("notify", sender)>>
<1>1. sender \in Live /\ Tail(m_aAsyncNotify) \in Seq(Live)
  BY HeadTailProperties DEF PaintInv, DeliverNotify
<1>2. <<Call("notify", sender)>> \in Seq(LiveCalls) /\ <<>> \in Seq(LiveCalls)
  BY <1>1, ShortSeqs, CallIsLive
<1>3. more \in Seq(LiveCalls)
  BY <1>2, ConcatProperties
<1>4. calls' = calls \o more
  BY DEF DeliverNotify
<1> HIDE DEF more
<1>5. calls' \in Seq(LiveCalls)
  BY <1>3, <1>4, ConcatProperties DEF PaintInv
<1>6. m_aAsyncNotify' \in Seq(Live)
  BY <1>1 DEF DeliverNotify
<1> HIDE DEF sender
<1> QED  BY <1>5, <1>6, SameLife DEF DeliverNotify, PaintInv, pointers

\* The rest of a handler sets pointers from its own call and makes calls on pointers.
LEMMA PaintInvContinue ==
  ASSUME PaintInv, Continue
  PROVE  PaintInv'
<1> DEFINE Ls == Seq(LiveCalls)
<1>1. ASSUME NEW s \in Ls, calls # <<>>, ReturnsTo(s), life' = life,
             m_mNameHash' = m_mNameHash, m_aAsyncNotify' = m_aAsyncNotify,
             {m_pFocus', m_pEventHover', m_pEventClick', m_pEventKey'} \subseteq Live
      PROVE  PaintInv'
  <2>1. calls' \in Ls
    BY <1>1, ReturnKeepsLive
  <2> QED  BY <1>1, <2>1, SameLife DEF PaintInv, ReturnsTo
<1>2. {m_pFocus, m_pEventHover, m_pEventClick, m_pEventKey, NULL} \subseteq Live
  BY TreeIsLive DEF PaintInv
<1>3. calls # <<>> => On \in Live
  BY RunningIsLive
<1>4. <<>> \in Ls
  BY ShortSeqs
<1>5. CASE SetFocus
  <2>1. calls # <<>> /\ On \in Live
    BY <1>3, <1>5 DEF SetFocus, Running
  <2>2. <<Call("focusKilled", On)>> \in Ls /\ EventIf(m_pFocus) \in Ls
    BY <1>2, <2>1, ShortSeqs, CallIsLive, EventIfIsLive DEF Rests
  <2>3. <<Call("focusKilled", On)>> \o EventIf(m_pFocus) \in Ls
    BY <2>2, ConcatProperties
  <2> QED  BY <1>1, <1>2, <1>4, <1>5, <2>1, <2>3 DEF SetFocus, pointers
<1>6. CASE FocusKilled
  <2>1. calls # <<>> /\ On \in Live
    BY <1>3, <1>6 DEF FocusKilled, Running
  <2>2. CASE m_pFocus' = NULL /\ ReturnsTo(<<>>)
    BY <1>1, <1>2, <1>4, <1>6, <2>1, <2>2 DEF FocusKilled
  <2>3. CASE On # NULL /\ m_pFocus' = On /\ ReturnsTo(<<Call("event", On)>>)
    <3>1. <<Call("event", On)>> \in Ls
      BY <2>1, <2>3, ShortSeqs, CallIsLive
    <3> QED  BY <1>1, <1>2, <1>6, <2>1, <2>3, <3>1 DEF FocusKilled
  <2> QED  BY <1>6, <2>2, <2>3 DEF FocusKilled
<1>7. CASE EventClick
  <2>1. calls # <<>>
    BY <1>7 DEF EventClick, Running
  <2>2. EventIf(m_pEventClick) \in Ls
    BY <1>2, EventIfIsLive
  <2> QED  BY <1>1, <1>2, <1>7, <2>1, <2>2 DEF EventClick, pointers
<1>8. CASE AfterClick
  <2>1. calls # <<>> /\ On \in Live
    BY <1>3, <1>8 DEF AfterClick, Running
  <2> QED  BY <1>1, <1>2, <1>4, <1>8, <2>1 DEF AfterClick
<1>9. CASE AfterKey
  <2>1. calls # <<>>
    BY <1>9 DEF AfterKey, Running
  <2>2. m_pEventKey' \in Live
    BY <1>2, <1>9 DEF AfterKey
  <2> QED  BY <1>1, <1>2, <1>4, <1>9, <2>1, <2>2 DEF AfterKey
<1>10. CASE MouseMoves
  <2>1. calls # <<>> /\ On \in Live
    BY <1>3, <1>10 DEF MouseMoves, Running
  <2>2. ASSUME m_pEventHover # NULL
        PROVE  <<Call("clearHover", NULL), Call("event", m_pEventHover)>> \in Ls
    BY <1>2, <2>2, ShortSeqs, CallIsLive DEF Rests
  <2>3. ASSUME On # NULL
        PROVE  <<Call("setHover", On), Call("event", On)>> \in Ls
    BY <2>1, <2>3, ShortSeqs, CallIsLive DEF Rests
  <2>4. EventIf(m_pEventClick) \in Ls /\ EventIf(On) \in Ls
    BY <1>2, <2>1, EventIfIsLive
  <2>5. \E s \in Ls : ReturnsTo(s)
    <3>1. CASE ReturnsTo(IF On # m_pEventHover /\ m_pEventHover # NULL
                         THEN <<Call("clearHover", NULL), Call("event", m_pEventHover)>>
                         ELSE <<>>)
      BY <1>4, <2>2, <3>1
    <3>2. CASE ReturnsTo(IF On # m_pEventHover /\ On # NULL
                         THEN <<Call("setHover", On), Call("event", On)>> ELSE <<>>)
      BY <1>4, <2>3, <3>2
    <3>3. CASE ReturnsTo(EventIf(IF m_pEventClick # NULL THEN m_pEventClick ELSE On))
      BY <2>4, <3>3
    <3> QED  BY <1>10, <3>1, <3>2, <3>3 DEF MouseMoves
  <2> QED  BY <1>1, <1>2, <1>10, <2>1, <2>5 DEF MouseMoves, pointers
<1>11. CASE AfterHover
  <2>1. calls # <<>> /\ On \in Live
    BY <1>3, <1>11 DEF AfterHover, Running
  <2> QED  BY <1>1, <1>2, <1>4, <1>11, <2>1 DEF AfterHover
<1>12. CASE AttachDialog
  <2>1. PICK S \in SUBSET {c \in Controls : life[c] = "new"} :
          /\ life' = [c \in Controls |->
                       IF c \in Tree THEN "removed" ELSE IF c \in S THEN "tree" ELSE life[c]]
          /\ m_mNameHash' = [n \in Names |->
                              IF \E c \in S : NameOf[c] = n
                              THEN CHOOSE c \in S : NameOf[c] = n ELSE m_mNameHash[n]]
    BY <1>12 DEF AttachDialog
  <2>2. \A c \in Controls : life'[c] = "deleted" => life[c] = "deleted"
    BY <2>1 DEF PaintInv
  <2>3. Live \subseteq Live' /\ LiveCalls \subseteq LiveCalls'
    <3>1. pulled' = pulled
      BY <1>12 DEF AttachDialog, ReturnsTo
    <3> QED  BY <2>2, <3>1, LiveStays
  <2>4. S \subseteq Live
    BY DEF Live, Pointer
  <2>5. m_mNameHash' \in [Names -> Live]
    <3>1. ASSUME NEW n \in Names
          PROVE  (IF \E c \in S : NameOf[c] = n
                  THEN CHOOSE c \in S : NameOf[c] = n ELSE m_mNameHash[n]) \in Live
      BY <2>4 DEF PaintInv
    <3> QED  BY <2>1, <3>1
  <2>6. calls' \in Ls
    BY <1>4, <1>12, ReturnKeepsLive DEF AttachDialog, Running
  <2>7. calls' \in Seq(LiveCalls') /\ m_aAsyncNotify' \in Seq(Live')
    BY <1>12, <2>3, <2>6, LargerSeq DEF AttachDialog, PaintInv
  <2>8. m_mNameHash' \in [Names -> Live']
    BY <2>3, <2>5
  <2>9. {m_pFocus', m_pEventHover', m_pEventClick', m_pEventKey'} \subseteq Live'
    BY <1>2, <1>12, <2>3 DEF AttachDialog
  <2>10. life' \in [Controls -> {"new", "tree", "removed", "deleted"}]
    BY <2>1 DEF PaintInv
  <2> QED  BY <2>7, <2>8, <2>9, <2>10 DEF PaintInv
<1> QED
  BY <1>5, <1>6, <1>7, <1>8, <1>9, <1>10, <1>11, <1>12 DEF Continue

\* The application removes and adds controls without deleting any, and calls on live ones.
LEMMA PaintInvApplication ==
  ASSUME PaintInv, Application \/ Return
  PROVE  PaintInv'
<1> DEFINE Ls == Seq(LiveCalls)
<1>1. ASSUME NEW s \in Ls, Calls(s) PROVE PaintInv'
  <2>1. calls' \in Ls
    BY <1>1, ConcatProperties DEF Calls, PaintInv
  <2> QED  BY <1>1, <2>1, SameLife DEF Calls, PaintInv, pointers
<1>2. ASSUME \A c \in Controls : life'[c] = "deleted" => life[c] = "deleted",
             life' \in [Controls -> {"new", "tree", "removed", "deleted"}],
             m_mNameHash' \in [Names -> Live],
             UNCHANGED <<pointers, m_aAsyncNotify, calls, pulled>>
      PROVE  PaintInv'
  <2>1. Live \subseteq Live' /\ LiveCalls \subseteq LiveCalls'
    BY <1>2, LiveStays
  <2>2. calls' \in Seq(LiveCalls') /\ m_aAsyncNotify' \in Seq(Live')
    BY <1>2, <2>1, LargerSeq DEF PaintInv
  <2>3. m_mNameHash' \in [Names -> Live']
    BY <1>2, <2>1
  <2>4. {m_pFocus', m_pEventHover', m_pEventClick', m_pEventKey'} \subseteq Live'
    BY <1>2, <2>1 DEF PaintInv, pointers
  <2> QED  BY <1>2, <2>2, <2>3, <2>4 DEF PaintInv
<1>3. ASSUME NEW c \in Controls, RemoveControl(c) PROVE PaintInv'
  <2>1. life' = [life EXCEPT ![c] = "removed"]
    BY <1>3 DEF RemoveControl
  <2> QED  BY <1>2, <1>3, <2>1 DEF RemoveControl, PaintInv
<1>4. ASSUME NEW c \in Controls, AddControl(c) PROVE PaintInv'
  <2>1. life' = [life EXCEPT ![c] = "tree"] /\ life[c] = "new"
    BY <1>4 DEF AddControl
  <2>2. c \in Live
    BY <2>1 DEF Live, Pointer
  <2>3. m_mNameHash' \in [Names -> Live]
    BY <1>4, <2>2 DEF AddControl, PaintInv
  <2> QED  BY <1>2, <1>4, <2>1, <2>3 DEF AddControl, PaintInv
<1>5. ASSUME NEW c \in Controls, SendNotifyAsync(c) PROVE PaintInv'
  <2>1. c \in Live
    BY <1>5, TreeIsLive DEF SendNotifyAsync
  <2>2. m_aAsyncNotify' \in Seq(Live)
    BY <1>5, <2>1, AppendProperties DEF SendNotifyAsync, PaintInv
  <2> QED  BY <1>5, <2>2, SameLife DEF SendNotifyAsync, PaintInv, pointers
<1>6. ASSUME NEW c \in Pointer, CallSetFocus(c) PROVE PaintInv'
  <2>1. <<Call("setFocus", c)>> \in Ls
    BY <1>6, TreeIsLive, ShortSeqs, CallIsLive DEF CallSetFocus, Rests
  <2> QED  BY <1>1, <1>6, <2>1 DEF CallSetFocus
<1>7. CASE CallAttachDialog
  <2>1. <<Call("attach", NULL), Call("setFocus", NULL)>> \in Ls
    BY TreeIsLive, ShortSeqs, CallIsLive DEF Rests
  <2> QED  BY <1>1, <1>7, <2>1 DEF CallAttachDialog
<1>8. CASE CallMessageBox
  <2>1. <<Call("modal", NULL)>> \in Ls
    BY TreeIsLive, ShortSeqs, CallIsLive DEF Rests
  <2> QED  BY <1>1, <1>8, <2>1 DEF CallMessageBox
<1>9. CASE Return
  <2>1. calls # <<>> /\ ReturnsTo(<<>>)
    BY <1>9 DEF Return, InApplication, Running
  <2>2. calls' \in Ls
    BY <2>1, ShortSeqs, ReturnKeepsLive
  <2> QED  BY <1>9, <2>2, SameLife DEF Return, ReturnsTo, PaintInv, pointers
<1> QED
  BY <1>3, <1>4, <1>5, <1>6, <1>7, <1>8, <1>9 DEF Application

\* The invariant holds in every behaviour.
LEMMA PaintInvAlways == Spec => []PaintInv
<1>1. PaintInv /\ [Next]_vars => PaintInv'
  <2> SUFFICES ASSUME PaintInv, [Next]_vars PROVE PaintInv'
    OBVIOUS
  <2>1. CASE UNCHANGED vars
    BY <2>1, SameLife DEF vars, pointers, PaintInv
  <2> QED
    BY <2>1, PaintInvMessage, PaintInvCleanup, PaintInvNotify, PaintInvContinue,
       PaintInvApplication DEF Next
<1> QED  BY <1>1, PaintInvInit, PTL DEF Spec

\* No pointer, name or queued notification outlives its control, however deep the calls and
\* however many message boxes, unless a box's loop deleted it in the hand of a handler.
THEOREM PointersNeverStale == Spec => []NoStalePointer
<1>1. PaintInv => NoStalePointer
  <2> SUFFICES ASSUME PaintInv PROVE NoStalePointer
    OBVIOUS
  <2>1. \A k \in DOMAIN m_aAsyncNotify : m_aAsyncNotify[k] \in Live
    BY ElementOfSeq, LenProperties DEF PaintInv
  <2> QED  BY <2>1 DEF PaintInv, NoStalePointer, Live
<1> QED  BY <1>1, PaintInvAlways, PTL

\* No call in progress works on a deleted control but one that a box's loop deleted under a
\* call: what AttachDialog delays the cleanup for holds against everything else.
THEOREM CallersAlwaysKeepControls == Spec => []CallersKeepControls
<1>1. PaintInv => CallersKeepControls
  <2> SUFFICES ASSUME PaintInv, NEW c \in Controls, NEW k \in DOMAIN calls, calls[k].on = c
               PROVE  life[c] # "deleted" \/ c \in pulled
    BY DEF CallersKeepControls, InHand
  <2>1. calls[k] \in LiveCalls
    BY ElementOfSeq, LenProperties DEF PaintInv
  <2>2. c # NULL
    BY NullAssumption
  <2> QED  BY <2>1, <2>2 DEF LiveCalls, Live
<1> QED  BY <1>1, PaintInvAlways, PTL

-----------------------------------------------------------------------------

\* The controls of the tree are found, and no two of them share a name.
NamesInv ==
  /\ life \in [Controls -> {"new", "tree", "removed", "deleted"}]
  /\ m_mNameHash \in [Names -> Pointer]
  /\ NamesFound

\* The cleanup takes a name out of the hash only where it still stands for a control that
\* is deleted, and a control of the tree is not.
LEMMA NamesInvCleanup ==
  ASSUME NamesInv, DelayedCleanup
  PROVE  NamesInv'
<1>1. life' = [c \in Controls |-> IF c \in Removed THEN "deleted" ELSE life[c]]
  BY DEF DelayedCleanup
<1>2. m_mNameHash' = [n \in Names |-> IF m_mNameHash[n] \in Removed THEN NULL
                                       ELSE m_mNameHash[n]]
  BY DEF DelayedCleanup, ReapObjects
<1>3. Tree' = Tree
  BY <1>1 DEF Tree, Removed
<1>4. NamesFound'
  BY <1>2, <1>3, NameOfAssumption DEF NamesInv, NamesFound, Tree, Removed
<1>5. m_mNameHash' \in [Names -> Pointer]
  BY <1>2 DEF NamesInv, Pointer
<1> QED  BY <1>1, <1>4, <1>5 DEF NamesInv

\* A new dialog gets its names although the old tree, with names of its own, is not yet
\* deleted.
LEMMA NamesInvAttach ==
  ASSUME NamesInv, AttachDialog
  PROVE  NamesInv'
<1>1. PICK S \in SUBSET {c \in Controls : life[c] = "new"} :
        /\ \A c, d \in S : NameOf[c] = NameOf[d] => c = d
        /\ life' = [c \in Controls |->
                     IF c \in Tree THEN "removed" ELSE IF c \in S THEN "tree" ELSE life[c]]
        /\ m_mNameHash' = [n \in Names |->
                            IF \E c \in S : NameOf[c] = n
                            THEN CHOOSE c \in S : NameOf[c] = n ELSE m_mNameHash[n]]
  BY DEF AttachDialog
<1>2. Tree' = S
  BY <1>1 DEF NamesInv, Tree
<1>3. \A c \in S : m_mNameHash'[NameOf[c]] = c
  <2> SUFFICES ASSUME NEW c \in S PROVE m_mNameHash'[NameOf[c]] = c
    OBVIOUS
  <2>1. NameOf[c] \in Names
    BY NameOfAssumption
  <2>2. (CHOOSE d \in S : NameOf[d] = NameOf[c]) = c
    BY <1>1
  <2> QED  BY <1>1, <2>1, <2>2
<1>4. m_mNameHash' \in [Names -> Pointer]
  <2>1. ASSUME NEW n \in Names
        PROVE  (IF \E c \in S : NameOf[c] = n
                THEN CHOOSE c \in S : NameOf[c] = n ELSE m_mNameHash[n]) \in Pointer
    BY DEF NamesInv, Pointer
  <2> QED  BY <1>1, <2>1
<1> QED  BY <1>1, <1>2, <1>3, <1>4 DEF NamesInv, NamesFound

\* Message boxes included, every control of the tree is always found under its name.
THEOREM NamesAlwaysFound == Spec => []NamesFound
<1>1. Init => NamesInv
  <2> SUFFICES ASSUME Init PROVE NamesInv
    OBVIOUS
  <2>1. \A c, d \in Tree : NameOf[c] = NameOf[d] => c = d
    BY DEF Init, Tree
  <2>2. ASSUME NEW c \in Tree PROVE m_mNameHash[NameOf[c]] = c
    <3>1. NameOf[c] \in Names
      BY NameOfAssumption DEF Tree
    <3>2. (CHOOSE d \in Tree : NameOf[d] = NameOf[c]) = c
      BY <2>1
    <3> QED  BY <3>1, <3>2 DEF Init
  <2>3. m_mNameHash \in [Names -> Pointer]
    <3>1. ASSUME NEW n \in Names
          PROVE  (IF \E c \in Tree : NameOf[c] = n
                  THEN CHOOSE c \in Tree : NameOf[c] = n ELSE NULL) \in Pointer
      BY DEF Tree, Pointer
    <3> QED  BY <3>1 DEF Init
  <2> QED  BY <2>2, <2>3 DEF Init, NamesInv, NamesFound
<1>2. NamesInv /\ [Next]_vars => NamesInv'
  <2> SUFFICES ASSUME NamesInv, [Next]_vars PROVE NamesInv'
    OBVIOUS
  <2>1. CASE life' = life /\ m_mNameHash' = m_mNameHash
    BY <2>1 DEF NamesInv, NamesFound, Tree
  <2>2. ASSUME NEW c \in Controls, RemoveControl(c) PROVE NamesInv'
    BY <2>2 DEF RemoveControl, NamesInv, NamesFound, Tree
  <2>3. ASSUME NEW c \in Controls, AddControl(c) PROVE NamesInv'
    BY <2>3, NameOfAssumption DEF AddControl, NamesInv, NamesFound, Tree, Pointer
  <2>4. Message => life' = life /\ m_mNameHash' = m_mNameHash
    BY DEF Message, WM_LBUTTONDOWN, WM_LBUTTONDBLCLK, WM_RBUTTONDOWN, WM_MOUSEWHEEL,
           WM_MOUSEMOVE, WM_LBUTTONUP, WM_KEYDOWN, WM_KEYUP, WM_CHAR, WM_CLOSE
  <2>5. Continue => AttachDialog \/ (life' = life /\ m_mNameHash' = m_mNameHash)
    BY DEF Continue, SetFocus, FocusKilled, EventClick, AfterClick, AfterKey, MouseMoves,
           AfterHover
  <2>6. Application =>
          \/ \E c \in Controls : RemoveControl(c) \/ AddControl(c)
          \/ life' = life /\ m_mNameHash' = m_mNameHash
    BY DEF Application, SendNotifyAsync, CallSetFocus, CallAttachDialog, CallMessageBox, Calls
  <2>7. UNCHANGED vars \/ DeliverNotify \/ Return => life' = life /\ m_mNameHash' = m_mNameHash
    BY DEF vars, DeliverNotify, Return
  <2> QED
    BY <2>1, <2>2, <2>3, <2>4, <2>5, <2>6, <2>7, NamesInvCleanup, NamesInvAttach DEF Next
<1>3. NamesInv => NamesFound
  BY DEF NamesInv
<1> QED  BY <1>1, <1>2, <1>3, PTL DEF Spec
-----------------------------------------------------------------------------
(* The types, message boxes included.                                      *)

Kinds == IF MaxModal = 0 THEN Rests \ {"modal"} ELSE Rests

TypedCalls ==
  [what : {"event"}, on : Controls] \cup [what : Kinds \cup {"notify"}, on : Pointer]

Typed == {m_pFocus, m_pEventHover, m_pEventClick, m_pEventKey} \subseteq Pointer

\* Where no message box can open, none is among the calls and nothing is pulled.
Pulls == IF MaxModal = 0 THEN {{}} ELSE SUBSET Controls

TypeInv ==
  /\ life \in [Controls -> {"new", "tree", "removed", "deleted"}]
  /\ Typed /\ m_mNameHash \in [Names -> Pointer]
  /\ m_aAsyncNotify \in Seq(Pointer) /\ calls \in Seq(TypedCalls)
  /\ pulled \in Pulls

\* Calls of the application's code are on a control, the others may have none.
LEMMA CallIsTyped ==
  /\ \A c \in Controls : Call("event", c) \in TypedCalls
  /\ \A c \in Pointer, what \in Kinds \cup {"notify"} : Call(what, c) \in TypedCalls
  /\ \A c \in Pointer : EventIf(c) \in Seq(TypedCalls)
<1>1. \A c \in Controls : Call("event", c) \in TypedCalls
  BY DEF Call, TypedCalls
<1>2. \A c \in Pointer, what \in Kinds \cup {"notify"} : Call(what, c) \in TypedCalls
  BY DEF Call, TypedCalls
<1>3. ASSUME NEW c \in Pointer PROVE EventIf(c) \in Seq(TypedCalls)
  <2>1. CASE c = NULL
    BY <2>1, ShortSeqs DEF EventIf
  <2>2. CASE c # NULL
    <3>1. Call("event", c) \in TypedCalls
      BY <1>1, <2>2 DEF Pointer
    <3> QED BY <2>2, <3>1, ShortSeqs DEF EventIf
  <2> QED BY <2>1, <2>2
<1> QED BY <1>1, <1>2, <1>3

\* A handler runs on a pointer and returns to calls of the same kinds.
LEMMA RunningIsTyped ==
  ASSUME TypeInv, calls # <<>>
  PROVE  On \in Pointer /\ Callers \in Seq(TypedCalls)
<1>1. Len(calls) \in Nat \ {0} /\ calls \in Seq(TypedCalls)
  BY EmptySeq, LenProperties DEF TypeInv
<1>2. calls[Len(calls)] \in TypedCalls
  BY <1>1, ElementOfSeq
<1>3. Callers \in Seq(TypedCalls)
  BY <1>1, SubSeqProperties DEF Callers
<1> QED BY <1>2, <1>3 DEF On, TypedCalls, Pointer

\* The handlers keep the types whatever they call.
LEMMA HandlersTyped ==
  ASSUME TypeInv, Message \/ Continue \/ DeliverNotify
  PROVE  TypeInv'
<1> DEFINE Ls == Seq(TypedCalls)
           Kept == UNCHANGED <<life, m_mNameHash, m_aAsyncNotify>>
<1>0. /\ TypeInv <=> /\ life \in [Controls -> {"new", "tree", "removed", "deleted"}]
                    /\ Typed /\ m_mNameHash \in [Names -> Pointer]
                    /\ m_aAsyncNotify \in Seq(Pointer) /\ calls \in Ls
                    /\ pulled \in Pulls
      /\ TypeInv' <=> /\ life' \in [Controls -> {"new", "tree", "removed", "deleted"}]
                     /\ Typed' /\ m_mNameHash' \in [Names -> Pointer]
                     /\ m_aAsyncNotify' \in Seq(Pointer) /\ calls' \in Ls
                     /\ pulled' \in Pulls
  BY DEF TypeInv
<1>1. /\ m_pFocus \in Pointer /\ m_pEventHover \in Pointer /\ m_pEventClick \in Pointer
      /\ m_pEventKey \in Pointer /\ NULL \in Pointer /\ Controls \subseteq Pointer
  BY <1>0 DEF Typed, Pointer
<1>2. ASSUME NEW s \in Ls, Dispatch(s), Kept, Typed' PROVE TypeInv'
  BY <1>0, <1>2 DEF Dispatch
<1>3. ASSUME NEW s \in Ls, calls # <<>>, ReturnsTo(s), Kept, Typed' PROVE TypeInv'
  <2>1. calls' \in Ls
    BY <1>3, RunningIsTyped, ConcatProperties DEF ReturnsTo
  <2> QED BY <1>0, <1>3, <2>1 DEF ReturnsTo
<1>4. <<>> \in Ls
  BY ShortSeqs
<1>5. ASSUME NEW c \in Controls,
             WM_LBUTTONDOWN(c) \/ WM_LBUTTONDBLCLK(c) \/ WM_RBUTTONDOWN(c) \/ WM_MOUSEWHEEL(c)
      PROVE  TypeInv'
  <2>1. /\ Call("event", c) \in TypedCalls /\ Call("setFocus", c) \in TypedCalls
        /\ Call("setClick", c) \in TypedCalls
    BY <1>1, CallIsTyped DEF Kinds, Rests
  <2>2. \E s \in Ls : Dispatch(s)
    BY <1>5, <2>1, ShortSeqs
       DEF WM_LBUTTONDOWN, WM_LBUTTONDBLCLK, WM_RBUTTONDOWN, WM_MOUSEWHEEL
  <2>3. Kept /\ Typed'
    BY <1>1, <1>5
       DEF WM_LBUTTONDOWN, WM_LBUTTONDBLCLK, WM_RBUTTONDOWN, WM_MOUSEWHEEL, pointers, Typed
  <2> QED BY <1>2, <2>2, <2>3
<1>6. ASSUME NEW c \in Pointer, WM_MOUSEMOVE(c) PROVE TypeInv'
  <2>1. <<Call("move", c), Call("enter", c), Call("leave", c)>> \in Ls
    BY CallIsTyped, ShortSeqs DEF Kinds, Rests
  <2>2. Kept /\ Typed'
    BY <1>1, <1>6 DEF WM_MOUSEMOVE, pointers, Typed
  <2> QED BY <1>2, <1>6, <2>1, <2>2 DEF WM_MOUSEMOVE
<1>7. CASE WM_LBUTTONUP \/ WM_KEYDOWN \/ WM_KEYUP \/ WM_CHAR
  <2>1. /\ m_pEventClick # NULL => Call("event", m_pEventClick) \in TypedCalls
        /\ m_pFocus # NULL => Call("event", m_pFocus) \in TypedCalls
        /\ m_pEventKey # NULL => Call("event", m_pEventKey) \in TypedCalls
    BY <1>1, CallIsTyped DEF Pointer
  <2>2. /\ Call("clearClick", NULL) \in TypedCalls /\ Call("setKey", NULL) \in TypedCalls
        /\ Call("clearKey", NULL) \in TypedCalls
    BY <1>1, CallIsTyped DEF Kinds, Rests
  <2>3. \E s \in Ls : Dispatch(s)
    BY <1>7, <2>1, <2>2, ShortSeqs DEF WM_LBUTTONUP, WM_KEYDOWN, WM_KEYUP, WM_CHAR
  <2>4. Kept /\ Typed'
    BY <1>1, <1>7 DEF WM_LBUTTONUP, WM_KEYDOWN, WM_KEYUP, WM_CHAR, pointers, Typed
  <2> QED BY <1>2, <2>3, <2>4
<1>8. CASE WM_CLOSE
  <2>1. <<Call("setFocus", NULL), Call("eventClick", NULL)>> \in Ls
    BY <1>1, CallIsTyped, ShortSeqs DEF Kinds, Rests
  <2>2. EventIf(m_pEventHover) \in Ls
    BY <1>1, CallIsTyped
  <2>3. <<Call("setFocus", NULL), Call("eventClick", NULL)>> \o EventIf(m_pEventHover) \in Ls
    BY <2>1, <2>2, ConcatProperties
  <2>4. Kept /\ Typed'
    BY <1>1, <1>8 DEF WM_CLOSE, pointers, Typed
  <2> QED BY <1>2, <1>8, <2>3, <2>4 DEF WM_CLOSE
<1>9. CASE DeliverNotify
  <2> DEFINE sender == Head(m_aAsyncNotify)
             one == <<Call("notify", sender)>>
             more == IF sender = NULL THEN <<>> ELSE one
  <2>1. sender \in Pointer /\ Tail(m_aAsyncNotify) \in Seq(Pointer)
    BY <1>0, <1>9, HeadTailProperties DEF DeliverNotify
  <2>2. one \in Ls
    BY <2>1, CallIsTyped, ShortSeqs
  <2>3. more \in Ls
    BY <1>4, <2>2
  <2>4. calls' = calls \o one \o more
    BY <1>9 DEF DeliverNotify
  <2> HIDE DEF one, more
  <2>5. calls' \in Ls
    BY <1>0, <2>2, <2>3, <2>4, ConcatProperties
  <2>6. m_aAsyncNotify' \in Seq(Pointer)
    BY <1>9, <2>1 DEF DeliverNotify
  <2>7. UNCHANGED <<life, m_mNameHash, pulled>> /\ Typed'
    BY <1>1, <1>9 DEF DeliverNotify, pointers, Typed
  <2> HIDE DEF sender
  <2> QED BY <1>0, <2>5, <2>6, <2>7
<1>10. CASE Continue
  <2>1. calls # <<>>
    BY <1>10 DEF Continue, SetFocus, FocusKilled, EventClick, AfterClick, AfterKey,
         MouseMoves, AfterHover, AttachDialog, Running
  <2>2. On \in Pointer /\ (On # NULL => On \in Controls)
    BY <2>1, RunningIsTyped DEF Pointer
  <2>3. CASE SetFocus
    <3>1. <<Call("focusKilled", On)>> \in Ls /\ EventIf(m_pFocus) \in Ls
      BY <1>1, <2>2, CallIsTyped, ShortSeqs DEF Kinds, Rests
    <3>2. <<Call("focusKilled", On)>> \o EventIf(m_pFocus) \in Ls
      BY <3>1, ConcatProperties
    <3>3. \E s \in Ls : ReturnsTo(s)
      BY <1>4, <2>3, <3>2 DEF SetFocus
    <3>4. Kept /\ Typed'
      BY <1>1, <2>3 DEF SetFocus, pointers, Typed
    <3> QED BY <1>3, <2>1, <3>3, <3>4
  <2>4. CASE FocusKilled
    <3>1. On # NULL => <<Call("event", On)>> \in Ls
      BY <2>2, CallIsTyped, ShortSeqs
    <3>2. \E s \in Ls : ReturnsTo(s)
      BY <1>4, <2>4, <3>1 DEF FocusKilled
    <3>3. Kept /\ Typed'
      BY <1>1, <2>2, <2>4 DEF FocusKilled, Typed
    <3> QED BY <1>3, <2>1, <3>2, <3>3
  <2>5. CASE EventClick
    <3>1. EventIf(m_pEventClick) \in Ls /\ ReturnsTo(EventIf(m_pEventClick))
      BY <1>1, <2>5, CallIsTyped DEF EventClick
    <3>2. Kept /\ Typed'
      BY <1>1, <2>5 DEF EventClick, pointers, Typed
    <3> QED BY <1>3, <2>1, <3>1, <3>2
  <2>6. CASE AfterClick \/ AfterKey \/ AfterHover
    <3>1. ReturnsTo(<<>>) /\ Kept
      BY <2>6 DEF AfterClick, AfterKey, AfterHover
    <3>2. Typed'
      BY <1>1, <2>2, <2>6 DEF AfterClick, AfterKey, AfterHover, Typed
    <3> QED BY <1>3, <1>4, <2>1, <3>1, <3>2
  <2>7. CASE MouseMoves
    <3>1. /\ m_pEventHover # NULL =>
               <<Call("clearHover", NULL), Call("event", m_pEventHover)>> \in Ls
          /\ On # NULL => <<Call("setHover", On), Call("event", On)>> \in Ls
      <4>1. Call("clearHover", NULL) \in TypedCalls /\ Call("setHover", On) \in TypedCalls
        BY <1>1, <2>2, CallIsTyped DEF Kinds, Rests
      <4>2. /\ m_pEventHover # NULL => Call("event", m_pEventHover) \in TypedCalls
            /\ On # NULL => Call("event", On) \in TypedCalls
        BY <1>1, <2>2, CallIsTyped DEF Pointer
      <4> QED BY <4>1, <4>2, ShortSeqs
    <3>2. EventIf(IF m_pEventClick # NULL THEN m_pEventClick ELSE On) \in Ls
      BY <1>1, <2>2, CallIsTyped
    <3>3. \E s \in Ls : ReturnsTo(s)
      <4>1. CASE ReturnsTo(IF On # m_pEventHover /\ m_pEventHover # NULL
                           THEN <<Call("clearHover", NULL), Call("event", m_pEventHover)>>
                           ELSE <<>>)
        BY <1>4, <3>1, <4>1
      <4>2. CASE ReturnsTo(IF On # m_pEventHover /\ On # NULL
                           THEN <<Call("setHover", On), Call("event", On)>> ELSE <<>>)
        BY <1>4, <3>1, <4>2
      <4>3. CASE ReturnsTo(EventIf(IF m_pEventClick # NULL THEN m_pEventClick ELSE On))
        BY <3>2, <4>3
      <4> QED BY <2>7, <4>1, <4>2, <4>3 DEF MouseMoves
    <3>4. Kept /\ Typed'
      BY <1>1, <2>7 DEF MouseMoves, pointers, Typed
    <3> QED BY <1>3, <2>1, <3>3, <3>4
  <2>8. CASE AttachDialog
    <3>1. PICK S \in SUBSET {c \in Controls : life[c] = "new"} :
            /\ life' = [c \in Controls |->
                         IF c \in Tree THEN "removed" ELSE IF c \in S THEN "tree" ELSE life[c]]
            /\ m_mNameHash' = [n \in Names |->
                                IF \E c \in S : NameOf[c] = n
                                THEN CHOOSE c \in S : NameOf[c] = n ELSE m_mNameHash[n]]
      BY <2>8 DEF AttachDialog
    <3>2. life' \in [Controls -> {"new", "tree", "removed", "deleted"}]
      BY <1>0, <3>1
    <3>3. m_mNameHash' \in [Names -> Pointer]
      <4>1. ASSUME NEW n \in Names
            PROVE  (IF \E c \in S : NameOf[c] = n
                    THEN CHOOSE c \in S : NameOf[c] = n ELSE m_mNameHash[n]) \in Pointer
        BY <1>0, <1>1
      <4> QED BY <3>1, <4>1
    <3>4. ReturnsTo(<<>>) /\ m_aAsyncNotify' = m_aAsyncNotify /\ Typed'
      BY <1>1, <2>8 DEF AttachDialog, Typed
    <3>5. calls' \in Ls
      BY <1>4, <2>1, <3>4, RunningIsTyped, ConcatProperties DEF ReturnsTo
    <3> QED BY <1>0, <3>2, <3>3, <3>4, <3>5 DEF ReturnsTo
  <2> QED BY <1>10, <2>3, <2>4, <2>5, <2>6, <2>7, <2>8 DEF Continue
<1> QED BY <1>5, <1>6, <1>7, <1>8, <1>9, <1>10 DEF Message

\* So do the cleanup and the application.
LEMMA OthersTyped ==
  ASSUME TypeInv, DelayedCleanup \/ Application \/ Return
  PROVE  TypeInv'
<1> DEFINE Ls == Seq(TypedCalls)
<1>0. /\ TypeInv <=> /\ life \in [Controls -> {"new", "tree", "removed", "deleted"}]
                    /\ Typed /\ m_mNameHash \in [Names -> Pointer]
                    /\ m_aAsyncNotify \in Seq(Pointer) /\ calls \in Ls
                    /\ pulled \in Pulls
      /\ TypeInv' <=> /\ life' \in [Controls -> {"new", "tree", "removed", "deleted"}]
                     /\ Typed' /\ m_mNameHash' \in [Names -> Pointer]
                     /\ m_aAsyncNotify' \in Seq(Pointer) /\ calls' \in Ls
                     /\ pulled' \in Pulls
  BY DEF TypeInv
<1>1. NULL \in Pointer /\ Controls \subseteq Pointer
  BY DEF Pointer
<1>2. CASE DelayedCleanup
  <2> DEFINE Kept(p) == IF p \in Removed THEN NULL ELSE p
  <2>1. \A p \in Pointer : Kept(p) \in Pointer
    BY <1>1
  <2>2. life' = [c \in Controls |-> IF c \in Removed THEN "deleted" ELSE life[c]]
    BY <1>2 DEF DelayedCleanup
  <2>3. life' \in [Controls -> {"new", "tree", "removed", "deleted"}]
    BY <1>0, <2>2
  <2>4. Typed' /\ m_mNameHash' \in [Names -> Pointer]
    BY <1>0, <1>2, <2>1 DEF DelayedCleanup, ReapObjects, Typed
  <2>5. m_aAsyncNotify' = m_aAsyncNotify
    BY <1>2 DEF DelayedCleanup, ReapObjects
  <2>6. calls' = calls /\ pulled' = pulled \cup {c \in Removed : InHand(c)}
    BY <1>2 DEF DelayedCleanup
  <2>7. pulled' \in Pulls
    <3>1. CASE MaxModal # 0
      BY <1>0, <2>6, <3>1 DEF Pulls, Removed
    <3>2. CASE MaxModal = 0
      <4>1. calls = <<>>
        <5>1. calls # <<>> => calls[Len(calls)] \in TypedCalls
          BY <1>0, EmptySeq, LenProperties, ElementOfSeq
        <5>2. \A x \in TypedCalls : x.what # "modal"
          BY <3>2 DEF TypedCalls, Kinds
        <5> QED BY <1>2, <5>1, <5>2 DEF DelayedCleanup, AtLoop, Running
      <4>2. \A c \in Controls : ~InHand(c)
        BY <4>1 DEF InHand
      <4> QED BY <1>0, <2>6, <4>2 DEF Pulls, Removed
    <3> QED BY <3>1, <3>2
  <2> QED BY <1>0, <2>3, <2>4, <2>5, <2>6, <2>7
<1>3. ASSUME NEW s \in Ls, Calls(s) PROVE TypeInv'
  <2>1. calls' \in Ls
    BY <1>0, <1>3, ConcatProperties DEF Calls
  <2> QED BY <1>0, <1>3, <2>1 DEF Calls, pointers, Typed
<1>4. ASSUME NEW c \in Controls, RemoveControl(c) PROVE TypeInv'
  BY <1>0, <1>4 DEF RemoveControl, pointers, Typed
<1>5. ASSUME NEW c \in Controls, AddControl(c) PROVE TypeInv'
  BY <1>0, <1>1, <1>5 DEF AddControl, pointers, Typed
<1>6. ASSUME NEW c \in Controls, SendNotifyAsync(c) PROVE TypeInv'
  <2>1. m_aAsyncNotify' \in Seq(Pointer)
    BY <1>0, <1>1, <1>6, AppendProperties DEF SendNotifyAsync
  <2> QED BY <1>0, <1>6, <2>1 DEF SendNotifyAsync, pointers, Typed
<1>7. ASSUME NEW c \in Pointer, CallSetFocus(c) PROVE TypeInv'
  <2>1. <<Call("setFocus", c)>> \in Ls
    BY CallIsTyped, ShortSeqs DEF Kinds, Rests
  <2> QED BY <1>3, <1>7, <2>1 DEF CallSetFocus
<1>8. CASE CallAttachDialog \/ CallMessageBox
  <2>1. <<Call("attach", NULL), Call("setFocus", NULL)>> \in Ls
    BY <1>1, CallIsTyped, ShortSeqs DEF Kinds, Rests
  <2>2. CallMessageBox => MaxModal # 0
    BY BoundAssumption DEF CallMessageBox
  <2>3. MaxModal # 0 => <<Call("modal", NULL)>> \in Ls
    BY <1>1, CallIsTyped, ShortSeqs DEF Kinds, Rests
  <2> QED BY <1>3, <1>8, <2>1, <2>2, <2>3 DEF CallAttachDialog, CallMessageBox
<1>9. CASE Return
  <2>1. calls # <<>> /\ calls' = Callers \o <<>>
    BY <1>9 DEF Return, InApplication, Running, ReturnsTo
  <2>2. calls' \in Ls
    BY <2>1, RunningIsTyped, ShortSeqs, ConcatProperties
  <2> QED BY <1>0, <1>9, <2>2 DEF Return, ReturnsTo, pointers, Typed
<1> QED BY <1>2, <1>4, <1>5, <1>6, <1>7, <1>8, <1>9 DEF Application

\* The stronger types hold in every behaviour.
LEMMA TypeInvAlways == Spec => []TypeInv
<1>1. Init => TypeInv
  <2> SUFFICES ASSUME Init PROVE TypeInv
    OBVIOUS
  <2>1. m_mNameHash \in [Names -> Pointer]
    <3>1. ASSUME NEW n \in Names
          PROVE  (IF \E c \in Tree : NameOf[c] = n
                  THEN CHOOSE c \in Tree : NameOf[c] = n ELSE NULL) \in Pointer
      BY DEF Tree, Pointer
    <3> QED BY <3>1 DEF Init
  <2> QED BY <2>1, ShortSeqs DEF Init, TypeInv, Typed, Pulls, Pointer
<1>2. TypeInv /\ [Next]_vars => TypeInv'
  <2> SUFFICES ASSUME TypeInv, [Next]_vars PROVE TypeInv'
    OBVIOUS
  <2>1. CASE UNCHANGED vars
    BY <2>1 DEF vars, pointers, TypeInv, Typed
  <2> QED BY <2>1, HandlersTyped, OthersTyped DEF Next
<1> QED BY <1>1, <1>2, PTL DEF Spec

\* UIManager.cpp: pointers, names, queue and handlers keep their types also where message
\* boxes run inside events: Event is never called on NULL.
THEOREM TypeCorrect == Spec => []TypeOK
<1>1. TypeInv => TypeOK
  <2> SUFFICES ASSUME TypeInv PROVE TypeOK
    OBVIOUS
  <2>1. calls \in Seq([what : {"event"}, on : Controls]
                        \cup [what : Rests \cup {"notify"}, on : Pointer])
    <3>1. TypedCalls \subseteq [what : {"event"}, on : Controls]
                               \cup [what : Rests \cup {"notify"}, on : Pointer]
      BY DEF TypedCalls, Kinds
    <3> QED BY <3>1, LenProperties DEF TypeInv
  <2> QED BY <2>1 DEF TypeInv, Typed, TypeOK, Pulls
<1> QED BY <1>1, TypeInvAlways, PTL

\* UIManager.cpp 793-797: what the delay of the cleanup is for fails in a message box only.
\* Where the application opens none inside an event, no control is deleted while a call in
\* progress has it in hand, and the two theorems above hold without their exception.
THEOREM NothingPulledWithoutBox ==
  ASSUME MaxModal = 0
  PROVE  Spec => [](pulled = {})
<1>1. TypeInv => pulled = {}
  BY DEF TypeInv, Pulls
<1> QED BY <1>1, TypeInvAlways, PTL
=============================================================================
