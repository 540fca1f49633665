------------------------------- MODULE Timers -------------------------------
(***************************************************************************)
(* The timers of CPaintManagerUI: each control numbers its timers itself,  *)
(* m_aTimers maps them to the ids of window timers, which are counted      *)
(* modulo Wrap.  Starting a window timer whose id is in use restarts it    *)
(* (Windows); a tick goes to the first running entry with its id.          *)
(***************************************************************************)
EXTENDS Naturals, Sequences

CONSTANTS
  Controls,   \* CControlUI objects
  LocalIds,   \* the ids a control uses for its timers
  Wrap,       \* 0xF0
  FirstId,    \* m_uTimerID after the constructor: 0x1000
  MaxTimers   \* bound: entries of m_aTimers

\* The ids above Wrap that are used for something else: the caret's timer.
kCaretTimerID == Wrap + 1

\* What is taken for granted of the constants.
ConstantsAssumption ==
  /\ Wrap \in Nat \ {0}
  /\ FirstId \in Nat
  /\ MaxTimers \in Nat

VARIABLES
  m_aTimers,
  m_uTimerID,
  windowTimers,  \* ids of the timers Windows runs for the window
  alive,         \* the controls that have not been destroyed
  shared         \* history: an id was given out while an entry had it

vars == <<m_aTimers, m_uTimerID, windowTimers, alive, shared>>

Entry == [pSender : Controls, nLocalID : LocalIds, uWinTimer : 0..(Wrap - 1),
          bKilled : BOOLEAN]

TypeOK ==
  /\ m_aTimers \in Seq(Entry)
  /\ m_uTimerID \in 0..(Wrap - 1) \cup {FirstId}
  /\ windowTimers \subseteq 0..(Wrap - 1)
  /\ alive \subseteq Controls
  /\ shared \in BOOLEAN

Init ==
  /\ m_aTimers = <<>>
  /\ m_uTimerID = FirstId
  /\ windowTimers = {}
  /\ alive = Controls
  /\ shared = FALSE

Indices == DOMAIN m_aTimers
IsEntry(k, c, n) == m_aTimers[k].pSender = c /\ m_aTimers[k].nLocalID = n
Running(k) == ~m_aTimers[k].bKilled

NextId(id) == (id + 1) % Wrap

\* Mutant of Restart: the entry of the same control, whatever its local id.
RestartAny(c, n) ==
  \E k \in Indices :
    /\ m_aTimers[k].pSender = c /\ ~Running(k)
    /\ m_aTimers' = [m_aTimers EXCEPT ![k].bKilled = FALSE]
    /\ windowTimers' = windowTimers \cup {m_uTimerID}
    /\ UNCHANGED <<m_uTimerID, alive, shared>>

\* SetTimer of a timer that was killed: it runs again under its old id.
Restart(c, n) ==
  \E k \in Indices :
    /\ IsEntry(k, c, n) /\ ~Running(k)
    /\ m_aTimers' = [m_aTimers EXCEPT ![k].bKilled = FALSE]
    /\ windowTimers' = windowTimers \cup {m_aTimers[k].uWinTimer}
    /\ UNCHANGED <<m_uTimerID, alive, shared>>

\* SetTimer of a timer the control has not used yet.  The counter moves even if
\* Windows has no timer left.
Start(c, n) ==
  LET id == NextId(m_uTimerID)
  IN /\ \A k \in Indices : ~IsEntry(k, c, n)
     /\ m_uTimerID' = id
     /\ \/ UNCHANGED <<m_aTimers, windowTimers, shared>>
        \/ /\ Len(m_aTimers) < MaxTimers
           /\ m_aTimers' = Append(m_aTimers, [pSender |-> c, nLocalID |-> n,
                                              uWinTimer |-> id, bKilled |-> FALSE])
           /\ windowTimers' = windowTimers \cup {id}
           /\ shared' = (shared \/ \E k \in Indices : m_aTimers[k].uWinTimer = id)
     /\ UNCHANGED alive

SetTimer(c, n) == Restart(c, n) \/ Start(c, n)

KillTimer(c, n) ==
  \E k \in Indices :
    /\ IsEntry(k, c, n) /\ Running(k)
    /\ windowTimers' = windowTimers \ {m_aTimers[k].uWinTimer}
    /\ m_aTimers' = [m_aTimers EXCEPT ![k].bKilled = TRUE]
    /\ UNCHANGED <<m_uTimerID, alive, shared>>

\* What the loop of KillTimer(pControl) leaves of the entries.
OthersThan(c) ==
  LET rest[i \in 0..Len(m_aTimers)] ==
        IF i = 0 THEN <<>>
        ELSE IF m_aTimers[i].pSender = c THEN rest[i - 1]
        ELSE Append(rest[i - 1], m_aTimers[i])
  IN rest[Len(m_aTimers)]

\* A control is destroyed: KillTimer(pControl) removes all its entries.
ReapObjects(c) ==
  /\ alive' = alive \ {c}
  /\ windowTimers' = windowTimers
       \ {m_aTimers[k].uWinTimer :
            k \in {j \in Indices : m_aTimers[j].pSender = c /\ Running(j)}}
  /\ m_aTimers' = OthersThan(c)
  /\ UNCHANGED <<m_uTimerID, shared>>

Next ==
  \E c \in alive : \/ ReapObjects(c)
                   \/ \E n \in LocalIds : SetTimer(c, n) \/ KillTimer(c, n)

Spec == Init /\ [][Next]_vars

-----------------------------------------------------------------------------
(* Properties.                                                             *)

\* WM_TIMER with this id: the entries Event may go to, the first one running.
TicksTo(id) ==
  {k \in Indices :
     /\ m_aTimers[k].uWinTimer = id /\ Running(k)
     /\ \A j \in Indices : j < k => m_aTimers[j].uWinTimer # id \/ ~Running(j)}

\* No tick and no entry is left of a control that was destroyed, also after the
\* ids have wrapped around and two entries share a window timer.
NoTickAfterDeath ==
  /\ \A k \in Indices : m_aTimers[k].pSender \in alive
  /\ \A id \in windowTimers : TicksTo(id) # {}

\* As long as no id was given out a second time while it was in use, each
\* timer that runs has a window timer of its own, whose ticks come to it.
OwnTicks ==
  ~shared => \A k \in Indices :
               Running(k) => /\ m_aTimers[k].uWinTimer \in windowTimers
                             /\ TicksTo(m_aTimers[k].uWinTimer) = {k}

\* The comment of SetTimer (line 1645): ids from 0xF1 on have other uses.  The
\* caret's timer is never taken by a control.
CaretTimerIsFree == \A k \in Indices : m_aTimers[k].uWinTimer # kCaretTimerID
=============================================================================
