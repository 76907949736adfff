------------------------ MODULE HotRestartQueueProofs ------------------------
(***************************************************************************)
(* Proofs about HotRestartQueue, for every set of daemons, every version   *)
(* and every bound.                                                        *)
(*                                                                         *)
(* The budget is counted against the boundaries declared when a daemon     *)
(* last took its now_ms and when it then loaded the entry: each attempt    *)
(* beyond 1 + used + spent has paid a full retry interval (BudgetOK).  An  *)
(* attempt that a boundary releases pays with the boundary, and for that   *)
(* no copy of the entry, wherever it is held, may carry a boundary later   *)
(* than a daemon's last attempt unless one was declared since that attempt *)
(* took its time (GoodBoundary, EntriesOK, LaneOK).                        *)
(***************************************************************************)
EXTENDS HotRestartQueue, TLAPS

ClockOK ==
    \A d \in Daemon :
        /\ last[d] <= now /\ used[d] <= declared /\ spent[d] <= declared
        /\ asked[d] > 0 => last[d] > 0

GoodBoundary(b) ==
    /\ b <= now
    /\ \A d \in Daemon :
        /\ b > last[d] => declared > used[d]
        /\ pc[d] \in {"load", "probe"} /\ b > frame[d].at => declared > frame[d].seen

EntriesOK ==
    /\ GoodBoundary(entry.boundary)
    /\ GoodBoundary(relay.boundary)
    /\ \A x \in Daemon : GoodBoundary(frame[x].copy.boundary)

LaneOK ==
    \A d \in Daemon :
        /\ pc[d] \in {"load", "probe"} =>
            /\ frame[d].at \in 1..now /\ frame[d].at >= last[d]
            /\ frame[d].seen <= declared
            /\ used[d] <= frame[d].seen /\ spent[d] <= frame[d].seen
        /\ pc[d] = "probe" =>
            /\ frame[d].seen <= frame[d].read /\ frame[d].read <= declared
            /\ frame[d].queued.boundary > last[d] => frame[d].read > used[d]

BudgetOK ==
    \A d \in Daemon :
        asked[d] > 1 + (used[d] + spent[d]) =>
            (asked[d] - 1 - (used[d] + spent[d])) * Interval < last[d]

WarmOK ==
    \A d \in Daemon :
        /\ d \in owing => local[d] # 0
        /\ pc[d] = "cold" => local[d] = 0

IInv == TypeOK /\ ClockOK /\ EntriesOK /\ LaneOK /\ BudgetOK /\ WarmOK

\* The initial states satisfy the invariant.
LEMMA InitIInv == Init => IInv
<1> SUFFICES ASSUME Init PROVE IInv
  OBVIOUS
<1> USE ConstantsAssumption
<1>1. TypeOK
  BY DEF Init, TypeOK, Entry, NoEntry, Frame, NoFrame, Pc
<1>2. ClockOK /\ BudgetOK /\ WarmOK /\ LaneOK
  BY DEF Init, ClockOK, BudgetOK, WarmOK, LaneOK
<1>3. EntriesOK
  BY DEF Init, EntriesOK, GoodBoundary, NoEntry, NoFrame
<1>4. QED
  BY <1>1, <1>2, <1>3 DEF IInv

\* Every step keeps the types.
LEMMA StepType ==
  ASSUME IInv, [Next]_vars
  PROVE  TypeOK'
<1> USE ConstantsAssumption

<1>1. CASE Deploy
  BY <1>1 DEF Deploy, vars, statics, hostVars, historyVars, Goto, Leave, NoFrame,
     NoEntry, Queued, At, TypeOK, Entry, Frame, Pc, IInv
<1>2. CASE Tick
  BY <1>2 DEF Tick, vars, statics, hostVars, historyVars, Goto, Leave, NoFrame,
     NoEntry, Queued, At, TypeOK, Entry, Frame, Pc, IInv
<1>3. CASE DeclareLoad
  BY <1>3 DEF DeclareLoad, vars, statics, hostVars, historyVars, Goto, Leave, NoFrame,
     NoEntry, Queued, At, TypeOK, Entry, Frame, Pc, IInv
<1>4. CASE DeclareSave
  BY <1>4 DEF DeclareSave, vars, statics, hostVars, historyVars, Goto, Leave, NoFrame,
     NoEntry, Queued, At, TypeOK, Entry, Frame, Pc, IInv
<1>5. ASSUME NEW d \in Daemon, Boot(d) PROVE TypeOK'
  BY <1>5 DEF Boot, vars, statics, hostVars, historyVars, Goto, Leave, NoFrame,
     NoEntry, Queued, At, TypeOK, Entry, Frame, Pc, IInv
<1>6. ASSUME NEW d \in Daemon, Die(d) PROVE TypeOK'
  BY <1>6 DEF Die, vars, statics, hostVars, historyVars, Goto, Leave, NoFrame, NoEntry,
     Queued, At, TypeOK, Entry, Frame, Pc, IInv
<1>7. ASSUME NEW d \in Daemon, Poll(d) PROVE TypeOK'
  BY <1>7 DEF Poll, vars, statics, hostVars, historyVars, Goto, Leave, NoFrame,
     NoEntry, Queued, At, TypeOK, Entry, Frame, Pc, IInv
<1>8. ASSUME NEW d \in Daemon, ClearSelf(d) PROVE TypeOK'
  BY <1>8 DEF ClearSelf, vars, statics, hostVars, historyVars, Goto, Leave, NoFrame,
     NoEntry, Queued, At, TypeOK, Entry, Frame, Pc, IInv
<1>9. ASSUME NEW d \in Daemon, SkipLane(d) PROVE TypeOK'
  BY <1>9 DEF SkipLane, vars, statics, hostVars, historyVars, Goto, Leave, NoFrame,
     NoEntry, Queued, At, TypeOK, Entry, Frame, Pc, IInv
<1>10. ASSUME NEW d \in Daemon, BypassLane(d) PROVE TypeOK'
  BY <1>10 DEF BypassLane, vars, statics, hostVars, historyVars, Goto, Leave, NoFrame,
     NoEntry, Queued, At, TypeOK, Entry, Frame, Pc, IInv
<1>11. ASSUME NEW d \in Daemon, StartLane(d) PROVE TypeOK'
  <2>1. [frame[d] EXCEPT !.at = now, !.seen = declared] \in Frame
    <3>1. frame[d] \in Frame /\ entry \in Entry /\ now \in 0..MaxTime /\ declared \in Nat
      BY DEF IInv, TypeOK
    <3>2. QED
      BY <3>1 DEF Frame
  <2>2. NoFrame \in Frame
    BY DEF NoFrame, NoEntry, Frame, Entry
  <2>8. frame' \in [Daemon -> Frame]
    BY <1>11, <2>1, <2>2 DEF StartLane, Leave, IInv, TypeOK
  <2>9. QED
    BY <1>11, <2>8 DEF StartLane, HigherTarget, statics, hostVars, historyVars, Goto,
       Leave, IInv, TypeOK, Pc
<1>12. ASSUME NEW d \in Daemon, LoadQueue(d) PROVE TypeOK'
  <2>1. [frame[d] EXCEPT !.queued = entry, !.read = declared] \in Frame
    <3>1. frame[d] \in Frame /\ entry \in Entry /\ declared \in Nat
      BY DEF IInv, TypeOK
    <3>2. QED
      BY <3>1 DEF Frame
  <2>2. NoFrame \in Frame
    BY DEF NoFrame, NoEntry, Frame, Entry
  <2>8. frame' \in [Daemon -> Frame]
    BY <1>12, <2>1, <2>2 DEF LoadQueue, Leave, IInv, TypeOK
  <2>9. QED
    BY <1>12, <2>8 DEF LoadQueue, HigherTarget, statics, hostVars, historyVars, Goto,
       Leave, IInv, TypeOK, Pc
<1>13. ASSUME NEW d \in Daemon, SeesSuccessor(d) PROVE TypeOK'
  BY <1>13 DEF SeesSuccessor, vars, statics, hostVars, historyVars, Goto, Leave,
     NoFrame, NoEntry, Queued, At, TypeOK, Entry, Frame, Pc, IInv
<1>14. ASSUME NEW d \in Daemon, Converge(d) PROVE TypeOK'
  BY <1>14 DEF Converge, vars, statics, hostVars, historyVars, Goto, Leave, NoFrame,
     NoEntry, Queued, At, TypeOK, Entry, Frame, Pc, IInv
<1>15. ASSUME NEW d \in Daemon, Wait(d) PROVE TypeOK'
  BY <1>15 DEF Wait, vars, statics, hostVars, historyVars, Goto, Leave, NoFrame,
     NoEntry, Queued, At, TypeOK, Entry, Frame, Pc, IInv
<1>16. ASSUME NEW d \in Daemon, BeginAttempt(d) PROVE TypeOK'
  BY <1>16 DEF BeginAttempt, vars, statics, hostVars, historyVars, Goto, Leave,
     NoFrame, NoEntry, Queued, At, TypeOK, Entry, Frame, Pc, IInv
<1>17. ASSUME NEW d \in Daemon, RecordLoad(d) PROVE TypeOK'
  <2>1. [frame[d] EXCEPT !.copy = [entry EXCEPT !.last = At(d)]] \in Frame
    <3>1. [entry EXCEPT !.last = At(d)] \in Entry
      BY DEF IInv, TypeOK, Entry, Frame, At
    <3>2. frame[d] \in Frame
      BY DEF IInv, TypeOK
    <3>3. QED
      BY <3>1, <3>2 DEF Frame
  <2>2. NoFrame \in Frame
    BY DEF NoFrame, NoEntry, Frame, Entry
  <2>8. frame' \in [Daemon -> Frame]
    BY <1>17, <2>1, <2>2 DEF RecordLoad, Leave, IInv, TypeOK
  <2>9. QED
    BY <1>17, <2>8 DEF RecordLoad, HigherTarget, statics, hostVars, historyVars, Goto,
       Leave, IInv, TypeOK, Pc
<1>18. ASSUME NEW d \in Daemon, RecordSave(d) PROVE TypeOK'
  BY <1>18 DEF RecordSave, vars, statics, hostVars, historyVars, Goto, Leave, NoFrame,
     NoEntry, Queued, At, TypeOK, Entry, Frame, Pc, IInv
<1>19. ASSUME NEW d \in Daemon, NEW target \in 0..MaxVersion, Accepted(d, target)
       PROVE  TypeOK'
  <2>1. [frame[d] EXCEPT !.copy = [target |-> target, last |-> At(d), boundary |-> 0]] \in Frame
    <3>1. [target |-> target, last |-> At(d), boundary |-> 0] \in Entry
      BY DEF IInv, TypeOK, Entry, Frame, At
    <3>2. frame[d] \in Frame
      BY DEF IInv, TypeOK
    <3>3. QED
      BY <3>1, <3>2 DEF Frame
  <2>2. NoFrame \in Frame
    BY DEF NoFrame, NoEntry, Frame, Entry
  <2>8. frame' \in [Daemon -> Frame]
    BY <1>19, <2>1, <2>2 DEF Accepted, Leave, IInv, TypeOK
  <2>9. QED
    BY <1>19, <2>8 DEF Accepted, HigherTarget, statics, hostVars, historyVars, Goto,
       Leave, IInv, TypeOK, Pc
<1>20. ASSUME NEW d \in Daemon, Refused(d) PROVE TypeOK'
  BY <1>20 DEF Refused, vars, statics, hostVars, historyVars, Goto, Leave, NoFrame,
     NoEntry, Queued, At, TypeOK, Entry, Frame, Pc, IInv
<1>21. ASSUME NEW d \in Daemon, ColdDeferred(d) PROVE TypeOK'
  BY <1>21 DEF ColdDeferred, vars, statics, hostVars, historyVars, Goto, Leave,
     NoFrame, NoEntry, Queued, At, TypeOK, Entry, Frame, Pc, IInv
<1>22. ASSUME NEW d \in Daemon, EnqueueLoad(d) PROVE TypeOK'
  <2>2. NoFrame \in Frame
    BY DEF NoFrame, NoEntry, Frame, Entry
  <2>8. frame' \in [Daemon -> Frame]
    BY <1>22, <2>2 DEF EnqueueLoad, Leave, IInv, TypeOK
  <2>9. QED
    BY <1>22, <2>8 DEF EnqueueLoad, HigherTarget, statics, hostVars, historyVars, Goto,
       Leave, IInv, TypeOK, Pc
<1>23. ASSUME NEW d \in Daemon, EnqueueSave(d) PROVE TypeOK'
  BY <1>23 DEF EnqueueSave, vars, statics, hostVars, historyVars, Goto, Leave, NoFrame,
     NoEntry, Queued, At, TypeOK, Entry, Frame, Pc, IInv
<1>24. CASE UNCHANGED vars
  BY <1>24 DEF vars, statics, hostVars, historyVars, Goto, Leave, NoFrame, NoEntry,
     Queued, At, TypeOK, Entry, Frame, Pc, IInv
<1>25. QED
  BY <1>1, <1>2, <1>3, <1>4, <1>5, <1>6, <1>7, <1>8, <1>9, <1>10, <1>11, <1>12, <1>13,
     <1>14, <1>15, <1>16, <1>17, <1>18, <1>19, <1>20, <1>21, <1>22, <1>23,
     <1>24 DEF Next

\* Every step keeps the remembered target of an owing daemon, and a cold one has none.
LEMMA StepWarm ==
  ASSUME IInv, [Next]_vars
  PROVE  WarmOK'
<1> USE ConstantsAssumption

<1>1. CASE Deploy
  BY <1>1 DEF Deploy, vars, statics, hostVars, historyVars, Goto, Leave, NoFrame,
     NoEntry, Queued, At, IInv, TypeOK, WarmOK, Frame
<1>2. CASE Tick
  BY <1>2 DEF Tick, vars, statics, hostVars, historyVars, Goto, Leave, NoFrame,
     NoEntry, Queued, At, IInv, TypeOK, WarmOK, Frame
<1>3. CASE DeclareLoad
  BY <1>3 DEF DeclareLoad, vars, statics, hostVars, historyVars, Goto, Leave, NoFrame,
     NoEntry, Queued, At, IInv, TypeOK, WarmOK, Frame
<1>4. CASE DeclareSave
  BY <1>4 DEF DeclareSave, vars, statics, hostVars, historyVars, Goto, Leave, NoFrame,
     NoEntry, Queued, At, IInv, TypeOK, WarmOK, Frame
<1>5. ASSUME NEW d \in Daemon, Boot(d) PROVE WarmOK'
  BY <1>5 DEF Boot, vars, statics, hostVars, historyVars, Goto, Leave, NoFrame,
     NoEntry, Queued, At, IInv, TypeOK, WarmOK, Frame
<1>6. ASSUME NEW d \in Daemon, Die(d) PROVE WarmOK'
  BY <1>6 DEF Die, vars, statics, hostVars, historyVars, Goto, Leave, NoFrame, NoEntry,
     Queued, At, IInv, TypeOK, WarmOK, Frame
<1>7. ASSUME NEW d \in Daemon, Poll(d) PROVE WarmOK'
  BY <1>7 DEF Poll, vars, statics, hostVars, historyVars, Goto, Leave, NoFrame,
     NoEntry, Queued, At, IInv, TypeOK, WarmOK, Frame
<1>8. ASSUME NEW d \in Daemon, ClearSelf(d) PROVE WarmOK'
  BY <1>8 DEF ClearSelf, vars, statics, hostVars, historyVars, Goto, Leave, NoFrame,
     NoEntry, Queued, At, IInv, TypeOK, WarmOK, Frame
<1>9. ASSUME NEW d \in Daemon, SkipLane(d) PROVE WarmOK'
  BY <1>9 DEF SkipLane, vars, statics, hostVars, historyVars, Goto, Leave, NoFrame,
     NoEntry, Queued, At, IInv, TypeOK, WarmOK, Frame
<1>10. ASSUME NEW d \in Daemon, BypassLane(d) PROVE WarmOK'
  BY <1>10 DEF BypassLane, vars, statics, hostVars, historyVars, Goto, Leave, NoFrame,
     NoEntry, Queued, At, IInv, TypeOK, WarmOK, Frame
<1>11. ASSUME NEW d \in Daemon, StartLane(d) PROVE WarmOK'
  BY <1>11 DEF StartLane, vars, statics, hostVars, historyVars, Goto, Leave, NoFrame,
     NoEntry, Queued, At, IInv, TypeOK, WarmOK, Frame
<1>12. ASSUME NEW d \in Daemon, LoadQueue(d) PROVE WarmOK'
  BY <1>12 DEF LoadQueue, vars, statics, hostVars, historyVars, Goto, Leave, NoFrame,
     NoEntry, Queued, At, IInv, TypeOK, WarmOK, Frame
<1>13. ASSUME NEW d \in Daemon, SeesSuccessor(d) PROVE WarmOK'
  BY <1>13 DEF SeesSuccessor, vars, statics, hostVars, historyVars, Goto, Leave,
     NoFrame, NoEntry, Queued, At, IInv, TypeOK, WarmOK, Frame
<1>14. ASSUME NEW d \in Daemon, Converge(d) PROVE WarmOK'
  BY <1>14 DEF Converge, vars, statics, hostVars, historyVars, Goto, Leave, NoFrame,
     NoEntry, Queued, At, IInv, TypeOK, WarmOK, Frame
<1>15. ASSUME NEW d \in Daemon, Wait(d) PROVE WarmOK'
  BY <1>15 DEF Wait, vars, statics, hostVars, historyVars, Goto, Leave, NoFrame,
     NoEntry, Queued, At, IInv, TypeOK, WarmOK, Frame
<1>16. ASSUME NEW d \in Daemon, BeginAttempt(d) PROVE WarmOK'
  BY <1>16 DEF BeginAttempt, vars, statics, hostVars, historyVars, Goto, Leave,
     NoFrame, NoEntry, Queued, At, IInv, TypeOK, WarmOK, Frame
<1>17. ASSUME NEW d \in Daemon, RecordLoad(d) PROVE WarmOK'
  BY <1>17 DEF RecordLoad, vars, statics, hostVars, historyVars, Goto, Leave, NoFrame,
     NoEntry, Queued, At, IInv, TypeOK, WarmOK, Frame
<1>18. ASSUME NEW d \in Daemon, RecordSave(d) PROVE WarmOK'
  BY <1>18 DEF RecordSave, vars, statics, hostVars, historyVars, Goto, Leave, NoFrame,
     NoEntry, Queued, At, IInv, TypeOK, WarmOK, Frame
<1>19. ASSUME NEW d \in Daemon, NEW target \in 0..MaxVersion, Accepted(d, target)
       PROVE  WarmOK'
  BY <1>19 DEF Accepted, HigherTarget, vars, statics, hostVars, historyVars, Goto,
     Leave, IInv, TypeOK, WarmOK
<1>20. ASSUME NEW d \in Daemon, Refused(d) PROVE WarmOK'
  BY <1>20 DEF Refused, LingersOnFailure, vars, statics, hostVars, historyVars, Goto,
     Leave, IInv, TypeOK, WarmOK
<1>21. ASSUME NEW d \in Daemon, ColdDeferred(d) PROVE WarmOK'
  BY <1>21 DEF ColdDeferred, vars, statics, hostVars, historyVars, Goto, Leave,
     NoFrame, NoEntry, Queued, At, IInv, TypeOK, WarmOK, Frame
<1>22. ASSUME NEW d \in Daemon, EnqueueLoad(d) PROVE WarmOK'
  BY <1>22 DEF EnqueueLoad, vars, statics, hostVars, historyVars, Goto, Leave, NoFrame,
     NoEntry, Queued, At, IInv, TypeOK, WarmOK, Frame
<1>23. ASSUME NEW d \in Daemon, EnqueueSave(d) PROVE WarmOK'
  BY <1>23 DEF EnqueueSave, vars, statics, hostVars, historyVars, Goto, Leave, NoFrame,
     NoEntry, Queued, At, IInv, TypeOK, WarmOK, Frame
<1>24. CASE UNCHANGED vars
  BY <1>24 DEF vars, statics, hostVars, historyVars, Goto, Leave, NoFrame, NoEntry,
     Queued, At, IInv, TypeOK, WarmOK, Frame
<1>25. QED
  BY <1>1, <1>2, <1>3, <1>4, <1>5, <1>6, <1>7, <1>8, <1>9, <1>10, <1>11, <1>12, <1>13,
     <1>14, <1>15, <1>16, <1>17, <1>18, <1>19, <1>20, <1>21, <1>22, <1>23,
     <1>24 DEF Next

\* Every step keeps the stamps behind the clock.
LEMMA StepClock ==
  ASSUME IInv, [Next]_vars
  PROVE  ClockOK'
<1> USE ConstantsAssumption

<1>1. CASE Deploy
  BY <1>1 DEF Deploy, vars, statics, hostVars, historyVars, Goto, Leave, NoFrame,
     NoEntry, Queued, At, IInv, TypeOK, ClockOK, LaneOK
<1>2. CASE Tick
  BY <1>2 DEF Tick, vars, statics, hostVars, historyVars, Goto, Leave, NoFrame,
     NoEntry, Queued, At, IInv, TypeOK, ClockOK, LaneOK
<1>3. CASE DeclareLoad
  BY <1>3 DEF DeclareLoad, vars, statics, hostVars, historyVars, Goto, Leave, NoFrame,
     NoEntry, Queued, At, IInv, TypeOK, ClockOK, LaneOK
<1>4. CASE DeclareSave
  BY <1>4 DEF DeclareSave, vars, statics, hostVars, historyVars, Goto, Leave, NoFrame,
     NoEntry, Queued, At, IInv, TypeOK, ClockOK, LaneOK
<1>5. ASSUME NEW d \in Daemon, Boot(d) PROVE ClockOK'
  BY <1>5 DEF Boot, vars, statics, hostVars, historyVars, Goto, Leave, NoFrame,
     NoEntry, Queued, At, IInv, TypeOK, ClockOK, LaneOK
<1>6. ASSUME NEW d \in Daemon, Die(d) PROVE ClockOK'
  BY <1>6 DEF Die, vars, statics, hostVars, historyVars, Goto, Leave, NoFrame, NoEntry,
     Queued, At, IInv, TypeOK, ClockOK, LaneOK
<1>7. ASSUME NEW d \in Daemon, Poll(d) PROVE ClockOK'
  BY <1>7 DEF Poll, vars, statics, hostVars, historyVars, Goto, Leave, NoFrame,
     NoEntry, Queued, At, IInv, TypeOK, ClockOK, LaneOK
<1>8. ASSUME NEW d \in Daemon, ClearSelf(d) PROVE ClockOK'
  BY <1>8 DEF ClearSelf, vars, statics, hostVars, historyVars, Goto, Leave, NoFrame,
     NoEntry, Queued, At, IInv, TypeOK, ClockOK, LaneOK
<1>9. ASSUME NEW d \in Daemon, SkipLane(d) PROVE ClockOK'
  BY <1>9 DEF SkipLane, vars, statics, hostVars, historyVars, Goto, Leave, NoFrame,
     NoEntry, Queued, At, IInv, TypeOK, ClockOK, LaneOK
<1>10. ASSUME NEW d \in Daemon, BypassLane(d) PROVE ClockOK'
  BY <1>10 DEF BypassLane, vars, statics, hostVars, historyVars, Goto, Leave, NoFrame,
     NoEntry, Queued, At, IInv, TypeOK, ClockOK, LaneOK
<1>11. ASSUME NEW d \in Daemon, StartLane(d) PROVE ClockOK'
  BY <1>11 DEF StartLane, vars, statics, hostVars, historyVars, Goto, Leave, NoFrame,
     NoEntry, Queued, At, IInv, TypeOK, ClockOK, LaneOK
<1>12. ASSUME NEW d \in Daemon, LoadQueue(d) PROVE ClockOK'
  BY <1>12 DEF LoadQueue, vars, statics, hostVars, historyVars, Goto, Leave, NoFrame,
     NoEntry, Queued, At, IInv, TypeOK, ClockOK, LaneOK
<1>13. ASSUME NEW d \in Daemon, SeesSuccessor(d) PROVE ClockOK'
  BY <1>13 DEF SeesSuccessor, vars, statics, hostVars, historyVars, Goto, Leave,
     NoFrame, NoEntry, Queued, At, IInv, TypeOK, ClockOK, LaneOK
<1>14. ASSUME NEW d \in Daemon, Converge(d) PROVE ClockOK'
  BY <1>14 DEF Converge, vars, statics, hostVars, historyVars, Goto, Leave, NoFrame,
     NoEntry, Queued, At, IInv, TypeOK, ClockOK, LaneOK
<1>15. ASSUME NEW d \in Daemon, Wait(d) PROVE ClockOK'
  BY <1>15 DEF Wait, vars, statics, hostVars, historyVars, Goto, Leave, NoFrame,
     NoEntry, Queued, At, IInv, TypeOK, ClockOK, LaneOK
<1>16. ASSUME NEW d \in Daemon, BeginAttempt(d) PROVE ClockOK'
  BY <1>16 DEF BeginAttempt, NotSatisfied, At, Queued, vars, statics, hostVars,
     historyVars, Goto, Leave, IInv, TypeOK, ClockOK, LaneOK
<1>17. ASSUME NEW d \in Daemon, RecordLoad(d) PROVE ClockOK'
  BY <1>17 DEF RecordLoad, vars, statics, hostVars, historyVars, Goto, Leave, NoFrame,
     NoEntry, Queued, At, IInv, TypeOK, ClockOK, LaneOK
<1>18. ASSUME NEW d \in Daemon, RecordSave(d) PROVE ClockOK'
  BY <1>18 DEF RecordSave, vars, statics, hostVars, historyVars, Goto, Leave, NoFrame,
     NoEntry, Queued, At, IInv, TypeOK, ClockOK, LaneOK
<1>19. ASSUME NEW d \in Daemon, NEW target \in 0..MaxVersion, Accepted(d, target)
       PROVE  ClockOK'
  BY <1>19 DEF Accepted, vars, statics, hostVars, historyVars, Goto, Leave, NoFrame,
     NoEntry, Queued, At, IInv, TypeOK, ClockOK, LaneOK
<1>20. ASSUME NEW d \in Daemon, Refused(d) PROVE ClockOK'
  BY <1>20 DEF Refused, vars, statics, hostVars, historyVars, Goto, Leave, NoFrame,
     NoEntry, Queued, At, IInv, TypeOK, ClockOK, LaneOK
<1>21. ASSUME NEW d \in Daemon, ColdDeferred(d) PROVE ClockOK'
  BY <1>21 DEF ColdDeferred, vars, statics, hostVars, historyVars, Goto, Leave,
     NoFrame, NoEntry, Queued, At, IInv, TypeOK, ClockOK, LaneOK
<1>22. ASSUME NEW d \in Daemon, EnqueueLoad(d) PROVE ClockOK'
  BY <1>22 DEF EnqueueLoad, vars, statics, hostVars, historyVars, Goto, Leave, NoFrame,
     NoEntry, Queued, At, IInv, TypeOK, ClockOK, LaneOK
<1>23. ASSUME NEW d \in Daemon, EnqueueSave(d) PROVE ClockOK'
  BY <1>23 DEF EnqueueSave, vars, statics, hostVars, historyVars, Goto, Leave, NoFrame,
     NoEntry, Queued, At, IInv, TypeOK, ClockOK, LaneOK
<1>24. CASE UNCHANGED vars
  BY <1>24 DEF vars, statics, hostVars, historyVars, Goto, Leave, NoFrame, NoEntry,
     Queued, At, IInv, TypeOK, ClockOK, LaneOK
<1>25. QED
  BY <1>1, <1>2, <1>3, <1>4, <1>5, <1>6, <1>7, <1>8, <1>9, <1>10, <1>11, <1>12, <1>13,
     <1>14, <1>15, <1>16, <1>17, <1>18, <1>19, <1>20, <1>21, <1>22, <1>23,
     <1>24 DEF Next

\* Every step keeps what a lane knows.
LEMMA StepLane ==
  ASSUME IInv, [Next]_vars
  PROVE  LaneOK'
<1> USE ConstantsAssumption

<1>1. CASE Deploy
  BY <1>1 DEF Deploy, vars, statics, hostVars, historyVars, Goto, Leave, NoFrame,
     NoEntry, Queued, At, IInv, TypeOK, ClockOK, LaneOK, Frame, Entry
<1>2. CASE Tick
  BY <1>2 DEF Tick, vars, statics, hostVars, historyVars, Goto, Leave, NoFrame,
     NoEntry, Queued, At, IInv, TypeOK, ClockOK, LaneOK, Frame, Entry
<1>3. CASE DeclareLoad
  BY <1>3 DEF DeclareLoad, vars, statics, hostVars, historyVars, Goto, Leave, NoFrame,
     NoEntry, Queued, At, IInv, TypeOK, ClockOK, LaneOK, Frame, Entry
<1>4. CASE DeclareSave
  BY <1>4 DEF DeclareSave, vars, statics, hostVars, historyVars, Goto, Leave, NoFrame,
     NoEntry, Queued, At, IInv, TypeOK, ClockOK, LaneOK, Frame, Entry
<1>5. ASSUME NEW d \in Daemon, Boot(d) PROVE LaneOK'
  BY <1>5 DEF Boot, vars, statics, hostVars, historyVars, Goto, Leave, NoFrame,
     NoEntry, Queued, At, IInv, TypeOK, ClockOK, LaneOK, Frame, Entry
<1>6. ASSUME NEW d \in Daemon, Die(d) PROVE LaneOK'
  BY <1>6 DEF Die, vars, statics, hostVars, historyVars, Goto, Leave, NoFrame, NoEntry,
     Queued, At, IInv, TypeOK, ClockOK, LaneOK, Frame, Entry
<1>7. ASSUME NEW d \in Daemon, Poll(d) PROVE LaneOK'
  BY <1>7 DEF Poll, vars, statics, hostVars, historyVars, Goto, Leave, NoFrame,
     NoEntry, Queued, At, IInv, TypeOK, ClockOK, LaneOK, Frame, Entry
<1>8. ASSUME NEW d \in Daemon, ClearSelf(d) PROVE LaneOK'
  BY <1>8 DEF ClearSelf, vars, statics, hostVars, historyVars, Goto, Leave, NoFrame,
     NoEntry, Queued, At, IInv, TypeOK, ClockOK, LaneOK, Frame, Entry
<1>9. ASSUME NEW d \in Daemon, SkipLane(d) PROVE LaneOK'
  BY <1>9 DEF SkipLane, vars, statics, hostVars, historyVars, Goto, Leave, NoFrame,
     NoEntry, Queued, At, IInv, TypeOK, ClockOK, LaneOK, Frame, Entry
<1>10. ASSUME NEW d \in Daemon, BypassLane(d) PROVE LaneOK'
  BY <1>10 DEF BypassLane, vars, statics, hostVars, historyVars, Goto, Leave, NoFrame,
     NoEntry, Queued, At, IInv, TypeOK, ClockOK, LaneOK, Frame, Entry
<1>11. ASSUME NEW d \in Daemon, StartLane(d) PROVE LaneOK'
  BY <1>11 DEF StartLane, vars, statics, hostVars, historyVars, Goto, IInv, TypeOK,
     ClockOK, LaneOK, EntriesOK, GoodBoundary, Frame, Entry
<1>12. ASSUME NEW d \in Daemon, LoadQueue(d) PROVE LaneOK'
  BY <1>12 DEF LoadQueue, vars, statics, hostVars, historyVars, Goto, IInv, TypeOK,
     ClockOK, LaneOK, EntriesOK, GoodBoundary, Frame, Entry
<1>13. ASSUME NEW d \in Daemon, SeesSuccessor(d) PROVE LaneOK'
  BY <1>13 DEF SeesSuccessor, vars, statics, hostVars, historyVars, Goto, Leave,
     NoFrame, NoEntry, Queued, At, IInv, TypeOK, ClockOK, LaneOK, Frame, Entry
<1>14. ASSUME NEW d \in Daemon, Converge(d) PROVE LaneOK'
  BY <1>14 DEF Converge, vars, statics, hostVars, historyVars, Goto, Leave, NoFrame,
     NoEntry, Queued, At, IInv, TypeOK, ClockOK, LaneOK, Frame, Entry
<1>15. ASSUME NEW d \in Daemon, Wait(d) PROVE LaneOK'
  BY <1>15 DEF Wait, vars, statics, hostVars, historyVars, Goto, Leave, NoFrame,
     NoEntry, Queued, At, IInv, TypeOK, ClockOK, LaneOK, Frame, Entry
<1>16. ASSUME NEW d \in Daemon, BeginAttempt(d) PROVE LaneOK'
  BY <1>16 DEF BeginAttempt, vars, statics, hostVars, historyVars, Goto, Leave,
     NoFrame, NoEntry, Queued, At, IInv, TypeOK, ClockOK, LaneOK, Frame, Entry
<1>17. ASSUME NEW d \in Daemon, RecordLoad(d) PROVE LaneOK'
  BY <1>17 DEF RecordLoad, vars, statics, hostVars, historyVars, Goto, Leave, NoFrame,
     NoEntry, Queued, At, IInv, TypeOK, ClockOK, LaneOK, Frame, Entry
<1>18. ASSUME NEW d \in Daemon, RecordSave(d) PROVE LaneOK'
  BY <1>18 DEF RecordSave, vars, statics, hostVars, historyVars, Goto, Leave, NoFrame,
     NoEntry, Queued, At, IInv, TypeOK, ClockOK, LaneOK, Frame, Entry
<1>19. ASSUME NEW d \in Daemon, NEW target \in 0..MaxVersion, Accepted(d, target)
       PROVE  LaneOK'
  BY <1>19 DEF Accepted, vars, statics, hostVars, historyVars, Goto, Leave, NoFrame,
     NoEntry, Queued, At, IInv, TypeOK, ClockOK, LaneOK, Frame, Entry
<1>20. ASSUME NEW d \in Daemon, Refused(d) PROVE LaneOK'
  BY <1>20 DEF Refused, vars, statics, hostVars, historyVars, Goto, Leave, NoFrame,
     NoEntry, Queued, At, IInv, TypeOK, ClockOK, LaneOK, Frame, Entry
<1>21. ASSUME NEW d \in Daemon, ColdDeferred(d) PROVE LaneOK'
  BY <1>21 DEF ColdDeferred, vars, statics, hostVars, historyVars, Goto, Leave,
     NoFrame, NoEntry, Queued, At, IInv, TypeOK, ClockOK, LaneOK, Frame, Entry
<1>22. ASSUME NEW d \in Daemon, EnqueueLoad(d) PROVE LaneOK'
  BY <1>22 DEF EnqueueLoad, vars, statics, hostVars, historyVars, Goto, Leave, NoFrame,
     NoEntry, Queued, At, IInv, TypeOK, ClockOK, LaneOK, Frame, Entry
<1>23. ASSUME NEW d \in Daemon, EnqueueSave(d) PROVE LaneOK'
  BY <1>23 DEF EnqueueSave, vars, statics, hostVars, historyVars, Goto, Leave, NoFrame,
     NoEntry, Queued, At, IInv, TypeOK, ClockOK, LaneOK, Frame, Entry
<1>24. CASE UNCHANGED vars
  BY <1>24 DEF vars, statics, hostVars, historyVars, Goto, Leave, NoFrame, NoEntry,
     Queued, At, IInv, TypeOK, ClockOK, LaneOK, Frame, Entry
<1>25. QED
  BY <1>1, <1>2, <1>3, <1>4, <1>5, <1>6, <1>7, <1>8, <1>9, <1>10, <1>11, <1>12, <1>13,
     <1>14, <1>15, <1>16, <1>17, <1>18, <1>19, <1>20, <1>21, <1>22, <1>23,
     <1>24 DEF Next

\* A boundary that accounts for itself goes on doing so.
LEMMA GoodStays ==
  ASSUME IInv, [Next]_vars, NEW b \in 0..MaxTime, GoodBoundary(b)
  PROVE  GoodBoundary(b)'
<1> USE ConstantsAssumption

<1>1. CASE Deploy
  BY <1>1 DEF Deploy, vars, statics, hostVars, historyVars, Goto, Leave, NoFrame,
     NoEntry, Queued, At, IInv, TypeOK, ClockOK, LaneOK, GoodBoundary, Frame
<1>2. CASE Tick
  BY <1>2 DEF Tick, vars, statics, hostVars, historyVars, Goto, Leave, NoFrame,
     NoEntry, Queued, At, IInv, TypeOK, ClockOK, LaneOK, GoodBoundary, Frame
<1>3. CASE DeclareLoad
  BY <1>3 DEF DeclareLoad, vars, statics, hostVars, historyVars, Goto, Leave, NoFrame,
     NoEntry, Queued, At, IInv, TypeOK, ClockOK, LaneOK, GoodBoundary, Frame
<1>4. CASE DeclareSave
  BY <1>4 DEF DeclareSave, vars, statics, hostVars, historyVars, Goto, Leave, NoFrame,
     NoEntry, Queued, At, IInv, TypeOK, ClockOK, LaneOK, GoodBoundary, Frame
<1>5. ASSUME NEW d \in Daemon, Boot(d) PROVE GoodBoundary(b)'
  BY <1>5 DEF Boot, vars, statics, hostVars, historyVars, Goto, Leave, NoFrame,
     NoEntry, Queued, At, IInv, TypeOK, ClockOK, LaneOK, GoodBoundary, Frame
<1>6. ASSUME NEW d \in Daemon, Die(d) PROVE GoodBoundary(b)'
  BY <1>6 DEF Die, vars, statics, hostVars, historyVars, Goto, Leave, NoFrame, NoEntry,
     Queued, At, IInv, TypeOK, ClockOK, LaneOK, GoodBoundary, Frame
<1>7. ASSUME NEW d \in Daemon, Poll(d) PROVE GoodBoundary(b)'
  BY <1>7 DEF Poll, vars, statics, hostVars, historyVars, Goto, Leave, NoFrame,
     NoEntry, Queued, At, IInv, TypeOK, ClockOK, LaneOK, GoodBoundary, Frame
<1>8. ASSUME NEW d \in Daemon, ClearSelf(d) PROVE GoodBoundary(b)'
  BY <1>8 DEF ClearSelf, vars, statics, hostVars, historyVars, Goto, Leave, NoFrame,
     NoEntry, Queued, At, IInv, TypeOK, ClockOK, LaneOK, GoodBoundary, Frame
<1>9. ASSUME NEW d \in Daemon, SkipLane(d) PROVE GoodBoundary(b)'
  BY <1>9 DEF SkipLane, vars, statics, hostVars, historyVars, Goto, Leave, NoFrame,
     NoEntry, Queued, At, IInv, TypeOK, ClockOK, LaneOK, GoodBoundary, Frame
<1>10. ASSUME NEW d \in Daemon, BypassLane(d) PROVE GoodBoundary(b)'
  BY <1>10 DEF BypassLane, vars, statics, hostVars, historyVars, Goto, Leave, NoFrame,
     NoEntry, Queued, At, IInv, TypeOK, ClockOK, LaneOK, GoodBoundary, Frame
<1>11. ASSUME NEW d \in Daemon, StartLane(d) PROVE GoodBoundary(b)'
  BY <1>11 DEF StartLane, vars, statics, hostVars, historyVars, Goto, Leave, NoFrame,
     NoEntry, Queued, At, IInv, TypeOK, ClockOK, LaneOK, GoodBoundary, Frame
<1>12. ASSUME NEW d \in Daemon, LoadQueue(d) PROVE GoodBoundary(b)'
  BY <1>12 DEF LoadQueue, vars, statics, hostVars, historyVars, Goto, Leave, NoFrame,
     NoEntry, Queued, At, IInv, TypeOK, ClockOK, LaneOK, GoodBoundary, Frame
<1>13. ASSUME NEW d \in Daemon, SeesSuccessor(d) PROVE GoodBoundary(b)'
  BY <1>13 DEF SeesSuccessor, vars, statics, hostVars, historyVars, Goto, Leave,
     NoFrame, NoEntry, Queued, At, IInv, TypeOK, ClockOK, LaneOK, GoodBoundary, Frame
<1>14. ASSUME NEW d \in Daemon, Converge(d) PROVE GoodBoundary(b)'
  BY <1>14 DEF Converge, vars, statics, hostVars, historyVars, Goto, Leave, NoFrame,
     NoEntry, Queued, At, IInv, TypeOK, ClockOK, LaneOK, GoodBoundary, Frame
<1>15. ASSUME NEW d \in Daemon, Wait(d) PROVE GoodBoundary(b)'
  BY <1>15 DEF Wait, vars, statics, hostVars, historyVars, Goto, Leave, NoFrame,
     NoEntry, Queued, At, IInv, TypeOK, ClockOK, LaneOK, GoodBoundary, Frame
<1>16. ASSUME NEW d \in Daemon, BeginAttempt(d) PROVE GoodBoundary(b)'
  BY <1>16 DEF BeginAttempt, NotSatisfied, At, Queued, vars, statics, hostVars,
     historyVars, Goto, Leave, IInv, TypeOK, ClockOK, LaneOK, GoodBoundary, Frame
<1>17. ASSUME NEW d \in Daemon, RecordLoad(d) PROVE GoodBoundary(b)'
  BY <1>17 DEF RecordLoad, vars, statics, hostVars, historyVars, Goto, Leave, NoFrame,
     NoEntry, Queued, At, IInv, TypeOK, ClockOK, LaneOK, GoodBoundary, Frame
<1>18. ASSUME NEW d \in Daemon, RecordSave(d) PROVE GoodBoundary(b)'
  BY <1>18 DEF RecordSave, vars, statics, hostVars, historyVars, Goto, Leave, NoFrame,
     NoEntry, Queued, At, IInv, TypeOK, ClockOK, LaneOK, GoodBoundary, Frame
<1>19. ASSUME NEW d \in Daemon, NEW target \in 0..MaxVersion, Accepted(d, target)
       PROVE  GoodBoundary(b)'
  BY <1>19 DEF Accepted, vars, statics, hostVars, historyVars, Goto, Leave, NoFrame,
     NoEntry, Queued, At, IInv, TypeOK, ClockOK, LaneOK, GoodBoundary, Frame
<1>20. ASSUME NEW d \in Daemon, Refused(d) PROVE GoodBoundary(b)'
  BY <1>20 DEF Refused, vars, statics, hostVars, historyVars, Goto, Leave, NoFrame,
     NoEntry, Queued, At, IInv, TypeOK, ClockOK, LaneOK, GoodBoundary, Frame
<1>21. ASSUME NEW d \in Daemon, ColdDeferred(d) PROVE GoodBoundary(b)'
  BY <1>21 DEF ColdDeferred, vars, statics, hostVars, historyVars, Goto, Leave,
     NoFrame, NoEntry, Queued, At, IInv, TypeOK, ClockOK, LaneOK, GoodBoundary, Frame
<1>22. ASSUME NEW d \in Daemon, EnqueueLoad(d) PROVE GoodBoundary(b)'
  BY <1>22 DEF EnqueueLoad, vars, statics, hostVars, historyVars, Goto, Leave, NoFrame,
     NoEntry, Queued, At, IInv, TypeOK, ClockOK, LaneOK, GoodBoundary, Frame
<1>23. ASSUME NEW d \in Daemon, EnqueueSave(d) PROVE GoodBoundary(b)'
  BY <1>23 DEF EnqueueSave, vars, statics, hostVars, historyVars, Goto, Leave, NoFrame,
     NoEntry, Queued, At, IInv, TypeOK, ClockOK, LaneOK, GoodBoundary, Frame
<1>24. CASE UNCHANGED vars
  BY <1>24 DEF vars, statics, hostVars, historyVars, Goto, Leave, NoFrame, NoEntry,
     Queued, At, IInv, TypeOK, ClockOK, LaneOK, GoodBoundary, Frame
<1>25. QED
  BY <1>1, <1>2, <1>3, <1>4, <1>5, <1>6, <1>7, <1>8, <1>9, <1>10, <1>11, <1>12, <1>13,
     <1>14, <1>15, <1>16, <1>17, <1>18, <1>19, <1>20, <1>21, <1>22, <1>23,
     <1>24 DEF Next

\* A boundary of zero accounts for itself.
LEMMA ZeroIsGood == TypeOK => GoodBoundary(0)
BY DEF TypeOK, GoodBoundary, Frame

OldBoundaries ==
    {0, entry.boundary, relay.boundary} \cup {frame[x].copy.boundary : x \in Daemon}

BoundariesKept ==
    /\ entry'.boundary \in OldBoundaries
    /\ relay'.boundary \in OldBoundaries
    /\ \A x \in Daemon : frame'[x].copy.boundary \in OldBoundaries

\* Wherever a step puts an entry, its boundary was already on another copy, is
\* zero, or is the one being declared.
LEMMA BoundariesMove ==
  ASSUME IInv, [Next]_vars, ~DeclareLoad
  PROVE  BoundariesKept
<1>1. CASE Deploy
  BY <1>1 DEF Deploy, vars, statics, hostVars, historyVars, NoEntry, IInv, TypeOK,
     BoundariesKept, OldBoundaries
<1>2. CASE Tick
  BY <1>2 DEF Tick, vars, statics, hostVars, historyVars, NoEntry, IInv, TypeOK,
     BoundariesKept, OldBoundaries
<1>3. CASE DeclareSave
  BY <1>3 DEF DeclareSave, vars, statics, hostVars, historyVars, NoEntry, IInv, TypeOK,
     BoundariesKept, OldBoundaries
<1>4. ASSUME NEW d \in Daemon, Boot(d) PROVE BoundariesKept
  BY <1>4 DEF Boot, vars, statics, hostVars, historyVars, Goto, Leave, NoFrame,
     NoEntry, IInv, TypeOK, Frame, Entry,
     BoundariesKept, OldBoundaries
<1>5. ASSUME NEW d \in Daemon, Die(d) PROVE BoundariesKept
  BY <1>5 DEF Die, vars, statics, hostVars, historyVars, Goto, Leave, NoFrame, NoEntry,
     IInv, TypeOK, Frame, Entry,
     BoundariesKept, OldBoundaries
<1>6. ASSUME NEW d \in Daemon, Poll(d) PROVE BoundariesKept
  BY <1>6 DEF Poll, vars, statics, hostVars, historyVars, Goto, Leave, NoFrame,
     NoEntry, IInv, TypeOK, Frame, Entry,
     BoundariesKept, OldBoundaries
<1>7. ASSUME NEW d \in Daemon, ClearSelf(d) PROVE BoundariesKept
  BY <1>7 DEF ClearSelf, vars, statics, hostVars, historyVars, Goto, Leave, NoFrame,
     NoEntry, IInv, TypeOK, Frame, Entry,
     BoundariesKept, OldBoundaries
<1>8. ASSUME NEW d \in Daemon, SkipLane(d) PROVE BoundariesKept
  BY <1>8 DEF SkipLane, vars, statics, hostVars, historyVars, Goto, Leave, NoFrame,
     NoEntry, IInv, TypeOK, Frame, Entry,
     BoundariesKept, OldBoundaries
<1>9. ASSUME NEW d \in Daemon, BypassLane(d) PROVE BoundariesKept
  BY <1>9 DEF BypassLane, vars, statics, hostVars, historyVars, Goto, Leave, NoFrame,
     NoEntry, IInv, TypeOK, Frame, Entry,
     BoundariesKept, OldBoundaries
<1>10. ASSUME NEW d \in Daemon, StartLane(d) PROVE BoundariesKept
  BY <1>10 DEF StartLane, vars, statics, hostVars, historyVars, Goto, Leave, NoFrame,
     NoEntry, IInv, TypeOK, Frame, Entry,
     BoundariesKept, OldBoundaries
<1>11. ASSUME NEW d \in Daemon, LoadQueue(d) PROVE BoundariesKept
  BY <1>11 DEF LoadQueue, vars, statics, hostVars, historyVars, Goto, Leave, NoFrame,
     NoEntry, IInv, TypeOK, Frame, Entry,
     BoundariesKept, OldBoundaries
<1>12. ASSUME NEW d \in Daemon, SeesSuccessor(d) PROVE BoundariesKept
  BY <1>12 DEF SeesSuccessor, vars, statics, hostVars, historyVars, Goto, Leave,
     NoFrame, NoEntry, IInv, TypeOK, Frame, Entry,
     BoundariesKept, OldBoundaries
<1>13. ASSUME NEW d \in Daemon, Converge(d) PROVE BoundariesKept
  BY <1>13 DEF Converge, vars, statics, hostVars, historyVars, Goto, Leave, NoFrame,
     NoEntry, IInv, TypeOK, Frame, Entry,
     BoundariesKept, OldBoundaries
<1>14. ASSUME NEW d \in Daemon, Wait(d) PROVE BoundariesKept
  BY <1>14 DEF Wait, vars, statics, hostVars, historyVars, Goto, Leave, NoFrame,
     NoEntry, IInv, TypeOK, Frame, Entry,
     BoundariesKept, OldBoundaries
<1>15. ASSUME NEW d \in Daemon, BeginAttempt(d) PROVE BoundariesKept
  BY <1>15 DEF BeginAttempt, vars, statics, hostVars, historyVars, Goto, Leave,
     NoFrame, NoEntry, IInv, TypeOK, Frame, Entry,
     BoundariesKept, OldBoundaries
<1>16. ASSUME NEW d \in Daemon, RecordLoad(d) PROVE BoundariesKept
  BY <1>16 DEF RecordLoad, vars, statics, hostVars, historyVars, Goto, Leave, NoFrame,
     NoEntry, IInv, TypeOK, Frame, Entry,
     BoundariesKept, OldBoundaries
<1>17. ASSUME NEW d \in Daemon, RecordSave(d) PROVE BoundariesKept
  BY <1>17 DEF RecordSave, vars, statics, hostVars, historyVars, Goto, Leave, NoFrame,
     NoEntry, IInv, TypeOK, Frame, Entry,
     BoundariesKept, OldBoundaries
<1>18. ASSUME NEW d \in Daemon, NEW target \in 0..MaxVersion, Accepted(d, target) PROVE BoundariesKept
  <2>1. entry' = entry /\ relay' = relay
    BY <1>18 DEF Accepted, hostVars
  <2>2. \A x \in Daemon : frame'[x].copy.boundary \in {0, frame[x].copy.boundary}
    <3>1. CASE target > VersionOf[d]
      <4>1. frame' = [frame EXCEPT ![d].copy =
                        [target |-> target, last |-> At(d), boundary |-> 0]]
        BY <1>18, <3>1, ConstantsAssumption DEF Accepted
      <4>2. QED
        BY <4>1 DEF IInv, TypeOK, Frame
    <3>2. CASE target <= VersionOf[d]
      <4>1. frame' = [frame EXCEPT ![d] = NoFrame]
        BY <1>18, <3>2, ConstantsAssumption DEF Accepted, Leave
      <4>2. QED
        BY <4>1 DEF IInv, TypeOK, NoFrame, NoEntry
    <3>3. QED
      BY <3>1, <3>2, ConstantsAssumption
  <2>3. QED
    BY <2>1, <2>2 DEF BoundariesKept, OldBoundaries
<1>19. ASSUME NEW d \in Daemon, Refused(d) PROVE BoundariesKept
  BY <1>19 DEF Refused, vars, statics, hostVars, historyVars, Goto, Leave, NoFrame,
     NoEntry, IInv, TypeOK, Frame, Entry,
     BoundariesKept, OldBoundaries
<1>20. ASSUME NEW d \in Daemon, ColdDeferred(d) PROVE BoundariesKept
  BY <1>20 DEF ColdDeferred, vars, statics, hostVars, historyVars, Goto, Leave,
     NoFrame, NoEntry, IInv, TypeOK, Frame, Entry,
     BoundariesKept, OldBoundaries
<1>21. ASSUME NEW d \in Daemon, EnqueueLoad(d) PROVE BoundariesKept
  BY <1>21 DEF EnqueueLoad, vars, statics, hostVars, historyVars, Goto, Leave, NoFrame,
     NoEntry, IInv, TypeOK, Frame, Entry,
     BoundariesKept, OldBoundaries
<1>22. ASSUME NEW d \in Daemon, EnqueueSave(d) PROVE BoundariesKept
  BY <1>22 DEF EnqueueSave, vars, statics, hostVars, historyVars, Goto, Leave, NoFrame,
     NoEntry, IInv, TypeOK, Frame, Entry,
     BoundariesKept, OldBoundaries
<1>23. CASE UNCHANGED vars
  BY <1>23 DEF vars, statics, hostVars, historyVars, BoundariesKept, OldBoundaries
<1>24. QED
  BY <1>1, <1>2, <1>3, <1>4, <1>5, <1>6, <1>7, <1>8, <1>9, <1>10, <1>11, <1>12, <1>13,
     <1>14, <1>15, <1>16, <1>17, <1>18, <1>19, <1>20, <1>21, <1>22, <1>23 DEF Next

\* Every step keeps all the copies of the entry accounted for.
LEMMA StepEntries ==
  ASSUME IInv, [Next]_vars
  PROVE  EntriesOK'
<1> USE ConstantsAssumption
<1>1. TypeOK /\ TypeOK'
  BY StepType DEF IInv
<1>2. ASSUME NEW b \in 0..MaxTime, GoodBoundary(b) PROVE GoodBoundary(b)'
  BY <1>2, GoodStays
<1>3. 0 \in 0..MaxTime /\ GoodBoundary(0)
  BY <1>1, ZeroIsGood
<1>4. CASE DeclareLoad
  <2>1. entry' = entry /\ frame' = frame /\ relay'.boundary \in 1..now
    BY <1>1, <1>4 DEF DeclareLoad, TypeOK, Entry
  <2>2. GoodBoundary(entry.boundary)' /\ \A x \in Daemon : GoodBoundary(frame[x].copy.boundary)'
    <3>1. entry.boundary \in 0..MaxTime /\ GoodBoundary(entry.boundary)
      BY <1>1 DEF IInv, EntriesOK, TypeOK, Entry
    <3>2. \A x \in Daemon : /\ frame[x].copy.boundary \in 0..MaxTime
                            /\ GoodBoundary(frame[x].copy.boundary)
      BY <1>1 DEF IInv, EntriesOK, TypeOK, Entry, Frame
    <3>3. \A b \in 0..MaxTime : GoodBoundary(b) =>
            /\ b <= now'
            /\ \A d \in Daemon :
                /\ b > last'[d] => declared' > used'[d]
                /\ pc'[d] \in {"load", "probe"} /\ b > frame'[d].at => declared' > frame'[d].seen
      <4>1. SUFFICES ASSUME NEW b \in 0..MaxTime, GoodBoundary(b) PROVE GoodBoundary(b)'
        BY DEF GoodBoundary
      <4>2. QED
        BY <1>2, <4>1
    <3>4. QED
      BY <2>1, <3>1, <3>2, <3>3 DEF GoodBoundary
  <2>3. GoodBoundary(relay.boundary)'
    BY <1>1, <1>4, <2>1
      DEF GoodBoundary, DeclareLoad, statics, IInv, TypeOK, ClockOK, LaneOK, Frame
  <2>4. QED
    BY <2>1, <2>2, <2>3 DEF EntriesOK
<1>5. CASE ~DeclareLoad
  <2>1. \A b \in OldBoundaries : b \in 0..MaxTime /\ GoodBoundary(b)
    BY <1>1, <1>3 DEF IInv, EntriesOK, TypeOK, Entry, Frame, OldBoundaries
  <2>2. BoundariesKept
    BY <1>5, BoundariesMove
  <2>3. \A b \in OldBoundaries : /\ b <= now'
                       /\ \A d \in Daemon :
                            /\ b > last'[d] => declared' > used'[d]
                            /\ pc'[d] \in {"load", "probe"} /\ b > frame'[d].at
                                 => declared' > frame'[d].seen
    <3>1. SUFFICES ASSUME NEW b \in OldBoundaries PROVE GoodBoundary(b)'
      BY DEF GoodBoundary
    <3>2. QED
      BY <1>2, <2>1
  <2>4. QED
    BY <2>2, <2>3 DEF EntriesOK, GoodBoundary, BoundariesKept
<1>6. QED
  BY <1>4, <1>5

\* One more interval pays for one more attempt.
LEMMA OneMore ==
  ASSUME NEW n \in Nat, NEW i \in Nat, NEW l \in Nat, NEW t \in Nat,
         n = 0 \/ n * i < l, l > 0, t >= l + i
  PROVE  (n + 1) * i < t
<1>1. (n + 1) * i = n * i + i
  OBVIOUS
<1>2. n * i < l
  <2>1. CASE n = 0
    BY <2>1
  <2>2. QED
    BY <2>1
<1>3. n * i \in Nat
  OBVIOUS
<1>4. QED
  BY <1>1, <1>2, <1>3

\* A smaller number of intervals is no longer.
LEMMA Fewer ==
  ASSUME NEW m \in Nat, NEW n \in Nat, NEW i \in Nat, m <= n
  PROVE  m * i <= n * i
<1>1. PICK k \in Nat : n = m + k
  BY n - m \in Nat
<1>2. n * i = m * i + k * i
  BY <1>1
<1>3. m * i \in Nat /\ k * i \in Nat
  OBVIOUS
<1>4. QED
  BY <1>2, <1>3

\* An attempt of d that both floors allow stays within the budget.
LEMMA AttemptIsPaid ==
  ASSUME IInv, NEW d \in Daemon, BeginAttempt(d)
  PROVE  asked'[d] > 1 + (used'[d] + spent'[d]) =>
           (asked'[d] - 1 - (used'[d] + spent'[d])) * Interval < last'[d]
<1> USE ConstantsAssumption
<1> DEFINE A == asked[d]
           U == used[d] + spent[d]
           L == last[d]
           S == frame[d].seen + frame[d].read
           T == frame[d].at
<1>1. A \in Nat /\ U \in Nat /\ L \in Nat /\ S \in Nat /\ T \in Nat
  BY DEF IInv, TypeOK, Frame
<1>2. asked'[d] = A + 1 /\ used'[d] + spent'[d] = S /\ last'[d] = T
  BY DEF BeginAttempt, At, IInv, TypeOK
<1>3. T >= 1 /\ T >= L /\ U <= S /\ (frame[d].queued.boundary > L => S > U)
  <2>1. pc[d] = "probe" /\ used[d] \in Nat /\ spent[d] \in Nat
    BY DEF BeginAttempt, NotSatisfied, IInv, TypeOK
  <2>2. frame[d].seen \in Nat /\ frame[d].read \in Nat /\ frame[d].at \in Nat
    BY DEF IInv, TypeOK, Frame
  <2>3. QED
    BY <2>1, <2>2 DEF IInv, LaneOK
<1>4. A > 1 + U => (A - 1 - U) * Interval < L
  BY DEF IInv, BudgetOK
<1>5. A > 0 => L > 0
  BY DEF IInv, ClockOK
<1>6. S > U \/ L = 0 \/ T >= L + Interval
  BY <1>3 DEF BeginAttempt, MayAttempt, LocalFloorIsOver, BoundaryReleases, Queued, At
<1> HIDE DEF A, U, L, S, T
<1>7. SUFFICES ASSUME A + 1 > 1 + S PROVE (A - S) * Interval < T
  BY <1>1, <1>2
<1>8. A > 0 /\ L > 0 /\ A >= U + 1
  BY <1>1, <1>3, <1>5, <1>7
<1>9. PICK n \in Nat : A = 1 + U + n
  BY <1>1, <1>8, A - 1 - U \in Nat
<1>10. n = 0 \/ n * Interval < L
  <2>1. ASSUME n > 0 PROVE n * Interval < L
    <3>1. A - 1 - U = n
      BY <1>1, <1>9
    <3>2. A > 1 + U
      BY <1>1, <1>9, <2>1
    <3>3. QED
      BY <1>4, <3>1, <3>2
  <2>2. QED
    BY <2>1
<1>11. PICK k \in Nat : k = A - S
  BY <1>1, <1>7
<1>12. Interval \in Nat /\ k * Interval \in Nat /\ n * Interval \in Nat
  OBVIOUS
<1>13. CASE S > U
  <2>1. k <= n
    BY <1>1, <1>9, <1>11, <1>13
  <2>2. k * Interval <= n * Interval
    BY <2>1, Fewer
  <2>3. n * Interval < L
    <3>1. CASE n = 0
      BY <1>1, <1>8, <3>1
    <3>2. QED
      BY <1>10, <3>1
  <2>4. QED
    BY <1>1, <1>3, <1>11, <1>12, <2>2, <2>3
<1>14. CASE T >= L + Interval
  <2>1. k <= n + 1
    BY <1>1, <1>3, <1>9, <1>11
  <2>2. k * Interval <= (n + 1) * Interval
    BY <2>1, Fewer
  <2>3. (n + 1) * Interval < T
    BY <1>1, <1>8, <1>10, <1>14, OneMore
  <2>4. (n + 1) * Interval \in Nat
    OBVIOUS
  <2>5. QED
    BY <1>1, <1>11, <1>12, <2>2, <2>3, <2>4
<1>15. QED
  BY <1>1, <1>6, <1>8, <1>13, <1>14

\* Only BeginAttempt changes what the budget counts.
LEMMA OnlyAttemptsCount ==
  ASSUME [Next]_vars, \A d \in Daemon : ~BeginAttempt(d)
  PROVE  UNCHANGED <<asked, used, spent, last>>
BY DEF Next, Deploy, Tick, DeclareLoad, DeclareSave, Boot, Die, Poll, ClearSelf,
   SkipLane, BypassLane, StartLane, LoadQueue, SeesSuccessor, Converge, Wait,
   RecordLoad, RecordSave, Accepted, Refused, ColdDeferred, EnqueueLoad, EnqueueSave,
   vars, statics, hostVars, historyVars, Goto, Leave

\* Every step keeps every daemon within its budget.
LEMMA StepBudget ==
  ASSUME IInv, [Next]_vars
  PROVE  BudgetOK'
<1>1. ASSUME NEW d \in Daemon, BeginAttempt(d) PROVE BudgetOK'
  <2>1. asked'[d] > 1 + (used'[d] + spent'[d]) =>
           (asked'[d] - 1 - (used'[d] + spent'[d])) * Interval < last'[d]
    BY <1>1, AttemptIsPaid
  <2>2. \A e \in Daemon \ {d} : /\ asked'[e] = asked[e] /\ last'[e] = last[e]
                               /\ used'[e] = used[e] /\ spent'[e] = spent[e]
    BY <1>1 DEF BeginAttempt, IInv, TypeOK
  <2>3. QED
    BY <2>1, <2>2 DEF IInv, BudgetOK
<1>2. CASE \A d \in Daemon : ~BeginAttempt(d)
  BY <1>2, OnlyAttemptsCount DEF IInv, BudgetOK
<1>3. QED
  BY <1>1, <1>2

\* The invariant is inductive.
LEMMA NextIInv == IInv /\ [Next]_vars => IInv'
BY StepType, StepWarm, StepClock, StepLane, StepEntries, StepBudget DEF IInv

\* The invariant holds in every reachable state.
LEMMA Invariance == Spec => []IInv
BY InitIInv, NextIInv, PTL DEF Spec

\* The types of the queue file, its copies and the lanes.
THEOREM TypeCorrect == Spec => []TypeOK
<1>1. IInv => TypeOK
  BY DEF IInv
<1>2. QED
  BY Invariance, <1>1, PTL

\* The fork-bomb guard, for any number of daemons and any file they leave each
\* other: one attempt, one more per interval and two more per boundary.
THEOREM RetriesAreBudgeted == Spec => []AskingIsBudgeted
<1> USE ConstantsAssumption
<1>1. IInv => AskingIsBudgeted
  <2>1. SUFFICES ASSUME IInv, NEW d \in Daemon, asked[d] > 1 + 2 * declared
                 PROVE  (asked[d] - 1 - 2 * declared) * Interval < now
    BY DEF AskingIsBudgeted
  <2>2. /\ asked[d] \in Nat /\ used[d] \in Nat /\ spent[d] \in Nat /\ declared \in Nat
        /\ last[d] \in Nat /\ now \in Nat /\ Interval \in Nat
    BY <2>1 DEF IInv, TypeOK
  <2>3. used[d] + spent[d] <= 2 * declared /\ last[d] <= now
    BY <2>1, <2>2 DEF IInv, ClockOK
  <2>4. (asked[d] - 1 - (used[d] + spent[d])) * Interval < last[d]
    BY <2>1, <2>2, <2>3 DEF IInv, BudgetOK
  <2>5. PICK m \in Nat : m = asked[d] - 1 - 2 * declared
    BY <2>1, <2>2
  <2>6. PICK n \in Nat : n = asked[d] - 1 - (used[d] + spent[d])
    BY <2>1, <2>2, <2>3
  <2>7. m * Interval <= n * Interval
    BY <2>2, <2>3, <2>5, <2>6, Fewer
  <2>8. m * Interval \in Nat /\ n * Interval \in Nat
    BY <2>2
  <2>9. QED
    BY <2>2, <2>3, <2>4, <2>5, <2>6, <2>7, <2>8
<1>2. QED
  BY Invariance, <1>1, PTL

\* A daemon that owes a swap to a newer build never goes cold on a failed retry.
THEOREM OwingStaysWarm == Spec => []OwingDaemonStaysWarm
<1>1. IInv => OwingDaemonStaysWarm
  BY DEF IInv, WarmOK, OwingDaemonStaysWarm
<1>2. QED
  BY Invariance, <1>1, PTL
=============================================================================
