-------------------------- MODULE PtyHandoffProofs --------------------------
(***************************************************************************)
(* Proofs about module PtyHandoff, for any set of sessions and any bounds. *)
(***************************************************************************)
EXTENDS PtyHandoff, TLAPS

-----------------------------------------------------------------------------
(* The records                                                             *)

\* NoSweep and NoConn, the values between two sweeps and two connections.
LEMMA NoTypes == NoSweep \in SweepState /\ NoConn \in Connection
  BY BoundsAssumption DEF NoSweep, NoConn, SweepState, Connection, Supports, Verdicts, Acks

\* An acknowledged key.
LEMMA MovedFields ==
  ASSUME NEW s \in SweepState, NEW k \in Key, NEW id \in Nat
  PROVE  LET r == Moved(s, k, id) IN
            /\ r \in SweepState
            /\ r.all = s.all /\ r.todo = s.todo \ {k} /\ r.moved = s.moved \cup {k}
            /\ r.dropped = s.dropped /\ r.failed = s.failed /\ r.support = s.support
            /\ r.identity = id /\ r.selfTries = 0 /\ r.bootTries = s.bootTries
  BY DEF Moved, SweepState

\* A dropped duplicate.
LEMMA DroppedFields ==
  ASSUME NEW s \in SweepState, NEW k \in Key
  PROVE  LET r == Dropped(s, k) IN
            /\ r \in SweepState
            /\ r.all = s.all /\ r.todo = s.todo \ {k} /\ r.moved = s.moved
            /\ r.dropped = s.dropped \cup {k} /\ r.failed = s.failed /\ r.support = s.support
            /\ r.identity = s.identity /\ r.selfTries = 0 /\ r.bootTries = s.bootTries
  BY DEF Dropped, SweepState

\* A key that failed.
LEMMA FailedFields ==
  ASSUME NEW s \in SweepState, NEW k
  PROVE  LET r == Failed(s, k) IN
            /\ r \in SweepState
            /\ r.all = s.all /\ r.todo = s.todo \ {k} /\ r.moved = s.moved
            /\ r.dropped = s.dropped /\ r.failed = TRUE /\ r.support = s.support
            /\ r.identity = s.identity /\ r.selfTries = 0 /\ r.bootTries = s.bootTries
  BY DEF Failed, SweepState

\* A verdict read before the commit point.
LEMMA HeardFields ==
  ASSUME NEW s \in SweepState
  PROVE  LET r == Heard(s) IN
            /\ r \in SweepState
            /\ r.all = s.all /\ r.todo = s.todo /\ r.moved = s.moved
            /\ r.dropped = s.dropped /\ r.failed = s.failed /\ r.support = "speaks"
            /\ r.identity = s.identity /\ r.selfTries = s.selfTries /\ r.bootTries = s.bootTries
  BY DEF Heard, Supports, SweepState

\* One more self-dial attempt.
LEMMA RetriedSelfFields ==
  ASSUME NEW s \in SweepState
  PROVE  LET r == RetriedSelf(s) IN
            /\ r \in SweepState
            /\ r.all = s.all /\ r.todo = s.todo /\ r.moved = s.moved
            /\ r.dropped = s.dropped /\ r.failed = s.failed /\ r.support = s.support
            /\ r.identity = s.identity /\ r.selfTries = s.selfTries + 1 /\ r.bootTries = s.bootTries
  BY DEF RetriedSelf, SweepState

\* One more pause of the boot-refusal budget.
LEMMA RetriedBootFields ==
  ASSUME NEW s \in SweepState
  PROVE  LET r == RetriedBoot(s) IN
            /\ r \in SweepState
            /\ r.all = s.all /\ r.todo = s.todo /\ r.moved = s.moved
            /\ r.dropped = s.dropped /\ r.failed = s.failed /\ r.support = s.support
            /\ r.identity = s.identity /\ r.selfTries = s.selfTries /\ r.bootTries = s.bootTries + 1
  BY DEF RetriedBoot, CountBootRetry, SweepState

\* The boot-refusal budget is used up for the whole sweep.
LEMMA BudgetSpentFields ==
  ASSUME NEW s \in SweepState
  PROVE  LET r == BudgetSpent(s) IN
            /\ r \in SweepState
            /\ r.all = s.all /\ r.todo = s.todo /\ r.moved = s.moved
            /\ r.dropped = s.dropped /\ r.failed = s.failed /\ r.support = s.support
            /\ r.identity = s.identity /\ r.selfTries = s.selfTries /\ r.bootTries = BootRetries
  BY BoundsAssumption DEF BudgetSpent, SweepState

\* A refusal heard before the commit point that fails the key.
LEMMA HeardFailedFields ==
  ASSUME NEW s \in SweepState, NEW k
  PROVE  LET r == Heard(Failed(s, k)) IN
            /\ r \in SweepState
            /\ r.all = s.all /\ r.todo = s.todo \ {k} /\ r.moved = s.moved
            /\ r.dropped = s.dropped /\ r.failed = TRUE /\ r.support = "speaks"
            /\ r.identity = s.identity /\ r.selfTries = 0 /\ r.bootTries = s.bootTries
<1> DEFINE f == Failed(s, k)
<1>1. /\ f \in SweepState /\ f.all = s.all /\ f.todo = s.todo \ {k} /\ f.moved = s.moved
      /\ f.dropped = s.dropped /\ f.failed = TRUE
      /\ f.identity = s.identity /\ f.selfTries = 0 /\ f.bootTries = s.bootTries
  BY FailedFields
<1> HIDE DEF f
<1>2. LET r == Heard(f) IN
            /\ r \in SweepState
            /\ r.all = s.all /\ r.todo = s.todo \ {k} /\ r.moved = s.moved
            /\ r.dropped = s.dropped /\ r.failed = TRUE /\ r.support = "speaks"
            /\ r.identity = s.identity /\ r.selfTries = 0 /\ r.bootTries = s.bootTries
  BY <1>1, HeardFields
<1> QED
  BY <1>2 DEF f

\* A seat conflict heard before the commit point that drops the key.
LEMMA HeardDroppedFields ==
  ASSUME NEW s \in SweepState, NEW k \in Key
  PROVE  LET r == Heard(Dropped(s, k)) IN
            /\ r \in SweepState
            /\ r.all = s.all /\ r.todo = s.todo \ {k} /\ r.moved = s.moved
            /\ r.dropped = s.dropped \cup {k} /\ r.failed = s.failed
            /\ r.identity = s.identity /\ r.selfTries = 0 /\ r.bootTries = s.bootTries
<1> DEFINE f == Dropped(s, k)
<1>1. /\ f \in SweepState /\ f.all = s.all /\ f.todo = s.todo \ {k} /\ f.moved = s.moved
      /\ f.dropped = s.dropped \cup {k} /\ f.failed = s.failed
      /\ f.identity = s.identity /\ f.selfTries = 0 /\ f.bootTries = s.bootTries
  BY DroppedFields
<1> HIDE DEF f
<1>2. LET r == Heard(f) IN
            /\ r \in SweepState
            /\ r.all = s.all /\ r.todo = s.todo \ {k} /\ r.moved = s.moved
            /\ r.dropped = s.dropped \cup {k} /\ r.failed = s.failed
            /\ r.identity = s.identity /\ r.selfTries = 0 /\ r.bootTries = s.bootTries
  BY <1>1, HeardFields
<1> QED
  BY <1>2 DEF f

-----------------------------------------------------------------------------
(* Types                                                                   *)

\* What the sweep's program counter says of its locals and its connection.
Shape ==
    /\ pc \in {"verdict", "ack"} => cur \in sweep.todo
    /\ pc \in {"idle", "next"} => conn = NoConn
    /\ pstate # "up" => pc = "idle"
    /\ SuccUp => bound = "succ"

TypeInv == TypeOK /\ Shape

\* The initial states have the right types.
LEMMA InitType == Init => TypeInv
<1> SUFFICES ASSUME Init PROVE TypeInv
  OBVIOUS
<1>1. sweep \in SweepState /\ conn \in Connection
  BY NoTypes DEF Init
<1> QED
  BY <1>1, NoKeyAssumption, SameVersionAssumption, BoundsAssumption
  DEF Init, TypeInv, TypeOK, Shape, SuccUp, NoSweep, Seats

\* One step of the sweep keeps the types: the key it works on stays a key of
\* the sweep, and the retry counters stay inside their budgets.
LEMMA SweepStepType == TypeInv /\ SweepStep => TypeInv'
<1> SUFFICES ASSUME TypeInv, SweepStep PROVE TypeInv'
  OBVIOUS
<1>0. /\ sweep.all \subseteq Key /\ sweep.todo \subseteq Key /\ sweep.moved \subseteq Key
      /\ sweep.dropped \subseteq Key /\ sweep.identity \in Nat
      /\ sweep \in SweepState /\ conn \in Connection
      /\ sweep.selfTries \in 0..SelfDialRetries /\ sweep.bootTries \in 0..BootRetries
      /\ sweep.selfTries \in Nat /\ sweep.bootTries \in Nat
      /\ pc \in {"verdict", "ack"} => cur \in sweep.todo
  BY DEF TypeInv, TypeOK, Shape, SweepState
<1>00. /\ Failed(sweep, cur) \in SweepState
       /\ Failed(sweep, cur).selfTries = 0 /\ Failed(sweep, cur).bootTries = sweep.bootTries
  BY <1>0, FailedFields
<1>1. ASSUME NEW k \in Key, TakeoutFails(k) PROVE TypeInv'
  <2>1. sweep' \in SweepState /\ sweep'.selfTries = 0 /\ sweep'.bootTries = sweep.bootTries
    BY <1>0, <1>1, FailedFields DEF TakeoutFails
  <2> QED
    BY <1>1, <2>1, BoundsAssumption
    DEF TypeInv, TypeOK, Shape, SuccUp, TakeoutFails, predVars, succVars, histVars
<1>2. ASSUME NEW k \in Key, ConnectFails(k) PROVE TypeInv'
  <2>1. sweep' \in SweepState /\ sweep'.selfTries = 0 /\ sweep'.bootTries = sweep.bootTries
    BY <1>0, <1>2, FailedFields DEF ConnectFails
  <2> QED
    BY <1>2, <2>1, BoundsAssumption
    DEF TypeInv, TypeOK, Shape, SuccUp, ConnectFails, Trying, predVars, succVars, histVars
<1>3. ASSUME NEW k \in Key, Dial(k) PROVE TypeInv'
  <2>1. conn' \in Connection
    BY <1>3 DEF TypeInv, TypeOK, Shape, SuccUp, Dial, NoConn, Connection, Verdicts, Acks
  <2> QED
    BY <1>3, <2>1, NoTypes
  DEF TypeInv, TypeOK, Shape, SuccUp, Dial, Trying, predVars, succVars, histVars
<1>4. CASE VerdictTimeout \/ VerdictProceed
  <2>1. conn' \in Connection
    BY <1>0, <1>4 DEF VerdictTimeout, VerdictProceed, CommitFd, Connection
  <2>2. sweep' \in SweepState /\ sweep'.todo = sweep.todo
           /\ sweep'.selfTries = sweep.selfTries /\ sweep'.bootTries = sweep.bootTries
    BY <1>0, <1>4, HeardFields
    DEF VerdictTimeout, VerdictProceed, SawSilence, SweepState, Supports
  <2> QED
    BY <1>4, <2>1, <2>2
    DEF TypeInv, TypeOK, Shape, SuccUp, VerdictTimeout, VerdictProceed, predVars, succVars, histVars
<1>5. CASE RetryRefused
  <2>1. sweep' \in SweepState /\ sweep'.selfTries \in 0..SelfDialRetries
           /\ sweep'.bootTries \in 0..BootRetries
    BY <1>0, <1>5, HeardFields, RetriedSelfFields, RetriedBootFields, BoundsAssumption
    DEF RetryRefused, MayRetrySelf, MayRetryBoot
  <2> QED
    BY <1>5, <2>1, NoTypes
    DEF TypeInv, TypeOK, Shape, SuccUp, RetryRefused, predVars, succVars, histVars
<1>6. CASE GiveUpRefused
  <2>1. sweep' \in SweepState /\ sweep'.selfTries \in 0..SelfDialRetries
           /\ sweep'.bootTries \in 0..BootRetries
    <3>1. CASE sweep' = Heard(Failed(sweep, cur))
      BY <1>0, <1>00, <3>1, HeardFields, BoundsAssumption
    <3>2. CASE sweep' = Heard(Failed(BudgetSpent(sweep), cur))
      <4>1. BudgetSpent(sweep) \in SweepState /\ BudgetSpent(sweep).bootTries = BootRetries
        BY <1>0, BudgetSpentFields
      <4>2. /\ Failed(BudgetSpent(sweep), cur) \in SweepState
            /\ Failed(BudgetSpent(sweep), cur).bootTries = BootRetries
            /\ Failed(BudgetSpent(sweep), cur).selfTries = 0
        BY <4>1, FailedFields
      <4> QED
        BY <3>2, <4>2, HeardFields, BoundsAssumption
    <3> QED
      BY <1>6, <3>1, <3>2 DEF GiveUpRefused
  <2> QED
    BY <1>6, <2>1, NoTypes
    DEF TypeInv, TypeOK, Shape, SuccUp, GiveUpRefused, predVars, succVars, histVars
<1>7. CASE DropDuplicate
  <2>1. sweep' \in SweepState /\ sweep'.selfTries = 0 /\ sweep'.bootTries = sweep.bootTries
    <3>1. CASE sweep' = Heard(Failed(sweep, cur))
      BY <1>0, <1>00, <3>1, HeardFields
    <3>2. CASE sweep' = Heard(Dropped(sweep, cur))
      <4>1. cur \in Key
        BY <1>0, <1>7 DEF DropDuplicate
      <4> QED
        BY <1>0, <3>2, <4>1, HeardFields, DroppedFields
    <3> QED
      BY <1>7, <3>1, <3>2 DEF DropDuplicate
  <2>2. child' \in [Key -> {"unborn", "alive", "killed", "exited"}]
    BY <1>7 DEF TypeInv, TypeOK, DropDuplicate
  <2> QED
    BY <1>7, <2>1, <2>2, NoTypes, BoundsAssumption
    DEF TypeInv, TypeOK, Shape, SuccUp, DropDuplicate, succVars, histVars
<1>8. CASE VerdictLost
  <2>1. sweep' \in SweepState /\ sweep'.selfTries = 0 /\ sweep'.bootTries = sweep.bootTries
    BY <1>0, <1>8, FailedFields DEF VerdictLost
  <2> QED
    BY <1>8, <2>1, NoTypes, BoundsAssumption
    DEF TypeInv, TypeOK, Shape, SuccUp, VerdictLost, predVars, succVars, histVars
<1>9. CASE AckAdopted
  <2>1. cur \in Key /\ conn.peer \in 0..MaxIncarnations
    BY <1>9, <1>0 DEF AckAdopted, Connection
  <2>2. sweep' \in SweepState /\ sweep'.selfTries = 0 /\ sweep'.bootTries = sweep.bootTries
    BY <1>0, <1>9, <2>1, MovedFields, SMTT(60) DEF AckAdopted
  <2> QED
    BY <1>9, <2>1, <2>2, NoTypes, BoundsAssumption
    DEF TypeInv, TypeOK, Shape, SuccUp, AckAdopted, predVars, succVars
<1>10. CASE AckFails
  <2>1. cur \in Key
    BY <1>10, <1>0 DEF AckFails
  <2>2. sweep' \in SweepState /\ sweep'.selfTries = 0 /\ sweep'.bootTries = sweep.bootTries
    BY <1>0, <1>10, FailedFields DEF AckFails
  <2> QED
    BY <1>10, <2>1, <2>2, NoTypes, BoundsAssumption
    DEF TypeInv, TypeOK, Shape, SuccUp, AckFails, predVars
<1>11. CASE FinishSweep
  <2>1. watches' \subseteq Watch
    <3>1. AllMoved(sweep) \in BOOLEAN
      BY <1>0 DEF AllMoved, SweepState
    <3>2. [held |-> sweep.moved, allMoved |-> AllMoved(sweep), identity |-> sweep.identity,
           leaving |-> FALSE, swept |-> sweep.all] \in Watch
      BY <1>0, <3>1 DEF Watch
    <3> QED
      BY <1>11, <3>2 DEF FinishSweep, TypeInv, TypeOK
  <2>2. sweep'.selfTries = 0 /\ sweep'.bootTries = 0
    BY <1>11 DEF FinishSweep, NoSweep
  <2> QED
    BY <1>11, <2>1, <2>2, NoTypes, BoundsAssumption
    DEF TypeInv, TypeOK, Shape, SuccUp, FinishSweep, Resumed, succVars, histVars
<1> QED
  BY <1>1, <1>2, <1>3, <1>4, <1>5, <1>6, <1>7, <1>8, <1>9, <1>10, <1>11 DEF SweepStep

\* A step of a settle watch keeps the types.
LEMMA WatchStepType == TypeInv /\ WatchStep => TypeInv'
<1> SUFFICES ASSUME TypeInv, NEW w \in watches,
                    WatchSuccessorDied(w) \/ WatchWindowEnds(w) \/ Exit(w)
             PROVE  TypeInv'
  BY DEF WatchStep
<1>1. CASE WatchSuccessorDied(w)
  BY <1>1 DEF TypeInv, TypeOK, Shape, SuccUp, WatchSuccessorDied, sweepVars, succVars, Watch
<1>2. CASE WatchWindowEnds(w)
  <2>1. watches' \subseteq Watch
    BY <1>2 DEF TypeInv, TypeOK, WatchWindowEnds, Watch
  <2> QED
    BY <1>2, <2>1
    DEF TypeInv, TypeOK, Shape, SuccUp, WatchWindowEnds, predVars, sweepVars, succVars, histVars
<1>3. CASE Exit(w)
  <2>1. sweep'.selfTries = 0 /\ sweep'.bootTries = 0
    BY <1>3 DEF Exit, Hangup, NoSweep
  <2> QED
    BY <1>3, <2>1, NoTypes, BoundsAssumption
    DEF TypeInv, TypeOK, Shape, SuccUp, Exit, Hangup, histVars
<1> QED
  BY <1>1, <1>2, <1>3

\* A step of a hand-off listener keeps the types.
LEMMA ServeStepType == TypeInv /\ ServeStep => TypeInv'
<1> SUFFICES ASSUME TypeInv, ServeStep PROVE TypeInv'
  OBVIOUS
<1>1. \A k \in Key : AdoptResult(k) \in Seats
  BY DEF AdoptResult, Seats
<1>2. CASE ServeVerdict
  <2>1. conn' \in Connection
    BY <1>2 DEF TypeInv, TypeOK, ServeVerdict, Connection, Verdicts, Acks
  <2>2. pc \in {"verdict", "ack"}
    BY <1>2 DEF TypeInv, TypeOK, Shape, ServeVerdict, NoConn
  <2> QED
    BY <1>2, <2>1, <2>2
    DEF TypeInv, TypeOK, Shape, SuccUp, ServeVerdict, predVars, sweepVars, succVars, histVars
<1>3. CASE ServeAdopt
  <2>1. conn' \in Connection
    BY <1>3 DEF TypeInv, TypeOK, ServeAdopt, Connection, Acks
  <2>2. pc \in {"verdict", "ack"}
    BY <1>3 DEF TypeInv, TypeOK, Shape, ServeAdopt, NoConn
  <2>3. seat' \in [Key -> Seats]
    BY <1>1, <1>3, <2>2 DEF TypeInv, TypeOK, Shape, ServeAdopt, SweepState
  <2> QED
    BY <1>3, <2>1, <2>2, <2>3
    DEF TypeInv, TypeOK, Shape, SuccUp, ServeAdopt, predVars, sweepVars, histVars
<1>4. CASE ServeLateAdopt
  <2>1. seat' \in [Key -> Seats]
    BY <1>1, <1>4 DEF TypeInv, TypeOK, ServeLateAdopt
  <2> QED
    BY <1>4, <2>1
    DEF TypeInv, TypeOK, Shape, SuccUp, ServeLateAdopt, predVars, sweepVars, histVars
<1>5. CASE RefuseSelfDial
  <2>1. conn' \in Connection
    BY <1>5 DEF TypeInv, TypeOK, RefuseSelfDial, Connection, Verdicts, Acks
  <2>2. pc \in {"verdict", "ack"}
    BY <1>5 DEF TypeInv, TypeOK, Shape, RefuseSelfDial, NoConn
  <2> QED
    BY <1>5, <2>1, <2>2
    DEF TypeInv, TypeOK, Shape, SuccUp, RefuseSelfDial, predVars, sweepVars, succVars, histVars
<1> QED
  BY <1>2, <1>3, <1>4, <1>5 DEF ServeStep

\* Requests, crashes and the successor's own life keep the types.
LEMMA EnvironmentType == TypeInv /\ Environment => TypeInv'
<1> SUFFICES ASSUME TypeInv, Environment PROVE TypeInv'
  OBVIOUS
<1> USE DEF TypeInv, TypeOK, Shape, SuccUp, predVars, sweepVars, succVars, histVars
<1>1. CASE StartSweep
  <2>1. /\ sweep' \in SweepState /\ sweep'.selfTries = 0 /\ sweep'.bootTries = 0
    BY <1>1, NoTypes DEF StartSweep, NoSweep, SweepState
  <2> QED
    BY <1>1, <2>1, BoundsAssumption DEF StartSweep
<1>2. CASE PredCrash
  <2>1. sweep'.selfTries = 0 /\ sweep'.bootTries = 0
    BY <1>2 DEF PredCrash, Hangup, NoSweep
  <2> QED
    BY <1>2, <2>1, NoTypes, BoundsAssumption DEF PredCrash, Hangup
<1>3. CASE Shutdown
  BY <1>3 DEF Shutdown
<1>4. CASE SpawnSuccessor
  BY <1>4, BoundsAssumption DEF SpawnSuccessor
<1>5. CASE BindListener
  BY <1>5 DEF BindListener
<1>6. CASE BecomeReady
  BY <1>6 DEF BecomeReady
<1>7. CASE SuccCrash
  <2>1. conn' \in Connection
    BY <1>7 DEF SuccCrash, Connection
  <2>2. pc \in {"idle", "next"} => conn' = NoConn
    <3>1. NoConn.st = "none"
      BY DEF NoConn
    <3> QED
      BY <1>7, <3>1 DEF SuccCrash
  <2>3. seat' \in [Key -> Seats]
    BY <1>7 DEF SuccCrash, Seats
  <2> QED
    BY <1>7, <2>1, <2>2, <2>3 DEF SuccCrash
<1>8. ASSUME NEW k \in Key, OpenStandIn(k) \/ TypeIntoStandIn(k) \/ CloseAtSuccessor(k)
      PROVE  TypeInv'
  <2>1. seat' \in [Key -> Seats]
    BY <1>8 DEF OpenStandIn, TypeIntoStandIn, CloseAtSuccessor, Seats
  <2> QED
    BY <1>8, <2>1 DEF OpenStandIn, TypeIntoStandIn, CloseAtSuccessor
<1>9. ASSUME NEW k \in Key,
             CreateSession(k) \/ DrainRelease(k) \/ TeardownRefused(k) \/ ChildExits(k)
      PROVE  TypeInv'
  BY <1>9 DEF CreateSession, DrainRelease, TeardownRefused, ChildExits
<1> QED
  BY <1>1, <1>2, <1>3, <1>4, <1>5, <1>6, <1>7, <1>8, <1>9 DEF Environment

\* The types, and what the sweep's position says of its locals, are inductive.
LEMMA TypeInductive == TypeInv /\ [Next]_vars => TypeInv'
<1> SUFFICES ASSUME TypeInv, [Next]_vars PROVE TypeInv'
  OBVIOUS
<1>1. CASE UNCHANGED vars
  BY <1>1 DEF TypeInv, TypeOK, Shape, SuccUp, vars, predVars, sweepVars, succVars, histVars
<1> QED
  BY <1>1, SweepStepType, WatchStepType, ServeStepType, EnvironmentType DEF Next

\* Every reachable state of the hand-off is well typed: the retry budgets of a
\* sweep (SELF_DIAL_RETRY_ATTEMPTS per key, BOOT_REFUSAL_RETRY_BUDGET per sweep)
\* are never exceeded, for any number of sessions, sweeps and successors.
THEOREM TypeCorrect == Spec => []TypeOK
<1>1. Spec => []TypeInv
  BY InitType, TypeInductive, PTL DEF Spec
<1>2. TypeInv => TypeOK
  BY DEF TypeInv
<1> QED
  BY <1>1, <1>2, PTL

-----------------------------------------------------------------------------
(* One reader per PTY                                                      *)

NoneSeated == \A k \in Key : seat[k] # "orig"

\* Only a ready successor holds a predecessor's session or a late connection.
SeatInv ==
    /\ sstate # "ready" => NoneSeated /\ late = NoKey
    /\ \A k \in Key : child[k] = "unborn" => seat[k] # "orig"

\* What the open connection says of the process at its other end: a refused or
\* broken hand-off has left the key unseated.
ConnInv ==
    /\ conn.st = "open" /\ conn.to = "succ" /\ conn.verdict = "proceed" => sstate = "ready"
    /\ conn.to = "self" => NoneSeated /\ late = NoKey
    /\ conn.verdict = "self" => conn.to = "self"
    /\ conn.verdict \in {"boot", "conflict"} => late = NoKey /\ seat[cur] # "orig"
    /\ conn.st = "broken" => late = NoKey /\ seat[cur] # "orig"
    /\ late # NoKey => conn.ack # "adopted"

\* During a sweep the keys still to try are silent, and a key that failed is
\* read by the successor only if it was committed without an acknowledgement.
SweepInv ==
    pc # "idle" =>
       /\ sweep.todo \subseteq parked \cup raced
       /\ \A k \in sweep.all \ (sweep.todo \cup sweep.moved \cup sweep.dropped) :
             k \in runtime /\ SuccReads(k) => k \in unacked \cup raced

\* An abandoned connection belongs to a key whose commit went unacknowledged.
LateInv == late # NoKey /\ pstate = "up" => late \in unacked

ReaderInv == SeatInv /\ ConnInv /\ SweepInv /\ LateInv /\ OneReader

\* A connection that is not open says nothing.
LEMMA NoConnFields ==
  /\ NoConn.st = "none" /\ NoConn.to = "succ" /\ NoConn.verdict = "none"
  /\ NoConn.ack = "none" /\ ~NoConn.fd /\ NoConn.peer = 0
  BY DEF NoConn

\* adopt_session never seats a session whose child is not running.
LEMMA AdoptAlive ==
  ASSUME NEW k \in Key, seat[k] \in Seats, AdoptResult(k) = "orig" PROVE child[k] = "alive"
  BY DEF AdoptResult, SeatVerdict, Seats

\* Initially no process but the predecessor reads anything.
LEMMA InitReader == Init => ReaderInv
  BY NoConnFields DEF Init, ReaderInv, SeatInv, NoneSeated, ConnInv, SweepInv, LateInv, OneReader, SuccReads

\* A step of the sweep leaves at most one reader on every PTY.
LEMMA SweepStepReader == TypeInv /\ ReaderInv /\ SweepStep => ReaderInv'
<1> SUFFICES ASSUME TypeInv, ReaderInv, SweepStep PROVE ReaderInv'
  OBVIOUS
<1> USE DEF ReaderInv, SeatInv, NoneSeated, ConnInv, SweepInv, LateInv, OneReader, PredReads, SuccReads
<1>0. /\ sweep \in SweepState /\ conn \in Connection /\ sweep.todo \subseteq Key
      /\ pc \in {"verdict", "ack"} => cur \in sweep.todo
      /\ seat \in [Key -> Seats] /\ NoKey \notin Key
      /\ SuccUp => bound = "succ"
  BY NoKeyAssumption DEF TypeInv, TypeOK, Shape, SweepState
<1>1. ASSUME NEW k \in Key, TakeoutFails(k) \/ ConnectFails(k) PROVE ReaderInv'
  <2>1. /\ sweep'.all = sweep.all /\ sweep'.todo = sweep.todo \ {k}
        /\ sweep'.moved = sweep.moved /\ sweep'.dropped = sweep.dropped
    <3>1. sweep' = Failed(sweep, k)
      BY <1>1 DEF TakeoutFails, ConnectFails
    <3> QED
      BY <1>0, <3>1, FailedFields
  <2>2. pc = "next" /\ pc' = pc /\ conn' = NoConn
    BY <1>1 DEF TakeoutFails, ConnectFails, Trying, TypeInv, Shape
  <2>3. ~SuccReads(k)
    BY <1>1 DEF TakeoutFails, ConnectFails, SuccUp
  <2> QED
    BY <1>1, <2>1, <2>2, <2>3, NoConnFields DEF TakeoutFails, ConnectFails, predVars, succVars, histVars
<1>2. ASSUME NEW k \in Key, Dial(k) PROVE ReaderInv'
  <2>1. /\ conn'.st = "open" /\ conn'.to = bound /\ conn'.verdict = "none" /\ conn'.ack = "none"
    BY <1>2 DEF Dial, NoConn
  <2>2. pc = "next" /\ pc' # "idle"
    BY <1>2 DEF Dial, Trying
  <2> QED
    BY <1>0, <1>2, <2>1, <2>2 DEF Dial, SuccUp, predVars, succVars, histVars
<1>3. CASE VerdictTimeout \/ VerdictProceed
  <2>1. /\ sweep'.all = sweep.all /\ sweep'.todo = sweep.todo
        /\ sweep'.moved = sweep.moved /\ sweep'.dropped = sweep.dropped
    BY <1>0, <1>3, HeardFields DEF VerdictTimeout, VerdictProceed, SawSilence, SweepState
  <2>2. /\ conn'.st = conn.st /\ conn'.to = conn.to
        /\ conn'.verdict = conn.verdict /\ conn'.ack = conn.ack
    BY <1>0, <1>3 DEF VerdictTimeout, VerdictProceed, CommitFd, Connection
  <2>3. pc = "verdict" /\ pc' = "ack"
    BY <1>3 DEF VerdictTimeout, VerdictProceed
  <2> QED
    BY <1>3, <2>1, <2>2, <2>3 DEF VerdictTimeout, VerdictProceed, predVars, succVars, histVars
<1>4. CASE RetryRefused
  <2>1. /\ sweep'.all = sweep.all /\ sweep'.todo = sweep.todo
        /\ sweep'.moved = sweep.moved /\ sweep'.dropped = sweep.dropped
    BY <1>0, <1>4, HeardFields, RetriedSelfFields, RetriedBootFields DEF RetryRefused
  <2> QED
    BY <1>4, <2>1, NoConnFields DEF RetryRefused, predVars, succVars, histVars
<1>5. CASE GiveUpRefused
  <2>1. /\ sweep'.all = sweep.all /\ sweep'.todo = sweep.todo \ {cur}
        /\ sweep'.moved = sweep.moved /\ sweep'.dropped = sweep.dropped
    <3>1. CASE sweep' = Heard(Failed(sweep, cur))
      BY <1>0, <3>1, HeardFailedFields
    <3>2. CASE sweep' = Heard(Failed(BudgetSpent(sweep), cur))
      <4> DEFINE b == BudgetSpent(sweep)
      <4>1. /\ b \in SweepState /\ b.all = sweep.all /\ b.todo = sweep.todo
            /\ b.moved = sweep.moved /\ b.dropped = sweep.dropped
        BY <1>0, BudgetSpentFields
      <4> HIDE DEF b
      <4>2. LET r == Heard(Failed(b, cur)) IN
               /\ r.all = sweep.all /\ r.todo = sweep.todo \ {cur}
               /\ r.moved = sweep.moved /\ r.dropped = sweep.dropped
        BY <4>1, HeardFailedFields, ZenonT(60)
      <4> QED
        BY <3>2, <4>2 DEF b
    <3> QED
      BY <1>5, <3>1, <3>2 DEF GiveUpRefused
  <2>2. ~SuccReads(cur)
    BY <1>0, <1>5 DEF GiveUpRefused
  <2> QED
    BY <1>5, <2>1, <2>2, NoConnFields DEF GiveUpRefused, predVars, succVars, histVars
<1>6. CASE DropDuplicate
  <2>1. /\ sweep'.all = sweep.all /\ sweep'.todo = sweep.todo \ {cur}
        /\ sweep'.moved = sweep.moved /\ sweep.dropped \subseteq sweep'.dropped
    <3>1. CASE sweep' = Heard(Failed(sweep, cur))
      BY <1>0, <3>1, HeardFailedFields
    <3>2. CASE sweep' = Heard(Dropped(sweep, cur))
      <4>1. cur \in Key
        BY <1>0, <1>6 DEF DropDuplicate
      <4> QED
        BY <1>0, <3>2, <4>1, HeardDroppedFields
    <3> QED
      BY <1>6, <3>1, <3>2 DEF DropDuplicate
  <2>2. \A k \in Key : child'[k] = "alive" => child[k] = "alive"
    BY <1>6 DEF DropDuplicate, TypeInv, TypeOK
  <2>3. \A k \in Key : child'[k] = "unborn" => child[k] = "unborn"
    BY <1>6 DEF DropDuplicate, TypeInv, TypeOK
  <2> QED
    BY <1>6, <2>1, <2>2, <2>3, NoConnFields DEF DropDuplicate, succVars, histVars
<1>7. CASE VerdictLost
  <2>1. /\ sweep'.all = sweep.all /\ sweep'.todo = sweep.todo \ {cur}
        /\ sweep'.moved = sweep.moved /\ sweep'.dropped = sweep.dropped
    BY <1>0, <1>7, FailedFields DEF VerdictLost
  <2> QED
    BY <1>7, <2>1, NoConnFields DEF VerdictLost, predVars, succVars, histVars
<1>8. CASE AckAdopted
  <2>1. /\ sweep'.all = sweep.all /\ sweep'.todo = sweep.todo \ {cur}
        /\ sweep'.moved = sweep.moved \cup {cur} /\ sweep'.dropped = sweep.dropped
    <3>1. cur \in Key /\ conn.peer \in Nat
      BY <1>0, <1>8, BoundsAssumption DEF AckAdopted, Connection
    <3> QED
      BY <1>0, <1>8, <3>1, MovedFields DEF AckAdopted
  <2> QED
    BY <1>0, <1>8, <2>1, NoConnFields DEF AckAdopted, predVars, succVars
<1>9. CASE AckFails
  <2>1. /\ sweep'.all = sweep.all /\ sweep'.todo = sweep.todo \ {cur}
        /\ sweep'.moved = sweep.moved /\ sweep'.dropped = sweep.dropped
    BY <1>0, <1>9, FailedFields DEF AckFails
  <2> QED
    BY <1>0, <1>9, <2>1, NoConnFields DEF AckFails, predVars
<1>10. CASE FinishSweep
  BY <1>0, <1>10 DEF FinishSweep, Resumed, TypeInv, Shape, succVars, histVars
<1> QED
  BY <1>1, <1>2, <1>3, <1>4, <1>5, <1>6, <1>7, <1>8, <1>9, <1>10 DEF SweepStep

\* A watch that wakes readers marks the ones a later sweep is handing over; one
\* that ends the process leaves no reader at all.
LEMMA WatchStepReader == TypeInv /\ ReaderInv /\ WatchStep => ReaderInv'
<1> SUFFICES ASSUME TypeInv, ReaderInv, NEW w \in watches,
                    WatchSuccessorDied(w) \/ WatchWindowEnds(w) \/ Exit(w)
             PROVE  ReaderInv'
  BY DEF WatchStep
<1> USE DEF ReaderInv, SeatInv, NoneSeated, ConnInv, SweepInv, LateInv, OneReader, PredReads, SuccReads
<1>1. CASE WatchSuccessorDied(w)
  BY <1>1 DEF WatchSuccessorDied, TypeInv, TypeOK, sweepVars, succVars
<1>2. CASE WatchWindowEnds(w)
  BY <1>2 DEF WatchWindowEnds, predVars, sweepVars, succVars, histVars
<1>3. CASE Exit(w)
  BY <1>3, NoConnFields DEF Exit, Hangup, histVars
<1> QED
  BY <1>1, <1>2, <1>3

\* The successor seats a session only while the predecessor's reader is parked,
\* or after a commit that was never acknowledged.
LEMMA ServeStepReader == TypeInv /\ ReaderInv /\ ServeStep => ReaderInv'
<1> SUFFICES ASSUME TypeInv, ReaderInv, ServeStep PROVE ReaderInv'
  OBVIOUS
<1> USE DEF ReaderInv, SeatInv, NoneSeated, ConnInv, SweepInv, LateInv, OneReader, PredReads, SuccReads
<1>0. /\ conn \in Connection /\ sweep.todo \subseteq Key /\ NoKey \notin Key
      /\ conn.st # "none" => pc # "idle" /\ cur \in sweep.todo
      /\ seat \in [Key -> Seats] /\ late \in Key \cup {NoKey}
      /\ SuccUp => bound = "succ"
  BY NoKeyAssumption, NoConnFields DEF TypeInv, TypeOK, Shape, SweepState
<1>1. CASE ServeVerdict
  <2>1. conn'.st = "open" /\ conn'.to = "succ" /\ conn'.ack \in {conn.ack, "refused"}
    BY <1>0, <1>1 DEF ServeVerdict, Connection
  <2>2. \/ conn'.verdict = "boot" /\ sstate = "booting"
        \/ conn'.verdict = "conflict" /\ sstate = "ready" /\ SeatVerdict(cur) = "Conflict"
        \/ conn'.verdict = "proceed" /\ sstate = "ready"
    BY <1>0, <1>1 DEF ServeVerdict, Connection
  <2>3. SeatVerdict(cur) = "Conflict" => seat[cur] # "orig"
    BY <1>0, <1>1 DEF SeatVerdict
  <2> QED
    BY <1>0, <1>1, <2>1, <2>2, <2>3 DEF ServeVerdict, predVars, sweepVars, succVars, histVars
<1>2. CASE RefuseSelfDial
  <2>1. conn'.st = "open" /\ conn'.to = "self" /\ conn'.verdict = "self" /\ conn'.ack = "closed"
    BY <1>0, <1>2 DEF RefuseSelfDial, Connection
  <2> QED
    BY <1>0, <1>2, <2>1 DEF RefuseSelfDial, predVars, sweepVars, succVars, histVars
<1>3. CASE ServeAdopt
  <2>1. conn'.st = "open" /\ conn'.to = "succ" /\ conn'.verdict = "proceed"
    BY <1>0, <1>3 DEF ServeAdopt, Connection
  <2>2. /\ cur \in Key
        /\ seat'[cur] = "orig" => child[cur] = "alive"
        /\ \A k \in Key : k # cur => seat'[k] = seat[k]
    BY <1>0, <1>3, AdoptAlive DEF ServeAdopt
  <2> QED
    BY <1>0, <1>3, <2>1, <2>2 DEF ServeAdopt, predVars, sweepVars, histVars
<1>4. CASE ServeLateAdopt
  <2>1. /\ late \in Key
        /\ seat'[late] = "orig" => child[late] = "alive"
        /\ \A k \in Key : k # late => seat'[k] = seat[k]
    BY <1>0, <1>4, AdoptAlive DEF ServeLateAdopt
  <2> QED
    BY <1>0, <1>4, <2>1 DEF ServeLateAdopt, predVars, sweepVars, histVars, TypeInv, Shape
<1> QED
  BY <1>1, <1>2, <1>3, <1>4 DEF ServeStep

\* Requests, crashes and the successor's own life never add a second reader.
LEMMA EnvironmentReader == TypeInv /\ ReaderInv /\ Environment => ReaderInv'
<1> SUFFICES ASSUME TypeInv, ReaderInv, Environment PROVE ReaderInv'
  OBVIOUS
<1> USE DEF ReaderInv, SeatInv, NoneSeated, ConnInv, SweepInv, LateInv, OneReader, PredReads, SuccReads,
            predVars, sweepVars, succVars, histVars
<1>0. /\ conn \in Connection /\ NoKey \notin Key
      /\ conn.st # "none" \/ conn.verdict # "none" => pc # "idle" /\ cur \in Key
      /\ seat \in [Key -> Seats] /\ late \in Key \cup {NoKey} /\ runtime \subseteq Key
      /\ child \in [Key -> {"unborn", "alive", "killed", "exited"}]
      /\ SuccUp => bound = "succ"
      /\ pstate # "up" => pc = "idle"
      /\ pc = "idle" => conn = NoConn
  BY NoKeyAssumption, NoConnFields DEF TypeInv, TypeOK, Shape, SweepState
<1>1. CASE StartSweep
  <2>1. sweep'.all = runtime /\ sweep'.todo = runtime
    BY <1>1 DEF StartSweep, NoSweep
  <2> QED
    BY <1>0, <1>1, <2>1 DEF StartSweep
<1>2. CASE PredCrash
  BY <1>0, <1>2, NoConnFields DEF PredCrash, Hangup
<1>3. CASE Shutdown
  BY <1>0, <1>3 DEF Shutdown
<1>4. CASE SpawnSuccessor
  BY <1>0, <1>4 DEF SpawnSuccessor
<1>5. CASE BindListener
  BY <1>0, <1>5 DEF BindListener
<1>6. CASE BecomeReady
  BY <1>0, <1>6 DEF BecomeReady
<1>7. CASE SuccCrash
  <2>1. /\ conn'.to = conn.to /\ conn'.verdict = conn.verdict /\ conn'.ack = conn.ack
        /\ conn'.st # "open" \/ conn.to # "succ"
    BY <1>0, <1>7 DEF SuccCrash, Connection
  <2>2. conn'.st = "broken" => cur \in Key
    BY <1>0, <1>7 DEF SuccCrash, Connection
  <2> QED
    BY <1>0, <1>7, <2>1, <2>2 DEF SuccCrash
<1>8. ASSUME NEW k \in Key, OpenStandIn(k) \/ TypeIntoStandIn(k) \/ CloseAtSuccessor(k)
      PROVE  ReaderInv'
  <2>1. \A j \in Key : /\ seat'[j] = "orig" => seat[j] = "orig"
                       /\ child'[j] = "alive" => child[j] = "alive"
                       /\ child'[j] = "unborn" => child[j] = "unborn"
    BY <1>0, <1>8 DEF OpenStandIn, TypeIntoStandIn, CloseAtSuccessor
  <2> QED
    BY <1>0, <1>8, <2>1 DEF OpenStandIn, TypeIntoStandIn, CloseAtSuccessor
<1>9. ASSUME NEW k \in Key, CreateSession(k) PROVE ReaderInv'
  BY <1>0, <1>9, NoConnFields DEF CreateSession
<1>10. ASSUME NEW k \in Key, DrainRelease(k) PROVE ReaderInv'
  BY <1>0, <1>10, NoConnFields DEF DrainRelease
<1>11. ASSUME NEW k \in Key, TeardownRefused(k) \/ ChildExits(k) PROVE ReaderInv'
  BY <1>0, <1>11, NoConnFields DEF TeardownRefused, ChildExits
<1> QED
  BY <1>1, <1>2, <1>3, <1>4, <1>5, <1>6, <1>7, <1>8, <1>9, <1>10, <1>11 DEF Environment

\* The strengthening of OneReader is inductive.
LEMMA ReaderInductive == TypeInv /\ ReaderInv /\ [Next]_vars => ReaderInv'
<1> SUFFICES ASSUME TypeInv, ReaderInv, [Next]_vars PROVE ReaderInv'
  OBVIOUS
<1>1. CASE UNCHANGED vars
  BY <1>1 DEF ReaderInv, SeatInv, NoneSeated, ConnInv, SweepInv, LateInv, OneReader, PredReads,
              SuccReads, vars, predVars, sweepVars, succVars, histVars
<1> QED
  BY <1>1, SweepStepReader, WatchStepReader, ServeStepReader, EnvironmentReader DEF Next

\* The predecessor's readers (ReaderPark) and the successor's never consume the
\* same PTY, however many sessions, sweeps, successors and crashes there are,
\* unless a commit went unacknowledged or a stale watch woke the reader.
THEOREM AtMostOneReader == Spec => []OneReader
<1>1. Init => TypeInv /\ ReaderInv
  BY InitType, InitReader
<1>2. TypeInv /\ ReaderInv /\ [Next]_vars => (TypeInv /\ ReaderInv)'
  BY TypeInductive, ReaderInductive
<1>3. ReaderInv => OneReader
  BY DEF ReaderInv
<1> QED
  BY <1>1, <1>2, <1>3, PTL DEF Spec

\* A session the successor has seated is answered AlreadySeated and never a
\* conflict, and no adoption comes between a conflict and the drop: the sweep's
\* remove_session kills no child the successor serves.
THEOREM SeatedIsNotDropped == Spec => DropSparesSeated
<1>1. Init => TypeInv /\ ReaderInv
  BY InitType, InitReader
<1>2. TypeInv /\ ReaderInv /\ [Next]_vars => (TypeInv /\ ReaderInv)'
  BY TypeInductive, ReaderInductive
<1>3. TypeInv /\ ReaderInv /\ [Next]_vars => [DropDuplicate => ~SuccReads(cur)]_vars
  BY DEF ReaderInv, ConnInv, TypeInv, Shape, DropDuplicate, IsSeatConflict, SuccReads
<1> QED
  BY <1>1, <1>2, <1>3, PTL DEF Spec, DropSparesSeated

-----------------------------------------------------------------------------
(* Duplicates are dropped, typed-into children are kept                    *)

\* A seat that conflicts was typed into, and a conflict stays true of the key
\* the sweep is about to drop.
TypedInv ==
    /\ \A k \in Key : seat[k] = "driven" => k \in typed
    /\ conn.verdict = "conflict" => cur \in typed
    /\ DropsOnlyDuplicates

-----------------------------------------------------------------------------
(* Leaving                                                                 *)

\* A process that acknowledged a session and is still the same process holds
\* it, as long as its child lives.
AckInv ==
    /\ sstate # "absent" => inc # 0
    /\ conn.to = "succ" /\ conn.st = "open" => conn.peer = inc /\ SuccUp
    /\ \A k \in Key : ackedBy[k] # 0 =>
          /\ ackedBy[k] <= inc /\ child[k] # "unborn"
          /\ SuccessorStillHolding(ackedBy[k]) /\ child[k] = "alive" => seat[k] = "orig"
    /\ conn.ack = "adopted" =>
          /\ conn.peer # 0 /\ conn.peer <= inc /\ child[cur] # "unborn"
          /\ SuccessorStillHolding(conn.peer) /\ child[cur] = "alive" => seat[cur] = "orig"

\* What a sweep has drained, and what a watch may leave behind.
DrainedInv ==
    /\ \A k \in runtime : child[k] # "unborn"
    /\ pc # "idle" =>
          /\ \A k \in sweep.all : child[k] # "unborn"
          /\ \A k \in sweep.moved : ackedBy[k] # 0
          /\ sweep.dropped \cap runtime = {}
    /\ \A w \in watches :
          /\ \A k \in w.swept : child[k] # "unborn"
          /\ w.leaving => w.allMoved
          /\ w.allMoved => \A k \in w.swept \cap runtime : ackedBy[k] # 0

ExitInv == AckInv /\ DrainedInv

\* What one step of hand_off_all_runtimes may write into its books: the keys it
\* started with never change, only an acknowledgement moves a key and only a
\* seat conflict drops one.
LEMMA SweepBooks ==
  ASSUME TypeInv, SweepStep, ~FinishSweep
  PROVE  /\ sweep'.all = sweep.all
         /\ sweep'.moved = IF AckAdopted THEN sweep.moved \cup {cur} ELSE sweep.moved
         /\ IF DropDuplicate THEN sweep'.dropped \subseteq sweep.dropped \cup {cur}
                             ELSE sweep'.dropped = sweep.dropped
<1> DEFINE Same == /\ sweep'.all = sweep.all /\ sweep'.moved = sweep.moved
                   /\ sweep'.dropped = sweep.dropped
<1>0. /\ sweep \in SweepState /\ conn \in Connection
      /\ pc \in {"verdict", "ack"} => cur \in Key
  BY DEF TypeInv, TypeOK, Shape, SweepState
<1>1. ASSUME NEW k \in Key, TakeoutFails(k) \/ ConnectFails(k)
      PROVE  Same /\ ~AckAdopted /\ ~DropDuplicate
  <2>1. sweep' = Failed(sweep, k) /\ pc = "next"
    BY <1>1 DEF TakeoutFails, ConnectFails, Trying
  <2> QED
    BY <1>0, <2>1, FailedFields DEF AckAdopted, DropDuplicate
<1>2. ASSUME NEW k \in Key, Dial(k) PROVE Same /\ ~AckAdopted /\ ~DropDuplicate
  BY <1>2 DEF Dial, Trying, AckAdopted, DropDuplicate
<1>3. ASSUME VerdictTimeout \/ VerdictProceed PROVE Same /\ ~AckAdopted /\ ~DropDuplicate
  <2>1. Same
    BY <1>0, <1>3, HeardFields DEF VerdictTimeout, VerdictProceed, SawSilence, SweepState
  <2> QED
    BY <1>3, <2>1 DEF VerdictTimeout, VerdictProceed, AckAdopted, DropDuplicate, IsSeatConflict
<1>4. ASSUME RetryRefused PROVE Same /\ ~AckAdopted /\ ~DropDuplicate
  <2>1. Same
    BY <1>0, <1>4, HeardFields, RetriedSelfFields, RetriedBootFields DEF RetryRefused
  <2> QED
    BY <1>4, <2>1 DEF RetryRefused, AckAdopted, DropDuplicate, IsSeatConflict
<1>5. ASSUME GiveUpRefused PROVE Same /\ ~AckAdopted /\ ~DropDuplicate
  <2>1. Same
    <3>1. CASE sweep' = Heard(Failed(sweep, cur))
      BY <1>0, <3>1, HeardFailedFields
    <3>2. CASE sweep' = Heard(Failed(BudgetSpent(sweep), cur))
      <4> DEFINE b == BudgetSpent(sweep)
      <4>1. /\ b \in SweepState /\ b.all = sweep.all
            /\ b.moved = sweep.moved /\ b.dropped = sweep.dropped
        BY <1>0, BudgetSpentFields
      <4> HIDE DEF b
      <4>2. LET r == Heard(Failed(b, cur)) IN
               r.all = sweep.all /\ r.moved = sweep.moved /\ r.dropped = sweep.dropped
        BY <4>1, HeardFailedFields
      <4> QED
        BY <3>2, <4>2 DEF b
    <3> QED
      BY <1>5, <3>1, <3>2 DEF GiveUpRefused
  <2> QED
    BY <1>5, <2>1 DEF GiveUpRefused, AckAdopted, DropDuplicate, IsSeatConflict
<1>6. ASSUME DropDuplicate
      PROVE  /\ sweep'.all = sweep.all /\ sweep'.moved = sweep.moved /\ ~AckAdopted
             /\ sweep'.dropped \subseteq sweep.dropped \cup {cur}
  <2>1. cur \in Key /\ ~AckAdopted
    BY <1>0, <1>6 DEF DropDuplicate, AckAdopted
  <2>2. CASE sweep' = Heard(Failed(sweep, cur))
    BY <1>0, <2>1, <2>2, HeardFailedFields
  <2>3. CASE sweep' = Heard(Dropped(sweep, cur))
    BY <1>0, <2>1, <2>3, HeardDroppedFields
  <2> QED
    BY <1>6, <2>2, <2>3 DEF DropDuplicate
<1>7. ASSUME VerdictLost \/ AckFails PROVE Same /\ ~AckAdopted /\ ~DropDuplicate
  <2>1. sweep' = Failed(sweep, cur)
    BY <1>7 DEF VerdictLost, AckFails
  <2>2. Same
    BY <1>0, <2>1, FailedFields
  <2> QED
    BY <1>7, <2>2 DEF VerdictLost, AckFails, AckAdopted, DropDuplicate, IsSeatConflict
<1>8. ASSUME AckAdopted
      PROVE  /\ sweep'.all = sweep.all /\ sweep'.moved = sweep.moved \cup {cur}
             /\ sweep'.dropped = sweep.dropped /\ ~DropDuplicate
  <2>1. cur \in Key /\ conn.peer \in Nat /\ ~DropDuplicate
    BY <1>0, <1>8, BoundsAssumption DEF AckAdopted, DropDuplicate, Connection
  <2> QED
    BY <1>0, <1>8, <2>1, MovedFields DEF AckAdopted
<1> QED
  BY <1>1, <1>2, <1>3, <1>4, <1>5, <1>6, <1>7, <1>8 DEF SweepStep

\* Initially nothing was typed into and nothing dropped.
LEMMA InitTyped == Init => TypedInv
  BY NoConnFields DEF Init, TypedInv, DropsOnlyDuplicates, NoSweep

\* A child that was typed into is remembered, and nothing else is dropped.
LEMMA TypedInductive == TypeInv /\ TypedInv /\ [Next]_vars => TypedInv'
<1> SUFFICES ASSUME TypeInv, TypedInv, [Next]_vars PROVE TypedInv'
  OBVIOUS
<1> USE DEF TypedInv, DropsOnlyDuplicates
<1>0. /\ conn \in Connection /\ seat \in [Key -> Seats] /\ NoKey \notin Key
      /\ conn.st # "none" \/ conn.verdict # "none" => pc # "idle" /\ cur \in Key
      /\ pc \in {"idle", "next"} => conn = NoConn /\ conn.verdict = "none"
      /\ late \in Key \cup {NoKey}
  BY NoKeyAssumption, NoConnFields DEF TypeInv, TypeOK, Shape, SweepState
<1>1. CASE SweepStep
  <2>1. CASE FinishSweep
    BY <1>0, <2>1 DEF FinishSweep, NoSweep, succVars, histVars
  <2>2. CASE ~FinishSweep
    <3>1. sweep'.dropped \subseteq typed
      BY <1>1, <2>2, SweepBooks DEF DropDuplicate, IsSeatConflict
    <3>2. seat' = seat /\ typed' = typed
      BY <1>1 DEF SweepStep, TakeoutFails, ConnectFails, Dial, VerdictTimeout, VerdictProceed,
                  RetryRefused, GiveUpRefused, DropDuplicate, VerdictLost, AckAdopted, AckFails,
                  FinishSweep, succVars, histVars
    <3>3. \/ conn'.verdict = "none"
          \/ conn'.verdict = conn.verdict /\ cur' = cur
      <4>1. ASSUME NEW k \in Key, Dial(k) PROVE conn'.verdict = "none"
        BY <4>1 DEF Dial, NoConn
      <4>2. ASSUME VerdictTimeout \/ VerdictProceed
            PROVE  conn'.verdict = conn.verdict /\ cur' = cur
        BY <1>0, <4>2 DEF VerdictTimeout, VerdictProceed, CommitFd, Connection
      <4>3. ASSUME NEW k \in Key, TakeoutFails(k) \/ ConnectFails(k) PROVE conn'.verdict = "none"
        BY <1>0, <4>3 DEF TakeoutFails, ConnectFails, Trying
      <4>4. ASSUME RetryRefused \/ GiveUpRefused \/ DropDuplicate \/ VerdictLost \/ AckAdopted \/ AckFails
            PROVE  conn'.verdict = "none"
        BY <4>4, NoConnFields DEF RetryRefused, GiveUpRefused, DropDuplicate, VerdictLost,
                                  AckAdopted, AckFails
      <4> QED
        BY <1>1, <2>2, <4>1, <4>2, <4>3, <4>4 DEF SweepStep
    <3> QED
      BY <3>1, <3>2, <3>3
  <2> QED
    BY <2>1, <2>2
<1>2. ASSUME NEW w \in watches, WatchSuccessorDied(w) \/ WatchWindowEnds(w) PROVE TypedInv'
  BY <1>2 DEF WatchSuccessorDied, WatchWindowEnds, sweepVars, succVars, histVars
<1>3. ASSUME NEW w \in watches, Exit(w) PROVE TypedInv'
  BY <1>3, NoConnFields DEF Exit, Hangup, NoSweep, histVars
<1>4. CASE PredCrash
  BY <1>4, NoConnFields DEF PredCrash, Hangup, NoSweep, histVars
<1>5. CASE ServeVerdict
  <2>1. conn'.verdict = "conflict" => SeatVerdict(cur) = "Conflict"
    BY <1>0, <1>5 DEF ServeVerdict, Connection
  <2>2. SeatVerdict(cur) = "Conflict" => seat[cur] = "driven"
    BY <1>0, <1>5 DEF ServeVerdict, SeatVerdict, Seats
  <2> QED
    BY <1>0, <1>5, <2>1, <2>2 DEF ServeVerdict, sweepVars, succVars, histVars
<1>6. CASE RefuseSelfDial
  BY <1>0, <1>6 DEF RefuseSelfDial, Connection, sweepVars, succVars, histVars
<1>7. \A k \in Key : AdoptResult(k) = "driven" => seat[k] = "driven"
  BY <1>0 DEF AdoptResult, SeatVerdict, Seats
<1>8. CASE ServeAdopt
  <2>1. conn'.verdict = conn.verdict
    BY <1>0, <1>8 DEF ServeAdopt, Connection
  <2> QED
    BY <1>0, <1>7, <1>8, <2>1 DEF ServeAdopt, sweepVars, histVars
<1>9. CASE ServeLateAdopt
  BY <1>0, <1>7, <1>9 DEF ServeLateAdopt, sweepVars, histVars
<1>10. CASE StartSweep
  BY <1>0, <1>10 DEF StartSweep, NoSweep, succVars
<1>11. CASE Shutdown \/ SpawnSuccessor \/ BindListener \/ BecomeReady
  BY <1>11 DEF Shutdown, SpawnSuccessor, BindListener, BecomeReady, sweepVars, succVars, histVars
<1>12. CASE SuccCrash
  <2>1. conn'.verdict = conn.verdict
    BY <1>0, <1>12 DEF SuccCrash, Connection
  <2> QED
    BY <1>0, <1>12, <2>1 DEF SuccCrash, sweepVars, histVars
<1>13. ASSUME NEW k \in Key, OpenStandIn(k) \/ TypeIntoStandIn(k) \/ CloseAtSuccessor(k)
       PROVE  TypedInv'
  BY <1>0, <1>13 DEF OpenStandIn, TypeIntoStandIn, CloseAtSuccessor, sweepVars, histVars
<1>14. ASSUME NEW k \in Key,
              CreateSession(k) \/ DrainRelease(k) \/ TeardownRefused(k) \/ ChildExits(k)
       PROVE  TypedInv'
  BY <1>14 DEF CreateSession, DrainRelease, TeardownRefused, ChildExits, sweepVars, succVars, histVars
<1>15. CASE UNCHANGED vars
  BY <1>15 DEF vars, sweepVars, succVars, histVars
<1> QED
  BY <1>1, <1>2, <1>3, <1>4, <1>5, <1>6, <1>8, <1>9, <1>10, <1>11, <1>12, <1>13, <1>14, <1>15
  DEF Next, WatchStep, ServeStep, Environment

\* hand_off_all_runtimes tears its own copy of a session down only for a seat
\* conflict with a child somebody typed into; no boot, self-dial, timeout or
\* broken connection ever costs a session.
THEOREM OnlyDuplicatesAreDropped == Spec => []DropsOnlyDuplicates
<1>1. Init => TypeInv /\ TypedInv
  BY InitType, InitTyped
<1>2. TypeInv /\ TypedInv /\ [Next]_vars => (TypeInv /\ TypedInv)'
  BY TypeInductive, TypedInductive
<1>3. TypedInv => DropsOnlyDuplicates
  BY DEF TypedInv
<1> QED
  BY <1>1, <1>2, <1>3, PTL DEF Spec

\* adopt_session asks seat_verdict again under the lock: a descriptor that was
\* told to proceed never replaces a child that was typed into since.
THEOREM TypedChildIsKept == Spec => TypedChildSurvives
<1>1. TypeOK /\ [Next]_vars => [\A k \in Key : seat[k] = "driven" => seat'[k] # "orig"]_vars
  <2> SUFFICES ASSUME TypeOK, Next, NEW k \in Key, seat[k] = "driven" PROVE seat'[k] # "orig"
    BY DEF vars
  <2>1. AdoptResult(k) = "driven"
    BY DEF AdoptResult, SeatVerdict
  <2>2. seat \in [Key -> Seats]
    BY DEF TypeOK
  <2>3. CASE ServeAdopt \/ ServeLateAdopt
    BY <2>1, <2>2, <2>3 DEF ServeAdopt, ServeLateAdopt
  <2>4. CASE SuccCrash
    BY <2>4 DEF SuccCrash
  <2>5. ASSUME NEW j \in Key, OpenStandIn(j) \/ TypeIntoStandIn(j) \/ CloseAtSuccessor(j)
        PROVE  seat'[k] # "orig"
    BY <2>2, <2>5 DEF OpenStandIn, TypeIntoStandIn, CloseAtSuccessor
  <2>6. CASE SweepStep
    BY <2>6 DEF SweepStep, TakeoutFails, ConnectFails, Dial, VerdictTimeout, VerdictProceed,
                RetryRefused, GiveUpRefused, DropDuplicate, VerdictLost, AckAdopted, AckFails,
                FinishSweep, succVars
  <2>7. CASE WatchStep \/ ServeVerdict \/ RefuseSelfDial
    BY <2>7 DEF WatchStep, WatchSuccessorDied, WatchWindowEnds, Exit, ServeVerdict, RefuseSelfDial,
                succVars
  <2>8. CASE StartSweep \/ PredCrash \/ Shutdown \/ SpawnSuccessor \/ BindListener \/ BecomeReady
    BY <2>8 DEF StartSweep, PredCrash, Shutdown, SpawnSuccessor, BindListener, BecomeReady, succVars
  <2>9. ASSUME NEW j \in Key,
               CreateSession(j) \/ DrainRelease(j) \/ TeardownRefused(j) \/ ChildExits(j)
        PROVE  seat'[k] # "orig"
    BY <2>9 DEF CreateSession, DrainRelease, TeardownRefused, ChildExits, succVars
  <2> QED
    BY <2>3, <2>4, <2>5, <2>6, <2>7, <2>8, <2>9 DEF Next, ServeStep, Environment
<1> QED
  BY <1>1, TypeCorrect, PTL DEF Spec, TypedChildSurvives

\* Initially nothing was acknowledged and no watch is set.
LEMMA InitExit == Init => ExitInv
  BY NoConnFields DEF Init, ExitInv, AckInv, DrainedInv

\* A step of the sweep: an acknowledgement names a process that holds the key.
LEMMA SweepStepExit == TypeInv /\ ExitInv /\ SweepStep => ExitInv'
<1> SUFFICES ASSUME TypeInv, ExitInv, SweepStep PROVE ExitInv'
  OBVIOUS
<1> USE DEF ExitInv, AckInv, DrainedInv, SuccessorStillHolding
<1>0. /\ conn \in Connection /\ sweep \in SweepState /\ sweep.all \subseteq Key
      /\ pc \in {"verdict", "ack"} => cur \in Key
      /\ pc \in {"idle", "next"} => conn = NoConn
      /\ ackedBy \in [Key -> 0..MaxIncarnations] /\ inc \in 0..MaxIncarnations
      /\ child \in [Key -> {"unborn", "alive", "killed", "exited"}] /\ runtime \subseteq Key
      /\ SuccUp => bound = "succ"
  BY DEF TypeInv, TypeOK, Shape, SweepState
<1>1. CASE FinishSweep
  <2>1. \A w \in watches' \ watches :
           /\ w.swept = sweep.all /\ ~w.leaving /\ w.allMoved = AllMoved(sweep)
    BY <1>1 DEF FinishSweep
  <2>2. AllMoved(sweep) => \A k \in sweep.all \cap runtime : ackedBy[k] # 0
    BY <1>1 DEF FinishSweep, AllMoved
  <2>3. \A w \in watches' : w \in watches \/ w \in watches' \ watches
    OBVIOUS
  <2> QED
    BY <1>0, <1>1, <2>1, <2>2, <2>3 DEF FinishSweep, SuccUp, succVars, histVars
<1>2. ASSUME NEW k \in Key, Dial(k) PROVE ExitInv'
  <2>1. conn'.to = bound /\ conn'.peer = inc /\ conn'.ack = "none"
    BY <1>2 DEF Dial, NoConn
  <2>2. pc = "next" /\ pc' # "idle"
    BY <1>2 DEF Dial, Trying
  <2> QED
    BY <1>0, <1>2, <2>1, <2>2 DEF Dial, SuccUp, predVars, succVars, histVars
<1>3. CASE VerdictTimeout \/ VerdictProceed
  <2>1. /\ conn'.st = conn.st /\ conn'.to = conn.to /\ conn'.peer = conn.peer
        /\ conn'.ack = conn.ack
    BY <1>0, <1>3 DEF VerdictTimeout, VerdictProceed, CommitFd, Connection
  <2>2. /\ sweep'.all = sweep.all /\ sweep'.moved = sweep.moved
        /\ sweep'.dropped = sweep.dropped
    BY <1>0, <1>3, HeardFields DEF VerdictTimeout, VerdictProceed, SawSilence, SweepState
  <2> QED
    BY <1>3, <2>1, <2>2 DEF VerdictTimeout, VerdictProceed, SuccUp, predVars, succVars, histVars
<1>4. ASSUME \/ \E k \in Key : TakeoutFails(k) \/ ConnectFails(k)
             \/ RetryRefused \/ GiveUpRefused \/ VerdictLost \/ AckFails
      PROVE  ExitInv'
  <2>1. ~FinishSweep /\ ~AckAdopted /\ ~DropDuplicate /\ pc # "idle"
    BY <1>4 DEF TakeoutFails, ConnectFails, Trying, RetryRefused, GiveUpRefused, VerdictLost,
                AckFails, FinishSweep, AckAdopted, DropDuplicate, IsSeatConflict
  <2>2. /\ sweep'.all = sweep.all /\ sweep'.moved = sweep.moved
        /\ sweep'.dropped = sweep.dropped
    BY <2>1, SweepBooks
  <2>3. conn' = NoConn
    BY <1>0, <1>4 DEF TakeoutFails, ConnectFails, Trying, RetryRefused, GiveUpRefused, VerdictLost,
                      AckFails
  <2>4. /\ UNCHANGED <<pstate, runtime, watches, sstate, inc, bound, seat, child, ackedBy>>
    BY <1>4 DEF TakeoutFails, ConnectFails, Trying, RetryRefused, GiveUpRefused, VerdictLost,
                AckFails, predVars, succVars, histVars
  <2> QED
    BY <2>1, <2>2, <2>3, <2>4, NoConnFields DEF SuccUp
<1>5. CASE DropDuplicate
  <2>1. ~FinishSweep /\ ~AckAdopted
    BY <1>5 DEF DropDuplicate, FinishSweep, AckAdopted
  <2>2. /\ sweep'.all = sweep.all /\ sweep'.moved = sweep.moved
        /\ sweep'.dropped \subseteq sweep.dropped \cup {cur}
    BY <1>5, <2>1, SweepBooks
  <2>3. \A k \in Key : /\ child'[k] = "alive" => child[k] = "alive"
                       /\ child'[k] = "unborn" => child[k] = "unborn"
    BY <1>0, <1>5 DEF DropDuplicate
  <2>4. \A w \in watches : w.swept \subseteq Key
    BY DEF TypeInv, TypeOK, Watch
  <2> QED
    BY <1>0, <1>5, <2>2, <2>3, <2>4, NoConnFields DEF DropDuplicate, SuccUp, succVars, histVars
<1>6. CASE AckAdopted
  <2>1. ~FinishSweep /\ ~DropDuplicate
    BY <1>6 DEF DropDuplicate, FinishSweep, AckAdopted
  <2>2. /\ sweep'.all = sweep.all /\ sweep'.moved = sweep.moved \cup {cur}
        /\ sweep'.dropped = sweep.dropped
    BY <1>6, <2>1, SweepBooks
  <2>3. /\ cur \in Key /\ ackedBy'[cur] = conn.peer /\ ackedBy'[cur] # 0
        /\ \A k \in Key : k # cur => ackedBy'[k] = ackedBy[k]
    BY <1>0, <1>6 DEF AckAdopted
  <2>4. sweep.moved \subseteq Key /\ \A w \in watches : w.swept \subseteq Key
    BY DEF TypeInv, TypeOK, SweepState, Watch
  <2>5. AckInv'
    BY <1>0, <1>6, <2>3, NoConnFields DEF AckAdopted, SuccUp, succVars
  <2>6. DrainedInv'
    BY <1>0, <1>6, <2>2, <2>3, <2>4 DEF AckAdopted, predVars
  <2> QED
    BY <2>5, <2>6
<1> QED
  BY <1>1, <1>2, <1>3, <1>4, <1>5, <1>6 DEF SweepStep

\* A step of a settle watch: only a watch over a complete sweep gets to leave.
LEMMA WatchStepExit == TypeInv /\ ExitInv /\ WatchStep => ExitInv'
<1> SUFFICES ASSUME TypeInv, ExitInv, NEW w \in watches,
                    WatchSuccessorDied(w) \/ WatchWindowEnds(w) \/ Exit(w)
             PROVE  ExitInv'
  BY DEF WatchStep
<1> USE DEF ExitInv, AckInv, DrainedInv, SuccessorStillHolding
<1>1. CASE WatchSuccessorDied(w)
  BY <1>1 DEF WatchSuccessorDied, SuccUp, sweepVars, succVars
<1>2. CASE WatchWindowEnds(w)
  <2>1. \A v \in watches' : v \in watches \/ (v.leaving /\ v.allMoved /\ w.allMoved /\ v.swept = w.swept)
    BY <1>2 DEF WatchWindowEnds, TypeInv, TypeOK, Watch
  <2> QED
    BY <1>2, <2>1 DEF WatchWindowEnds, SuccUp, predVars, sweepVars, succVars, histVars
<1>3. CASE Exit(w)
  BY <1>3, NoConnFields DEF Exit, Hangup, SuccUp, histVars
<1> QED
  BY <1>1, <1>2, <1>3

\* A step of a listener: an adoption is acknowledged by the process that seats.
LEMMA ServeStepExit == TypeInv /\ ExitInv /\ ServeStep => ExitInv'
<1> SUFFICES ASSUME TypeInv, ExitInv, ServeStep PROVE ExitInv'
  OBVIOUS
<1> USE DEF ExitInv, AckInv, DrainedInv, SuccessorStillHolding
<1>0. /\ conn \in Connection /\ seat \in [Key -> Seats] /\ inc \in 0..MaxIncarnations
      /\ conn.st # "none" => cur \in Key
      /\ late \in Key \cup {NoKey}
  BY NoConnFields DEF TypeInv, TypeOK, Shape, SweepState
<1>1. CASE ServeVerdict
  <2>1. /\ conn'.st = conn.st /\ conn'.to = conn.to /\ conn'.peer = conn.peer
        /\ conn'.ack \in {conn.ack, "refused"}
    BY <1>0, <1>1 DEF ServeVerdict, Connection
  <2> QED
    BY <1>1, <2>1 DEF ServeVerdict, SuccUp, predVars, sweepVars, succVars, histVars
<1>2. CASE RefuseSelfDial
  <2>1. conn'.st = conn.st /\ conn'.to = conn.to /\ conn'.peer = conn.peer /\ conn'.ack = "closed"
    BY <1>0, <1>2 DEF RefuseSelfDial, Connection
  <2> QED
    BY <1>2, <2>1 DEF RefuseSelfDial, SuccUp, predVars, sweepVars, succVars, histVars
<1>3. ASSUME NEW k \in Key, seat[k] = "orig", child[k] = "alive" PROVE AdoptResult(k) = "orig"
  <2>1. SeatVerdict(k) = "AlreadySeated"
    BY <1>3 DEF SeatVerdict
  <2> QED
    BY <1>3, <2>1 DEF AdoptResult
<1>4. CASE ServeAdopt
  <2>1. /\ conn'.st = conn.st /\ conn'.to = conn.to /\ conn'.peer = conn.peer
        /\ conn'.ack = "adopted" => AdoptResult(cur) = "orig"
    BY <1>0, <1>4 DEF ServeAdopt, Connection
  <2>2. AdoptResult(cur) = "orig" => child[cur] = "alive"
    BY <1>0, <1>4, AdoptAlive DEF ServeAdopt
  <2>3. /\ cur \in Key /\ seat'[cur] = AdoptResult(cur)
        /\ \A k \in Key : k # cur => seat'[k] = seat[k]
    BY <1>0, <1>4 DEF ServeAdopt
  <2> QED
    BY <1>0, <1>3, <1>4, <2>1, <2>2, <2>3 DEF ServeAdopt, SuccUp, predVars, sweepVars, histVars
<1>5. CASE ServeLateAdopt
  <2>1. /\ late \in Key /\ seat'[late] = AdoptResult(late)
        /\ \A k \in Key : k # late => seat'[k] = seat[k]
    BY <1>0, <1>5 DEF ServeLateAdopt
  <2>2. conn.ack = "adopted" => cur \in Key
    BY NoConnFields DEF TypeInv, TypeOK, Shape, SweepState
  <2> QED
    BY <1>0, <1>3, <1>5, <2>1, <2>2 DEF ServeLateAdopt, SuccUp, predVars, sweepVars, histVars
<1> QED
  BY <1>1, <1>2, <1>4, <1>5 DEF ServeStep

\* Requests, crashes and restarts: a new process is not the one that
\* acknowledged, and a closed session's child is gone.
LEMMA EnvironmentExit == TypeInv /\ ExitInv /\ Environment => ExitInv'
<1> SUFFICES ASSUME TypeInv, ExitInv, Environment PROVE ExitInv'
  OBVIOUS
<1> USE DEF ExitInv, AckInv, DrainedInv, SuccessorStillHolding, SuccUp,
            predVars, sweepVars, succVars, histVars
<1>0. /\ conn \in Connection /\ seat \in [Key -> Seats] /\ inc \in 0..MaxIncarnations
      /\ ackedBy \in [Key -> 0..MaxIncarnations] /\ runtime \subseteq Key
      /\ child \in [Key -> {"unborn", "alive", "killed", "exited"}]
      /\ conn.ack # "none" => cur \in Key
      /\ pc = "idle" => conn.ack = "none"
      /\ sweep.all \subseteq Key /\ \A w \in watches : w.swept \subseteq Key
  BY NoConnFields DEF TypeInv, TypeOK, Shape, SweepState, Watch
<1>1. CASE StartSweep
  <2>1. sweep'.all = runtime /\ sweep'.moved = {} /\ sweep'.dropped = {}
    BY <1>1 DEF StartSweep, NoSweep
  <2> QED
    BY <1>0, <1>1, <2>1 DEF StartSweep
<1>2. CASE PredCrash
  BY <1>0, <1>2, NoConnFields DEF PredCrash, Hangup
<1>3. CASE Shutdown
  BY <1>0, <1>3 DEF Shutdown
<1>4. CASE SpawnSuccessor
  BY <1>0, <1>4, BoundsAssumption DEF SpawnSuccessor, Connection
<1>5. CASE BindListener \/ BecomeReady
  BY <1>0, <1>5 DEF BindListener, BecomeReady
<1>6. CASE SuccCrash
  <2>1. /\ conn'.to = conn.to /\ conn'.peer = conn.peer /\ conn'.ack = conn.ack
        /\ conn'.st # "open" \/ conn.to # "succ"
    BY <1>0, <1>6 DEF SuccCrash, Connection
  <2> QED
    BY <1>0, <1>6, <2>1 DEF SuccCrash
<1>7. ASSUME NEW k \in Key, OpenStandIn(k) \/ TypeIntoStandIn(k) \/ CloseAtSuccessor(k)
      PROVE  ExitInv'
  <2>1. \A j \in Key : /\ seat[j] = "orig" /\ child'[j] = "alive" => seat'[j] = "orig"
                       /\ child'[j] = "alive" => child[j] = "alive"
                       /\ child'[j] = "unborn" => child[j] = "unborn"
    BY <1>0, <1>7 DEF OpenStandIn, TypeIntoStandIn, CloseAtSuccessor
  <2>2. UNCHANGED <<runtime, pc, sweep, cur, watches, conn, sstate, inc, ackedBy>>
    BY <1>7 DEF OpenStandIn, TypeIntoStandIn, CloseAtSuccessor
  <2> QED
    BY <1>0, <2>1, <2>2
<1>8. ASSUME NEW k \in Key, CreateSession(k) PROVE ExitInv'
  BY <1>0, <1>8 DEF CreateSession
<1>9. ASSUME NEW k \in Key, DrainRelease(k) \/ TeardownRefused(k) \/ ChildExits(k) PROVE ExitInv'
  <2>1. \A j \in Key : /\ child'[j] = "alive" => child[j] = "alive"
                       /\ child'[j] = "unborn" => child[j] = "unborn"
    BY <1>0, <1>9 DEF DrainRelease, TeardownRefused, ChildExits
  <2>2. /\ runtime' \subseteq runtime
        /\ UNCHANGED <<pc, sweep, cur, watches, conn, sstate, inc, seat, ackedBy>>
    BY <1>9 DEF DrainRelease, TeardownRefused, ChildExits
  <2> QED
    BY <1>0, <2>1, <2>2
<1> QED
  BY <1>1, <1>2, <1>3, <1>4, <1>5, <1>6, <1>7, <1>8, <1>9 DEF Environment

\* The strengthening that exit rests on is inductive.
LEMMA ExitInductive == TypeInv /\ ExitInv /\ [Next]_vars => ExitInv'
<1> SUFFICES ASSUME TypeInv, ExitInv, [Next]_vars PROVE ExitInv'
  OBVIOUS
<1>1. CASE UNCHANGED vars
  BY <1>1 DEF ExitInv, AckInv, DrainedInv, SuccessorStillHolding, SuccUp,
              vars, predVars, sweepVars, succVars, histVars
<1> QED
  BY <1>1, SweepStepExit, WatchStepExit, ServeStepExit, EnvironmentExit DEF Next

\* The settle watch calls exit(0), which closes every master descriptor, only
\* after a sweep that drained everything: each live session of that sweep is
\* seated in the process that acknowledged it, or that process has since died.
THEOREM ExitIsSafe == Spec => ExitStrandsNothing
<1>1. Spec => [](TypeInv /\ ExitInv)
  <2>1. Init => TypeInv /\ ExitInv
    BY InitType, InitExit
  <2>2. TypeInv /\ ExitInv /\ [Next]_vars => (TypeInv /\ ExitInv)'
    BY TypeInductive, ExitInductive
  <2> QED
    BY <2>1, <2>2, PTL DEF Spec
<1>2. TypeInv /\ ExitInv /\ [Next]_vars =>
        [\A w \in watches : Exit(w) =>
            \A k \in w.swept \cap runtime :
               \/ child[k] # "alive"
               \/ SuccReads(k)
               \/ ackedBy[k] # 0 /\ ~SuccessorStillHolding(ackedBy[k])]_vars
  BY DEF TypeInv, TypeOK, ExitInv, AckInv, DrainedInv, Exit, SuccReads
<1> QED
  BY <1>1, <1>2, PTL DEF Spec, ExitStrandsNothing

-----------------------------------------------------------------------------
(* The hand-off implements the ownership of sessions                       *)

\* A session that was never started has left no trace in the predecessor, and a
\* sweep has the master of every key it has not tried.
BornInv ==
    /\ \A k \in Key : child[k] = "unborn" => k \notin runtime /\ k \notin parked
    /\ pstate # "up" => runtime = {}
    /\ pc # "idle" => sweep.todo \subseteq runtime

OwnerInv == TypeInv /\ ReaderInv /\ BornInv

\* The list of keys still to try only shrinks, and a dropped key leaves it.
LEMMA SweepTodo ==
  ASSUME TypeInv, SweepStep
  PROVE  /\ sweep'.todo \subseteq sweep.todo
         /\ DropDuplicate => cur \notin sweep'.todo
<1> DEFINE Less == sweep'.todo \subseteq sweep.todo
<1>0. /\ sweep \in SweepState /\ conn \in Connection
      /\ pc \in {"verdict", "ack"} => cur \in Key
  BY DEF TypeInv, TypeOK, Shape, SweepState
<1>1. ASSUME NEW k \in Key, TakeoutFails(k) \/ ConnectFails(k) PROVE Less /\ ~DropDuplicate
  <2>1. sweep' = Failed(sweep, k) /\ pc = "next"
    BY <1>1 DEF TakeoutFails, ConnectFails, Trying
  <2> QED
    BY <1>0, <2>1, FailedFields DEF DropDuplicate
<1>2. ASSUME NEW k \in Key, Dial(k) PROVE Less /\ ~DropDuplicate
  BY <1>2 DEF Dial, Trying, DropDuplicate
<1>3. ASSUME VerdictTimeout \/ VerdictProceed PROVE Less /\ ~DropDuplicate
  <2>1. Less
    BY <1>0, <1>3, HeardFields DEF VerdictTimeout, VerdictProceed, SawSilence, SweepState
  <2> QED
    BY <1>3, <2>1 DEF VerdictTimeout, VerdictProceed, DropDuplicate, IsSeatConflict
<1>4. ASSUME RetryRefused PROVE Less /\ ~DropDuplicate
  <2>1. Less
    BY <1>0, <1>4, HeardFields, RetriedSelfFields, RetriedBootFields DEF RetryRefused
  <2> QED
    BY <1>4, <2>1 DEF RetryRefused, DropDuplicate, IsSeatConflict
<1>5. ASSUME GiveUpRefused PROVE Less /\ ~DropDuplicate
  <2>0. ~DropDuplicate
    BY <1>5 DEF GiveUpRefused, DropDuplicate, IsSeatConflict
  <2>1. CASE sweep' = Heard(Failed(sweep, cur))
    BY <1>0, <2>0, <2>1, HeardFailedFields
  <2>2. CASE sweep' = Heard(Failed(BudgetSpent(sweep), cur))
    <3> DEFINE b == BudgetSpent(sweep)
    <3>1. b \in SweepState /\ b.todo = sweep.todo
      BY <1>0, BudgetSpentFields
    <3> HIDE DEF b
    <3>2. Heard(Failed(b, cur)).todo \subseteq sweep.todo
      BY <3>1, HeardFailedFields, ZenonT(60)
    <3>3. Less
      BY <2>2, <3>2 DEF b
    <3> QED
      BY <2>0, <3>3
  <2> QED
    BY <1>5, <2>1, <2>2 DEF GiveUpRefused
<1>6. ASSUME DropDuplicate PROVE sweep'.todo = sweep.todo \ {cur}
  <2>1. cur \in Key
    BY <1>0, <1>6 DEF DropDuplicate
  <2>2. CASE sweep' = Heard(Failed(sweep, cur))
    BY <1>0, <2>1, <2>2, HeardFailedFields
  <2>3. CASE sweep' = Heard(Dropped(sweep, cur))
    BY <1>0, <2>1, <2>3, HeardDroppedFields
  <2> QED
    BY <1>6, <2>2, <2>3 DEF DropDuplicate
<1>7. ASSUME VerdictLost \/ AckFails PROVE Less /\ ~DropDuplicate
  <2>1. Less
    BY <1>0, <1>7, FailedFields DEF VerdictLost, AckFails
  <2> QED
    BY <1>7, <2>1 DEF VerdictLost, AckFails, DropDuplicate, IsSeatConflict
<1>8. ASSUME AckAdopted PROVE Less /\ ~DropDuplicate
  <2>1. cur \in Key /\ conn.peer \in Nat /\ ~DropDuplicate
    BY <1>0, <1>8, BoundsAssumption DEF AckAdopted, DropDuplicate, Connection
  <2> QED
    BY <1>0, <1>8, <2>1, MovedFields DEF AckAdopted
<1>9. ASSUME FinishSweep PROVE Less /\ ~DropDuplicate
  BY <1>9 DEF FinishSweep, NoSweep, DropDuplicate
<1> QED
  BY <1>1, <1>2, <1>3, <1>4, <1>5, <1>6, <1>7, <1>8, <1>9 DEF SweepStep

\* CreateSession is the only step that starts a session.
LEMMA BornInductive == TypeInv /\ BornInv /\ [Next]_vars => BornInv'
<1> SUFFICES ASSUME TypeInv, BornInv, [Next]_vars PROVE BornInv'
  OBVIOUS
<1> USE DEF BornInv, predVars, sweepVars, succVars, histVars
<1>0. /\ child \in [Key -> {"unborn", "alive", "killed", "exited"}] /\ runtime \subseteq Key
      /\ sweep.todo \subseteq Key /\ (pc \in {"verdict", "ack"} => cur \in sweep.todo)
  BY DEF TypeInv, TypeOK, Shape, SweepState
<1>1. CASE UNCHANGED vars
  BY <1>1 DEF vars
<1>2. CASE SweepStep
  <2>1. /\ sweep'.todo \subseteq sweep.todo
        /\ DropDuplicate => cur \notin sweep'.todo
    BY <1>2, SweepTodo DEF TypeInv
  <2>2. CASE DropDuplicate
    BY <1>0, <2>1, <2>2 DEF DropDuplicate
  <2>3. CASE FinishSweep
    BY <1>0, <2>1, <2>3 DEF FinishSweep
  <2>4. CASE ~DropDuplicate /\ ~FinishSweep
    <3>1. UNCHANGED <<pstate, runtime, parked, child>> /\ pc # "idle"
      BY <1>2, <2>4 DEF SweepStep, TakeoutFails, ConnectFails, Dial, Trying, VerdictTimeout,
         VerdictProceed, RetryRefused, GiveUpRefused, VerdictLost, AckAdopted, AckFails
    <3> QED
      BY <1>0, <2>1, <3>1
  <2> QED
    BY <2>2, <2>3, <2>4
<1>3. CASE WatchStep
  BY <1>0, <1>3 DEF WatchStep, WatchSuccessorDied, WatchWindowEnds, Exit, Hangup
<1>4. CASE ServeStep
  BY <1>0, <1>4 DEF ServeStep, ServeVerdict, ServeAdopt, ServeLateAdopt, RefuseSelfDial
<1>5. CASE Environment
  BY <1>0, <1>5, ZenonT(60) DEF Environment, StartSweep, NoSweep, PredCrash, Hangup, Shutdown, SpawnSuccessor, BindListener,
        BecomeReady, SuccCrash, OpenStandIn, TypeIntoStandIn, CloseAtSuccessor, CreateSession,
        DrainRelease, TeardownRefused, ChildExits
<1> QED
  BY <1>1, <1>2, <1>3, <1>4, <1>5 DEF Next

\* What a step does to one session is one of the abstract steps.
OwnedStep(k) ==
    /\ Ownership!Settled(k)
    /\ \/ Ownership!Same(k) \/ Ownership!Start(k) \/ Ownership!Quiet(k) \/ Ownership!Resume(k)
       \/ Ownership!TakeOver(k) \/ Ownership!Finish(k) \/ Ownership!Kill(k) \/ Ownership!LetGo(k)

\* The sweep quiets nobody, resumes at its end and kills what it drops.
LEMMA SweepStepOwned ==
  ASSUME OwnerInv, ReaderInv', SweepStep, NEW k \in Key PROVE OwnedStep(k)
<1> USE DEF OwnedStep, Ownership!Settled, Ownership!Same, Ownership!SameLife, Ownership!SameHolders,
        Ownership!SameNew, Ownership!SameOld, PredReads, SuccReads, predVars, succVars, histVars
<1>0. /\ child \in [Key -> {"unborn", "alive", "killed", "exited"}] /\ runtime \subseteq Key
      /\ sweep.todo \subseteq Key /\ (pc \in {"verdict", "ack"} => cur \in sweep.todo)
      /\ seat \in [Key -> Seats]
      /\ pc = "verdict" => cur \in runtime
  BY DEF OwnerInv, TypeInv, TypeOK, Shape, SweepState, BornInv
<1>1. ASSUME NEW j \in Key, TakeoutFails(j) \/ ConnectFails(j) \/ Dial(j) PROVE OwnedStep(k)
  BY <1>1 DEF TakeoutFails, ConnectFails, Dial
<1>2. CASE VerdictTimeout \/ VerdictProceed \/ RetryRefused \/ GiveUpRefused \/ VerdictLost
  BY <1>2 DEF VerdictTimeout, VerdictProceed, RetryRefused, GiveUpRefused, VerdictLost
<1>3. CASE DropDuplicate
  <2>1. k # cur => OwnedStep(k)
    BY <1>0, <1>3 DEF DropDuplicate
  <2>2. CASE k = cur /\ child[cur] = "alive"
    BY <1>0, <1>3, <2>2 DEF DropDuplicate, Ownership!Kill, Ownership!Alive, Ownership!Released,
       Ownership!Unread
  <2>3. CASE k = cur /\ child[cur] # "alive"
    BY <1>0, <1>3, <2>3 DEF DropDuplicate, Ownership!LetGo, Ownership!Released
  <2> QED
    BY <2>1, <2>2, <2>3
<1>4. CASE AckAdopted
  <2>1. k = cur => k \in parked \cup raced
    BY <1>0, <1>4 DEF AckAdopted, OwnerInv, ReaderInv, SweepInv
  <2> QED
    BY <1>0, <1>4, <2>1 DEF AckAdopted
<1>5. CASE AckFails
  BY <1>0, <1>5 DEF AckFails
<1>6. CASE FinishSweep
  BY <1>0, <1>6 DEF FinishSweep, Ownership!Resume, Ownership!Alive, ReaderInv, OneReader
<1> QED
  BY <1>1, <1>2, <1>3, <1>4, <1>5, <1>6 DEF SweepStep

\* A watch resumes what it held and disputes what is read elsewhere; an exit lets
\* everything go.
LEMMA WatchStepOwned ==
  ASSUME OwnerInv, ReaderInv', WatchStep, NEW k \in Key PROVE OwnedStep(k)
<1> USE DEF OwnedStep, Ownership!Settled, Ownership!Same, Ownership!SameLife, Ownership!SameHolders,
        Ownership!SameNew, Ownership!SameOld, PredReads, SuccReads, predVars, succVars, histVars
<1>0. /\ child \in [Key -> {"unborn", "alive", "killed", "exited"}] /\ runtime \subseteq Key
  BY DEF OwnerInv, TypeInv, TypeOK
<1>1. ASSUME NEW w \in watches, WatchSuccessorDied(w) PROVE OwnedStep(k)
  BY <1>0, <1>1 DEF WatchSuccessorDied, Ownership!Resume, Ownership!Alive, ReaderInv, OneReader
<1>2. ASSUME NEW w \in watches, WatchWindowEnds(w) PROVE OwnedStep(k)
  BY <1>2 DEF WatchWindowEnds
<1>3. ASSUME NEW w \in watches, Exit(w) PROVE OwnedStep(k)
  BY <1>0, <1>3 DEF Exit, Ownership!LetGo, Ownership!Released
<1> QED
  BY <1>1, <1>2, <1>3 DEF WatchStep

\* An adoption takes over a living session, and only from a silent reader.
LEMMA ServeStepOwned ==
  ASSUME OwnerInv, ReaderInv', ServeStep, NEW k \in Key PROVE OwnedStep(k)
<1> USE DEF OwnedStep, Ownership!Settled, Ownership!Same, Ownership!SameLife, Ownership!SameHolders,
        Ownership!SameNew, Ownership!SameOld, PredReads, SuccReads, predVars, succVars, histVars
<1>0. /\ child \in [Key -> {"unborn", "alive", "killed", "exited"}]
      /\ seat \in [Key -> Seats]
  BY DEF OwnerInv, TypeInv, TypeOK
<1>1. CASE ServeVerdict \/ RefuseSelfDial
  BY <1>1 DEF ServeVerdict, RefuseSelfDial
<1>2. ASSUME seat' = [seat EXCEPT ![k] = AdoptResult(k)],
             UNCHANGED <<predVars, child, histVars>>
      PROVE  OwnedStep(k)
  <2>1. seat'[k] \in Seats /\ (seat'[k] = "orig" => child[k] = "alive")
    BY <1>0, <1>2, AdoptAlive DEF AdoptResult, Seats
  <2>2. CASE seat[k] # "orig" /\ seat'[k] = "orig"
    BY <1>0, <1>2, <2>1, <2>2 DEF Ownership!TakeOver, Ownership!Alive, ReaderInv, OneReader
  <2>3. CASE seat[k] = "orig" /\ seat'[k] # "orig"
    BY <1>0, <1>2, <2>1, <2>3 DEF Ownership!LetGo, Ownership!Released
  <2> QED
    BY <1>0, <1>2, <2>2, <2>3
<1>3. CASE ServeAdopt
  BY <1>0, <1>2, <1>3 DEF ServeAdopt
<1>4. CASE ServeLateAdopt
  BY <1>0, <1>2, <1>4 DEF ServeLateAdopt
<1> QED
  BY <1>1, <1>3, <1>4 DEF ServeStep

\* Sweeps quiet readers; requests start and kill sessions; processes die.
LEMMA EnvironmentOwned ==
  ASSUME OwnerInv, ReaderInv', Environment, NEW k \in Key PROVE OwnedStep(k)
<1> USE DEF OwnedStep, Ownership!Settled, Ownership!Same, Ownership!SameLife, Ownership!SameHolders,
        Ownership!SameNew, Ownership!SameOld, PredReads, SuccReads, predVars, succVars, histVars
<1>0. /\ child \in [Key -> {"unborn", "alive", "killed", "exited"}] /\ runtime \subseteq Key
      /\ seat \in [Key -> Seats]
      /\ child[k] = "unborn" => k \notin runtime /\ k \notin parked /\ seat[k] # "orig"
      /\ pstate # "up" => runtime = {}
  BY DEF OwnerInv, TypeInv, TypeOK, ReaderInv, SeatInv, BornInv
<1>1. CASE StartSweep
  BY <1>0, <1>1 DEF StartSweep, Ownership!Quiet
<1>2. CASE PredCrash
  BY <1>0, <1>2 DEF PredCrash, Ownership!LetGo, Ownership!Released
<1>3. CASE Shutdown
  BY <1>0, <1>3 DEF Shutdown, Ownership!LetGo, Ownership!Released
<1>4. CASE SpawnSuccessor \/ BindListener \/ BecomeReady
  BY <1>4 DEF SpawnSuccessor, BindListener, BecomeReady
<1>5. CASE SuccCrash
  BY <1>0, <1>5 DEF SuccCrash, Ownership!LetGo, Ownership!Released
<1>6. ASSUME NEW j \in Key, OpenStandIn(j) \/ TypeIntoStandIn(j) PROVE OwnedStep(k)
  BY <1>0, <1>6 DEF OpenStandIn, TypeIntoStandIn
<1>7. ASSUME NEW j \in Key, CloseAtSuccessor(j) PROVE OwnedStep(k)
  <2>1. CASE child'[k] = child[k]
    BY <1>0, <1>7, <2>1 DEF CloseAtSuccessor, Ownership!LetGo, Ownership!Released
  <2>2. CASE child'[k] # child[k]
    BY <1>0, <1>7, <2>2 DEF CloseAtSuccessor, Ownership!Kill, Ownership!Alive, Ownership!Released,
       Ownership!Unread
  <2> QED
    BY <2>1, <2>2
<1>8. ASSUME NEW j \in Key, CreateSession(j) PROVE OwnedStep(k)
  BY <1>0, <1>8 DEF CreateSession, Ownership!Start
<1>9. ASSUME NEW j \in Key, DrainRelease(j) PROVE OwnedStep(k)
  <2>1. CASE child'[k] = child[k]
    BY <1>0, <1>9, <2>1 DEF DrainRelease, Ownership!LetGo, Ownership!Released
  <2>2. CASE child'[k] # child[k]
    BY <1>0, <1>9, <2>2 DEF DrainRelease, Ownership!Kill, Ownership!Alive, Ownership!Released,
       Ownership!Unread
  <2> QED
    BY <2>1, <2>2
<1>10. ASSUME NEW j \in Key, TeardownRefused(j) PROVE OwnedStep(k)
  BY <1>0, <1>10 DEF TeardownRefused, Ownership!Quiet
<1>11. ASSUME NEW j \in Key, ChildExits(j) PROVE OwnedStep(k)
  BY <1>0, <1>11 DEF ChildExits, Ownership!Finish, Ownership!Alive, Ownership!Unread
<1> QED
  BY <1>1, <1>2, <1>3, <1>4, <1>5, <1>6, <1>7, <1>8, <1>9, <1>10, <1>11 DEF Environment

\* hand_off_all_runtimes, the settle watches, the listener and the requests, for any
\* number of sessions, sweeps and successors, implement the abstract ownership.
THEOREM HandoffImplementsOwnership == Spec => ImplementsOwnership
<1>1. Init => Ownership!Init
  BY DEF Init, Ownership!Init, Ownership!Alive, PredReads, SuccReads
<1>2. Spec => []OwnerInv
  <2>1. Init => OwnerInv
    BY InitType, InitReader DEF Init, OwnerInv, BornInv
  <2>2. OwnerInv /\ [Next]_vars => OwnerInv'
    BY TypeInductive, ReaderInductive, BornInductive DEF OwnerInv
  <2> QED
    BY <2>1, <2>2, PTL DEF Spec
<1>3. OwnerInv /\ OwnerInv' /\ [Next]_vars => [Ownership!Next]_(Ownership!vars)
  <2> SUFFICES ASSUME OwnerInv, OwnerInv', [Next]_vars PROVE [Ownership!Next]_(Ownership!vars)
    OBVIOUS
  <2>1. CASE UNCHANGED vars
    BY <2>1 DEF vars, Ownership!vars, predVars, sweepVars, succVars, histVars, PredReads, SuccReads
  <2>2. ASSUME Next, NEW k \in Key PROVE OwnedStep(k)
    BY <2>2, SweepStepOwned, WatchStepOwned, ServeStepOwned, EnvironmentOwned DEF Next, OwnerInv
  <2> QED
    BY <2>1, <2>2 DEF OwnedStep, Ownership!Next
<1> QED
  BY <1>1, <1>2, <1>3, PTL DEF Spec, ImplementsOwnership, Ownership!Spec
=============================================================================
