-------------------------- MODULE ReaderGateProofs --------------------------
(***************************************************************************)
(* Proofs about ReaderGate, for any number of chunks and sweeps.           *)
(***************************************************************************)
EXTENDS ReaderGate, TLAPS

\* The reader is between the gate's decision and the end of the chunk.
Serving == {"read", "count", "apply"}

\* The reader stored what it loaded before it polls, and only a reader that
\* loaded "not parked" gets past the gate.
GateInv ==
    /\ rpc \in {"poll", "drain"} => stoodDown = seen
    /\ gate /\ rpc \in Serving => ~stoodDown /\ ~seen

\* A reader that has loaded "not parked" and does not know yet that it is
\* parked finds the eventfd written, or the sweep is about to write it.
WakeInv ==
    rpc \in {"store", "poll"} /\ ~seen /\ parked => wake \/ spc = "park_wake"

\* What the sweep saw stays true.
SawInv ==
    gate /\ sawDown =>
        /\ parked
        /\ rpc \notin Serving
        /\ spc # "park_wake"
        /\ rpc \in {"store", "poll"} => seen \/ wake

\* Outside the handling of a chunk, all that was taken is on the screen or in a
\* decoder.  A reader that ends at an end of file, where the filter discards its
\* query, had not stood down.
ScreenInv ==
    /\ /\ gate /\ rpc \notin {"count", "apply"}
       /\ rpc = "gone" => stoodDown \/ sawDown
       => mine \subseteq screen \cup tail \cup query
    /\ rpc \in {"count", "apply"} /\ gate
       => mine \subseteq screen \cup tail \cup query \cup {hand}

\* A reader that has taken a chunk while parked goes back to the gate, and
\* finds the flag there.
TheftInv ==
    gate /\ theft > 0 =>
        /\ parked /\ theft = 1
        /\ rpc # "read"
        /\ rpc \in {"store", "poll", "drain"} => seen

\* stolen counts chunks that were taken.
StolenInv ==
    /\ stolen + (IF rpc = "count" THEN 1 ELSE 0) <= head
    /\ rpc \in {"count", "apply"} => hand \in Chunk

IInv ==
    /\ TypeOK /\ GateInv /\ WakeInv /\ SawInv /\ ScreenInv /\ SeedCoversConsumed
    /\ TheftInv /\ StolenInv
-----------------------------------------------------------------------------
LEMMA InitInv == Init => IInv
<1> SUFFICES ASSUME Init PROVE IInv
  OBVIOUS
<1>1. TypeOK
  <2>1. /\ parked \in BOOLEAN /\ stoodDown \in BOOLEAN /\ wake \in BOOLEAN /\ seen \in BOOLEAN
        /\ hungUp \in BOOLEAN /\ sawDown \in BOOLEAN /\ adopted \in BOOLEAN
    BY Zenon DEF Init
  <2>2. QED
    BY <2>1, BoundsAssumption DEF Init, TypeOK, Chunk
<1>2. GateInv
  BY BoundsAssumption DEF Init, GateInv, Serving, Chunk
<1>3. WakeInv
  BY BoundsAssumption DEF Init, WakeInv, Serving, Chunk
<1>4. SawInv
  BY BoundsAssumption DEF Init, SawInv, Serving, Chunk
<1>5. ScreenInv
  BY BoundsAssumption DEF Init, ScreenInv, Serving, Chunk
<1>6. SeedCoversConsumed
  BY BoundsAssumption DEF Init, SeedCoversConsumed, Serving, Chunk
<1>7. TheftInv
  BY BoundsAssumption DEF Init, TheftInv, Serving, Chunk
<1>8. StolenInv
  BY BoundsAssumption DEF Init, StolenInv, Serving, Chunk
<1>9. QED
  BY <1>1, <1>2, <1>3, <1>4, <1>5, <1>6, <1>7, <1>8
  DEF IInv

\* Every action keeps the types; the counter of stolen chunks is bounded by the chunks taken.
LEMMA StepTypeOK == IInv /\ [Next]_vars => TypeOK'
<1> SUFFICES ASSUME IInv, [Next]_vars PROVE TypeOK'
  OBVIOUS
<1>0. TypeOK /\ StolenInv
  BY DEF IInv
<1>1. CASE Load
  BY <1>0, <1>1, BoundsAssumption
  DEF TypeOK, StolenInv, Load, Serving, Chunk, vars, parkVars, readerVars, textVars, ptyVars,
      sweepVars, watchVars, histVars
<1>2. CASE Poll \/ NoGate
  <2>1. rpc' \in {"drain", "read"}
    BY <1>2 DEF Poll, NoGate, AfterPoll
  <2>2. UNCHANGED <<parkVars, gate, seen, hand, textVars, ptyVars, sweepVars, watchVars, histVars>>
    BY <1>2 DEF Poll, NoGate
  <2>3. QED
    BY <1>0, <2>1, <2>2
    DEF TypeOK, Chunk, parkVars, textVars, ptyVars, sweepVars, watchVars, histVars
<1>3. CASE PollFails
  BY <1>0, <1>3, BoundsAssumption
  DEF TypeOK, StolenInv, PollFails, Serving, Chunk, vars, parkVars, readerVars, textVars,
      ptyVars, sweepVars, watchVars, histVars
<1>4. CASE Store
  BY <1>0, <1>4, BoundsAssumption
  DEF TypeOK, StolenInv, Store, Serving, Chunk, vars, parkVars, readerVars, textVars,
      ptyVars, sweepVars, watchVars, histVars
<1>5. CASE Drain
  BY <1>0, <1>5, BoundsAssumption
  DEF TypeOK, StolenInv, Drain, Serving, Chunk, vars, parkVars, readerVars, textVars,
      ptyVars, sweepVars, watchVars, histVars
<1>6. CASE ParkWake
  BY <1>0, <1>6, BoundsAssumption
  DEF TypeOK, StolenInv, ParkWake, Woken, Serving, Chunk, vars, parkVars, readerVars,
      textVars, ptyVars, sweepVars, watchVars, histVars
<1>7. CASE UnparkWake
  BY <1>0, <1>7, BoundsAssumption
  DEF TypeOK, StolenInv, UnparkWake, Woken, Serving, Chunk, vars, parkVars, readerVars,
      textVars, ptyVars, sweepVars, watchVars, histVars
<1>8. CASE SuccessorDies
  BY <1>0, <1>8, BoundsAssumption, ZenonT(60)
  DEF TypeOK, StolenInv, SuccessorDies, Serving, Chunk, vars, parkVars, readerVars, textVars,
      ptyVars, sweepVars, watchVars, histVars
<1>9. CASE Read
  BY <1>0, <1>9, BoundsAssumption
  DEF TypeOK, StolenInv, Read, HasBytes, Serving, Chunk, vars, parkVars, readerVars,
      textVars, ptyVars, sweepVars, watchVars, histVars
<1>10. CASE ReadEof
  BY <1>0, <1>10, BoundsAssumption
  DEF TypeOK, StolenInv, ReadEof, Serving, Chunk, vars, parkVars, readerVars, textVars,
      ptyVars, sweepVars, watchVars, histVars
<1>11. CASE Count
  BY <1>0, <1>11, BoundsAssumption
  DEF TypeOK, StolenInv, Count, Serving, Chunk, vars, parkVars, readerVars, textVars,
      ptyVars, sweepVars, watchVars, histVars
<1>12. CASE Apply
  <2>1. hand \in Chunk /\ tail \subseteq Chunk /\ query \subseteq Chunk /\ screen \subseteq Chunk
    BY <1>0, <1>12 DEF TypeOK, StolenInv, Apply
  <2>2. tail' \subseteq Chunk /\ query' \subseteq Chunk
    BY <1>12, <2>1 DEF Apply, Pending
  <2>3. screen' \subseteq Chunk
    BY <1>12, <2>1 DEF Apply
  <2>4. rpc' = "load" /\ hand' = 0
    BY <1>12 DEF Apply, AfterApply
  <2>5. QED
    BY <1>0, <1>12, <2>2, <2>3, <2>4, BoundsAssumption
    DEF TypeOK, Apply, Chunk, parkVars, ptyVars, sweepVars, watchVars, histVars
<1>13. CASE ParkStore
  <2>1. parked' \in BOOLEAN /\ sawDown' \in BOOLEAN
    BY <1>13, Zenon DEF ParkStore
  <2>2. QED
    BY <1>0, <1>13, <2>1, BoundsAssumption
    DEF TypeOK, StolenInv, ParkStore, Chunk, vars, parkVars, readerVars, textVars, ptyVars,
        sweepVars, watchVars, histVars
<1>14. CASE Quiesce
  <2>1. sawDown' \in BOOLEAN
    BY <1>0, <1>14, Zenon DEF TypeOK, Quiesce
  <2>2. QED
    BY <1>0, <1>14, <2>1
    DEF TypeOK, Quiesce, Chunk, parkVars, readerVars, textVars, ptyVars, watchVars, histVars
<1>15. CASE TakeSeed
  BY <1>0, <1>15, BoundsAssumption
  DEF TypeOK, StolenInv, TakeSeed, Serving, Chunk, vars, parkVars, readerVars, textVars,
      ptyVars, sweepVars, watchVars, histVars
<1>16. CASE Handed
  BY <1>0, <1>16, BoundsAssumption
  DEF TypeOK, StolenInv, Handed, Serving, Chunk, vars, parkVars, readerVars, textVars,
      ptyVars, sweepVars, watchVars, histVars
<1>17. CASE UnparkStore
  BY <1>0, <1>17, BoundsAssumption
  DEF TypeOK, StolenInv, UnparkStore, Serving, Chunk, vars, parkVars, readerVars, textVars,
      ptyVars, sweepVars, watchVars, histVars
<1>18. CASE WatchUnparkStore
  <2>1. parked' \in BOOLEAN /\ sawDown' \in BOOLEAN
    BY <1>18, Zenon DEF WatchUnparkStore
  <2>2. QED
    BY <1>0, <1>18, <2>1, BoundsAssumption
    DEF TypeOK, StolenInv, WatchUnparkStore, Chunk, vars, parkVars, readerVars, textVars,
        ptyVars, sweepVars, watchVars, histVars
<1>19. CASE WatchUnparkWake
  BY <1>0, <1>19, BoundsAssumption
  DEF TypeOK, StolenInv, WatchUnparkWake, Woken, Serving, Chunk, vars, parkVars, readerVars,
      textVars, ptyVars, sweepVars, watchVars, histVars
<1>20. CASE SuccessorReads
  BY <1>0, <1>20, BoundsAssumption
  DEF TypeOK, StolenInv, SuccessorReads, HasBytes, Serving, Chunk, vars, parkVars,
      readerVars, textVars, ptyVars, sweepVars, watchVars, histVars
<1>21. CASE ShellWrites
  BY <1>0, <1>21, BoundsAssumption
  DEF TypeOK, StolenInv, ShellWrites, Serving, Chunk, vars, parkVars, readerVars, textVars,
      ptyVars, sweepVars, watchVars, histVars
<1>22. CASE ShellExits
  BY <1>0, <1>22, BoundsAssumption
  DEF TypeOK, StolenInv, ShellExits, Serving, Chunk, vars, parkVars, readerVars, textVars,
      ptyVars, sweepVars, watchVars, histVars
<1>23. CASE UNCHANGED vars
  BY <1>0, <1>23
  DEF TypeOK, StolenInv, Serving, Chunk, vars, parkVars, readerVars, textVars, ptyVars,
      sweepVars, watchVars, histVars
<1>24. QED
  BY <1>1, <1>2, <1>3, <1>4, <1>5, <1>6, <1>7, <1>8, <1>9, <1>10, <1>11, <1>12, <1>13, <1>14,
     <1>15, <1>16, <1>17, <1>18, <1>19, <1>20, <1>21, <1>22, <1>23
  DEF Next, ReaderStep, FinishCall

\* The reader's own steps are the only ones that touch what GateInv speaks of.
LEMMA StepGateInv == IInv /\ [Next]_vars => GateInv'
<1> SUFFICES ASSUME IInv, [Next]_vars PROVE GateInv'
  OBVIOUS
<1>0. TypeOK /\ GateInv
  BY DEF IInv
<1>1. CASE Load
  BY <1>0, <1>1, BoundsAssumption
  DEF TypeOK, GateInv, Load, Serving, Chunk, vars, parkVars, readerVars, textVars, ptyVars,
      sweepVars, watchVars, histVars
<1>2. CASE Store
  BY <1>0, <1>2, BoundsAssumption
  DEF TypeOK, GateInv, Store, Serving, Chunk, vars, parkVars, readerVars, textVars, ptyVars,
      sweepVars, watchVars, histVars
<1>3. CASE Poll \/ NoGate
  BY <1>0, <1>3, BoundsAssumption
  DEF TypeOK, GateInv, Poll, NoGate, AfterPoll, Readable, HasBytes, Serving, Chunk, vars,
      parkVars, readerVars, textVars, ptyVars, sweepVars, watchVars, histVars
<1>4. CASE PollFails
  BY <1>0, <1>4, BoundsAssumption
  DEF TypeOK, GateInv, PollFails, Serving, Chunk, vars, parkVars, readerVars, textVars,
      ptyVars, sweepVars, watchVars, histVars
<1>5. CASE Drain
  BY <1>0, <1>5, BoundsAssumption
  DEF TypeOK, GateInv, Drain, Serving, Chunk, vars, parkVars, readerVars, textVars, ptyVars,
      sweepVars, watchVars, histVars
<1>6. CASE Apply
  BY <1>0, <1>6, BoundsAssumption
  DEF TypeOK, GateInv, Apply, AfterApply, Pending, Serving, Chunk, vars, parkVars,
      readerVars, textVars, ptyVars, sweepVars, watchVars, histVars
<1>7. CASE Read \/ ReadEof \/ Count \/ ParkStore \/ ParkWake \/ Quiesce \/ TakeSeed \/
          Handed \/ UnparkStore \/ UnparkWake \/ SuccessorDies \/ WatchUnparkStore \/
          WatchUnparkWake \/ SuccessorReads \/ ShellWrites \/ ShellExits \/ UNCHANGED vars
  BY <1>0, <1>7
  DEF TypeOK, GateInv, Read, ReadEof, Count, ParkStore, ParkWake, Quiesce, TakeSeed, Handed,
      UnparkStore, UnparkWake, SuccessorDies, WatchUnparkStore, WatchUnparkWake,
      SuccessorReads, ShellWrites, ShellExits, HasBytes, Woken, HasStoodDown, Serving, Chunk,
      vars, parkVars, readerVars, textVars, ptyVars, sweepVars, watchVars, histVars
<1>8. QED
  BY <1>1, <1>2, <1>3, <1>4, <1>5, <1>6, <1>7
  DEF Next, ReaderStep, FinishCall

\* A park is followed by its wake, and a drained wake by a fresh load.
LEMMA StepWakeInv == IInv /\ [Next]_vars => WakeInv'
<1> SUFFICES ASSUME IInv, [Next]_vars PROVE WakeInv'
  OBVIOUS
<1>0. TypeOK /\ WakeInv
  BY DEF IInv
<1>1. CASE Load
  BY <1>0, <1>1, BoundsAssumption
  DEF TypeOK, WakeInv, Load, Serving, Chunk, vars, parkVars, readerVars, textVars, ptyVars,
      sweepVars, watchVars, histVars
<1>2. CASE Store
  BY <1>0, <1>2, BoundsAssumption
  DEF TypeOK, WakeInv, Store, Serving, Chunk, vars, parkVars, readerVars, textVars, ptyVars,
      sweepVars, watchVars, histVars
<1>3. CASE Drain
  BY <1>0, <1>3, BoundsAssumption
  DEF TypeOK, WakeInv, Drain, Serving, Chunk, vars, parkVars, readerVars, textVars, ptyVars,
      sweepVars, watchVars, histVars
<1>4. CASE Apply
  BY <1>0, <1>4, BoundsAssumption
  DEF TypeOK, WakeInv, Apply, AfterApply, Pending, Serving, Chunk, vars, parkVars,
      readerVars, textVars, ptyVars, sweepVars, watchVars, histVars
<1>5. CASE ParkStore
  BY <1>0, <1>5, BoundsAssumption
  DEF TypeOK, WakeInv, ParkStore, Serving, Chunk, vars, parkVars, readerVars, textVars,
      ptyVars, sweepVars, watchVars, histVars
<1>6. CASE ParkWake
  BY <1>0, <1>6, BoundsAssumption
  DEF TypeOK, WakeInv, ParkWake, Woken, Serving, Chunk, vars, parkVars, readerVars, textVars,
      ptyVars, sweepVars, watchVars, histVars
<1>7. CASE UnparkStore
  BY <1>0, <1>7, BoundsAssumption
  DEF TypeOK, WakeInv, UnparkStore, Serving, Chunk, vars, parkVars, readerVars, textVars,
      ptyVars, sweepVars, watchVars, histVars
<1>8. CASE UnparkWake
  BY <1>0, <1>8, BoundsAssumption
  DEF TypeOK, WakeInv, UnparkWake, Woken, Serving, Chunk, vars, parkVars, readerVars,
      textVars, ptyVars, sweepVars, watchVars, histVars
<1>9. CASE WatchUnparkStore
  BY <1>0, <1>9, BoundsAssumption
  DEF TypeOK, WakeInv, WatchUnparkStore, Serving, Chunk, vars, parkVars, readerVars,
      textVars, ptyVars, sweepVars, watchVars, histVars
<1>10. CASE WatchUnparkWake
  BY <1>0, <1>10, BoundsAssumption
  DEF TypeOK, WakeInv, WatchUnparkWake, Woken, Serving, Chunk, vars, parkVars, readerVars,
      textVars, ptyVars, sweepVars, watchVars, histVars
<1>11. CASE Poll \/ NoGate \/ PollFails \/ Read \/ ReadEof \/ Count \/ Quiesce \/ TakeSeed \/
          Handed \/ SuccessorDies \/ SuccessorReads \/ ShellWrites \/ ShellExits \/
          UNCHANGED vars
  BY <1>0, <1>11
  DEF TypeOK, WakeInv, Poll, NoGate, PollFails, Read, ReadEof, Count, Quiesce, TakeSeed,
      Handed, SuccessorDies, SuccessorReads, ShellWrites, ShellExits, AfterPoll, Readable,
      HasBytes, HasStoodDown, Serving, Chunk, vars, parkVars, readerVars, textVars, ptyVars,
      sweepVars, watchVars, histVars
<1>12. QED
  BY <1>1, <1>2, <1>3, <1>4, <1>5, <1>6, <1>7, <1>8, <1>9, <1>10, <1>11
  DEF Next, ReaderStep, FinishCall

\* Nothing but an unpark changes what the sweep saw: a reader that is still on
\* its way out of an earlier park meets the new wake before the PTY.
LEMMA StepSawInv == IInv /\ [Next]_vars => SawInv'
<1> SUFFICES ASSUME IInv, [Next]_vars PROVE SawInv'
  OBVIOUS
<1>0. TypeOK /\ SawInv /\ GateInv /\ WakeInv
  BY DEF IInv
<1>1. CASE Load
  BY <1>0, <1>1, BoundsAssumption
  DEF TypeOK, SawInv, GateInv, WakeInv, Load, Serving, Chunk, vars, parkVars, readerVars,
      textVars, ptyVars, sweepVars, watchVars, histVars
<1>2. CASE Store
  BY <1>0, <1>2, BoundsAssumption
  DEF TypeOK, SawInv, GateInv, WakeInv, Store, Serving, Chunk, vars, parkVars, readerVars,
      textVars, ptyVars, sweepVars, watchVars, histVars
<1>3. CASE Poll \/ NoGate
  BY <1>0, <1>3, BoundsAssumption
  DEF TypeOK, SawInv, GateInv, WakeInv, Poll, NoGate, AfterPoll, Readable, HasBytes, Serving,
      Chunk, vars, parkVars, readerVars, textVars, ptyVars, sweepVars, watchVars, histVars
<1>4. CASE Drain
  BY <1>0, <1>4, BoundsAssumption
  DEF TypeOK, SawInv, GateInv, WakeInv, Drain, Serving, Chunk, vars, parkVars, readerVars,
      textVars, ptyVars, sweepVars, watchVars, histVars
<1>5. CASE ParkStore
  BY <1>0, <1>5, BoundsAssumption
  DEF TypeOK, SawInv, GateInv, WakeInv, ParkStore, Serving, Chunk, vars, parkVars,
      readerVars, textVars, ptyVars, sweepVars, watchVars, histVars
<1>6. CASE Quiesce
  BY <1>0, <1>6, BoundsAssumption
  DEF TypeOK, SawInv, GateInv, WakeInv, Quiesce, HasStoodDown, Serving, Chunk, vars,
      parkVars, readerVars, textVars, ptyVars, sweepVars, watchVars, histVars
<1>7. CASE UnparkStore
  BY <1>0, <1>7, BoundsAssumption
  DEF TypeOK, SawInv, GateInv, WakeInv, UnparkStore, Serving, Chunk, vars, parkVars,
      readerVars, textVars, ptyVars, sweepVars, watchVars, histVars
<1>8. CASE WatchUnparkStore
  BY <1>0, <1>8, BoundsAssumption
  DEF TypeOK, SawInv, GateInv, WakeInv, WatchUnparkStore, Serving, Chunk, vars, parkVars,
      readerVars, textVars, ptyVars, sweepVars, watchVars, histVars
<1>9. CASE PollFails \/ Read \/ ReadEof \/ Count \/ Apply \/ ParkWake \/ TakeSeed \/
          Handed \/ UnparkWake \/ SuccessorDies \/ WatchUnparkWake \/ SuccessorReads \/
          ShellWrites \/ ShellExits \/ UNCHANGED vars
  BY <1>0, <1>9
  DEF TypeOK, SawInv, GateInv, WakeInv, PollFails, Read, ReadEof, Count, Apply, ParkWake,
      TakeSeed, Handed, UnparkWake, SuccessorDies, WatchUnparkWake, SuccessorReads,
      ShellWrites, ShellExits, HasBytes, AfterApply, Pending, Woken, Serving, Chunk, vars,
      parkVars, readerVars, textVars, ptyVars, sweepVars, watchVars, histVars
<1>10. QED
  BY <1>1, <1>2, <1>3, <1>4, <1>5, <1>6, <1>7, <1>8, <1>9
  DEF Next, ReaderStep, FinishCall

\* A chunk leaves the reader's hand for the screen, or stays in a decoder.
LEMMA StepScreenInv == IInv /\ [Next]_vars => ScreenInv'
<1> SUFFICES ASSUME IInv, [Next]_vars PROVE ScreenInv'
  OBVIOUS
<1>0. TypeOK /\ ScreenInv /\ GateInv /\ SawInv
  BY DEF IInv
<1>1. CASE Read
  BY <1>0, <1>1, BoundsAssumption
  DEF TypeOK, ScreenInv, Read, HasBytes, Serving, Chunk, vars, parkVars, readerVars,
      textVars, ptyVars, sweepVars, watchVars, histVars
<1>2. CASE ReadEof
  BY <1>0, <1>2, BoundsAssumption
  DEF TypeOK, ScreenInv, GateInv, SawInv, ReadEof, Serving, Chunk, vars, parkVars,
      readerVars, textVars, ptyVars, sweepVars, watchVars, histVars
<1>3. CASE Count
  BY <1>0, <1>3, BoundsAssumption
  DEF TypeOK, ScreenInv, Count, Serving, Chunk, vars, parkVars, readerVars, textVars,
      ptyVars, sweepVars, watchVars, histVars
<1>4. CASE Apply
  BY <1>0, <1>4, BoundsAssumption
  DEF TypeOK, ScreenInv, Apply, AfterApply, Pending, Serving, Chunk, vars, parkVars,
      readerVars, textVars, ptyVars, sweepVars, watchVars, histVars
<1>5. CASE Load \/ Store \/ Poll \/ NoGate \/ PollFails \/ Drain
  BY <1>0, <1>5
  DEF TypeOK, ScreenInv, Load, Store, Poll, NoGate, PollFails, Drain, AfterPoll, textVars,
      sweepVars, histVars
<1>7. CASE ParkStore \/ ParkWake \/ TakeSeed \/ Handed \/ UnparkStore \/ UnparkWake \/
          SuccessorDies \/ WatchUnparkStore \/ WatchUnparkWake \/ SuccessorReads \/
          ShellWrites \/ ShellExits \/ UNCHANGED vars
  <2>1. UNCHANGED <<readerVars, stoodDown, mine>> /\ (sawDown' => sawDown)
    BY <1>7
    DEF ParkStore, ParkWake, TakeSeed, Handed, UnparkStore, UnparkWake, SuccessorDies,
        WatchUnparkStore, WatchUnparkWake, SuccessorReads, ShellWrites, ShellExits, vars,
        parkVars, sweepVars, histVars
  <2>2. QED
    BY <1>0, <2>1 DEF ScreenInv, readerVars, textVars
<1>6. CASE Quiesce
  BY <1>0, <1>6
  DEF ScreenInv, Quiesce, HasStoodDown, readerVars, textVars, parkVars, histVars
<1>8. QED
  BY <1>1, <1>2, <1>3, <1>4, <1>5, <1>6, <1>7
  DEF Next, ReaderStep, FinishCall

\* The seed is taken from the screen of a reader with no chunk in hand, which
\* then takes none.
LEMMA StepSeedCoversConsumed == IInv /\ [Next]_vars => SeedCoversConsumed'
<1> SUFFICES ASSUME IInv, [Next]_vars PROVE SeedCoversConsumed'
  OBVIOUS
<1>0. TypeOK /\ SeedCoversConsumed /\ SawInv /\ GateInv /\ ScreenInv
  BY DEF IInv
<1>1. CASE Read
  BY <1>0, <1>1, BoundsAssumption
  DEF TypeOK, SeedCoversConsumed, SawInv, GateInv, ScreenInv, Read, HasBytes, Serving, Chunk,
      vars, parkVars, readerVars, textVars, ptyVars, sweepVars, watchVars, histVars
<1>2. CASE ReadEof
  BY <1>0, <1>2, BoundsAssumption
  DEF TypeOK, SeedCoversConsumed, SawInv, GateInv, ScreenInv, ReadEof, Serving, Chunk, vars,
      parkVars, readerVars, textVars, ptyVars, sweepVars, watchVars, histVars
<1>3. CASE Apply
  BY <1>0, <1>3, BoundsAssumption
  DEF TypeOK, SeedCoversConsumed, SawInv, GateInv, ScreenInv, Apply, AfterApply, Pending,
      Serving, Chunk, vars, parkVars, readerVars, textVars, ptyVars, sweepVars, watchVars,
      histVars
<1>4. CASE ParkStore
  BY <1>0, <1>4, BoundsAssumption
  DEF TypeOK, SeedCoversConsumed, SawInv, GateInv, ScreenInv, ParkStore, Serving, Chunk,
      vars, parkVars, readerVars, textVars, ptyVars, sweepVars, watchVars, histVars
<1>5. CASE Quiesce
  BY <1>0, <1>5, BoundsAssumption
  DEF TypeOK, SeedCoversConsumed, SawInv, GateInv, ScreenInv, Quiesce, HasStoodDown, Serving,
      Chunk, vars, parkVars, readerVars, textVars, ptyVars, sweepVars, watchVars, histVars
<1>6. CASE TakeSeed
  BY <1>0, <1>6, BoundsAssumption
  DEF TypeOK, SeedCoversConsumed, SawInv, GateInv, ScreenInv, TakeSeed, Serving, Chunk, vars,
      parkVars, readerVars, textVars, ptyVars, sweepVars, watchVars, histVars
<1>7. CASE UnparkStore
  BY <1>0, <1>7, BoundsAssumption
  DEF TypeOK, SeedCoversConsumed, SawInv, GateInv, ScreenInv, UnparkStore, Serving, Chunk,
      vars, parkVars, readerVars, textVars, ptyVars, sweepVars, watchVars, histVars
<1>8. CASE WatchUnparkStore
  BY <1>0, <1>8, BoundsAssumption
  DEF TypeOK, SeedCoversConsumed, SawInv, GateInv, ScreenInv, WatchUnparkStore, Serving,
      Chunk, vars, parkVars, readerVars, textVars, ptyVars, sweepVars, watchVars, histVars
<1>9. CASE Load \/ Store \/ Poll \/ NoGate \/ PollFails \/ Drain \/ Count \/ ParkWake \/
          Handed \/ UnparkWake \/ SuccessorDies \/ WatchUnparkWake \/ SuccessorReads \/
          ShellWrites \/ ShellExits \/ UNCHANGED vars
  BY <1>0, <1>9
  DEF TypeOK, SeedCoversConsumed, SawInv, GateInv, ScreenInv, Load, Store, Poll, NoGate,
      PollFails, Drain, Count, ParkWake, Handed, UnparkWake, SuccessorDies, WatchUnparkWake,
      SuccessorReads, ShellWrites, ShellExits, AfterPoll, Readable, HasBytes, Woken, Serving,
      Chunk, vars, parkVars, readerVars, textVars, ptyVars, sweepVars, watchVars, histVars
<1>10. QED
  BY <1>1, <1>2, <1>3, <1>4, <1>5, <1>6, <1>7, <1>8, <1>9
  DEF Next, ReaderStep, FinishCall

\* After a chunk taken while parked the reader loads the flag again.
LEMMA StepTheftInv == IInv /\ [Next]_vars => TheftInv'
<1> SUFFICES ASSUME IInv, [Next]_vars PROVE TheftInv'
  OBVIOUS
<1>0. TypeOK /\ TheftInv /\ GateInv
  BY DEF IInv
<1>1. CASE Load
  BY <1>0, <1>1, BoundsAssumption
  DEF TypeOK, TheftInv, GateInv, Load, Serving, Chunk, vars, parkVars, readerVars, textVars,
      ptyVars, sweepVars, watchVars, histVars
<1>2. CASE Poll \/ NoGate
  BY <1>0, <1>2, BoundsAssumption
  DEF TypeOK, TheftInv, GateInv, Poll, NoGate, AfterPoll, Readable, HasBytes, Serving, Chunk,
      vars, parkVars, readerVars, textVars, ptyVars, sweepVars, watchVars, histVars
<1>3. CASE Read
  BY <1>0, <1>3, BoundsAssumption
  DEF TypeOK, TheftInv, GateInv, Read, HasBytes, Serving, Chunk, vars, parkVars, readerVars,
      textVars, ptyVars, sweepVars, watchVars, histVars
<1>4. CASE ParkStore
  BY <1>0, <1>4, BoundsAssumption
  DEF TypeOK, TheftInv, GateInv, ParkStore, Serving, Chunk, vars, parkVars, readerVars,
      textVars, ptyVars, sweepVars, watchVars, histVars
<1>5. CASE UnparkStore
  BY <1>0, <1>5, BoundsAssumption
  DEF TypeOK, TheftInv, GateInv, UnparkStore, Serving, Chunk, vars, parkVars, readerVars,
      textVars, ptyVars, sweepVars, watchVars, histVars
<1>6. CASE WatchUnparkStore
  BY <1>0, <1>6, BoundsAssumption
  DEF TypeOK, TheftInv, GateInv, WatchUnparkStore, Serving, Chunk, vars, parkVars,
      readerVars, textVars, ptyVars, sweepVars, watchVars, histVars
<1>7. CASE Store \/ PollFails \/ Drain \/ ReadEof \/ Count \/ Apply \/ ParkWake \/
          Quiesce \/ TakeSeed \/ Handed \/ UnparkWake \/ SuccessorDies \/
          WatchUnparkWake \/ SuccessorReads \/ ShellWrites \/ ShellExits \/ UNCHANGED vars
  BY <1>0, <1>7
  DEF TypeOK, TheftInv, GateInv, Store, PollFails, Drain, ReadEof, Count, Apply, ParkWake,
      Quiesce, TakeSeed, Handed, UnparkWake, SuccessorDies, WatchUnparkWake, SuccessorReads,
      ShellWrites, ShellExits, AfterApply, Pending, Woken, HasStoodDown, HasBytes, Serving,
      Chunk, vars, parkVars, readerVars, textVars, ptyVars, sweepVars, watchVars, histVars
<1>8. QED
  BY <1>1, <1>2, <1>3, <1>4, <1>5, <1>6, <1>7
  DEF Next, ReaderStep, FinishCall

\* A chunk is counted once, after it was taken.
LEMMA StepStolenInv == IInv /\ [Next]_vars => StolenInv'
<1> SUFFICES ASSUME IInv, [Next]_vars PROVE StolenInv'
  OBVIOUS
<1>0. TypeOK /\ StolenInv
  BY DEF IInv
<1>1. CASE Read
  BY <1>0, <1>1, BoundsAssumption
  DEF TypeOK, StolenInv, Read, HasBytes, Serving, Chunk, vars, parkVars, readerVars,
      textVars, ptyVars, sweepVars, watchVars, histVars
<1>2. CASE Count
  BY <1>0, <1>2, BoundsAssumption
  DEF TypeOK, StolenInv, Count, Serving, Chunk, vars, parkVars, readerVars, textVars,
      ptyVars, sweepVars, watchVars, histVars
<1>3. CASE Load \/ Store \/ Poll \/ NoGate \/ PollFails \/ Drain \/ ReadEof \/ Apply \/
          ParkStore \/ ParkWake \/ Quiesce \/ TakeSeed \/ Handed \/ UnparkStore \/
          UnparkWake \/ SuccessorDies \/ WatchUnparkStore \/ WatchUnparkWake \/
          SuccessorReads \/ ShellWrites \/ ShellExits \/ UNCHANGED vars
  BY <1>0, <1>3
  DEF TypeOK, StolenInv, Load, Store, Poll, NoGate, PollFails, Drain, ReadEof, Apply,
      ParkStore, ParkWake, Quiesce, TakeSeed, Handed, UnparkStore, UnparkWake, SuccessorDies,
      WatchUnparkStore, WatchUnparkWake, SuccessorReads, ShellWrites, ShellExits, AfterPoll,
      Readable, HasBytes, AfterApply, Pending, Woken, HasStoodDown, Serving, Chunk, vars,
      parkVars, readerVars, textVars, ptyVars, sweepVars, watchVars, histVars
<1>4. QED
  BY <1>1, <1>2, <1>3
  DEF Next, ReaderStep, FinishCall

-----------------------------------------------------------------------------
\* The whole invariant is kept by every step.
LEMMA InductiveInv == Spec => []IInv
<1>1. IInv /\ [Next]_vars => IInv'
  BY StepTypeOK, StepGateInv, StepWakeInv, StepSawInv, StepScreenInv, StepSeedCoversConsumed,
     StepTheftInv, StepStolenInv
  DEF IInv
<1>2. QED
  BY <1>1, InitInv, PTL DEF Spec

\* The types of ReaderPark's flags, of the reader loop and of the sweep.
THEOREM TypeCorrect == Spec => []TypeOK
  BY InductiveInv, PTL DEF IInv

\* The seed that hand_off_all_runtimes sends for a reader that stood down in time
\* has every chunk the reader loop consumed, but for an incomplete character and a
\* colour query without its end.
THEOREM SeedIsComplete == Spec => []SeedCoversConsumed
  BY InductiveInv, PTL DEF IInv

\* The poll/park race in the reader loop costs at most one chunk per park.
THEOREM AtMostOneChunkStolen == Spec => []TheftIsBounded
<1>1. IInv => TheftIsBounded
  BY DEF IInv, TypeOK, TheftInv, TheftIsBounded
<1>2. QED
  BY <1>1, InductiveInv, PTL

\* A reader the sweep has seen stood down (has_stood_down) takes nothing from the
\* PTY until it is unparked.
THEOREM StandDownIsFinal == Spec => StoodDownMeansSilent
<1>1. IInv /\ [Next]_vars => [gate /\ sawDown => mine' = mine]_vars
  <2> SUFFICES ASSUME IInv, gate, sawDown, Next PROVE mine' = mine
    BY DEF vars, histVars
  <2>1. rpc # "read"
    BY DEF IInv, SawInv, Serving
  <2>2. CASE Read
    BY <2>1, <2>2 DEF Read
  <2>3. CASE ~Read
    BY <2>3
    DEF Next, ReaderStep, FinishCall, Load, Store, Poll, NoGate, PollFails, Drain, ReadEof,
        Count, Apply, ParkStore, ParkWake, Quiesce, TakeSeed, Handed, UnparkStore,
        UnparkWake, SuccessorDies, WatchUnparkStore, WatchUnparkWake, SuccessorReads,
        ShellWrites, ShellExits, histVars
  <2>4. QED
    BY <2>2, <2>3
<1>2. QED
  BY <1>1, InductiveInv, PTL DEF Spec, StoodDownMeansSilent
=============================================================================
