-------------------------- MODULE OutputRingProofs --------------------------
(***************************************************************************)
(* Proofs about OutputRing, for every number of chunks and every ring size. *)
(*                                                                         *)
(* The argument rests on what the chunks lock protects: outside it the     *)
(* screen shows exactly the chunks numbered so far (ScreenOK), the ring    *)
(* ends at the last number, or one short of it while a daemon-authored     *)
(* line is between its number and its push (RingOK), and upTo never falls  *)
(* (Monotone), so that a key read before the screen can only understate it *)
(* (SnapOK, MemoOK).                                                       *)
(***************************************************************************)
EXTENDS OutputRing, TLAPS

Monotone == \A a, b \in 0..seq : a <= b => upTo[a] <= upTo[b]

\* The bound leaves room for the number a chunk under way will get.
RoomOK == rpc \in {"screened", "minted"} => seq < MaxSeq

ScreenOK ==
    screen = IF rpc \in {"screened", "minted"} THEN upTo[seq] + 1 ELSE upTo[seq]

RingOK ==
    /\ rpc \in {"minted", "stopping"} => seq > 0
    /\ newest = IF rpc \in {"minted", "stopping"} THEN seq - 1 ELSE seq
    /\ upTo[newest] = upTo[seq]
    /\ oldest <= newest \/ (newest = 0 /\ oldest = 1)

SnapOK ==
    /\ npc # "idle" => nkey <= seq
    /\ npc = "render" => nstamp <= nkey

MemoOK == \A m \in memo : m.key <= seq /\ upTo[m.key] <= m.text

AnswerOK == snap.stamp <= seq /\ upTo[snap.stamp] <= snap.text

CursorOK ==
    /\ cursor <= seq
    /\ cursor > 0 => applied <= upTo[cursor] /\ (~short => applied = upTo[cursor])

IInv ==
    /\ TypeOK /\ RoomOK /\ Monotone /\ ScreenOK /\ RingOK
    /\ SnapOK /\ MemoOK /\ AnswerOK /\ CursorOK

\* A stamp never exceeds the key it was capped from.
LEMMA StampBounds ==
  ASSUME NEW key \in Nat, NEW f \in Nat
  PROVE  CappedSeedStamp(key, f) \in 0..key
BY DEF CappedSeedStamp

\* The initial states satisfy the invariant.
LEMMA InitIInv == Init => IInv
<1> SUFFICES ASSUME Init PROVE IInv
  OBVIOUS
<1> USE BoundsAssumption
<1>1. PICK seed \in {0, 1} : /\ seed <= MaxSeq
                            /\ screen = seed /\ seq = seed /\ newest = seed
                            /\ upTo = [s \in 0..MaxSeq |-> IF s = 1 THEN seed ELSE 0]
  BY DEF Init
<1>2. TypeOK
  <2>1. blank \in BOOLEAN /\ prefers \in BOOLEAN /\ short \in BOOLEAN
    BY Zenon DEF Init
  <2>2. QED
    BY <1>1, <2>1 DEF Init, TypeOK
<1>3. RoomOK /\ SnapOK /\ MemoOK
  BY DEF Init, RoomOK, SnapOK, MemoOK
<1>4. Monotone /\ ScreenOK /\ RingOK
  <2>1. Monotone
    BY <1>1 DEF Monotone
  <2>2. ScreenOK
    BY <1>1 DEF Init, ScreenOK
  <2>3. RingOK
    BY <1>1 DEF Init, RingOK
  <2>4. QED
    BY <2>1, <2>2, <2>3
<1>5. AnswerOK /\ CursorOK
  BY <1>1 DEF Init, AnswerOK, CursorOK
<1>6. QED
  BY <1>2, <1>3, <1>4, <1>5 DEF IInv

\* What read returns past a cursor: at most what the numbers past it stand for,
\* and all of it unless the ring has a gap there.
LEMMA RingPastBounds ==
  ASSUME IInv, cursor > 0
  PROVE  /\ RingPast(cursor) \in Nat
         /\ upTo[cursor] + RingPast(cursor) <= upTo[seq]
         /\ ~ResyncRequired(cursor) => upTo[cursor] + RingPast(cursor) = upTo[seq]
<1> DEFINE first == IF oldest > cursor THEN oldest ELSE cursor + 1
<1>1. /\ cursor \in 1..seq /\ cursor \in 0..MaxSeq /\ seq \in 0..MaxSeq
      /\ newest \in 0..seq /\ oldest \in 1..MaxSeq + 1 /\ upTo \in [0..MaxSeq -> Nat]
      /\ upTo[newest] = upTo[seq]
  BY BoundsAssumption DEF IInv, TypeOK, RingOK, CursorOK
<1>2. upTo[cursor] <= upTo[seq] /\ upTo[cursor] \in Nat /\ upTo[seq] \in Nat
  BY <1>1 DEF IInv, Monotone
<1>3. CASE first <= newest
  <2>1. first - 1 \in 0..seq /\ cursor <= first - 1 /\ first - 1 \in 0..MaxSeq
    BY <1>1, <1>3, BoundsAssumption
  <2>2. upTo[cursor] <= upTo[first - 1] /\ upTo[first - 1] <= upTo[seq] /\ upTo[first - 1] \in Nat
    BY <1>1, <2>1 DEF IInv, Monotone
  <2>3. RingPast(cursor) = upTo[seq] - upTo[first - 1]
    BY <1>1, <1>3 DEF RingPast
  <2>4. ~ResyncRequired(cursor) => first - 1 = cursor
    BY <1>1, <1>3 DEF ResyncRequired, IInv, RingOK
  <2>5. QED
    BY <1>2, <2>2, <2>3, <2>4
<1>4. CASE ~(first <= newest)
  <2>1. RingPast(cursor) = 0
    BY <1>4 DEF RingPast
  <2>2. ~ResyncRequired(cursor) => newest <= cursor
    BY <1>1, <1>4 DEF ResyncRequired, IInv, RingOK
  <2>3. newest <= cursor => upTo[newest] <= upTo[cursor]
    BY <1>1 DEF IInv, Monotone
  <2>4. QED
    BY <1>1, <1>2, <2>1, <2>2, <2>3
<1>5. QED
  BY <1>3, <1>4

\* The types are preserved.
LEMMA StepType == IInv /\ [Next]_vars => TypeOK'
<1> SUFFICES ASSUME IInv, [Next]_vars PROVE TypeOK'
  OBVIOUS
<1> USE BoundsAssumption
<1> USE DEF IInv
<1>1. CASE Process
  BY <1>1 DEF Process, TypeOK, readerVars, snapVars, clientVars
<1>2. CASE MintContract
  BY <1>2 DEF MintContract, TypeOK, readerVars, snapVars, clientVars
<1>3. CASE PushContract
  <2>1. Trimmed(seq, RingSize) \in 1..MaxSeq + 1 /\ seq - Trimmed(seq, RingSize) < RingSize
    BY DEF TypeOK, RingOK, Trimmed
  <2>2. QED
    BY <1>3, <2>1 DEF PushContract, TypeOK, snapVars, clientVars
<1>4. CASE Commit
  <2>1. seq + 1 \in 0..MaxSeq
    BY <1>4 DEF Commit, TypeOK, RoomOK, Locked
  <2>2. Trimmed(seq + 1, RingSize) \in 1..MaxSeq + 1 /\ seq + 1 - Trimmed(seq + 1, RingSize) < RingSize
    BY <1>4, <2>1 DEF Commit, TypeOK, RingOK, Trimmed
  <2>3. upTo' \in [0..MaxSeq -> Nat] /\ rpc' \in {"idle", "screened", "minted", "stopping", "gone"}
    BY <1>4 DEF Commit, TypeOK
  <2>4. newest' - oldest' < RingSize
    BY <1>4, <2>1, <2>2 DEF Commit, TypeOK
  <2>5. UNCHANGED <<screen, blank, floor, stopLine, snapVars, clientVars>> /\ seq' = seq + 1 /\ newest' = seq + 1 /\ oldest' = Trimmed(seq + 1, RingSize)
    BY <1>4 DEF Commit
  <2>6. QED
    BY <2>1, <2>2, <2>3, <2>4, <2>5 DEF TypeOK, snapVars, clientVars
<1>5. CASE ReadError
  BY <1>5 DEF ReadError, TypeOK, readerVars, snapVars, clientVars
<1>6. CASE PushStopLine
  <2>1. Trimmed(seq, RingSize) \in 1..MaxSeq + 1 /\ seq - Trimmed(seq, RingSize) < RingSize
    BY DEF TypeOK, RingOK, Trimmed
  <2>2. QED
    BY <1>6, <2>1 DEF PushStopLine, TypeOK, snapVars, clientVars
<1>7. CASE TrimIdle
  <2>1. Trimmed(newest, IdleSize) \in 1..MaxSeq + 1 /\ newest - Trimmed(newest, IdleSize) < RingSize
    BY DEF TypeOK, RingOK, Trimmed
  <2>2. QED
    BY <1>7, <2>1 DEF TrimIdle, TypeOK, snapVars, clientVars
<1>8. CASE SnapFloor
  <2>1. CappedSeedStamp(nkey, floor) \in 0..nkey
    BY StampBounds, nkey \in Nat, floor \in Nat DEF TypeOK
  <2>2. QED
    BY <1>8, <2>1 DEF SnapFloor, TypeOK, readerVars, clientVars
<1>9. CASE SnapRender
  <2>1. memo' \subseteq [key: 0..MaxSeq, text: Nat] /\ snap' \in [text: Nat, stamp: 0..MaxSeq]
    BY <1>9 DEF SnapRender, TypeOK
  <2>2. npc' = "idle" /\ UNCHANGED <<readerVars, nkey, nstamp, clientVars>>
    BY <1>9 DEF SnapRender
  <2>3. QED
    BY <2>1, <2>2 DEF TypeOK, readerVars, clientVars
<1>10. CASE Attach
  <2>1. applied' \in Nat
    BY <1>10 DEF Attach, TypeOK
  <2>2. short' \in BOOLEAN
    BY <1>10, Zenon DEF Attach
  <2>3. QED
    BY <1>10, <2>1, <2>2 DEF Attach, TypeOK, readerVars, snapVars
<1>11. CASE Follow
  <2>1. applied' \in Nat
    BY <1>11, RingPastBounds DEF Follow, TypeOK
  <2>2. short' \in BOOLEAN
    <3>1. CASE ResyncRequired(cursor) /\ ~blank
      BY <1>11, <3>1, Zenon DEF Follow
    <3>2. CASE ~(ResyncRequired(cursor) /\ ~blank)
      BY <1>11, <3>2, Zenon DEF Follow
    <3>3. QED
      BY <3>1, <3>2
  <2>3. QED
    BY <1>11, <2>1, <2>2 DEF Follow, TypeOK, readerVars, snapVars
<1>12. CASE Eof \/ SnapKey \/ UNCHANGED vars
  BY <1>12 DEF Eof, SnapKey, vars, readerVars, snapVars, clientVars, TypeOK
<1>13. QED
  BY <1>1, <1>2, <1>3, <1>4, <1>5, <1>6, <1>7, <1>8, <1>9, <1>10, <1>11, <1>12 DEF Next

\* The room is kept.
LEMMA StepRoom == IInv /\ [Next]_vars => RoomOK'
<1> SUFFICES ASSUME IInv, [Next]_vars PROVE RoomOK'
  OBVIOUS
<1> USE BoundsAssumption
<1> USE DEF IInv
<1>1. CASE Process
  BY <1>1 DEF Process, RoomOK, TypeOK
<1>2. CASE MintContract
  BY <1>2 DEF MintContract, RoomOK, TypeOK
<1>3. CASE PushContract
  BY <1>3 DEF PushContract, RoomOK, TypeOK
<1>4. CASE Commit
  BY <1>4 DEF Commit, RoomOK, TypeOK
<1>5. CASE ReadError
  BY <1>5 DEF ReadError, RoomOK, TypeOK
<1>6. CASE PushStopLine
  BY <1>6 DEF PushStopLine, RoomOK, TypeOK
<1>7. CASE Eof \/ TrimIdle \/ SnapKey \/ SnapFloor \/ SnapRender \/ Attach \/ Follow
           \/ UNCHANGED vars
  BY <1>7 DEF Eof, TrimIdle, SnapKey, SnapFloor, SnapRender, Attach, Follow, vars,
     readerVars, snapVars, clientVars, RoomOK, TypeOK
<1>8. QED
  BY <1>1, <1>2, <1>3, <1>4, <1>5, <1>6, <1>7 DEF Next

\* Numbers are never taken back, and what a number stands for never changes.
LEMMA UpToGrows == IInv /\ [Next]_vars => (seq <= seq' /\ \A a \in 0..seq : upTo'[a] = upTo[a])
<1> SUFFICES ASSUME IInv, [Next]_vars PROVE (seq <= seq' /\ \A a \in 0..seq : upTo'[a] = upTo[a])
  OBVIOUS
<1>1. seq \in 0..MaxSeq /\ MaxSeq \in Nat /\ upTo \in [0..MaxSeq -> Nat] /\ screen \in Nat
  BY BoundsAssumption DEF IInv, TypeOK
<1>2. CASE MintContract
  BY <1>1, <1>2 DEF MintContract
<1>3. CASE Commit
  BY <1>1, <1>3 DEF Commit
<1>4. CASE ReadError
  BY <1>1, <1>4 DEF ReadError
<1>5. CASE Process \/ PushContract \/ Eof \/ PushStopLine \/ TrimIdle \/ SnapKey
           \/ SnapFloor \/ SnapRender \/ Attach \/ Follow \/ UNCHANGED vars
  <2>1. UNCHANGED <<seq, upTo>>
    BY <1>5 DEF Process, PushContract, Eof, PushStopLine, TrimIdle, SnapKey, SnapFloor,
       SnapRender, Attach, Follow, vars, readerVars, snapVars, clientVars
  <2>2. QED
    BY <1>1, <2>1 DEF IInv
<1>6. QED
  BY <1>2, <1>3, <1>4, <1>5 DEF Next

\* Later numbers stand for no less.
LEMMA StepMonotone == IInv /\ [Next]_vars => Monotone'
<1> SUFFICES ASSUME IInv, [Next]_vars PROVE Monotone'
  OBVIOUS
<1>1. seq \in 0..MaxSeq /\ MaxSeq \in Nat /\ upTo \in [0..MaxSeq -> Nat] /\ screen \in Nat
  BY BoundsAssumption DEF IInv, TypeOK
<1>2. CASE MintContract
  <2>1. seq' = seq + 1 /\ seq + 1 \in 0..MaxSeq /\ upTo' = [upTo EXCEPT ![seq + 1] = upTo[seq]]
    BY <1>1, <1>2 DEF MintContract, IInv, RoomOK
  <2>2. upTo[seq] <= upTo[seq] /\ upTo[seq] \in Nat
    BY <1>1, <1>2 DEF MintContract, IInv, ScreenOK
  <2>3. \A a \in 0..seq : upTo[a] <= upTo[seq] /\ upTo[a] \in Nat
    BY <1>1 DEF IInv, Monotone
  <2>4. QED
    BY <1>1, <2>1, <2>2, <2>3 DEF IInv, Monotone
<1>3. CASE Commit
  <2>1. seq' = seq + 1 /\ seq + 1 \in 0..MaxSeq /\ upTo' = [upTo EXCEPT ![seq + 1] = screen]
    BY <1>1, <1>3 DEF Commit, IInv, RoomOK
  <2>2. upTo[seq] <= screen /\ screen \in Nat
    BY <1>1, <1>3 DEF Commit, IInv, ScreenOK
  <2>3. \A a \in 0..seq : upTo[a] <= upTo[seq] /\ upTo[a] \in Nat
    BY <1>1 DEF IInv, Monotone
  <2>4. QED
    BY <1>1, <2>1, <2>2, <2>3 DEF IInv, Monotone
<1>4. CASE ReadError
  <2>1. seq' = seq + 1 /\ seq + 1 \in 0..MaxSeq /\ upTo' = [upTo EXCEPT ![seq + 1] = upTo[seq]]
    BY <1>1, <1>4 DEF ReadError, IInv, RoomOK
  <2>2. upTo[seq] <= upTo[seq] /\ upTo[seq] \in Nat
    BY <1>1, <1>4 DEF ReadError, IInv, ScreenOK
  <2>3. \A a \in 0..seq : upTo[a] <= upTo[seq] /\ upTo[a] \in Nat
    BY <1>1 DEF IInv, Monotone
  <2>4. QED
    BY <1>1, <2>1, <2>2, <2>3 DEF IInv, Monotone
<1>5. CASE Process \/ PushContract \/ Eof \/ PushStopLine \/ TrimIdle \/ SnapKey
           \/ SnapFloor \/ SnapRender \/ Attach \/ Follow \/ UNCHANGED vars
  <2>1. UNCHANGED <<seq, upTo>>
    BY <1>5 DEF Process, PushContract, Eof, PushStopLine, TrimIdle, SnapKey, SnapFloor,
       SnapRender, Attach, Follow, vars, readerVars, snapVars, clientVars
  <2>2. QED
    BY <1>1, <2>1 DEF IInv, Monotone
<1>6. QED
  BY <1>2, <1>3, <1>4, <1>5 DEF Next

\* Outside the lock the screen is what the last number stands for.
LEMMA StepScreen == IInv /\ [Next]_vars => ScreenOK'
<1> SUFFICES ASSUME IInv, [Next]_vars PROVE ScreenOK'
  OBVIOUS
<1> USE BoundsAssumption
<1> USE DEF IInv
<1>1. CASE Process
  BY <1>1 DEF Process, ScreenOK, TypeOK, RoomOK
<1>2. CASE MintContract
  BY <1>2 DEF MintContract, ScreenOK, TypeOK, RoomOK
<1>3. CASE PushContract
  BY <1>3 DEF PushContract, ScreenOK, TypeOK, RoomOK
<1>4. CASE Commit
  BY <1>4 DEF Commit, ScreenOK, TypeOK, RoomOK
<1>5. CASE ReadError
  BY <1>5 DEF ReadError, ScreenOK, TypeOK, RoomOK
<1>6. CASE PushStopLine
  BY <1>6 DEF PushStopLine, ScreenOK, TypeOK, RoomOK
<1>7. CASE Eof \/ TrimIdle \/ SnapKey \/ SnapFloor \/ SnapRender \/ Attach \/ Follow
           \/ UNCHANGED vars
  BY <1>7 DEF Eof, TrimIdle, SnapKey, SnapFloor, SnapRender, Attach, Follow, vars,
     readerVars, snapVars, clientVars, ScreenOK, TypeOK, RoomOK
<1>8. QED
  BY <1>1, <1>2, <1>3, <1>4, <1>5, <1>6, <1>7 DEF Next

\* The ring ends where the numbers do.
LEMMA StepRing == IInv /\ [Next]_vars => RingOK'
<1> SUFFICES ASSUME IInv, [Next]_vars PROVE RingOK'
  OBVIOUS
<1> USE BoundsAssumption
<1> USE DEF IInv
<1>1. CASE Process
  BY <1>1 DEF Process, RingOK, TypeOK, RoomOK, ScreenOK, Trimmed, Locked
<1>2. CASE MintContract
  BY <1>2 DEF MintContract, RingOK, TypeOK, RoomOK, ScreenOK, Trimmed, Locked
<1>3. CASE PushContract
  BY <1>3 DEF PushContract, RingOK, TypeOK, RoomOK, ScreenOK, Trimmed, Locked
<1>4. CASE Commit
  BY <1>4 DEF Commit, RingOK, TypeOK, RoomOK, ScreenOK, Trimmed, Locked
<1>5. CASE ReadError
  BY <1>5 DEF ReadError, RingOK, TypeOK, RoomOK, ScreenOK, Trimmed, Locked
<1>6. CASE PushStopLine
  BY <1>6 DEF PushStopLine, RingOK, TypeOK, RoomOK, ScreenOK, Trimmed, Locked
<1>7. CASE TrimIdle
  BY <1>7 DEF TrimIdle, RingOK, TypeOK, RoomOK, ScreenOK, Trimmed, Locked
<1>8. CASE Eof \/ SnapKey \/ SnapFloor \/ SnapRender \/ Attach \/ Follow
           \/ UNCHANGED vars
  BY <1>8 DEF Eof, SnapKey, SnapFloor, SnapRender, Attach, Follow, vars, readerVars,
     snapVars, clientVars, RingOK, TypeOK, RoomOK, ScreenOK, Trimmed, Locked
<1>9. QED
  BY <1>1, <1>2, <1>3, <1>4, <1>5, <1>6, <1>7, <1>8 DEF Next

\* A snapshot call's key stays behind the last number.
LEMMA StepSnap == IInv /\ [Next]_vars => SnapOK'
<1> SUFFICES ASSUME IInv, [Next]_vars PROVE SnapOK'
  OBVIOUS
<1>1. seq \in Nat /\ seq' \in Nat /\ seq <= seq' /\ \A a \in 0..seq : upTo'[a] = upTo[a]
  <2>1. TypeOK /\ TypeOK'
    BY StepType DEF IInv
  <2>2. QED
    BY <2>1, UpToGrows DEF TypeOK
<1>2. CASE SnapKey
  BY <1>2 DEF SnapKey, SnapOK, TypeOK, IInv, readerVars
<1>3. CASE SnapFloor
  BY <1>3 DEF SnapFloor, SnapOK, TypeOK, IInv, readerVars, CappedSeedStamp
<1>4. CASE SnapRender
  BY <1>4 DEF SnapRender, SnapOK
<1>5. CASE Process \/ MintContract \/ PushContract \/ Commit \/ Eof \/ ReadError
           \/ PushStopLine \/ TrimIdle \/ Attach \/ Follow \/ UNCHANGED vars
  <2>1. UNCHANGED <<npc, nkey, nstamp>>
    BY <1>5 DEF Process, MintContract, PushContract, Commit, Eof, ReadError,
       PushStopLine, TrimIdle, Attach, Follow, vars, readerVars, snapVars, clientVars
  <2>2. QED
    BY <1>1, <2>1 DEF IInv, SnapOK, TypeOK
<1>6. QED
  BY <1>2, <1>3, <1>4, <1>5 DEF Next

\* The memo's text covers its key.
LEMMA StepMemo == IInv /\ [Next]_vars => MemoOK'
<1> SUFFICES ASSUME IInv, [Next]_vars PROVE MemoOK'
  OBVIOUS
<1>1. seq \in Nat /\ seq' \in Nat /\ seq <= seq' /\ \A a \in 0..seq : upTo'[a] = upTo[a]
  <2>1. TypeOK /\ TypeOK'
    BY StepType DEF IInv
  <2>2. QED
    BY <2>1, UpToGrows DEF TypeOK
<1>2. CASE SnapRender
  <2> UNCHANGED <<seq, upTo>> /\ nkey \in 0..seq /\ seq \in 0..MaxSeq /\ upTo \in [0..MaxSeq -> Nat]
    BY <1>2 DEF SnapRender, IInv, TypeOK, SnapOK, readerVars
  <2>1. upTo[nkey] <= screen
    <3>1. upTo[nkey] <= upTo[seq]
      BY DEF IInv, Monotone
    <3>2. upTo[seq] <= screen
      BY DEF IInv, ScreenOK
    <3>3. QED
      BY <3>1, <3>2, SMTT(60) DEF IInv, TypeOK
  <2>2. QED
    BY <1>2, <2>1 DEF SnapRender, IInv, MemoOK, TypeOK
<1>3. CASE Process \/ MintContract \/ PushContract \/ Commit \/ Eof \/ ReadError
           \/ PushStopLine \/ TrimIdle \/ SnapKey \/ SnapFloor \/ Attach \/ Follow
           \/ UNCHANGED vars
  <2>1. UNCHANGED <<memo>>
    BY <1>3 DEF Process, MintContract, PushContract, Commit, Eof, ReadError,
       PushStopLine, TrimIdle, SnapKey, SnapFloor, Attach, Follow, vars, readerVars,
       snapVars, clientVars
  <2>2. QED
    BY <1>1, <2>1 DEF IInv, MemoOK, TypeOK
<1>4. QED
  BY <1>2, <1>3 DEF Next

\* The answer's text covers its stamp.
LEMMA StepAnswer == IInv /\ [Next]_vars => AnswerOK'
<1> SUFFICES ASSUME IInv, [Next]_vars PROVE AnswerOK'
  OBVIOUS
<1>1. seq \in Nat /\ seq' \in Nat /\ seq <= seq' /\ \A a \in 0..seq : upTo'[a] = upTo[a]
  <2>1. TypeOK /\ TypeOK'
    BY StepType DEF IInv
  <2>2. QED
    BY <2>1, UpToGrows DEF TypeOK
<1>2. CASE SnapRender
  <2> UNCHANGED <<seq, upTo>> /\ nkey \in 0..seq /\ seq \in 0..MaxSeq /\ upTo \in [0..MaxSeq -> Nat]
    BY <1>2 DEF SnapRender, IInv, TypeOK, SnapOK, readerVars
  <2>1. upTo[nkey] <= screen
    <3>1. upTo[nkey] <= upTo[seq]
      BY DEF IInv, Monotone
    <3>2. upTo[seq] <= screen
      BY DEF IInv, ScreenOK
    <3>3. QED
      BY <3>1, <3>2, SMTT(60) DEF IInv, TypeOK
  <2>2. nstamp \in 0..nkey /\ nkey \in 0..MaxSeq /\ upTo[nstamp] <= upTo[nkey]
    BY <1>2, <2>1 DEF SnapRender, IInv, TypeOK, SnapOK, Monotone
  <2>3. upTo \in [0..MaxSeq -> Nat] /\ screen \in Nat
    BY DEF IInv, TypeOK
  <2>4. snap'.stamp = nstamp /\ upTo[nkey] <= snap'.text /\ snap'.text \in Nat
    BY <1>2, <2>1, <2>3 DEF SnapRender, IInv, MemoOK, MemoFits, TypeOK
  <2>5. upTo[nstamp] <= snap'.text /\ nstamp <= seq
    <3>1. nstamp \in 0..MaxSeq /\ nstamp <= seq
      BY <2>2 DEF IInv, TypeOK
    <3>2. upTo[nstamp] \in Nat /\ upTo[nkey] \in Nat
      BY <2>2, <2>3, <3>1
    <3>3. QED
      BY <2>2, <2>4, <3>1, <3>2
  <2>6. QED
    BY <2>4, <2>5 DEF AnswerOK
<1>3. CASE Process \/ MintContract \/ PushContract \/ Commit \/ Eof \/ ReadError
           \/ PushStopLine \/ TrimIdle \/ SnapKey \/ SnapFloor \/ Attach \/ Follow
           \/ UNCHANGED vars
  <2>1. UNCHANGED <<snap>>
    BY <1>3 DEF Process, MintContract, PushContract, Commit, Eof, ReadError,
       PushStopLine, TrimIdle, SnapKey, SnapFloor, Attach, Follow, vars, readerVars,
       snapVars, clientVars
  <2>2. QED
    BY <1>1, <2>1 DEF IInv, AnswerOK, TypeOK
<1>4. QED
  BY <1>2, <1>3 DEF Next

\* A client has what its cursor stands for.
LEMMA StepCursor == IInv /\ [Next]_vars => CursorOK'
<1> SUFFICES ASSUME IInv, [Next]_vars PROVE CursorOK'
  OBVIOUS
<1>1. seq \in Nat /\ seq' \in Nat /\ seq <= seq' /\ \A a \in 0..seq : upTo'[a] = upTo[a]
  <2>1. TypeOK /\ TypeOK'
    BY StepType DEF IInv
  <2>2. QED
    BY <2>1, UpToGrows DEF TypeOK
<1>2. CASE Attach
  <2>1. cursor' = seq /\ UNCHANGED <<seq, upTo>> /\ screen = upTo[seq] /\ upTo[newest] = upTo[seq]
    BY <1>2 DEF Attach, IInv, TypeOK, ScreenOK, RingOK, Locked, readerVars
  <2>2. applied' <= upTo[seq] /\ (~short' => applied' = upTo[seq])
    <3>1. oldest - 1 \in 0..MaxSeq /\ upTo[oldest - 1] \in Nat /\ upTo[seq] \in Nat
      BY BoundsAssumption DEF IInv, TypeOK, RingOK
    <3>2. CASE applied' = screen /\ short' = FALSE
      BY <2>1, <3>1, <3>2
    <3>3. CASE applied' \in 0..(upTo[newest] - upTo[oldest - 1]) /\ short' = TRUE
      BY <2>1, <3>1, <3>3
    <3>4. QED
      BY <1>2, <3>2, <3>3 DEF Attach
  <2>3. QED
    BY <1>1, <2>1, <2>2 DEF CursorOK
<1>3. CASE Follow
  <2>1. cursor' = seq /\ UNCHANGED <<seq, upTo>> /\ screen = upTo[seq]
    BY <1>3 DEF Follow, IInv, TypeOK, ScreenOK, Locked, readerVars
  <2>2. applied' <= upTo[seq] /\ (~short' => applied' = upTo[seq])
    <3>1. /\ RingPast(cursor) \in Nat
          /\ upTo[cursor] + RingPast(cursor) <= upTo[seq]
          /\ ~ResyncRequired(cursor) => upTo[cursor] + RingPast(cursor) = upTo[seq]
      BY <1>3, RingPastBounds DEF Follow
    <3>2. /\ applied \in Nat /\ upTo[cursor] \in Nat /\ upTo[seq] \in Nat
          /\ applied <= upTo[cursor] /\ (~short => applied = upTo[cursor])
      BY <1>3 DEF Follow, IInv, TypeOK, CursorOK
    <3>3. CASE ResyncRequired(cursor) /\ ~blank
      BY <1>3, <2>1, <3>2, <3>3 DEF Follow
    <3>4. CASE ~(ResyncRequired(cursor) /\ ~blank)
      <4>1. applied' = applied + RingPast(cursor) /\ short' = (short \/ ResyncRequired(cursor))
        BY <1>3, <3>4 DEF Follow
      <4>2. applied' <= upTo[seq]
        BY <3>1, <3>2, <4>1
      <4>3. ~short' => ~short /\ ~ResyncRequired(cursor)
        BY <4>1, Zenon
      <4>4. QED
        BY <3>1, <3>2, <4>1, <4>2, <4>3
    <3>5. QED
      BY <3>3, <3>4
  <2>3. QED
    BY <1>1, <2>1, <2>2 DEF CursorOK
<1>4. CASE Process \/ MintContract \/ PushContract \/ Commit \/ Eof \/ ReadError
           \/ PushStopLine \/ TrimIdle \/ SnapKey \/ SnapFloor \/ SnapRender
           \/ UNCHANGED vars
  <2>1. UNCHANGED <<cursor, applied, short>>
    BY <1>4 DEF Process, MintContract, PushContract, Commit, Eof, ReadError,
       PushStopLine, TrimIdle, SnapKey, SnapFloor, SnapRender, vars, readerVars,
       snapVars, clientVars
  <2>2. QED
    BY <1>1, <2>1 DEF IInv, CursorOK, TypeOK
<1>5. QED
  BY <1>2, <1>3, <1>4 DEF Next

\* Every step preserves the invariant.
LEMMA StepIInv == IInv /\ [Next]_vars => IInv'
BY StepType, StepRoom, StepMonotone, StepScreen, StepRing, StepSnap, StepMemo,
   StepAnswer, StepCursor DEF IInv

\* The invariant holds in every reachable state.
LEMMA Invariance == Spec => []IInv
BY InitIInv, StepIInv, PTL DEF Spec

\* The ring stays within its limit and every counter within its type.
THEOREM TypeCorrect == Spec => []TypeOK
<1>1. IInv => TypeOK
  BY DEF IInv
<1>2. QED
  BY Invariance, <1>1, PTL

\* screen_snapshot_stamped: the screen a snapshot carries reflects every PTY chunk
\* up to its stamp, whatever the reader did between the key and the rendering.
THEOREM StampIsSafe == Spec => []StampUnderclaims
<1>1. IInv => StampUnderclaims
  BY DEF IInv, AnswerOK, StampUnderclaims
<1>2. QED
  BY Invariance, <1>1, PTL

\* PtySessionRuntime::read: a client that was given the screen and follows has
\* every PTY chunk up to its cursor exactly once, and no client has one twice.
THEOREM FollowingIsExact == Spec => []ClientIsExact
<1>1. IInv => ClientIsExact
  BY DEF IInv, CursorOK, ClientIsExact
<1>2. QED
  BY Invariance, <1>1, PTL
=============================================================================
