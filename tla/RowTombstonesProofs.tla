------------------------ MODULE RowTombstonesProofs ------------------------
(***************************************************************************)
(* Proofs about RowTombstones, for any daemons, rows, time to live and cap.*)
(***************************************************************************)
EXTENDS RowTombstones, FiniteSetTheorems, WellFoundedInduction, TLAPS

USE DEF NotRecorded

-----------------------------------------------------------------------------
(* The operators on the remembered closes.                                 *)

\* The cap holds of a set of remembered closes.
WithinCap(f) == Cardinality(Recorded(f)) <= MaxTombstones

\* An age is an integer between "not recorded" and the time to live.
LEMMA AgeOf ==
    ASSUME NEW f \in Entries, NEW r \in Row
    PROVE  /\ f[r] \in Int
           /\ -1 <= f[r]
           /\ f[r] <= TTL
BY TTLAssumption DEF Entries, Age

\* The remembered closes are a finite set.
LEMMA RecordedFinite ==
    ASSUME NEW f
    PROVE  /\ IsFiniteSet(Recorded(f))
           /\ Cardinality(Recorded(f)) \in Nat
BY RowAssumption, FS_Subset, FS_CardinalityType DEF Recorded

\* Fewer closes keep the cap.
LEMMA FewerWithinCap ==
    ASSUME NEW f, NEW g, WithinCap(f), Recorded(g) \subseteq Recorded(f)
    PROVE  WithinCap(g)
<1>1. Cardinality(Recorded(g)) <= Cardinality(Recorded(f))
  BY RecordedFinite, FS_Subset
<1>2. QED
  BY <1>1, RecordedFinite, CapAssumption DEF WithinCap

\* There is an oldest one among remembered closes.
LEMMA OldestExists ==
    ASSUME NEW f \in Entries, Recorded(f) # {}
    PROVE  \E r \in Recorded(f) : \A q \in Recorded(f) : f[q] <= f[r]
<1> DEFINE T == {n \in Nat : \E r \in Recorded(f) : n = TTL - f[r]}
<1>1. \A r \in Recorded(f) : TTL - f[r] \in T
  BY AgeOf, TTLAssumption DEF Recorded
<1>2. T \subseteq Nat /\ T # {}
  BY <1>1
<1> HIDE DEF T
<1>3. \E n \in T : \A m \in T : ~(<<m, n>> \in OpToRel(<, Nat))
  BY <1>2, NatLessThanWellFounded, WFMin
<1>4. PICK n \in T : \A m \in T : ~(<<m, n>> \in OpToRel(<, Nat))
  BY <1>3
<1>5. \A m \in T : ~(m < n)
  BY <1>4, <1>2 DEF OpToRel
<1>6. PICK r \in Recorded(f) : n = TTL - f[r]
  BY DEF T
<1>7. ASSUME NEW q \in Recorded(f) PROVE f[q] <= f[r]
  <2>1. ~(TTL - f[q] < TTL - f[r])
    BY <1>1, <1>5, <1>6
  <2>2. f[q] \in Int /\ f[r] \in Int
    BY AgeOf DEF Recorded
  <2>3. QED
    BY <2>1, <2>2, TTLAssumption
<1>8. QED
  BY <1>7

\* Eviction forgets at most a close.
LEMMA EvictForgets ==
    ASSUME NEW f \in Entries
    PROVE  /\ EvictOverCap(f) \in Entries
           /\ \A q \in Row : EvictOverCap(f)[q] \in {f[q], NotRecorded}
           /\ Recorded(EvictOverCap(f)) \subseteq Recorded(f)
           /\ WithinCap(f) => EvictOverCap(f) = f
<1>1. -1 \in Age
  BY TTLAssumption DEF Age
<1>2. EvictOverCap(f) \in Entries
  BY <1>1 DEF EvictOverCap, Entries
<1>3. \A q \in Row : EvictOverCap(f)[q] \in {f[q], NotRecorded}
  BY DEF EvictOverCap, Entries
<1>4. Recorded(EvictOverCap(f)) \subseteq Recorded(f)
  BY <1>3 DEF Recorded
<1>5. WithinCap(f) => EvictOverCap(f) = f
  BY DEF EvictOverCap, WithinCap
<1>6. QED
  BY <1>2, <1>3, <1>4, <1>5

\* One eviction is enough for one close too many.
LEMMA EvictRestoresCap ==
    ASSUME NEW f \in Entries, Cardinality(Recorded(f)) <= MaxTombstones + 1
    PROVE  WithinCap(EvictOverCap(f))
<1>1. CASE Cardinality(Recorded(f)) <= MaxTombstones
  BY <1>1 DEF EvictOverCap, WithinCap
<1>2. CASE ~(Cardinality(Recorded(f)) <= MaxTombstones)
  <2> DEFINE o == CHOOSE r \in Recorded(f) : \A q \in Recorded(f) : f[q] <= f[r]
  <2>1. Recorded(f) # {}
    BY <1>2, FS_EmptySet, CapAssumption
  <2>2. o \in Recorded(f)
    BY <2>1, OldestExists
  <2>3. EvictOverCap(f) = [f EXCEPT ![o] = -1]
    BY <1>2 DEF EvictOverCap
  <2> HIDE DEF o
  <2>4. Recorded(EvictOverCap(f)) = Recorded(f) \ {o}
    BY <2>2, <2>3 DEF Recorded, Entries
  <2>5. Cardinality(Recorded(f) \ {o}) = Cardinality(Recorded(f)) - 1
    BY <2>2, RecordedFinite, FS_RemoveElement
  <2>6. QED
    BY <2>4, <2>5, RecordedFinite, CapAssumption DEF WithinCap
<1>3. QED
  BY <1>1, <1>2

\* Lifting closes keeps the others as they are.
LEMMA ClearKeeps ==
    ASSUME NEW f \in Entries, NEW S
    PROVE  /\ Clear(f, S) \in Entries
           /\ \A q \in Row : Clear(f, S)[q] = IF q \in S THEN NotRecorded ELSE f[q]
           /\ Recorded(Clear(f, S)) \subseteq Recorded(f)
<1>1. -1 \in Age
  BY TTLAssumption DEF Age
<1>2. QED
  BY <1>1 DEF Clear, Entries, Recorded

\* A sweep of a set within the cap forgets what expired and nothing else; of any
\* set it revives nothing.
LEMMA GcKeeps ==
    ASSUME NEW f \in Entries
    PROVE  /\ Gc(f) \in Entries
           /\ Recorded(Gc(f)) \subseteq Recorded(f)
           /\ \A q \in Row : Gc(f)[q] \in {f[q], NotRecorded}
           /\ \A q \in Row : WithinCap(f) /\ Blocks(f, q) => Gc(f)[q] = f[q]
<1> DEFINE g == Clear(f, {r \in Row : Expired(f[r])})
<1>1. /\ g \in Entries
      /\ \A q \in Row : g[q] = IF q \in {r \in Row : Expired(f[r])} THEN NotRecorded ELSE f[q]
      /\ Recorded(g) \subseteq Recorded(f)
  BY ClearKeeps
<1>2. Gc(f) = EvictOverCap(g)
  BY DEF Gc
<1> HIDE DEF g
<1>3. /\ EvictOverCap(g) \in Entries
      /\ \A q \in Row : EvictOverCap(g)[q] \in {g[q], NotRecorded}
      /\ Recorded(EvictOverCap(g)) \subseteq Recorded(g)
      /\ WithinCap(g) => EvictOverCap(g) = g
  BY <1>1, EvictForgets
<1>4. WithinCap(f) => WithinCap(g)
  BY <1>1, FewerWithinCap
<1>5. ASSUME NEW q \in Row, WithinCap(f), Blocks(f, q) PROVE Gc(f)[q] = f[q]
  BY <1>1, <1>2, <1>3, <1>4, <1>5 DEF Blocks
<1>6. ASSUME NEW q \in Row PROVE Gc(f)[q] \in {f[q], NotRecorded}
  BY <1>1, <1>2, <1>3
<1>7. QED
  BY <1>1, <1>2, <1>3, <1>5, <1>6

\* Re-arming forgets what expired, and renews or keeps the rest.
LEMMA TouchKeeps ==
    ASSUME NEW f \in Entries, NEW S
    PROVE  /\ Touch(f, S) \in Entries
           /\ Recorded(Touch(f, S)) \subseteq Recorded(f)
           /\ \A q \in Row : Blocks(f, q) <=> Blocks(Touch(f, S), q)
           /\ \A q \in Row \ S : Touch(f, S)[q] = f[q]
           /\ \A q \in S : Blocks(f, q) /\ q \in Row => Touch(f, S)[q] < RenewalAge
<1>1. -1 \in Age /\ 0 \in Age
  BY TTLAssumption DEF Age
<1>2. Touch(f, S) \in Entries
  BY <1>1 DEF Touch, Entries
<1>3. RenewalAge \in Int /\ 0 < RenewalAge /\ RenewalAge < TTL
  BY TTLAssumption DEF RenewalAge
<1>4. ASSUME NEW q \in Row
      PROVE  /\ q \notin S => Touch(f, S)[q] = f[q]
             /\ q \in S /\ f[q] = -1 => Touch(f, S)[q] = -1
             /\ q \in S /\ f[q] # -1 /\ f[q] >= TTL => Touch(f, S)[q] = -1
             /\ q \in S /\ f[q] # -1 /\ f[q] < TTL /\ f[q] >= RenewalAge => Touch(f, S)[q] = 0
             /\ q \in S /\ f[q] # -1 /\ f[q] < TTL /\ f[q] < RenewalAge => Touch(f, S)[q] = f[q]
  BY AgeOf, TTLAssumption, <1>3 DEF Touch, Expired
<1>5. ASSUME NEW q \in Row PROVE Blocks(f, q) <=> Blocks(Touch(f, S), q)
  BY <1>3, <1>4, AgeOf, TTLAssumption DEF Blocks, Expired
<1>6. ASSUME NEW q \in S, q \in Row, Blocks(f, q) PROVE Touch(f, S)[q] < RenewalAge
  BY <1>3, <1>4, <1>6, AgeOf, TTLAssumption DEF Blocks, Expired
<1>7. Recorded(Touch(f, S)) \subseteq Recorded(f)
  BY <1>4, AgeOf, TTLAssumption, <1>3 DEF Recorded
<1>8. QED
  BY <1>2, <1>4, <1>5, <1>6, <1>7

\* Recording a close keeps the cap and the age of every close it does not evict.
LEMMA RecordKeeps ==
    ASSUME NEW f \in Entries, NEW r \in Row
    PROVE  /\ Record(f, r) \in Entries
           /\ \A q \in Row \ {r} : Record(f, r)[q] \in {f[q], NotRecorded}
           /\ f[r] # NotRecorded => Record(f, r) = f
           /\ f[r] = NotRecorded => Record(f, r)[r] \in {0, NotRecorded}
           /\ WithinCap(f) => WithinCap(Record(f, r))
<1> DEFINE g == [f EXCEPT ![r] = 0]
<1>1. g \in Entries
  BY TTLAssumption DEF Entries, Age
<1>2. /\ EvictOverCap(g) \in Entries
      /\ \A q \in Row : EvictOverCap(g)[q] \in {g[q], NotRecorded}
  BY <1>1, EvictForgets
<1>3. Record(f, r) = IF f[r] # NotRecorded THEN f ELSE EvictOverCap(g)
  BY DEF Record
<1>4. g[r] = 0 /\ \A q \in Row \ {r} : g[q] = f[q]
  BY DEF Entries
<1> HIDE DEF g
<1>5. ASSUME WithinCap(f), f[r] = -1 PROVE WithinCap(Record(f, r))
  <2>1. Recorded(g) = Recorded(f) \cup {r} /\ r \notin Recorded(f)
    BY <1>4, <1>5 DEF Recorded
  <2>2. Cardinality(Recorded(f) \cup {r}) = Cardinality(Recorded(f)) + 1
    BY <2>1, RecordedFinite, FS_AddElement
  <2>a. Cardinality(Recorded(f)) \in Nat /\ Cardinality(Recorded(f)) <= MaxTombstones
    BY <1>5, RecordedFinite DEF WithinCap
  <2>b. Cardinality(Recorded(g)) = Cardinality(Recorded(f)) + 1
    BY <2>1, <2>2
  <2>3. Cardinality(Recorded(g)) <= MaxTombstones + 1
    BY <2>a, <2>b, CapAssumption
  <2>4. QED
    BY <1>1, <1>3, <1>5, <2>3, EvictRestoresCap
<1>6. QED
  BY <1>2, <1>3, <1>4, <1>5

\* Blocking is being recorded and not expired; the empty set blocks nothing.
LEMMA EmptyEntries ==
    /\ Empty \in Entries
    /\ Recorded(Empty) = {}
    /\ WithinCap(Empty)
BY TTLAssumption, FS_EmptySet, CapAssumption DEF Empty, Entries, Age, Recorded,
   WithinCap

-----------------------------------------------------------------------------
(* Types.                                                                  *)

\* What a write of the shared file leaves behind is typed.
LEMMA WriteTypes ==
    ASSUME TypeOK, NEW d \in Daemon, NEW f \in Entries, Publish(d, f) \/ Withdraw(d)
    PROVE  /\ file' \in Entries
           /\ holder' \in Daemon \cup {NoDaemon}
           /\ copy' \in [Daemon -> Entries]
           /\ outdated' \in [Daemon -> BOOLEAN]
<1>1. file' \in Entries /\ holder' \in Daemon \cup {NoDaemon} /\ copy' \in [Daemon -> Entries]
  BY EmptyEntries DEF TypeOK, Publish, Withdraw, Release
<1>2. CASE Publish(d, f)
  <2>1. outdated' =
          [e \in Daemon |-> e # d /\ (outdated[e] \/ (pc[e] \in Writing /\ f # file))]
    BY <1>2 DEF Publish
  <2>2. outdated' \in [Daemon -> BOOLEAN]
    BY <2>1, Zenon
  <2>3. QED
    BY <1>1, <2>2
<1>3. CASE Withdraw(d)
  BY <1>1, <1>3 DEF TypeOK, Withdraw
<1>4. QED
  BY <1>2, <1>3

\* So is what a read of it leaves behind, and a current copy is the file.
LEMMA ReadTypes ==
    ASSUME TypeOK, NEW d \in Daemon, ReadShared(d)
    PROVE  /\ holder' \in Daemon \cup {NoDaemon}
           /\ copy' \in [Daemon -> Entries]
           /\ outdated' \in [Daemon -> BOOLEAN]
           /\ \E f \in Readings(file) : copy' = [copy EXCEPT ![d] = f]
           /\ ~outdated'[d] => copy'[d] = file
           /\ \A e \in Daemon : e # d => copy'[e] = copy[e] /\ outdated'[e] = outdated[e]
<1>1. PICK f \in Readings(file) :
         /\ copy' = [copy EXCEPT ![d] = f]
         /\ outdated' = [outdated EXCEPT ![d] = f # file]
  BY DEF ReadShared
<1>2. holder' \in Daemon \cup {NoDaemon}
  BY DEF ReadShared, TypeOK
<1>3. copy' \in [Daemon -> Entries] /\ copy'[d] = f
  BY <1>1, EmptyEntries DEF Readings, TypeOK
<1>4. (f # file) \in BOOLEAN
  BY Zenon
<1>5. outdated' \in [Daemon -> BOOLEAN]
  BY <1>1, <1>4 DEF TypeOK
<1>6. outdated'[d] = (f # file)
  BY <1>1 DEF TypeOK
<1>7. ~outdated'[d] => copy'[d] = file
  BY <1>3, <1>6, Zenon
<1>8. \A e \in Daemon : e # d => copy'[e] = copy[e] /\ outdated'[e] = outdated[e]
  BY <1>1 DEF TypeOK
<1>9. QED
  BY <1>1, <1>2, <1>3, <1>5, <1>7, <1>8

\* What a door was given is typed.
LEMMA ReadingTypes ==
    ASSUME TypeOK, NEW f \in Readings(Load)
    PROVE  f \in Entries /\ Load \in Entries
BY GcKeeps, EmptyEntries DEF Readings, Load, TypeOK

\* Every step of a daemon keeps the types.
LEMMA DaemonStepTypes ==
    ASSUME TypeOK, NEW d \in Daemon, DaemonStep(d)
    PROVE  TypeOK'
<1> USE DEF TypeOK, Steps, Writing, Doors
<1>l. Load \in Entries
  BY GcKeeps DEF Load
<1>c. Reconciled(d) \in Entries
  BY GcKeeps, ClearKeeps DEF Reconciled
<1>t. Touch(copy[d], rows[d]) \in Entries
  BY TouchKeeps
<1>r. \A r \in Row : Record(copy[d], r) \in Entries
  BY RecordKeeps
<1>1. ASSUME NEW r \in Row, Open(d, r) PROVE TypeOK'
  BY <1>1, EmptyEntries DEF Open, Land
<1>2. ASSUME NEW r \in Row, Close(d, r) PROVE TypeOK'
  BY <1>2, ReadTypes DEF Close
<1>3. ASSUME NEW f \in Readings(Load), NEW r \in Row, Sweep(d, r, f) PROVE TypeOK'
  BY <1>3, EmptyEntries DEF Sweep, Asked, Land
<1>4. ASSUME RecordClose(d) PROVE TypeOK'
  <2>1. PICK r \in rows[d] :
           /\ Publish(d, Record(copy[d], r))
           /\ closed' = ((closed \ Overwritten(d)) \cup ({r} \cap Blocked(Record(copy[d], r))))
                           \ Evicted(copy[d], Record(copy[d], r))
           /\ recent' = [e \in Daemon |-> IF Walking(e) THEN recent[e] \cup {r} ELSE recent[e]]
           /\ quiet' = [q \in Row |-> IF q = r /\ copy[d][r] = NotRecorded THEN 0
                                      ELSE IF q \in Overwritten(d) THEN TTL ELSE quiet[q]]
    BY <1>4 DEF RecordClose
  <2>2. r \in Row /\ Record(copy[d], r) \in Entries
    BY <1>r
  <2>3. /\ file' \in Entries
        /\ holder' \in Daemon \cup {NoDaemon}
        /\ copy' \in [Daemon -> Entries]
        /\ outdated' \in [Daemon -> BOOLEAN]
    BY <2>1, <2>2, WriteTypes
  <2>4. closed' \in SUBSET Row /\ recent' \in [Daemon -> SUBSET Row]
    BY <2>1, <2>2
  <2>5. quiet' \in [Row -> 0 .. TTL]
    BY <2>1, <2>2, TTLAssumption
  <2>6. reopened' \in [Daemon -> SUBSET Row] /\ arrived' \in [Daemon -> SUBSET Row]
    <3>1. /\ reopened' = [e \in Daemon |-> reopened[e] \ (rows[d] \cup Overwritten(d))]
          /\ \/ arrived' = [arrived EXCEPT ![d] = arrived[d] \ rows[d]]
             \/ arrived' = [arrived EXCEPT ![d] = arrived[d] \cup rows[d]]
      BY <1>4, Zenon DEF RecordClose, RemoveRow
    <3>2. reopened' \in [Daemon -> SUBSET Row]
      BY <3>1
    <3>3. QED
      BY <3>1, <3>2
  <2>7. live' \in [Daemon -> SUBSET Row] /\ rows' \in [Daemon -> SUBSET Row]
    BY <1>4 DEF RecordClose, RemoveRow
  <2>8. pc' \in [Daemon -> Steps]
    BY <1>4 DEF RecordClose, RemoveRow
  <2>9. UNCHANGED <<state, seen, muted, cache, door, due>>
    BY <1>4 DEF RecordClose, RemoveRow
  <2>10. QED
    BY <2>3, <2>4, <2>5, <2>6, <2>7, <2>8, <2>9
<1>5. ASSUME RecordFails(d) PROVE TypeOK'
  BY <1>5, EmptyEntries DEF RecordFails, Withdraw, Release, RemoveRow
<1>6. ASSUME Persist(d) PROVE TypeOK'
  BY <1>6, ReadTypes DEF Persist, Entered
<1>7. ASSUME PersistMuted(d) PROVE TypeOK'
  BY <1>7, EmptyEntries DEF PersistMuted, mem, hist
<1>8. ASSUME Reconcile(d) PROVE TypeOK'
  <2>1. Publish(d, Reconciled(d)) \/ Withdraw(d)
    BY <1>8 DEF Reconcile, Mutate
  <2>2. /\ file' \in Entries
        /\ holder' \in Daemon \cup {NoDaemon}
        /\ copy' \in [Daemon -> Entries]
        /\ outdated' \in [Daemon -> BOOLEAN]
    BY <2>1, <1>c, WriteTypes
  <2>3. QED
    <3>1. quiet' \in [Row -> 0 .. TTL]
      BY <1>8, TTLAssumption DEF Reconcile
    <3>2. closed' \in SUBSET Row /\ reopened' \in [Daemon -> SUBSET Row]
      BY <1>8 DEF Reconcile
    <3>3. QED
      BY <1>8, <2>2, <3>1, <3>2 DEF Reconcile, WriteState, mem
<1>9. ASSUME ReconcileFails(d) PROVE TypeOK'
  BY <1>9, EmptyEntries DEF ReconcileFails, Withdraw, Release, WriteState, mem
<1>10. ASSUME BootLoad(d) PROVE TypeOK'
  <2>1. cache' \in [Daemon -> Entries]
    BY <1>10, EmptyEntries, <1>l DEF BootLoad, Readings
  <2>2. QED
    BY <1>10, <2>1 DEF BootLoad, mem, hist
<1>11. ASSUME NEW f \in Readings(Load), NEW all \in BOOLEAN, BootRestore(d, all, f) PROVE TypeOK'
  BY <1>11, EmptyEntries DEF BootRestore, Asked
<1>12. ASSUME NEW f \in Readings(Load), NEW P \in SUBSET (Daemon \ {d}), RestorePreserved(d, P, f) PROVE TypeOK'
  BY <1>12, EmptyEntries DEF RestorePreserved, Asked, Land
<1>13. ASSUME NEW P \in SUBSET (Daemon \ {d}), AskPeers(d, P) PROVE TypeOK'
  BY <1>13, EmptyEntries DEF AskPeers, AfterOffer, mem, hist
<1>14. ASSUME WalkBegin(d) PROVE TypeOK'
  <2>1. cache' \in [Daemon -> Entries] /\ recent' \in [Daemon -> SUBSET Row]
    BY <1>14, EmptyEntries, <1>l DEF WalkBegin, Asked, Readings
  <2>2. QED
    BY <1>14, <2>1 DEF WalkBegin, mem
<1>15. ASSUME NothingToTakeOver(d) PROVE TypeOK'
  BY <1>15, EmptyEntries DEF NothingToTakeOver, mem
<1>16. ASSUME NEW p \in Daemon, PreparePeer(d, p) PROVE TypeOK'
  BY <1>16, EmptyEntries DEF PreparePeer, AfterOffer, hist
<1>17. ASSUME Rearm(d) PROVE TypeOK'
  BY <1>17, ReadTypes DEF Rearm, mem
<1>18. ASSUME TouchClose(d) PROVE TypeOK'
  <2>1. Publish(d, Touch(copy[d], rows[d])) \/ Withdraw(d)
    BY <1>18 DEF TouchClose, Mutate
  <2>2. /\ file' \in Entries
        /\ holder' \in Daemon \cup {NoDaemon}
        /\ copy' \in [Daemon -> Entries]
        /\ outdated' \in [Daemon -> BOOLEAN]
    BY <2>1, <1>t, WriteTypes
  <2>3. QED
    BY <1>18, <2>2, TTLAssumption DEF TouchClose, AfterRearm, mem
<1>19. ASSUME TouchFails(d) PROVE TypeOK'
  BY <1>19, EmptyEntries DEF TouchFails, Withdraw, Release, AfterRearm, mem
<1>20. ASSUME NEW R \in SUBSET Row, Import(d, R) PROVE TypeOK'
  BY <1>20, EmptyEntries DEF Import, Land, Adoptable
<1>21. ASSUME Die(d) PROVE TypeOK'
  BY <1>21, EmptyEntries DEF Die, Release
<1>22. ASSUME NEW b \in BOOLEAN, SetMuted(d, b) PROVE TypeOK'
  BY <1>22, EmptyEntries DEF SetMuted, ops, hist
<1>23. QED
  BY <1>1, <1>2, <1>3, <1>4, <1>5, <1>6, <1>7, <1>8, <1>9, <1>10, <1>11, <1>12, <1>13,
     <1>14, <1>15, <1>16, <1>17, <1>18, <1>19, <1>20, <1>21, <1>22 DEF DaemonStep, Door

\* Time keeps the types.
LEMMA TickTypes ==
    ASSUME TypeOK, Tick
    PROVE  TypeOK'
<1>a. file' = [r \in Row |-> IF file[r] \in {NotRecorded, TTL} THEN file[r] ELSE file[r] + 1]
  BY DEF Tick
<1>b. ASSUME NEW r \in Row
      PROVE  (IF file[r] \in {NotRecorded, TTL} THEN file[r] ELSE file[r] + 1) \in Age
  <2>1. file \in Entries
    BY DEF TypeOK
  <2>2. file[r] \in Int /\ -1 <= file[r] /\ file[r] <= TTL
    BY <2>1, AgeOf
  <2>3. CASE file[r] \in {NotRecorded, TTL}
    BY <2>2, <2>3, TTLAssumption DEF Age
  <2>4. CASE file[r] \notin {NotRecorded, TTL}
    BY <2>2, <2>4, TTLAssumption DEF Age
  <2>5. QED
    BY <2>3, <2>4
<1>1. file' \in Entries
  BY <1>a, <1>b DEF Entries
<1>2. quiet' \in [Row -> 0 .. TTL]
  BY TTLAssumption DEF TypeOK, Tick
<1>3. closed' \in SUBSET Row
  BY DEF TypeOK, Tick
<1>4. QED
  BY <1>1, <1>2, <1>3 DEF TypeOK, Tick, mem, ops

\* The initial state is typed.
LEMMA InitTypes == Init => TypeOK
<1>1. Init => quiet \in [Row -> 0 .. TTL]
  BY TTLAssumption DEF Init
<1>2. Init => outdated \in [Daemon -> BOOLEAN] /\ muted \in [Daemon -> BOOLEAN]
              /\ due \in [Daemon -> BOOLEAN]
  BY DEF Init
<1>3. Init => /\ file \in Entries
              /\ copy \in [Daemon -> Entries]
              /\ cache \in [Daemon -> Entries]
  BY EmptyEntries DEF Init
<1>4. Init => pc \in [Daemon -> Steps] /\ door \in [Daemon -> Doors]
  BY DEF Init, Steps, Doors
<1>5. QED
  BY <1>1, <1>2, <1>3, <1>4 DEF Init, TypeOK

\* Every step keeps the types.
LEMMA NextTypes == TypeOK /\ [Next]_vars => TypeOK'
<1>1. ASSUME TypeOK, Next PROVE TypeOK'
  BY <1>1, TickTypes, DaemonStepTypes DEF Next
<1>2. ASSUME TypeOK, UNCHANGED vars PROVE TypeOK'
  BY <1>2 DEF TypeOK, vars, mem, ops, hist
<1>3. QED
  BY <1>1, <1>2

\* TypeOK holds of every behaviour: whichever daemons read, publish over each
\* other, die or walk, the ages stay within the time to live.
THEOREM TypeCorrect == Spec => []TypeOK
BY InitTypes, NextTypes, PTL DEF Spec

-----------------------------------------------------------------------------
(* What a daemon knows of its own rows.                                    *)

Walks == {"adopt", "takeover"}

\* The rows of one daemon: the baseline is part of the live order, a row being
\* closed has left it, and a door is named while its offers are decided on.
LocalInv(d) ==
    /\ seen[d] \subseteq live[d]
    /\ reopened[d] \subseteq live[d]
    /\ pc[d] = "record" => rows[d] \cap seen[d] = {} /\ rows[d] \subseteq live[d]
    /\ pc[d] = "reconcile" => seen[d] = live[d]
    /\ pc[d] \in {"down", "boot"} => live[d] = {}
    /\ door[d] \in Walks => pc[d] \in {"ask", "rearm", "touch", "import"}
    /\ pc[d] \in {"ask", "import"} => door[d] \in Walks
    /\ pc[d] \in {"rearm", "touch"} => door[d] # "none"

\* EnteredIsArrived for one daemon.
EnteredOf(d) ==
    /\ pc[d] = "record" => arrived[d] \ rows[d] = (live[d] \ seen[d]) \ rows[d]
    /\ pc[d] = "reconcile" => arrived[d] = rows[d]
    /\ pc[d] \notin {"record", "reconcile"} => arrived[d] = live[d] \ seen[d]

RowsInv == \A d \in Daemon : LocalInv(d) /\ EnteredOf(d)

\* EnteredIsArrived is what EnteredOf says of every daemon.
LEMMA EnteredOfAll == EnteredIsArrived <=> \A d \in Daemon : EnteredOf(d)
<1>1. ASSUME NEW d \in Daemon
      PROVE  EnteredOf(d) <=>
                (CASE pc[d] = "record"    -> arrived[d] \ rows[d] = Entered(d) \ rows[d]
                   [] pc[d] = "reconcile" -> arrived[d] = rows[d]
                   [] OTHER               -> arrived[d] = Entered(d))
  <2>1. CASE pc[d] = "record"
    BY <2>1 DEF EnteredOf, Entered
  <2>2. CASE pc[d] = "reconcile"
    BY <2>2 DEF EnteredOf, Entered
  <2>3. CASE pc[d] \notin {"record", "reconcile"}
    BY <2>3 DEF EnteredOf, Entered
  <2>4. QED
    BY <2>1, <2>2, <2>3
<1>2. QED
  BY <1>1 DEF EnteredIsArrived

\* A daemon's step changes no other daemon's rows, except that a close, or a write
\* over what was not read, takes rows out of what the user opened anywhere.
LEMMA OthersUntouched ==
    ASSUME TypeOK, NEW d \in Daemon, NEW e \in Daemon, e # d, DaemonStep(d)
    PROVE  /\ pc'[e] = pc[e]
           /\ live'[e] = live[e]
           /\ seen'[e] = seen[e]
           /\ rows'[e] = rows[e]
           /\ door'[e] = door[e]
           /\ cache'[e] = cache[e]
           /\ arrived'[e] = arrived[e]
           /\ reopened'[e] \subseteq reopened[e]
<1> DEFINE Same == /\ pc'[e] = pc[e]
                   /\ live'[e] = live[e]
                   /\ seen'[e] = seen[e]
                   /\ rows'[e] = rows[e]
                   /\ door'[e] = door[e]
                   /\ cache'[e] = cache[e]
                   /\ arrived'[e] = arrived[e]
                   /\ reopened'[e] \subseteq reopened[e]
<1> USE DEF TypeOK
<1>1. ASSUME NEW r \in Row, Open(d, r) PROVE Same
  BY <1>1 DEF Open, Land
<1>2. ASSUME NEW r \in Row, Close(d, r) PROVE Same
  BY <1>2 DEF Close, ReadShared
<1>3. ASSUME NEW f \in Readings(Load), NEW r \in Row, Sweep(d, r, f) PROVE Same
  BY <1>3 DEF Sweep, Asked, Land
<1>4. ASSUME RecordClose(d) PROVE Same
  BY <1>4 DEF RecordClose, Publish, Release, RemoveRow
<1>5. ASSUME RecordFails(d) PROVE Same
  BY <1>5 DEF RecordFails, Withdraw, Release, RemoveRow
<1>6. ASSUME Persist(d) PROVE Same
  BY <1>6 DEF Persist, ReadShared, Entered
<1>7. ASSUME PersistMuted(d) PROVE Same
  BY <1>7 DEF PersistMuted, mem, hist
<1>8. ASSUME Reconcile(d) PROVE Same
  BY <1>8 DEF Reconcile, Mutate, Publish, Withdraw, Release, WriteState, mem
<1>9. ASSUME ReconcileFails(d) PROVE Same
  BY <1>9 DEF ReconcileFails, Withdraw, Release, WriteState, mem
<1>10. ASSUME BootLoad(d) PROVE Same
  BY <1>10 DEF BootLoad, mem, hist
<1>11. ASSUME NEW f \in Readings(Load), NEW all \in BOOLEAN, BootRestore(d, all, f) PROVE Same
  BY <1>11 DEF BootRestore, Asked
<1>12. ASSUME NEW f \in Readings(Load), NEW P \in SUBSET (Daemon \ {d}), RestorePreserved(d, P, f) PROVE Same
  BY <1>12 DEF RestorePreserved, Asked, Land
<1>13. ASSUME NEW P \in SUBSET (Daemon \ {d}), AskPeers(d, P) PROVE Same
  BY <1>13 DEF AskPeers, AfterOffer, mem, hist
<1>14. ASSUME WalkBegin(d) PROVE Same
  BY <1>14 DEF WalkBegin, Asked, Readings, mem, hist
<1>15. ASSUME NothingToTakeOver(d) PROVE Same
  BY <1>15 DEF NothingToTakeOver, mem
<1>16. ASSUME NEW p \in Daemon, PreparePeer(d, p) PROVE Same
  BY <1>16 DEF PreparePeer, AfterOffer, hist
<1>17. ASSUME Rearm(d) PROVE Same
  BY <1>17 DEF Rearm, ReadShared, mem
<1>18. ASSUME TouchClose(d) PROVE Same
  BY <1>18 DEF TouchClose, Mutate, Publish, Withdraw, Release, AfterRearm, mem
<1>19. ASSUME TouchFails(d) PROVE Same
  BY <1>19 DEF TouchFails, Withdraw, Release, AfterRearm, mem
<1>20. ASSUME NEW R \in SUBSET Row, Import(d, R) PROVE Same
  BY <1>20 DEF Import, Land, Adoptable
<1>21. ASSUME Die(d) PROVE Same
  BY <1>21 DEF Die, Release
<1>22. ASSUME NEW b \in BOOLEAN, SetMuted(d, b) PROVE Same
  BY <1>22 DEF SetMuted, ops, hist
<1>23. QED
  BY <1>1, <1>2, <1>3, <1>4, <1>5, <1>6, <1>7, <1>8, <1>9, <1>10, <1>11, <1>12, <1>13,
     <1>14, <1>15, <1>16, <1>17, <1>18, <1>19, <1>20, <1>21, <1>22 DEF DaemonStep, Door

\* A daemon's step keeps what is true of its own rows.
LEMMA OwnRowsKept ==
    ASSUME TypeOK, RowsInv, NEW d \in Daemon, DaemonStep(d)
    PROVE  LocalInv(d)' /\ EnteredOf(d)'
<1> LocalInv(d) /\ EnteredOf(d)
  BY DEF RowsInv
<1> USE DEF TypeOK, LocalInv, EnteredOf, Walks
<1>1. ASSUME NEW r \in Row, Open(d, r) PROVE LocalInv(d)' /\ EnteredOf(d)'
  BY <1>1 DEF Open, Land
<1>2. ASSUME NEW r \in Row, Close(d, r) PROVE LocalInv(d)' /\ EnteredOf(d)'
  BY <1>2 DEF Close, ReadShared
<1>3. ASSUME NEW f \in Readings(Load), NEW r \in Row, Sweep(d, r, f) PROVE LocalInv(d)' /\ EnteredOf(d)'
  BY <1>3 DEF Sweep, Asked, Land
<1>4. ASSUME RecordClose(d) PROVE LocalInv(d)' /\ EnteredOf(d)'
  BY <1>4 DEF RecordClose, Publish, Release, RemoveRow
<1>5. ASSUME RecordFails(d) PROVE LocalInv(d)' /\ EnteredOf(d)'
  BY <1>5 DEF RecordFails, Withdraw, Release, RemoveRow
<1>6. ASSUME Persist(d) PROVE LocalInv(d)' /\ EnteredOf(d)'
  BY <1>6 DEF Persist, ReadShared, Entered
<1>7. ASSUME PersistMuted(d) PROVE LocalInv(d)' /\ EnteredOf(d)'
  BY <1>7 DEF PersistMuted, mem, hist
<1>8. ASSUME Reconcile(d) PROVE LocalInv(d)' /\ EnteredOf(d)'
  BY <1>8 DEF Reconcile, Mutate, Publish, Withdraw, Release, WriteState, mem
<1>9. ASSUME ReconcileFails(d) PROVE LocalInv(d)' /\ EnteredOf(d)'
  BY <1>9 DEF ReconcileFails, Withdraw, Release, WriteState, mem
<1>10. ASSUME BootLoad(d) PROVE LocalInv(d)' /\ EnteredOf(d)'
  BY <1>10 DEF BootLoad, mem, hist
<1>11. ASSUME NEW f \in Readings(Load), NEW all \in BOOLEAN, BootRestore(d, all, f) PROVE LocalInv(d)' /\ EnteredOf(d)'
  BY <1>11 DEF BootRestore, Asked
<1>12. ASSUME NEW f \in Readings(Load), NEW P \in SUBSET (Daemon \ {d}), RestorePreserved(d, P, f)
       PROVE  LocalInv(d)' /\ EnteredOf(d)'
  BY <1>12 DEF RestorePreserved, Asked, Land
<1>13. ASSUME NEW P \in SUBSET (Daemon \ {d}), AskPeers(d, P) PROVE LocalInv(d)' /\ EnteredOf(d)'
  BY <1>13 DEF AskPeers, AfterOffer, mem, hist
<1>14. ASSUME WalkBegin(d) PROVE LocalInv(d)' /\ EnteredOf(d)'
  BY <1>14 DEF WalkBegin, Asked, Readings, mem, hist
<1>15. ASSUME NothingToTakeOver(d) PROVE LocalInv(d)' /\ EnteredOf(d)'
  BY <1>15 DEF NothingToTakeOver, mem
<1>16. ASSUME NEW p \in Daemon, PreparePeer(d, p) PROVE LocalInv(d)' /\ EnteredOf(d)'
  BY <1>16 DEF PreparePeer, AfterOffer, hist
<1>17. ASSUME Rearm(d) PROVE LocalInv(d)' /\ EnteredOf(d)'
  BY <1>17 DEF Rearm, ReadShared, mem
<1>18. ASSUME TouchClose(d) PROVE LocalInv(d)' /\ EnteredOf(d)'
  BY <1>18 DEF TouchClose, AfterRearm, mem, Doors
<1>19. ASSUME TouchFails(d) PROVE LocalInv(d)' /\ EnteredOf(d)'
  BY <1>19 DEF TouchFails, AfterRearm, mem, Doors
<1>20. ASSUME NEW R \in SUBSET Row, Import(d, R) PROVE LocalInv(d)' /\ EnteredOf(d)'
  BY <1>20 DEF Import, Land, Adoptable
<1>21. ASSUME Die(d) PROVE LocalInv(d)' /\ EnteredOf(d)'
  BY <1>21 DEF Die, Release
<1>22. ASSUME NEW b \in BOOLEAN, SetMuted(d, b) PROVE LocalInv(d)' /\ EnteredOf(d)'
  BY <1>22 DEF SetMuted, ops, hist
<1>23. QED
  BY <1>1, <1>2, <1>3, <1>4, <1>5, <1>6, <1>7, <1>8, <1>9, <1>10, <1>11, <1>12, <1>13,
     <1>14, <1>15, <1>16, <1>17, <1>18, <1>19, <1>20, <1>21, <1>22 DEF DaemonStep, Door

\* The rows' invariant is kept by every step.
LEMMA RowsInvKept ==
    ASSUME TypeOK, RowsInv, [Next]_vars
    PROVE  RowsInv'
<1>1. ASSUME NEW d \in Daemon, DaemonStep(d) PROVE RowsInv'
  <2>1. LocalInv(d)' /\ EnteredOf(d)'
    BY <1>1, OwnRowsKept
  <2>2. ASSUME NEW e \in Daemon, e # d PROVE LocalInv(e)' /\ EnteredOf(e)'
    <3>1. /\ pc'[e] = pc[e]
          /\ live'[e] = live[e]
          /\ seen'[e] = seen[e]
          /\ rows'[e] = rows[e]
          /\ door'[e] = door[e]
          /\ arrived'[e] = arrived[e]
          /\ reopened'[e] \subseteq reopened[e]
      BY <1>1, <2>2, OthersUntouched
    <3>2. QED
      BY <3>1 DEF RowsInv, LocalInv, EnteredOf
  <2>3. QED
    BY <2>1, <2>2 DEF RowsInv
<1>2. ASSUME Tick \/ UNCHANGED vars PROVE RowsInv'
  BY <1>2 DEF RowsInv, LocalInv, EnteredOf, Tick, vars, mem, ops, hist
<1>3. QED
  BY <1>1, <1>2 DEF Next

\* A persist reports as entered exactly what arrived since the last one, for any
\* number of daemons and rows.
THEOREM EnteredRowsArrived == Spec => []EnteredIsArrived
<1>1. Init => RowsInv
  BY DEF Init, RowsInv, LocalInv, EnteredOf, Walks
<1>2. TypeOK /\ RowsInv /\ [Next]_vars => RowsInv'
  BY RowsInvKept
<1>3. RowsInv => EnteredIsArrived
  BY EnteredOfAll DEF RowsInv
<1>4. QED
  BY <1>1, <1>2, <1>3, TypeCorrect, PTL DEF Spec

-----------------------------------------------------------------------------
(* The shared file.                                                        *)

\* A copy that no other write has outdated is the file.
CopyInv == \A d \in Daemon : pc[d] \in Writing /\ ~outdated[d] => copy[d] = file

\* A step that publishes nothing: what it may change of the rows and the walks.
QuietStep(d) ==
    /\ file' = file
    /\ quiet' = quiet
    /\ closed' \subseteq closed
    /\ copy'[d] \in {copy[d], file, Empty}
    /\ \A e \in Daemon : e # d => copy'[e] = copy[e] /\ recent'[e] = recent[e]
    /\ reopened'[d] \cap (seen'[d] \ arrived'[d])
          \subseteq reopened[d] \cap (seen[d] \ arrived[d])
    /\ pc'[d] = "reconcile" =>
          copy'[d] = file \/ reopened'[d] \subseteq reopened[d] \cap (seen[d] \ arrived[d])
    /\ door'[d] \in Walks =>
          \/ cache'[d] = Load
          \/ closed \subseteq recent'[d]
          \/ cache'[d] = cache[d] /\ recent'[d] = recent[d] /\ door[d] \in Walks

\* Three actions publish; every other one is quiet.
LEMMA StepsAreQuiet ==
    ASSUME TypeOK, RowsInv, NEW d \in Daemon, DaemonStep(d)
    PROVE  RecordClose(d) \/ Reconcile(d) \/ TouchClose(d) \/ QuietStep(d)
<1> LocalInv(d) /\ EnteredOf(d)
  BY DEF RowsInv
<1> USE DEF TypeOK, LocalInv, EnteredOf, Walks, QuietStep
<1>r. ReadShared(d) => copy'[d] \in {file, Empty}
  BY DEF ReadShared, Readings
<1>1. ASSUME NEW r \in Row, Open(d, r) PROVE QuietStep(d)
  BY <1>1 DEF Open, Land
<1>2. ASSUME NEW r \in Row, Close(d, r) PROVE QuietStep(d)
  BY <1>2, ReadTypes, <1>r DEF Close
<1>3. ASSUME NEW f \in Readings(Load), NEW r \in Row, Sweep(d, r, f) PROVE QuietStep(d)
  BY <1>3 DEF Sweep, Asked, Land
<1>4. ASSUME RecordFails(d) PROVE QuietStep(d)
  BY <1>4 DEF RecordFails, Withdraw, Release, RemoveRow
<1>5. ASSUME Persist(d) PROVE QuietStep(d)
  BY <1>5, ReadTypes, <1>r DEF Persist, Entered
<1>6. ASSUME PersistMuted(d) PROVE QuietStep(d)
  BY <1>6 DEF PersistMuted, mem, hist
<1>7. ASSUME ReconcileFails(d) PROVE QuietStep(d)
  BY <1>7 DEF ReconcileFails, Withdraw, Release, WriteState, mem
<1>8. ASSUME BootLoad(d) PROVE QuietStep(d)
  BY <1>8 DEF BootLoad, mem, hist
<1>9. ASSUME NEW f \in Readings(Load), NEW all \in BOOLEAN, BootRestore(d, all, f) PROVE QuietStep(d)
  BY <1>9 DEF BootRestore, Asked
<1>10. ASSUME NEW f \in Readings(Load), NEW P \in SUBSET (Daemon \ {d}), RestorePreserved(d, P, f) PROVE QuietStep(d)
  BY <1>10 DEF RestorePreserved, Asked, Land
<1>11. ASSUME NEW P \in SUBSET (Daemon \ {d}), AskPeers(d, P) PROVE QuietStep(d)
  BY <1>11 DEF AskPeers, AfterOffer, mem, hist
<1>12. ASSUME WalkBegin(d) PROVE QuietStep(d)
  BY <1>12 DEF WalkBegin, Asked, Readings, mem, hist
<1>13. ASSUME NothingToTakeOver(d) PROVE QuietStep(d)
  BY <1>13 DEF NothingToTakeOver, mem
<1>14. ASSUME NEW p \in Daemon, PreparePeer(d, p) PROVE QuietStep(d)
  BY <1>14 DEF PreparePeer, AfterOffer, hist
<1>15. ASSUME Rearm(d) PROVE QuietStep(d)
  BY <1>15, ReadTypes, <1>r DEF Rearm, mem
<1>16. ASSUME TouchFails(d) PROVE QuietStep(d)
  BY <1>16 DEF TouchFails, Withdraw, Release, AfterRearm, mem
<1>17. ASSUME NEW R \in SUBSET Row, Import(d, R) PROVE QuietStep(d)
  BY <1>17 DEF Import, Land, Adoptable
<1>18. ASSUME Die(d) PROVE QuietStep(d)
  BY <1>18 DEF Die, Release
<1>19. ASSUME NEW b \in BOOLEAN, SetMuted(d, b) PROVE QuietStep(d)
  BY <1>19 DEF SetMuted, ops, hist
<1>20. QED
  BY <1>1, <1>2, <1>3, <1>4, <1>5, <1>6, <1>7, <1>8, <1>9, <1>10, <1>11, <1>12, <1>13,
     <1>14, <1>15, <1>16, <1>17, <1>18, <1>19 DEF DaemonStep, Door

\* A write from a current copy leaves what it computed in the file, mutate_shared
\* too when it has nothing to save.
LEMMA CurrentWrite ==
    ASSUME TypeOK, CopyInv, NEW d \in Daemon, NEW f, pc[d] \in Writing, ~outdated[d],
           Publish(d, f) \/ Mutate(d, f)
    PROVE  copy[d] = file /\ file' = f /\ Overwritten(d) = {}
BY DEF CopyInv, Publish, Mutate, Withdraw, Overwritten

\* The current copies are kept: a write of one daemon outdates the copies of all
\* the others that are writing.
LEMMA CopyInvKept ==
    ASSUME TypeOK, CopyInv, [Next]_vars
    PROVE  CopyInv'
<1>1. ASSUME NEW d \in Daemon, DaemonStep(d) PROVE CopyInv'
  <2> DEFINE Done == /\ pc'[d] \notin Writing
                     /\ \A e \in Daemon : e # d =>
                           /\ copy'[e] = copy[e]
                           /\ pc'[e] = pc[e]
                           /\ pc[e] \in Writing /\ ~outdated'[e] => ~outdated[e] /\ file' = file
             Reads == /\ ~outdated'[d] => copy'[d] = file
                      /\ file' = file
                      /\ \A e \in Daemon : e # d =>
                           /\ copy'[e] = copy[e]
                           /\ pc'[e] = pc[e]
                           /\ outdated'[e] = outdated[e]
  <2>a. Done => CopyInv'
    BY DEF CopyInv
  <2>b. Reads => CopyInv'
    BY DEF CopyInv
  <2>p. ASSUME NEW f, Publish(d, f), NEW e \in Daemon, e # d
        PROVE  /\ copy'[e] = copy[e]
               /\ pc[e] \in Writing /\ ~outdated'[e] => ~outdated[e] /\ file' = file
    <3>1. outdated'[e] = (e # d /\ (outdated[e] \/ (pc[e] \in Writing /\ f # file)))
      BY <2>p DEF Publish
    <3>2. pc[e] \in Writing /\ ~outdated'[e] => ~outdated[e] /\ f = file
      BY <2>p, <3>1, Zenon
    <3>3. QED
      BY <2>p, <3>2 DEF TypeOK, Publish
  <2>w. ASSUME Withdraw(d), NEW e \in Daemon, e # d
        PROVE  copy'[e] = copy[e] /\ outdated'[e] = outdated[e] /\ file' = file
    BY <2>w DEF TypeOK, Withdraw
  <2> HIDE DEF Done, Reads
  <2>1. ASSUME NEW r \in Row, Open(d, r) PROVE CopyInv'
    BY <2>1, <2>a DEF TypeOK, Writing, Done, Open, Land
  <2>2. ASSUME NEW r \in Row, Close(d, r) PROVE CopyInv'
    BY <2>2, <2>b, ReadTypes DEF TypeOK, Reads, Close
  <2>3. ASSUME NEW f \in Readings(Load), NEW r \in Row, Sweep(d, r, f) PROVE CopyInv'
    BY <2>3, <2>a DEF TypeOK, Writing, Done, Sweep, Asked, Land
  <2>4. ASSUME RecordClose(d) PROVE CopyInv'
    BY <2>4, <2>a, <2>p, <2>w DEF TypeOK, Writing, Done, RecordClose, RemoveRow
  <2>5. ASSUME RecordFails(d) PROVE CopyInv'
    BY <2>5, <2>a, <2>p, <2>w DEF TypeOK, Writing, Done, RecordFails, RemoveRow
  <2>6. ASSUME Persist(d) PROVE CopyInv'
    BY <2>6, <2>b, ReadTypes DEF TypeOK, Reads, Persist
  <2>7. ASSUME PersistMuted(d) PROVE CopyInv'
    BY <2>7, <2>a DEF TypeOK, Writing, Done, PersistMuted, mem, hist
  <2>8. ASSUME Reconcile(d) PROVE CopyInv'
    BY <2>8, <2>a, <2>p, <2>w DEF TypeOK, Writing, Done, Reconcile, WriteState, Mutate
  <2>9. ASSUME ReconcileFails(d) PROVE CopyInv'
    BY <2>9, <2>a, <2>p, <2>w DEF TypeOK, Writing, Done, ReconcileFails, WriteState
  <2>10. ASSUME BootLoad(d) PROVE CopyInv'
    BY <2>10, <2>a DEF TypeOK, Writing, Done, BootLoad, mem, hist
  <2>11. ASSUME NEW f \in Readings(Load), NEW all \in BOOLEAN, BootRestore(d, all, f) PROVE CopyInv'
    BY <2>11, <2>a DEF TypeOK, Writing, Done, BootRestore, Asked
  <2>12. ASSUME NEW f \in Readings(Load), NEW P \in SUBSET (Daemon \ {d}), RestorePreserved(d, P, f) PROVE CopyInv'
    BY <2>12, <2>a DEF TypeOK, Writing, Done, RestorePreserved, Asked, Land
  <2>13. ASSUME NEW P \in SUBSET (Daemon \ {d}), AskPeers(d, P) PROVE CopyInv'
    BY <2>13, <2>a DEF TypeOK, Writing, Done, AskPeers, AfterOffer, mem, hist
  <2>14. ASSUME WalkBegin(d) PROVE CopyInv'
    BY <2>14, <2>a DEF TypeOK, Writing, Done, WalkBegin, Asked, Readings, mem, hist
  <2>15. ASSUME NothingToTakeOver(d) PROVE CopyInv'
    BY <2>15, <2>a DEF TypeOK, Writing, Done, NothingToTakeOver, mem
  <2>16. ASSUME NEW p \in Daemon, PreparePeer(d, p) PROVE CopyInv'
    BY <2>16, <2>a DEF TypeOK, Writing, Done, PreparePeer, AfterOffer, hist
  <2>17. ASSUME Rearm(d) PROVE CopyInv'
    BY <2>17, <2>b, ReadTypes DEF TypeOK, Reads, Rearm, mem
  <2>18. ASSUME TouchClose(d) PROVE CopyInv'
    BY <2>18, <2>a, <2>p, <2>w DEF TypeOK, Writing, Done, TouchClose, AfterRearm, Mutate
  <2>19. ASSUME TouchFails(d) PROVE CopyInv'
    BY <2>19, <2>a, <2>p, <2>w DEF TypeOK, Writing, Done, TouchFails, AfterRearm
  <2>20. ASSUME NEW R \in SUBSET Row, Import(d, R) PROVE CopyInv'
    BY <2>20, <2>a DEF TypeOK, Writing, Done, Import, Land, Adoptable
  <2>21. ASSUME Die(d) PROVE CopyInv'
    BY <2>21, <2>a DEF TypeOK, Writing, Done, Die, Release
  <2>22. ASSUME NEW b \in BOOLEAN, SetMuted(d, b) PROVE CopyInv'
    BY <2>22, <2>a DEF TypeOK, Writing, Done, SetMuted, ops, hist
  <2>23. QED
    BY <1>1, <2>1, <2>2, <2>3, <2>4, <2>5, <2>6, <2>7, <2>8, <2>9, <2>10, <2>11, <2>12,
       <2>13, <2>14, <2>15, <2>16, <2>17, <2>18, <2>19, <2>20, <2>21,
       <2>22 DEF DaemonStep, Door
<1>2. ASSUME Tick PROVE CopyInv'
  BY <1>2 DEF CopyInv, Tick, ops, Writing
<1>3. ASSUME UNCHANGED vars PROVE CopyInv'
  BY <1>3 DEF CopyInv, vars, ops, hist
<1>4. QED
  BY <1>1, <1>2, <1>3 DEF Next

\* What holds of the shared file: it and every copy of it are within the cap, it
\* blocks every standing close, no blocking close is older than the half-life unless
\* it was left alone, no row the user opened and the daemon has persisted is blocked
\* (nor will be by what a reconcile under way read), and a walk's set knows every
\* standing close but the ones the walk has not read.
FileInv ==
    /\ WithinCap(file)
    /\ \A d \in Daemon : WithinCap(copy[d])
    /\ closed \subseteq Blocked(file)
    /\ \A r \in Blocked(file) : file[r] < RenewalAge + quiet[r]
    /\ \A d \in Daemon : reopened[d] \cap (seen[d] \ arrived[d]) \cap Blocked(file) = {}
    /\ \A d \in Daemon : pc[d] = "reconcile" => reopened[d] \cap Blocked(file) \subseteq Recorded(copy[d])
    /\ \A d \in Daemon : door[d] \in Walks => closed \subseteq Recorded(cache[d]) \cup recent[d]

IInv == TypeOK /\ RowsInv /\ CopyInv /\ FileInv

\* A load of a file within the cap knows every close that blocks.
LEMMA LoadKnows ==
    ASSUME TypeOK, WithinCap(file)
    PROVE  Blocked(file) \subseteq Blocked(Load)
<1>1. ASSUME NEW q \in Row, Blocks(file, q) PROVE Blocks(Load, q)
  <2>1. Gc(file)[q] = file[q]
    BY <1>1, GcKeeps DEF TypeOK
  <2>2. QED
    BY <1>1, <2>1 DEF Blocks, Load
<1>2. QED
  BY <1>1 DEF Blocked

\* A quiet step keeps the file's invariant.
LEMMA QuietKeepsFile ==
    ASSUME TypeOK, RowsInv, FileInv, NEW d \in Daemon, DaemonStep(d), QuietStep(d)
    PROVE  FileInv'
<1>1. \A e \in Daemon : e # d => /\ pc'[e] = pc[e]
                                 /\ seen'[e] = seen[e]
                                 /\ door'[e] = door[e]
                                 /\ cache'[e] = cache[e]
                                 /\ arrived'[e] = arrived[e]
                                 /\ reopened'[e] \subseteq reopened[e]
  BY OthersUntouched
<1>2. /\ WithinCap(file)' /\ Blocked(file') = Blocked(file)
      /\ \A e \in Daemon : WithinCap(copy'[e])
  BY EmptyEntries DEF QuietStep, FileInv, WithinCap
<1>3. closed' \subseteq Blocked(file')
  BY <1>2 DEF QuietStep, FileInv
<1>4. \A r \in Blocked(file') : file'[r] < RenewalAge + quiet'[r]
  BY <1>2 DEF QuietStep, FileInv
<1>5. ASSUME NEW e \in Daemon
      PROVE  reopened'[e] \cap (seen'[e] \ arrived'[e]) \cap Blocked(file') = {}
  BY <1>1, <1>2 DEF QuietStep, FileInv
<1>6. ASSUME NEW e \in Daemon, pc'[e] = "reconcile"
      PROVE  reopened'[e] \cap Blocked(file') \subseteq Recorded(copy'[e])
  <2>1. CASE e = d
    BY <1>2, <1>6, <2>1 DEF QuietStep, FileInv, Blocked, Recorded, Blocks
  <2>2. CASE e # d
    BY <1>1, <1>2, <1>6, <2>2 DEF QuietStep, FileInv
  <2>3. QED
    BY <2>1, <2>2
<1>7. ASSUME NEW e \in Daemon, door'[e] \in Walks
      PROVE  closed' \subseteq Recorded(cache'[e]) \cup recent'[e]
  <2>1. CASE e = d
    <3>1. Blocked(Load) \subseteq Recorded(Load)
      BY DEF Blocked, Recorded, Blocks
    <3>2. closed \subseteq Recorded(Load)
      BY <3>1, LoadKnows DEF FileInv
    <3>3. QED
      BY <1>7, <2>1, <3>2 DEF QuietStep, FileInv
  <2>2. CASE e # d
    BY <1>1, <1>7, <2>2 DEF QuietStep, FileInv
  <2>3. QED
    BY <2>1, <2>2
<1>8. QED
  BY <1>2, <1>3, <1>4, <1>5, <1>6, <1>7 DEF FileInv, WithinCap

\* RenewalAge is a positive number.
LEMMA RenewalPositive == RenewalAge \in Nat /\ 0 < RenewalAge
BY TTLAssumption DEF RenewalAge

\* A write of d from an outdated copy, row by row: what it changed is overwritten and
\* no longer spoken for, the rest is as it was.  X is the row whose close is being
\* recorded, if any.
StaleWrite(d, X) ==
    /\ file' \in Entries
    /\ WithinCap(file')
    /\ \A e \in Daemon : WithinCap(copy'[e])
    /\ closed' \subseteq (closed \ Overwritten(d)) \cup (X \cap Blocked(file'))
    /\ \A q \in Row : \/ quiet'[q] = 0 /\ file'[q] < 1
                      \/ quiet'[q] = TTL
                      \/ quiet'[q] = quiet[q] /\ q \notin Overwritten(d)
    /\ \A e \in Daemon : reopened'[e] \subseteq reopened[e] \ Overwritten(d)
    /\ \A e \in Daemon, q \in Blocked(file') :
          q \in reopened'[e] /\ q \in seen'[e] \ arrived'[e] => q \in seen[e] \ arrived[e]
    /\ \A e \in Daemon : pc'[e] = "reconcile" => pc[e] = "reconcile" /\ copy'[e] = copy[e]
    /\ \A e \in Daemon : door'[e] \in Walks => /\ door[e] \in Walks
                                                /\ cache'[e] = cache[e]
                                                /\ recent[e] \cup X \subseteq recent'[e]

\* Such a write keeps the file's invariant too.
LEMMA StaleKeepsFile ==
    ASSUME TypeOK, FileInv, NEW d \in Daemon, outdated[d], NEW X, StaleWrite(d, X)
    PROVE  FileInv'
<1> USE DEF StaleWrite
<1>1. \A q \in Row \ Overwritten(d) : file'[q] = file[q] /\ (Blocks(file', q) <=> Blocks(file, q))
  BY DEF Overwritten, Blocks
<1>2. closed' \subseteq Blocked(file')
  BY <1>1 DEF FileInv, TypeOK, Blocked
<1>3. ASSUME NEW q \in Blocked(file') PROVE file'[q] < RenewalAge + quiet'[q]
  <2>1. /\ q \in Row /\ file'[q] \in Int /\ file'[q] < TTL
        /\ RenewalAge \in Nat /\ 0 < RenewalAge
    BY AgeOf, RenewalPositive, TTLAssumption DEF Blocked, Blocks, Expired
  <2>2. CASE quiet'[q] = 0 /\ file'[q] < 1
    BY <2>1, <2>2
  <2>3. CASE quiet'[q] = TTL
    BY <2>1, <2>3, TTLAssumption
  <2>4. CASE quiet'[q] = quiet[q] /\ q \notin Overwritten(d)
    BY <1>1, <1>3, <2>1, <2>4 DEF FileInv, Blocked
  <2>5. QED
    BY <2>1, <2>2, <2>3, <2>4
<1>4. ASSUME NEW e \in Daemon
      PROVE  reopened'[e] \cap (seen'[e] \ arrived'[e]) \cap Blocked(file') = {}
  BY <1>1 DEF FileInv, Blocked
<1>5. ASSUME NEW e \in Daemon, pc'[e] = "reconcile"
      PROVE  reopened'[e] \cap Blocked(file') \subseteq Recorded(copy'[e])
  BY <1>1, <1>5 DEF FileInv, Blocked
<1>6. ASSUME NEW e \in Daemon, door'[e] \in Walks
      PROVE  closed' \subseteq Recorded(cache'[e]) \cup recent'[e]
  BY <1>6 DEF FileInv
<1>7. QED
  BY <1>2, <1>3, <1>4, <1>5, <1>6 DEF FileInv, WithinCap

\* Recording a close from a current copy keeps the file's invariant.
LEMMA RecordCurrent ==
    ASSUME TypeOK, RowsInv, CopyInv, FileInv, NEW d \in Daemon, RecordClose(d), ~outdated[d]
    PROVE  FileInv'
<1>1. pc[d] = "record" /\ pc'[d] \in {"persist", "idle"}
  BY DEF RecordClose, RemoveRow, TypeOK
<1>2. PICK r \in rows[d] :
         /\ Publish(d, Record(copy[d], r))
         /\ closed' = ((closed \ Overwritten(d)) \cup ({r} \cap Blocked(Record(copy[d], r))))
                         \ Evicted(copy[d], Record(copy[d], r))
         /\ recent' = [e \in Daemon |-> IF Walking(e) THEN recent[e] \cup {r} ELSE recent[e]]
         /\ quiet' = [q \in Row |-> IF q = r /\ copy[d][r] = NotRecorded THEN 0
                                    ELSE IF q \in Overwritten(d) THEN TTL ELSE quiet[q]]
  BY DEF RecordClose
<1>3. copy[d] = file /\ file' = Record(file, r) /\ r \in Row /\ Overwritten(d) = {}
  <2>1. copy[d] = file /\ file' = Record(copy[d], r) /\ Overwritten(d) = {}
    BY <1>1, <1>2, CurrentWrite DEF Writing
  <2>2. QED
    BY <2>1 DEF TypeOK
<1>4. /\ file \in Entries
      /\ \A q \in Row \ {r} : file'[q] \in {file[q], NotRecorded}
      /\ file[r] # NotRecorded => file' = file
      /\ file[r] = NotRecorded => file'[r] \in {0, NotRecorded}
      /\ WithinCap(file)'
  BY <1>3, RecordKeeps DEF FileInv, TypeOK, WithinCap
<1>5. /\ Blocked(file') \subseteq Blocked(file) \cup {r}
      /\ \A q \in Blocked(file') \ {r} : file'[q] = file[q]
  BY <1>4 DEF Blocked, Blocks
<1>6. \A e \in Daemon :
         /\ reopened'[e] = reopened[e] \ rows[d]
         /\ seen'[e] = seen[e]
         /\ door'[e] = door[e]
         /\ cache'[e] = cache[e]
         /\ e # d => pc'[e] = pc[e] /\ arrived'[e] = arrived[e] /\ copy'[e] = copy[e]
         /\ e = d => copy'[e] = Empty
         /\ e = d => arrived'[e] \in {arrived[e] \ rows[d], arrived[e] \cup rows[d]}
  BY <1>2, <1>3 DEF RecordClose, RemoveRow, TypeOK, Publish
<1>7. closed' \subseteq Blocked(file')
  <2>1. ASSUME NEW q \in closed', q # r PROVE q \in Blocked(file')
    <3>1. q \in closed /\ q \in Recorded(file) /\ file'[q] # NotRecorded
      BY <1>2, <1>3, <2>1 DEF FileInv, Blocked, Blocks, Recorded, Evicted
    <3>2. QED
      BY <1>4, <2>1, <3>1 DEF FileInv, Blocked, Blocks, TypeOK
  <2>2. ASSUME r \in closed' PROVE r \in Blocked(file')
    <3>1. r \in closed \/ r \in Blocked(file')
      BY <1>2, <1>3, <2>2
    <3>2. r \in closed => file' = file
      BY <1>4 DEF FileInv, Blocked, Blocks
    <3>3. QED
      BY <3>1, <3>2 DEF FileInv
  <2>3. QED
    BY <2>1, <2>2
<1>8. ASSUME NEW q \in Blocked(file') PROVE file'[q] < RenewalAge + quiet'[q]
  <2>1. CASE q # r
    <3>1. quiet'[q] = quiet[q] /\ file'[q] = file[q] /\ q \in Blocked(file)
      BY <1>2, <1>3, <1>5, <1>8, <2>1 DEF TypeOK, Blocked
    <3>2. QED
      BY <3>1 DEF FileInv
  <2>2. CASE q = r /\ file[r] # NotRecorded
    <3>1. quiet'[q] = quiet[q] /\ file' = file
      BY <1>2, <1>3, <1>4, <1>8, <2>2 DEF TypeOK, Blocked
    <3>2. QED
      BY <1>8, <3>1 DEF FileInv
  <2>3. CASE q = r /\ file[r] = NotRecorded
    <3>1. quiet'[q] = 0 /\ file'[q] = 0
      BY <1>2, <1>3, <1>4, <1>8, <2>3 DEF TypeOK, Blocked, Blocks
    <3>2. QED
      BY <3>1, RenewalPositive
  <2>4. QED
    BY <2>1, <2>2, <2>3
<1>9. ASSUME NEW e \in Daemon
      PROVE  reopened'[e] \cap (seen'[e] \ arrived'[e]) \cap Blocked(file') = {}
  <2>1. seen'[e] \ arrived'[e] \subseteq seen[e] \ arrived[e]
    BY <1>1, <1>6 DEF RowsInv, LocalInv
  <2>2. QED
    BY <1>5, <1>6, <2>1 DEF FileInv
<1>10. ASSUME NEW e \in Daemon, pc'[e] = "reconcile"
       PROVE  reopened'[e] \cap Blocked(file') \subseteq Recorded(copy'[e])
  BY <1>1, <1>5, <1>6, <1>10 DEF FileInv
<1>11. ASSUME NEW e \in Daemon, door'[e] \in Walks
       PROVE  closed' \subseteq Recorded(cache'[e]) \cup recent'[e]
  <2>1. recent'[e] = recent[e] \cup {r}
    BY <1>2, <1>6, <1>11 DEF Walking, Walks
  <2>2. closed' \subseteq closed \cup {r}
    BY <1>2
  <2>3. QED
    BY <1>6, <1>11, <2>1, <2>2 DEF FileInv
<1>12. \A e \in Daemon : WithinCap(copy'[e])
  BY <1>6, EmptyEntries DEF FileInv
<1>13. QED
  BY <1>4, <1>7, <1>8, <1>9, <1>10, <1>11, <1>12 DEF FileInv, WithinCap

\* Recording a close keeps the file's invariant, whatever was read before.
LEMMA RecordCloseKeepsFile ==
    ASSUME TypeOK, RowsInv, CopyInv, FileInv, NEW d \in Daemon, RecordClose(d)
    PROVE  FileInv'
<1>1. pc[d] = "record" /\ pc'[d] \in {"persist", "idle"} /\ rows[d] \cap seen[d] = {}
  BY DEF RecordClose, RemoveRow, TypeOK, RowsInv, LocalInv
<1>2. PICK r \in rows[d] :
         /\ Publish(d, Record(copy[d], r))
         /\ closed' = ((closed \ Overwritten(d)) \cup ({r} \cap Blocked(Record(copy[d], r))))
                         \ Evicted(copy[d], Record(copy[d], r))
         /\ recent' = [e \in Daemon |-> IF Walking(e) THEN recent[e] \cup {r} ELSE recent[e]]
         /\ quiet' = [q \in Row |-> IF q = r /\ copy[d][r] = NotRecorded THEN 0
                                    ELSE IF q \in Overwritten(d) THEN TTL ELSE quiet[q]]
  BY DEF RecordClose
<1>3. r \in Row /\ file' = Record(copy[d], r) /\ copy[d] \in Entries /\ WithinCap(copy[d])
  BY <1>2 DEF TypeOK, Publish, FileInv
<1>4. \A e \in Daemon :
         /\ reopened'[e] = reopened[e] \ (rows[d] \cup Overwritten(d))
         /\ seen'[e] = seen[e]
         /\ door'[e] = door[e]
         /\ cache'[e] = cache[e]
         /\ e # d => pc'[e] = pc[e] /\ arrived'[e] = arrived[e] /\ copy'[e] = copy[e]
         /\ e = d => copy'[e] = Empty
         /\ e = d => arrived'[e] \in {arrived[e] \ rows[d], arrived[e] \cup rows[d]}
  BY <1>2 DEF RecordClose, RemoveRow, TypeOK, Publish
<1>5. /\ file' \in Entries
      /\ WithinCap(file')
      /\ copy[d][r] = NotRecorded => file'[r] \in {0, NotRecorded}
  BY <1>3, RecordKeeps
<1>6. \A e \in Daemon : WithinCap(copy'[e])
  BY <1>4, EmptyEntries DEF FileInv
<1>7. ASSUME NEW q \in Row
      PROVE  \/ quiet'[q] = 0 /\ file'[q] < 1
             \/ quiet'[q] = TTL
             \/ quiet'[q] = quiet[q] /\ q \notin Overwritten(d)
  BY <1>2, <1>5
<1>8. \A e \in Daemon : seen'[e] \ arrived'[e] \subseteq seen[e] \ arrived[e]
  BY <1>1, <1>4
<1>9. ASSUME NEW e \in Daemon, door'[e] \in Walks
      PROVE  /\ door[e] \in Walks
             /\ cache'[e] = cache[e]
             /\ recent[e] \cup {r} \subseteq recent'[e]
  BY <1>2, <1>4, <1>9 DEF Walking, Walks
<1>10. closed' \subseteq (closed \ Overwritten(d)) \cup ({r} \cap Blocked(file'))
  BY <1>2, <1>3
<1>11. /\ \A e \in Daemon : reopened'[e] \subseteq reopened[e] \ Overwritten(d)
       /\ \A e \in Daemon : pc'[e] = "reconcile" => pc[e] = "reconcile" /\ copy'[e] = copy[e]
  BY <1>1, <1>4
<1>12. CASE outdated[d]
  <2>1. StaleWrite(d, {r})
    BY <1>5, <1>6, <1>7, <1>8, <1>9, <1>10, <1>11 DEF StaleWrite
  <2>2. QED
    BY <1>12, <2>1, StaleKeepsFile
<1>13. CASE ~outdated[d]
  BY <1>13, RecordCurrent
<1>14. QED
  BY <1>12, <1>13

\* A reconcile from a current copy keeps the file's invariant.
LEMMA ReconcileCurrent ==
    ASSUME TypeOK, RowsInv, CopyInv, FileInv, NEW d \in Daemon, Reconcile(d), ~outdated[d]
    PROVE  FileInv'
<1>1. /\ pc[d] = "reconcile"
      /\ pc'[d] = "idle"
      /\ arrived[d] = rows[d]
      /\ seen[d] = live[d]
      /\ copy[d] = file
      /\ file' = Reconciled(d)
      /\ Overwritten(d) = {}
  BY CurrentWrite DEF Reconcile, Writing, WriteState, TypeOK, RowsInv, LocalInv, EnteredOf
<1>a. closed' = closed \ rows[d] /\ \A q \in Row : quiet'[q] = quiet[q]
  BY <1>1 DEF Reconcile
<1>2. \A e \in Daemon :
         /\ reopened'[e] = reopened[e]
         /\ seen'[e] = seen[e]
         /\ door'[e] = door[e]
         /\ cache'[e] = cache[e]
         /\ recent'[e] = recent[e]
         /\ e # d => pc'[e] = pc[e] /\ arrived'[e] = arrived[e] /\ copy'[e] = copy[e]
         /\ e = d => arrived'[e] = {} /\ copy'[e] = Empty
  BY <1>1 DEF Reconcile, WriteState, mem, TypeOK, Mutate, Publish, Withdraw
<1>3. file' = Clear(Gc(file), rows[d])
  BY <1>1 DEF Reconciled
<1>4. /\ Gc(file) \in Entries
      /\ Recorded(Gc(file)) \subseteq Recorded(file)
      /\ \A q \in Row : Gc(file)[q] \in {file[q], NotRecorded}
      /\ \A q \in Row : Blocks(file, q) => Gc(file)[q] = file[q]
  BY GcKeeps DEF TypeOK, FileInv
<1>5. /\ \A q \in Row : file'[q] = IF q \in rows[d] THEN NotRecorded ELSE Gc(file)[q]
      /\ Recorded(file') \subseteq Recorded(Gc(file))
  BY <1>3, <1>4, ClearKeeps
<1>6. /\ WithinCap(file')
      /\ \A q \in Blocked(file') : q \in Blocked(file) /\ file'[q] = file[q] /\ q \notin rows[d]
      /\ \A q \in Blocked(file) \ rows[d] : q \in Blocked(file')
  <2>1. WithinCap(file')
    BY <1>4, <1>5, FewerWithinCap DEF FileInv
  <2>2. \A q \in Blocked(file') : q \in Blocked(file) /\ file'[q] = file[q] /\ q \notin rows[d]
    BY <1>4, <1>5 DEF Blocked, Blocks
  <2>3. \A q \in Blocked(file) \ rows[d] : q \in Blocked(file')
    BY <1>4, <1>5 DEF Blocked, Blocks
  <2>4. QED
    BY <2>1, <2>2, <2>3
<1>7. closed' \subseteq Blocked(file')
  BY <1>a, <1>6 DEF FileInv
<1>8. \A q \in Blocked(file') : file'[q] < RenewalAge + quiet'[q]
  BY <1>a, <1>6 DEF FileInv, Blocked
<1>9. ASSUME NEW e \in Daemon
      PROVE  reopened'[e] \cap (seen'[e] \ arrived'[e]) \cap Blocked(file') = {}
  <2>1. CASE e # d
    BY <1>2, <1>6, <2>1 DEF FileInv
  <2>2. CASE e = d
    <3>1. reopened[d] \cap (seen[d] \ rows[d]) \cap Blocked(file) = {}
      BY <1>1 DEF FileInv
    <3>2. QED
      BY <1>2, <1>6, <2>2, <3>1
  <2>3. QED
    BY <2>1, <2>2
<1>10. ASSUME NEW e \in Daemon, pc'[e] = "reconcile"
       PROVE  reopened'[e] \cap Blocked(file') \subseteq Recorded(copy'[e])
  BY <1>1, <1>2, <1>6, <1>10 DEF FileInv
<1>11. ASSUME NEW e \in Daemon, door'[e] \in Walks
       PROVE  closed' \subseteq Recorded(cache'[e]) \cup recent'[e]
  BY <1>a, <1>2, <1>11 DEF FileInv
<1>12. \A e \in Daemon : WithinCap(copy'[e])
  BY <1>2, EmptyEntries DEF FileInv
<1>13. QED
  BY <1>6, <1>7, <1>8, <1>9, <1>10, <1>11, <1>12 DEF FileInv, WithinCap

\* A reconcile keeps the file's invariant, whatever was read before.
LEMMA ReconcileKeepsFile ==
    ASSUME TypeOK, RowsInv, CopyInv, FileInv, NEW d \in Daemon, Reconcile(d)
    PROVE  FileInv'
<1>1. /\ pc[d] = "reconcile"
      /\ pc'[d] = "idle"
      /\ arrived[d] = rows[d]
      /\ copy[d] \in Entries /\ WithinCap(copy[d])
      /\ Publish(d, Reconciled(d)) \/ (Reconciled(d) = copy[d] /\ file' = file)
  BY DEF Reconcile, WriteState, TypeOK, RowsInv, LocalInv, EnteredOf, FileInv, Mutate, Withdraw
<1>2. \A e \in Daemon :
         /\ reopened'[e] = reopened[e] \ Overwritten(d)
         /\ seen'[e] = seen[e]
         /\ door'[e] = door[e]
         /\ cache'[e] = cache[e]
         /\ recent'[e] = recent[e]
         /\ e # d => pc'[e] = pc[e] /\ arrived'[e] = arrived[e] /\ copy'[e] = copy[e]
         /\ e = d => arrived'[e] = {} /\ copy'[e] = Empty
  BY DEF Reconcile, WriteState, mem, TypeOK, Mutate, Publish, Withdraw
<1>3. /\ Reconciled(d) \in Entries
      /\ Recorded(Reconciled(d)) \subseteq Recorded(copy[d])
      /\ \A q \in rows[d] : q \in Row => Reconciled(d)[q] = NotRecorded
  <2>1. Gc(copy[d]) \in Entries /\ Recorded(Gc(copy[d])) \subseteq Recorded(copy[d])
    BY <1>1, GcKeeps
  <2>2. QED
    BY <2>1, ClearKeeps DEF Reconciled
<1>4. file' \in Entries /\ WithinCap(file')
  <2>1. CASE file' = Reconciled(d)
    BY <1>1, <1>3, <2>1, FewerWithinCap
  <2>2. CASE file' = file
    BY <2>2 DEF TypeOK, FileInv
  <2>3. QED
    BY <1>1, <2>1, <2>2 DEF Publish
<1>5. ASSUME NEW q \in Blocked(file'), q \in reopened'[d] PROVE q \notin rows[d]
  <2>1. CASE file' = Reconciled(d)
    BY <1>3, <1>5, <2>1 DEF Blocked, Blocks
  <2>2. CASE Reconciled(d) = copy[d] /\ file' = file
    <3>1. q \in Recorded(copy[d])
      BY <1>1, <1>2, <1>5, <2>2 DEF FileInv
    <3>2. QED
      BY <1>3, <2>2, <3>1 DEF Recorded
  <2>3. QED
    BY <1>1, <2>1, <2>2 DEF Publish
<1>6. ASSUME NEW e \in Daemon, NEW q \in Blocked(file'), q \in reopened'[e],
             q \in seen'[e] \ arrived'[e]
      PROVE  q \in seen[e] \ arrived[e]
  BY <1>1, <1>2, <1>5, <1>6
<1>7. ASSUME NEW q \in Row
      PROVE  quiet'[q] = TTL \/ (quiet'[q] = quiet[q] /\ q \notin Overwritten(d))
  BY DEF Reconcile
<1>8. closed' \subseteq (closed \ Overwritten(d)) \cup ({} \cap Blocked(file'))
  BY DEF Reconcile
<1>9. \A e \in Daemon : WithinCap(copy'[e])
  BY <1>2, EmptyEntries DEF FileInv
<1>10. /\ \A e \in Daemon : reopened'[e] \subseteq reopened[e] \ Overwritten(d)
       /\ \A e \in Daemon : pc'[e] = "reconcile" => pc[e] = "reconcile" /\ copy'[e] = copy[e]
       /\ \A e \in Daemon : door'[e] \in Walks => /\ door[e] \in Walks
                                                   /\ cache'[e] = cache[e]
                                                   /\ recent[e] \cup {} \subseteq recent'[e]
  BY <1>1, <1>2
<1>11. CASE outdated[d]
  <2>1. StaleWrite(d, {})
    BY <1>4, <1>6, <1>7, <1>8, <1>9, <1>10 DEF StaleWrite
  <2>2. QED
    BY <1>11, <2>1, StaleKeepsFile
<1>12. CASE ~outdated[d]
  BY <1>12, ReconcileCurrent
<1>13. QED
  BY <1>11, <1>12

\* A re-arm from a current copy keeps the file's invariant.
LEMMA TouchCurrent ==
    ASSUME TypeOK, RowsInv, CopyInv, FileInv, NEW d \in Daemon, TouchClose(d), ~outdated[d]
    PROVE  FileInv'
<1>1. /\ pc[d] = "touch" /\ pc'[d] # "reconcile"
      /\ copy[d] = file /\ file' = Touch(file, rows[d]) /\ Overwritten(d) = {}
  BY CurrentWrite DEF TouchClose, Writing, AfterRearm, TypeOK
<1>2. \A e \in Daemon :
         /\ reopened'[e] = reopened[e]
         /\ seen'[e] = seen[e]
         /\ arrived'[e] = arrived[e]
         /\ cache'[e] = cache[e]
         /\ recent'[e] = recent[e]
         /\ door'[e] \in Walks => door[e] \in Walks
         /\ e # d => pc'[e] = pc[e] /\ copy'[e] = copy[e]
         /\ e = d => copy'[e] = Empty
  BY <1>1 DEF TouchClose, AfterRearm, mem, TypeOK, Mutate, Publish, Withdraw, Walks
<1>3. /\ closed' = closed
      /\ \A q \in Row : quiet'[q] = IF q \in rows[d] /\ Blocks(file, q) THEN 0 ELSE quiet[q]
  BY <1>1 DEF TouchClose
<1>4. /\ Recorded(file') \subseteq Recorded(file)
      /\ \A q \in Row : Blocks(file, q) <=> Blocks(file', q)
      /\ \A q \in Row \ rows[d] : file'[q] = file[q]
      /\ \A q \in rows[d] : Blocks(file, q) /\ q \in Row => file'[q] < RenewalAge
  BY <1>1, TouchKeeps DEF TypeOK
<1>5. WithinCap(file') /\ Blocked(file') = Blocked(file)
  BY <1>4, FewerWithinCap DEF FileInv, Blocked
<1>6. ASSUME NEW q \in Blocked(file') PROVE file'[q] < RenewalAge + quiet'[q]
  <2>1. q \in Row /\ Blocks(file, q) /\ q \in Blocked(file)
    BY <1>5 DEF Blocked
  <2>2. CASE q \in rows[d]
    <3>1. file'[q] < RenewalAge /\ quiet'[q] = 0
      BY <1>3, <1>4, <2>1, <2>2
    <3>2. RenewalAge + 0 = RenewalAge
      BY RenewalPositive
    <3>3. QED
      BY <3>1, <3>2
  <2>3. CASE q \notin rows[d]
    <3>1. file'[q] = file[q] /\ quiet'[q] = quiet[q]
      BY <1>3, <1>4, <2>1, <2>3
    <3>2. QED
      BY <2>1, <3>1 DEF FileInv
  <2>4. QED
    BY <2>2, <2>3
<1>7. ASSUME NEW e \in Daemon
      PROVE  reopened'[e] \cap (seen'[e] \ arrived'[e]) \cap Blocked(file') = {}
  BY <1>2, <1>5 DEF FileInv
<1>8. ASSUME NEW e \in Daemon, pc'[e] = "reconcile"
      PROVE  reopened'[e] \cap Blocked(file') \subseteq Recorded(copy'[e])
  BY <1>1, <1>2, <1>5, <1>8 DEF FileInv
<1>9. ASSUME NEW e \in Daemon, door'[e] \in Walks
      PROVE  closed' \subseteq Recorded(cache'[e]) \cup recent'[e]
  BY <1>2, <1>3, <1>9 DEF FileInv
<1>10. \A e \in Daemon : WithinCap(copy'[e])
  BY <1>2, EmptyEntries DEF FileInv
<1>11. QED
  BY <1>3, <1>5, <1>6, <1>7, <1>8, <1>9, <1>10 DEF FileInv, WithinCap

\* A re-arm keeps the file's invariant, whatever was read before.
LEMMA TouchCloseKeepsFile ==
    ASSUME TypeOK, RowsInv, CopyInv, FileInv, NEW d \in Daemon, TouchClose(d)
    PROVE  FileInv'
<1>1. /\ pc[d] = "touch" /\ pc'[d] # "reconcile"
      /\ copy[d] \in Entries /\ WithinCap(copy[d])
      /\ file' = Touch(copy[d], rows[d]) \/ file' = file
  BY DEF TouchClose, AfterRearm, TypeOK, FileInv, Mutate, Publish, Withdraw
<1>2. \A e \in Daemon :
         /\ reopened'[e] = reopened[e] \ Overwritten(d)
         /\ seen'[e] = seen[e]
         /\ arrived'[e] = arrived[e]
         /\ cache'[e] = cache[e]
         /\ recent'[e] = recent[e]
         /\ door'[e] \in Walks => door[e] \in Walks
         /\ e # d => pc'[e] = pc[e] /\ copy'[e] = copy[e]
         /\ e = d => copy'[e] = Empty
  BY DEF TouchClose, AfterRearm, mem, TypeOK, Mutate, Publish, Withdraw, Walks
<1>3. file' \in Entries /\ WithinCap(file')
  <2>1. CASE file' = Touch(copy[d], rows[d])
    BY <1>1, <2>1, TouchKeeps, FewerWithinCap
  <2>2. CASE file' = file
    BY <2>2 DEF TypeOK, FileInv
  <2>3. QED
    BY <1>1, <2>1, <2>2
<1>4. \A e \in Daemon : WithinCap(copy'[e])
  BY <1>2, EmptyEntries DEF FileInv
<1>5. closed' \subseteq (closed \ Overwritten(d)) \cup ({} \cap Blocked(file'))
  BY DEF TouchClose
<1>6. CASE outdated[d]
  <2>1. ASSUME NEW q \in Row
        PROVE  quiet'[q] = TTL \/ (quiet'[q] = quiet[q] /\ q \notin Overwritten(d))
    BY <1>6 DEF TouchClose
  <2>2. /\ \A e \in Daemon : reopened'[e] \subseteq reopened[e] \ Overwritten(d)
        /\ \A e \in Daemon, q \in Blocked(file') :
              q \in reopened'[e] /\ q \in seen'[e] \ arrived'[e] => q \in seen[e] \ arrived[e]
        /\ \A e \in Daemon : pc'[e] = "reconcile" => pc[e] = "reconcile" /\ copy'[e] = copy[e]
        /\ \A e \in Daemon : door'[e] \in Walks => /\ door[e] \in Walks
                                                    /\ cache'[e] = cache[e]
                                                    /\ recent[e] \cup {} \subseteq recent'[e]
    BY <1>1, <1>2
  <2>3. StaleWrite(d, {})
    BY <1>3, <1>4, <1>5, <2>1, <2>2 DEF StaleWrite
  <2>4. QED
    BY <1>6, <2>3, StaleKeepsFile
<1>7. CASE ~outdated[d]
  BY <1>7, TouchCurrent
<1>8. QED
  BY <1>6, <1>7

\* Time keeps the file's invariant.
LEMMA TickKeepsFile ==
    ASSUME TypeOK, FileInv, Tick
    PROVE  FileInv'
<1>1. \A q \in Row : /\ file[q] \in Int
                     /\ -1 <= file[q]
                     /\ file[q] <= TTL
                     /\ quiet[q] \in Nat
                     /\ quiet[q] <= TTL
                     /\ file'[q] = IF file[q] = -1 \/ file[q] = TTL THEN file[q] ELSE file[q] + 1
                     /\ quiet'[q] = IF quiet[q] = TTL THEN TTL ELSE quiet[q] + 1
  BY AgeOf, TTLAssumption DEF TypeOK, Tick
<1>2. Recorded(file') \subseteq Recorded(file)
  BY <1>1 DEF Recorded
<1>3. WithinCap(file)'
  <2>1. WithinCap(file')
    BY <1>2, FewerWithinCap DEF FileInv
  <2>2. QED
    BY <2>1 DEF WithinCap
<1>4. Blocked(file') \subseteq Blocked(file)
  BY <1>1, TTLAssumption DEF Blocked, Blocks, Expired
<1>5. closed' \subseteq Blocked(file') /\ closed' \subseteq closed
  BY DEF Tick
<1>6. ASSUME NEW q \in Blocked(file') PROVE file'[q] < RenewalAge + quiet'[q]
  <2>1. q \in Row /\ file[q] < RenewalAge + quiet[q] /\ file'[q] < TTL
    BY <1>1, <1>4, TTLAssumption DEF FileInv, Blocked, Blocks, Expired
  <2>2. QED
    BY <1>1, <2>1, RenewalPositive, TTLAssumption
<1>7. UNCHANGED <<pc, copy, cache, door, seen, arrived, reopened, recent>>
  BY DEF Tick, mem, ops
<1>8. \A d \in Daemon : pc[d] # "reconcile"
  BY DEF Tick
<1>9. \A e \in Daemon : reopened'[e] \cap (seen'[e] \ arrived'[e]) \cap Blocked(file') = {}
  BY <1>4, <1>7 DEF FileInv
<1>10. QED
  BY <1>3, <1>5, <1>6, <1>7, <1>8, <1>9 DEF FileInv, WithinCap

\* The invariant is inductive.
LEMMA Inductive ==
    /\ Init => IInv
    /\ IInv /\ [Next]_vars => IInv'
<1>1. Init => IInv
  <2>1. Init => RowsInv
    BY DEF Init, RowsInv, LocalInv, EnteredOf, Walks
  <2>2. Init => CopyInv
    BY DEF Init, CopyInv, Writing
  <2>3. ASSUME Init PROVE FileInv
    <3>1. file = Empty /\ Blocked(file) = {} /\ closed = {}
      BY <2>3 DEF Init, Blocked, Blocks, Empty
    <3>2. QED
      BY <2>3, <3>1, EmptyEntries DEF Init, FileInv, Walks
  <2>4. Init => TypeOK
    BY InitTypes
  <2>5. QED
    BY <2>1, <2>2, <2>3, <2>4 DEF IInv
<1>2. ASSUME IInv, [Next]_vars PROVE IInv'
  <2>1. TypeOK'
    BY <1>2, NextTypes DEF IInv
  <2>2. RowsInv' /\ CopyInv'
    BY <1>2, RowsInvKept, CopyInvKept DEF IInv
  <2>3. FileInv'
    <3>1. ASSUME NEW d \in Daemon, DaemonStep(d) PROVE FileInv'
      <4>1. QuietStep(d) => FileInv'
        BY <1>2, <3>1, QuietKeepsFile DEF IInv
      <4>2. RecordClose(d) \/ Reconcile(d) \/ TouchClose(d) => FileInv'
        BY <1>2, RecordCloseKeepsFile, ReconcileKeepsFile, TouchCloseKeepsFile DEF IInv
      <4>3. QED
        BY <1>2, <3>1, <4>1, <4>2, StepsAreQuiet DEF IInv
    <3>2. ASSUME Tick PROVE FileInv'
      BY <1>2, <3>2, TickKeepsFile DEF IInv
    <3>3. ASSUME UNCHANGED vars PROVE FileInv'
      BY <1>2, <3>3 DEF IInv, FileInv, WithinCap, vars, mem, ops, hist
    <3>4. QED
      BY <1>2, <3>1, <3>2, <3>3 DEF Next
  <2>4. QED
    BY <2>1, <2>2, <2>3 DEF IInv
<1>3. QED
  BY <1>1, <1>2

\* The strengthened invariant holds of every behaviour.
LEMMA Invariance == Spec => []IInv
BY Inductive, PTL DEF Spec

\* A daemon's step brings no closed row into its live order but by the user, or
\* through a door that has not read the close.
LEMMA StepResurrectsNothing ==
    ASSUME TypeOK, RowsInv, FileInv, NEW d \in Daemon, DaemonStep(d),
           NEW r \in closed, r \in live'[d], r \notin live[d]
    PROVE  r \in reopened'[d] \/ r \in (IF pc[d] = "import" THEN recent[d] ELSE recent'[d])
<1> DEFINE Goal ==
             r \in reopened'[d] \/ r \in (IF pc[d] = "import" THEN recent[d] ELSE recent'[d])
<1> USE DEF TypeOK
<1>a. r \in Row /\ r \in Blocked(file) /\ r \in Blocked(Load)
  BY LoadKnows DEF FileInv
<1>b. Blocks(Load, r)
  BY <1>a DEF Blocked
<1>c. ASSUME NEW f \in Readings(Load), Asked(d, f), pc[d] # "import" PROVE Blocks(f, r) \/ Goal
  BY <1>b, <1>c DEF Asked, Readings
<1> HIDE DEF Goal
<1>1. ASSUME NEW q \in Row, Open(d, q) PROVE Goal
  BY <1>1 DEF Open, Land, Goal
<1>2. ASSUME NEW q \in Row, Close(d, q) PROVE Goal
  BY <1>2 DEF Close, ReadShared
<1>3. ASSUME NEW f \in Readings(Load), NEW q \in Row, Sweep(d, q, f) PROVE Goal
  BY <1>c, <1>3 DEF Sweep, Land
<1>4. ASSUME RecordClose(d) \/ RecordFails(d) PROVE Goal
  BY <1>4 DEF RecordClose, RecordFails, RemoveRow
<1>5. ASSUME Persist(d) \/ PersistMuted(d) PROVE Goal
  BY <1>5 DEF Persist, PersistMuted, mem
<1>6. ASSUME Reconcile(d) \/ ReconcileFails(d) PROVE Goal
  BY <1>6 DEF Reconcile, ReconcileFails, WriteState, mem
<1>7. ASSUME BootLoad(d) PROVE Goal
  BY <1>7 DEF BootLoad, mem
<1>8. ASSUME NEW f \in Readings(Load), NEW all \in BOOLEAN, BootRestore(d, all, f) PROVE Goal
  BY <1>a, <1>c, <1>8 DEF BootRestore, Blocked
<1>9. ASSUME NEW f \in Readings(Load), NEW P \in SUBSET (Daemon \ {d}),
             RestorePreserved(d, P, f)
      PROVE  Goal
  <2> DEFINE S == UNION {live[p] : p \in P}
  <2>1. Land(d, S \ Blocked(f)) /\ Asked(d, f) /\ pc[d] = "start"
    BY <1>9 DEF RestorePreserved
  <2> HIDE DEF S
  <2>2. QED
    BY <1>a, <1>c, <2>1 DEF Land, Blocked
<1>10. ASSUME NEW P \in SUBSET (Daemon \ {d}), AskPeers(d, P) PROVE Goal
  BY <1>10 DEF AskPeers, mem
<1>11. ASSUME WalkBegin(d) \/ NothingToTakeOver(d) PROVE Goal
  BY <1>11 DEF WalkBegin, NothingToTakeOver, mem
<1>12. ASSUME NEW p \in Daemon, PreparePeer(d, p) PROVE Goal
  BY <1>12 DEF PreparePeer
<1>13. ASSUME Rearm(d) PROVE Goal
  BY <1>13 DEF Rearm, mem
<1>14. ASSUME TouchClose(d) \/ TouchFails(d) PROVE Goal
  BY <1>14 DEF TouchClose, TouchFails, AfterRearm, mem
<1>15. ASSUME NEW R \in SUBSET Row, Import(d, R) PROVE Goal
  <2>1. pc[d] = "import" /\ door[d] \in Walks
    BY <1>15 DEF Import, RowsInv, LocalInv
  <2>2. r \in Adoptable(d)
    BY <1>15 DEF Import, Land
  <2>3. r \notin Recorded(cache[d])
    BY <2>2 DEF Adoptable, Recorded
  <2>4. QED
    BY <2>1, <2>3 DEF FileInv, Goal
<1>16. ASSUME Die(d) PROVE Goal
  BY <1>16 DEF Die
<1>17. ASSUME NEW b \in BOOLEAN, SetMuted(d, b) PROVE Goal
  BY <1>17 DEF SetMuted
<1>18. Goal
  BY <1>1, <1>2, <1>3, <1>4, <1>5, <1>6, <1>7, <1>8, <1>9, <1>10, <1>11, <1>12, <1>13,
     <1>14, <1>15, <1>16, <1>17 DEF DaemonStep, Door
<1>19. QED
  BY <1>18 DEF Goal

-----------------------------------------------------------------------------
(* Theorems.                                                               *)

\* A recorded close stays in force until the row arrives at a daemon that
\* persists, it expires, the cap evicts it, or a daemon that has not read it writes
\* over it, whichever daemons write the file in between and die in the middle of it
\* (mutate_shared, reconcile).
THEOREM ClosesAreKept == Spec => []CloseIsKept
<1>1. IInv => CloseIsKept
  BY DEF IInv, FileInv, CloseIsKept
<1>2. QED
  BY <1>1, Invariance, PTL

\* A row the user opened and the daemon has persisted is blocked by no close.
THEOREM ReopenedAreNotVetoed == Spec => []ReopenedIsNotVetoed
<1>1. IInv => ReopenedIsNotVetoed
  BY DEF IInv, FileInv, ReopenedIsNotVetoed
<1>2. QED
  BY <1>1, Invariance, PTL

\* A close that is contested is renewed before it can expire (touch_close).
THEOREM ContestedClosesStand == Spec => []ContestedCloseStands
<1>1. IInv => ContestedCloseStands
  BY DEF IInv, FileInv, ContestedCloseStands
<1>2. QED
  BY <1>1, Invariance, PTL

\* A closed row comes back only when the user opens it, through a walk that had read
\* the remembered closes before this one was recorded, or where the file could not
\* be read or parsed: not at a boot, not by a recovery sweep, not from a preserved
\* owner that read it (Load asked at each of these doors).
THEOREM NothingIsResurrected == Spec => NoResurrection
<1> DEFINE Clean(d, r) ==
             r \in live'[d] \ live[d] =>
                \/ r \in reopened'[d]
                \/ r \in (IF pc[d] = "import" THEN recent[d] ELSE recent'[d])
           Step == \A d \in Daemon : \A r \in closed : Clean(d, r)
<1>1. ASSUME IInv, [Next]_vars PROVE [Step]_vars
  <2>1. ASSUME NEW e \in Daemon, DaemonStep(e), NEW d \in Daemon, NEW r \in closed PROVE Clean(d, r)
    <3>1. CASE d # e
      BY <1>1, <2>1, <3>1, OthersUntouched DEF IInv
    <3>2. CASE d = e
      BY <1>1, <2>1, <3>2, StepResurrectsNothing DEF IInv
    <3>3. QED
      BY <3>1, <3>2
  <2>2. ASSUME Tick, NEW d \in Daemon, NEW r \in closed PROVE Clean(d, r)
    BY <2>2 DEF Tick, mem
  <2>3. QED
    BY <1>1, <2>1, <2>2 DEF Next
<1>2. QED
  BY <1>1, Invariance, PTL DEF Spec, NoResurrection

=============================================================================
