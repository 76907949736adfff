------------------------ MODULE OwnershipLedgerProofs ------------------------
(***************************************************************************)
(* Proofs about OwnershipLedger, for any daemons, pids, wrappers, rows and *)
(* lifetimes, with loads that read nothing and saves that fail.            *)
(*                                                                         *)
(* A rename puts into place what was computed from an earlier load, so     *)
(* what is true of the file has to be true of every pending snapshot too   *)
(* (AllSole, AllCommitted).                                                *)
(***************************************************************************)
EXTENDS OwnershipLedger, TLAPS

AllSole == SoleWitness(ledger) /\ \A p \in Process : SoleWitness(file[p])

AllCommitted ==
    DeathIsCommitted(ledger) /\ \A p \in Process : DeathIsCommitted(file[p])

IInv == TypeOK /\ AllSole /\ AllCommitted

-----------------------------------------------------------------------------
(* The operators on files.                                                 *)

\* A record is determined by its fields.
LEMMA RecordFields ==
    \A r \in Record : /\ r.writer \in Daemon
                      /\ r.session \in Session
                      /\ r.by \in Daemon \cup {None}
                      /\ r.at \in 0..MaxTime
BY DEF Record

\* The empty file is a file with nothing in it.
LEMMA EmptyFile ==
    /\ IsFile(Empty)
    /\ SoleWitness(Empty)
    /\ In(Empty) = {}
BY DEF IsFile, SoleWitness, Empty, In

\* Filtering a file gives a file.
LEMMA OnlyFile ==
    ASSUME NEW f, IsFile(f), NEW S, S \subseteq In(f)
    PROVE  /\ IsFile(Only(f, S))
           /\ In(Only(f, S)) = S
BY DEF IsFile, In, Only

\* Filtering makes no second witness.
LEMMA OnlySole ==
    ASSUME NEW f, SoleWitness(f), NEW S, S \subseteq In(f)
    PROVE  SoleWitness(Only(f, S))
BY DEF SoleWitness, In, Only

\* Extending a file with records gives a file.
LEMMA WithFile ==
    ASSUME NEW f, IsFile(f), NEW S, S \subseteq Record
    PROVE  /\ IsFile(With(f, S))
           /\ In(With(f, S)) = In(f) \cup S
<1>1. In(With(f, S)) = In(f) \cup S
  BY DEF In, With
<1>2. ASSUME NEW r \in In(f) \cup S PROVE With(f, S)[r] \in Nat \ {0}
  <2>1. r \in In(f) => f[r] \in Nat \ {0}
    BY DEF IsFile
  <2>2. With(f, S)[r] = IF r \notin In(f) THEN 1 ELSE IF r \in S THEN f[r] + 1 ELSE f[r]
    BY DEF With
  <2>3. QED
    BY <2>1, <2>2
<1>3. QED
  BY <1>1, <1>2 DEF IsFile

SameRow(q, r) == PidOf[q.writer] = PidOf[r.writer] /\ q.session = r.session

\* Extending makes no second witness when the new records are about other
\* rows than the old ones and than each other.
LEMMA WithSole ==
    ASSUME NEW f, SoleWitness(f), NEW S,
           \A q \in S, r \in In(f) : ~SameRow(q, r),
           \A q, r \in S : SameRow(q, r) => q = r
    PROVE  SoleWitness(With(f, S))
<1>1. In(With(f, S)) = In(f) \cup S
  BY DEF In, With
<1>2. \A r \in In(f) : r \notin S
  BY DEF SameRow
<1>3. ASSUME NEW r \in In(f) \cup S PROVE With(f, S)[r] = 1
  <2>1. With(f, S)[r] = IF r \notin In(f) THEN 1 ELSE IF r \in S THEN f[r] + 1 ELSE f[r]
    BY DEF With
  <2>2. r \in In(f) => f[r] = 1
    BY DEF SoleWitness
  <2>3. QED
    BY <2>1, <2>2, <1>2
<1>4. ASSUME NEW q \in In(f) \cup S, NEW r \in In(f) \cup S, SameRow(q, r) PROVE q = r
  <2>1. CASE q \in S /\ r \in S
    BY <1>4, <2>1
  <2>2. CASE q \in In(f) /\ r \in In(f)
    BY <1>4, <2>2 DEF SoleWitness, SameRow
  <2>3. CASE q \in S /\ r \in In(f)
    BY <1>4, <2>3
  <2>4. CASE q \in In(f) /\ r \in S
    <3>1. SameRow(r, q)
      BY <1>4 DEF SameRow
    <3>2. QED
      BY <2>4, <3>1
  <2>5. QED
    BY <2>1, <2>2, <2>3, <2>4
<1>5. QED
  BY <1>1, <1>3, <1>4 DEF SoleWitness, SameRow

-----------------------------------------------------------------------------
(* What the daemons compose.                                               *)

\* A daemon's records of one moment name it, and each another row.
LEMMA WitnessRecord ==
    TypeOK => \A d \in Daemon, s \in Session, by \in Daemon \cup {None} :
                  /\ Witness(d, s, by) \in Record
                  /\ Witness(d, s, by).writer = d
                  /\ Witness(d, s, by).session = s
                  /\ Witness(d, s, by).by = by
BY DEF TypeOK, Witness, Record

\* What a sweep witnessed: adopted records of the daemon, one per row.
LEMMA HandoffRecordsAre ==
    TypeOK => \A d \in Daemon :
                  /\ HandoffRecords(d) \subseteq Record
                  /\ \A r \in HandoffRecords(d) : r.writer = d /\ r.by # None
                  /\ \A q, r \in HandoffRecords(d) : q.session = r.session => q = r
<1> SUFFICES ASSUME TypeOK, NEW d \in Daemon
             PROVE  /\ HandoffRecords(d) \subseteq Record
                    /\ \A r \in HandoffRecords(d) : r.writer = d /\ r.by # None
                    /\ \A q, r \in HandoffRecords(d) : q.session = r.session => q = r
  OBVIOUS
<1>1. \A s \in Session : moved[d][s] \in Daemon \cup {None}
  BY DEF TypeOK
<1>2. \A r \in HandoffRecords(d) :
          \E s \in Session : r = Witness(d, s, moved[d][s]) /\ moved[d][s] # None
  BY DEF HandoffRecords
<1>3. QED
  BY <1>1, <1>2, WitnessRecord

\* What a cold exit owes: died_with_me records of the daemon, one per row held.
LEMMA DyingRecordsAre ==
    TypeOK => \A d \in Daemon :
                  /\ DyingRecords(d) \subseteq Record
                  /\ \A r \in DyingRecords(d) : r.writer = d /\ r.session \in Held(d)
                  /\ \A q, r \in DyingRecords(d) : q.session = r.session => q = r
<1> SUFFICES ASSUME TypeOK, NEW d \in Daemon
             PROVE  /\ DyingRecords(d) \subseteq Record
                    /\ \A r \in DyingRecords(d) : r.writer = d /\ r.session \in Held(d)
                    /\ \A q, r \in DyingRecords(d) : q.session = r.session => q = r
  OBVIOUS
<1>1. Held(d) \subseteq Session
  BY DEF Held
<1>2. \A r \in DyingRecords(d) : \E s \in Held(d) : r = Witness(d, s, None)
  BY DEF DyingRecords
<1>3. QED
  BY <1>1, <1>2, WitnessRecord

Good(f) == IsFile(f) /\ SoleWitness(f)

\* A sweep's statement keeps one witness per pid and row.
LEMMA WriteRecordsGood ==
    ASSUME TypeOK, NEW d \in Daemon, NEW f, Good(f)
    PROVE  /\ Good(WriteRecords(d, f))
           /\ \A r \in In(WriteRecords(d, f)) : r \in In(f) \/ r.by # None
<1> DEFINE S == {r \in In(f) : PidOf[r.writer] # PidOf[d]}
<1> DEFINE g == Only(f, S)
<1>1. IsFile(g) /\ SoleWitness(g) /\ In(g) = S
  BY OnlyFile, OnlySole DEF Good
<1>2. HandoffRecords(d) \subseteq Record
  BY HandoffRecordsAre
<1>3. \A q \in HandoffRecords(d), r \in In(g) : ~SameRow(q, r)
  BY <1>1, HandoffRecordsAre DEF SameRow
<1>4. \A q, r \in HandoffRecords(d) : SameRow(q, r) => q = r
  BY HandoffRecordsAre DEF SameRow
<1>5. WriteRecords(d, f) = With(g, HandoffRecords(d))
  BY DEF WriteRecords
<1> HIDE DEF g
<1>6. SoleWitness(With(g, HandoffRecords(d)))
  BY <1>1, <1>3, <1>4, WithSole
<1>7. /\ IsFile(With(g, HandoffRecords(d)))
      /\ In(With(g, HandoffRecords(d))) = S \cup HandoffRecords(d)
  BY <1>1, <1>2, WithFile
<1>8. QED
  BY <1>5, <1>6, <1>7, HandoffRecordsAre DEF Good

\* A cold exit's statement keeps one witness per pid and row.
LEMMA ExitMergedGood ==
    ASSUME TypeOK, NEW d \in Daemon, NEW f, Good(f)
    PROVE  /\ Good(ExitMerged(d, f))
           /\ \A r \in In(ExitMerged(d, f)) : r \in In(f) \/ r.writer = d
<1> DEFINE S == {r \in In(f) : ~Superseded(d, r)}
<1> DEFINE g == Only(f, S)
<1>1. IsFile(g) /\ SoleWitness(g) /\ In(g) = S
  BY OnlyFile, OnlySole DEF Good
<1>2. DyingRecords(d) \subseteq Record
  BY DyingRecordsAre
<1>3. \A q \in DyingRecords(d), r \in In(g) : ~SameRow(q, r)
  BY <1>1, DyingRecordsAre DEF SameRow, Superseded
<1>4. \A q, r \in DyingRecords(d) : SameRow(q, r) => q = r
  BY DyingRecordsAre DEF SameRow
<1>5. ExitMerged(d, f) = With(g, DyingRecords(d))
  BY DEF ExitMerged
<1> HIDE DEF g
<1>6. SoleWitness(With(g, DyingRecords(d)))
  BY <1>1, <1>3, <1>4, WithSole
<1>7. /\ IsFile(With(g, DyingRecords(d)))
      /\ In(With(g, DyingRecords(d))) = S \cup DyingRecords(d)
  BY <1>1, <1>2, WithFile
<1>8. QED
  BY <1>5, <1>6, <1>7, DyingRecordsAre DEF Good

-----------------------------------------------------------------------------
(* The steps.                                                              *)

AllGood == Good(ledger) /\ \A p \in Process : Good(file[p])

\* A load reads a good file.
LEMMA LoadsGood == AllGood => \A f \in Loads : Good(f)
BY EmptyFile DEF AllGood, Good, Loads

\* A save writes a good file.
LEMMA SavesGood == AllGood => \A p \in Process : \A f \in Saves(p) : Good(f)
BY DEF AllGood, Saves

\* Filtering keeps a file good.
LEMMA OnlyGood ==
    ASSUME NEW f, Good(f), NEW S, S \subseteq In(f)
    PROVE  Good(Only(f, S)) /\ In(Only(f, S)) = S
BY OnlyFile, OnlySole DEF Good

\* The invariant says that every file is good.
LEMMA InvGood == IInv => AllGood
BY DEF IInv, TypeOK, AllSole, AllGood, Good

Committed == {"leaving", "exiting", "dead"}

LeavesForGood == \A e \in Daemon : pc[e] \in Committed => pc'[e] \in Committed

\* A daemon that has left its serve loop never serves again.
LEMMA StepPc == TypeOK /\ [Next]_vars => LeavesForGood
<1> SUFFICES ASSUME TypeOK, [Next]_vars PROVE LeavesForGood
  OBVIOUS
<1> USE ConstantsAssumption
<1>1. ASSUME NEW d \in Daemon, Boot(d) PROVE LeavesForGood
  BY <1>1 DEF Boot, vars, TypeOK, Process, Committed, LeavesForGood
<1>2. ASSUME NEW d \in Daemon, NEW b \in Daemon, NEW s \in Session, Move(d, b, s)
      PROVE  LeavesForGood
  BY <1>2 DEF Move, vars, TypeOK, Process, Committed, LeavesForGood
<1>3. ASSUME NEW d \in Daemon, EndSweep(d) PROVE LeavesForGood
  BY <1>3 DEF EndSweep, vars, TypeOK, Process, Committed, LeavesForGood, Load
<1>4. ASSUME NEW d \in Daemon, SaveHandoff(d) PROVE LeavesForGood
  BY <1>4 DEF SaveHandoff, vars, TypeOK, Process, Committed, LeavesForGood, Save
<1>5. ASSUME NEW d \in Daemon, Shutdown(d) PROVE LeavesForGood
  BY <1>5 DEF Shutdown, vars, TypeOK, Process, Committed, LeavesForGood, Load
<1>6. ASSUME NEW d \in Daemon, SaveExit(d) PROVE LeavesForGood
  BY <1>6 DEF SaveExit, vars, TypeOK, Process, Committed, LeavesForGood, Save
<1>7. ASSUME NEW d \in Daemon, Die(d) PROVE LeavesForGood
  BY <1>7 DEF Die, vars, TypeOK, Process, Committed, LeavesForGood, Runs
<1>8. ASSUME NEW w \in Wrapper, NEW s \in Session, Lookup(w, s) PROVE LeavesForGood
  BY <1>8 DEF Lookup, vars, TypeOK, Process, Committed, LeavesForGood
<1>9. ASSUME NEW w \in Wrapper, PruneLoad(w) PROVE LeavesForGood
  BY <1>9 DEF PruneLoad, vars, TypeOK, Process, Committed, LeavesForGood, Load
<1>10. ASSUME NEW w \in Wrapper, PruneSave(w) PROVE LeavesForGood
  BY <1>10 DEF PruneSave, vars, TypeOK, Process, Committed, LeavesForGood, Save
<1>11. ASSUME NEW w \in Wrapper, ClearLoad(w) PROVE LeavesForGood
  BY <1>11 DEF ClearLoad, vars, TypeOK, Process, Committed, LeavesForGood, Load
<1>12. ASSUME NEW w \in Wrapper, ClearSave(w) PROVE LeavesForGood
  BY <1>12 DEF ClearSave, vars, TypeOK, Process, Committed, LeavesForGood, Save
<1>13. ASSUME NEW w \in Wrapper, Launch(w) PROVE LeavesForGood
  BY <1>13 DEF Launch, vars, TypeOK, Process, Committed, LeavesForGood
<1>14. CASE Tick
  BY <1>14 DEF Tick, vars, TypeOK, Process, Committed, LeavesForGood
<1>15. CASE UNCHANGED vars
  BY <1>15 DEF vars, TypeOK, Process, Committed, LeavesForGood
<1>16. QED
  BY <1>1, <1>2, <1>3, <1>4, <1>5, <1>6, <1>7, <1>8, <1>9, <1>10, <1>11, <1>12, <1>13,
     <1>14, <1>15 DEF Next

PlainTypes ==
    /\ pc \in [Process -> DaemonPc \cup WrapperPc]
    /\ DOMAIN file = Process
    /\ holder \in [Session -> Daemon \cup {None}]
    /\ moved \in [Daemon -> [Session -> Daemon \cup {None}]]
    /\ now \in 0..MaxTime
    /\ want \in [Wrapper -> Session]
    /\ answer \in [Wrapper -> Record \cup {None}]
    /\ stale \in [Wrapper -> SUBSET Session]

\* The types of all but the files are preserved.
LEMMA StepPlain == IInv /\ [Next]_vars => PlainTypes'
<1> SUFFICES ASSUME IInv, [Next]_vars PROVE PlainTypes'
  OBVIOUS
<1> USE ConstantsAssumption
<1> USE DEF IInv, TypeOK, PlainTypes, Process
<1>1. ASSUME NEW d \in Daemon, Boot(d) PROVE PlainTypes'
  BY <1>1 DEF Boot, vars, IInv, TypeOK, PlainTypes, Process, DaemonPc, WrapperPc
<1>2. ASSUME NEW d \in Daemon, NEW b \in Daemon, NEW s \in Session, Move(d, b, s)
      PROVE  PlainTypes'
  <2>1. CASE moved' = moved
    BY <1>2, <2>1 DEF Move
  <2>2. CASE moved' = [moved EXCEPT ![d][s] = b]
    <3>1. moved' \in [Daemon -> [Session -> Daemon \cup {None}]]
      BY <2>2
    <3>2. holder' \in [Session -> Daemon \cup {None}]
      BY <1>2 DEF Move
    <3>3. UNCHANGED <<pc, file, now, want, answer, stale>>
      BY <1>2 DEF Move
    <3>4. QED
      BY <3>1, <3>2, <3>3
  <2>3. QED
    BY <1>2, <2>1, <2>2 DEF Move
<1>3. ASSUME NEW d \in Daemon, EndSweep(d) PROVE PlainTypes'
  BY <1>3 DEF EndSweep, vars, IInv, TypeOK, PlainTypes, Process, DaemonPc, WrapperPc,
     Load
<1>4. ASSUME NEW d \in Daemon, SaveHandoff(d) PROVE PlainTypes'
  BY <1>4 DEF SaveHandoff, vars, IInv, TypeOK, PlainTypes, Process, DaemonPc,
     WrapperPc, Save, AfterLookup
<1>5. ASSUME NEW d \in Daemon, Shutdown(d) PROVE PlainTypes'
  BY <1>5 DEF Shutdown, vars, IInv, TypeOK, PlainTypes, Process, DaemonPc, WrapperPc,
     Load
<1>6. ASSUME NEW d \in Daemon, SaveExit(d) PROVE PlainTypes'
  BY <1>6 DEF SaveExit, vars, IInv, TypeOK, PlainTypes, Process, DaemonPc, WrapperPc,
     Save, AfterLookup
<1>7. ASSUME NEW d \in Daemon, Die(d) PROVE PlainTypes'
  BY <1>7 DEF Die, vars, IInv, TypeOK, PlainTypes, Process, DaemonPc, WrapperPc
<1>8. ASSUME NEW w \in Wrapper, NEW s \in Session, Lookup(w, s) PROVE PlainTypes'
  <2>1. PICK f \in Loads : \E r \in Answers(f, s) :
           /\ answer' = [answer EXCEPT ![w] = r]
           /\ stale' = [stale EXCEPT ![w] = {q.session : q \in In(f) \ TrueRecords(f)}]
           /\ pc' = [pc EXCEPT ![w] = IF In(f) \ TrueRecords(f) # {} THEN "prune"
                                      ELSE AfterLookup(r)]
    BY <1>8 DEF Lookup
  <2>2. In(f) \subseteq Record
    BY <2>1, InvGood, LoadsGood DEF Good, IsFile
  <2>3. Answers(f, s) \subseteq Record \cup {None}
    BY <2>2 DEF Answers, TrueRecords
  <2>4. {q.session : q \in In(f) \ TrueRecords(f)} \subseteq Session
    BY <2>2, RecordFields
  <2>5. PICK r \in Record \cup {None} :
           /\ answer' = [answer EXCEPT ![w] = r]
           /\ pc' = [pc EXCEPT ![w] = IF In(f) \ TrueRecords(f) # {} THEN "prune"
                                      ELSE AfterLookup(r)]
    BY <2>1, <2>3
  <2>6. answer' \in [Wrapper -> Record \cup {None}] /\ stale' \in [Wrapper -> SUBSET Session]
    BY <2>1, <2>4, <2>5
  <2>7. pc' \in [Process -> DaemonPc \cup WrapperPc]
    BY <2>5 DEF AfterLookup, WrapperPc
  <2>8. QED
    BY <1>8, <2>6, <2>7 DEF Lookup, PlainTypes
<1>9. ASSUME NEW w \in Wrapper, PruneLoad(w) PROVE PlainTypes'
  BY <1>9 DEF PruneLoad, vars, IInv, TypeOK, PlainTypes, Process, DaemonPc, WrapperPc,
     Load
<1>10. ASSUME NEW w \in Wrapper, PruneSave(w) PROVE PlainTypes'
  BY <1>10 DEF PruneSave, vars, IInv, TypeOK, PlainTypes, Process, DaemonPc, WrapperPc,
     Save, AfterLookup
<1>11. ASSUME NEW w \in Wrapper, ClearLoad(w) PROVE PlainTypes'
  BY <1>11 DEF ClearLoad, vars, IInv, TypeOK, PlainTypes, Process, DaemonPc, WrapperPc,
     Load
<1>12. ASSUME NEW w \in Wrapper, ClearSave(w) PROVE PlainTypes'
  BY <1>12 DEF ClearSave, vars, IInv, TypeOK, PlainTypes, Process, DaemonPc, WrapperPc,
     Save, AfterLookup
<1>13. ASSUME NEW w \in Wrapper, Launch(w) PROVE PlainTypes'
  BY <1>13 DEF Launch, vars, IInv, TypeOK, PlainTypes, Process, DaemonPc, WrapperPc
<1>14. CASE Tick
  BY <1>14 DEF Tick, vars, IInv, TypeOK, PlainTypes, Process, DaemonPc, WrapperPc
<1>15. CASE UNCHANGED vars
  BY <1>15 DEF vars, IInv, TypeOK, PlainTypes, Process, DaemonPc, WrapperPc
<1>16. QED
  BY <1>1, <1>2, <1>3, <1>4, <1>5, <1>6, <1>7, <1>8, <1>9, <1>10, <1>11, <1>12, <1>13,
     <1>14, <1>15 DEF Next

\* Every file stays good.
LEMMA StepGood == IInv /\ [Next]_vars => AllGood'
<1> SUFFICES ASSUME IInv, [Next]_vars PROVE AllGood'
  OBVIOUS
<1>0. TypeOK /\ AllGood /\ DOMAIN file = Process
  BY InvGood DEF IInv, TypeOK
<1> USE <1>0
<1>1. ASSUME NEW d \in Daemon, Boot(d) PROVE AllGood'
  BY <1>1 DEF Boot, vars, AllGood
<1>2. ASSUME NEW d \in Daemon, NEW b \in Daemon, NEW s \in Session, Move(d, b, s)
      PROVE  AllGood'
  BY <1>2 DEF Move, vars, AllGood
<1>3. ASSUME NEW d \in Daemon, EndSweep(d) PROVE AllGood'
  <2>1. d \in Process
    BY DEF Process
  <2>2. PICK f \in Loads : file' = [file EXCEPT ![d] = WriteRecords(d, f)]
    BY <1>3 DEF EndSweep, Load
  <2>3. Good(f)
    BY LoadsGood
  <2>4. Good(WriteRecords(d, f))
    BY <2>3, WriteRecordsGood
  <2>5. ledger' = ledger
    BY <1>3 DEF EndSweep
  <2>6. QED
    BY <2>1, <2>2, <2>4, <2>5 DEF AllGood
<1>4. ASSUME NEW d \in Daemon, SaveHandoff(d) PROVE AllGood'
  <2>1. d \in Process
    BY DEF Process
  <2>2. ledger' \in Saves(d) /\ file' = [file EXCEPT ![d] = Empty]
    BY <1>4 DEF SaveHandoff, Save
  <2>3. QED
    BY <2>1, <2>2, SavesGood, EmptyFile DEF AllGood, Good
<1>5. ASSUME NEW d \in Daemon, Shutdown(d) PROVE AllGood'
  <2>1. CASE UNCHANGED file
    BY <1>5, <2>1 DEF Shutdown, AllGood
  <2>2. CASE \E f \in Loads : Load(d, "leaving", ExitMerged(d, f))
    <3>1. d \in Process
      BY DEF Process
    <3>2. PICK f \in Loads : file' = [file EXCEPT ![d] = ExitMerged(d, f)]
      BY <2>2 DEF Load
    <3>3. Good(ExitMerged(d, f))
      BY LoadsGood, ExitMergedGood
    <3>4. QED
      BY <1>5, <3>1, <3>2, <3>3 DEF Shutdown, AllGood
  <2>3. QED
    BY <1>5, <2>1, <2>2 DEF Shutdown
<1>6. ASSUME NEW d \in Daemon, SaveExit(d) PROVE AllGood'
  <2>1. d \in Process
    BY DEF Process
  <2>2. ledger' \in Saves(d) /\ file' = [file EXCEPT ![d] = Empty]
    BY <1>6 DEF SaveExit, Save
  <2>3. QED
    BY <2>1, <2>2, SavesGood, EmptyFile DEF AllGood, Good
<1>7. ASSUME NEW d \in Daemon, Die(d) PROVE AllGood'
  BY <1>7, EmptyFile DEF Die, vars, AllGood, Process, Good
<1>8. ASSUME NEW w \in Wrapper, NEW s \in Session, Lookup(w, s) PROVE AllGood'
  BY <1>8 DEF Lookup, vars, AllGood
<1>9. ASSUME NEW w \in Wrapper, PruneLoad(w) PROVE AllGood'
  <2>1. w \in Process
    BY DEF Process
  <2>2. PICK f \in Loads : file' = [file EXCEPT ![w] = Only(f, {r \in In(f) : r.session \notin stale[w]})]
    BY <1>9 DEF PruneLoad, Load
  <2>3. Good(f)
    BY LoadsGood
  <2>4. Good(Only(f, {r \in In(f) : r.session \notin stale[w]}))
    BY <2>3, OnlyGood
  <2>5. ledger' = ledger
    BY <1>9 DEF PruneLoad
  <2>6. QED
    BY <2>1, <2>2, <2>4, <2>5 DEF AllGood
<1>10. ASSUME NEW w \in Wrapper, PruneSave(w) PROVE AllGood'
  <2>1. w \in Process
    BY DEF Process
  <2>2. ledger' \in Saves(w) /\ file' = [file EXCEPT ![w] = Empty]
    BY <1>10 DEF PruneSave, Save
  <2>3. QED
    BY <2>1, <2>2, SavesGood, EmptyFile DEF AllGood, Good
<1>11. ASSUME NEW w \in Wrapper, ClearLoad(w) PROVE AllGood'
  <2>1. w \in Process
    BY DEF Process
  <2>2. PICK f \in Loads : file' = [file EXCEPT ![w] = Only(f, {r \in In(f) : r.session # want[w]})]
    BY <1>11 DEF ClearLoad, Load
  <2>3. Good(f)
    BY LoadsGood
  <2>4. Good(Only(f, {r \in In(f) : r.session # want[w]}))
    BY <2>3, OnlyGood
  <2>5. ledger' = ledger
    BY <1>11 DEF ClearLoad
  <2>6. QED
    BY <2>1, <2>2, <2>4, <2>5 DEF AllGood
<1>12. ASSUME NEW w \in Wrapper, ClearSave(w) PROVE AllGood'
  <2>1. w \in Process
    BY DEF Process
  <2>2. ledger' \in Saves(w) /\ file' = [file EXCEPT ![w] = Empty]
    BY <1>12 DEF ClearSave, Save
  <2>3. QED
    BY <2>1, <2>2, SavesGood, EmptyFile DEF AllGood, Good
<1>13. ASSUME NEW w \in Wrapper, Launch(w) PROVE AllGood'
  BY <1>13 DEF Launch, vars, AllGood
<1>14. CASE Tick
  BY <1>14 DEF Tick, vars, AllGood
<1>15. CASE UNCHANGED vars
  BY <1>15 DEF vars, AllGood
<1>16. QED
  BY <1>1, <1>2, <1>3, <1>4, <1>5, <1>6, <1>7, <1>8, <1>9, <1>10, <1>11, <1>12, <1>13,
     <1>14, <1>15 DEF Next

\* What was committed stays so in the next state.
LEMMA CommittedStays ==
    IInv /\ [Next]_vars =>
        /\ \A r \in In(ledger) : r.by = None => pc'[r.writer] \in Committed
        /\ \A p \in Process : \A r \in In(file[p]) : r.by = None => pc'[r.writer] \in Committed
<1> SUFFICES ASSUME IInv, [Next]_vars
             PROVE  /\ \A r \in In(ledger) : r.by = None => pc'[r.writer] \in Committed
                    /\ \A p \in Process : \A r \in In(file[p]) :
                           r.by = None => pc'[r.writer] \in Committed
  OBVIOUS
<1>1. \A e \in Daemon : pc[e] \in Committed => pc'[e] \in Committed
  BY StepPc DEF IInv, LeavesForGood
<1>2. \A f : Good(f) => \A r \in In(f) : r.writer \in Daemon
  BY RecordFields DEF Good, IsFile
<1>3. AllGood
  BY InvGood
<1>4. QED
  BY <1>1, <1>2, <1>3 DEF IInv, AllCommitted, DeathIsCommitted, AllGood, Committed

AllDead ==
    /\ \A r \in In(ledger) : r.by = None => pc[r.writer] \in Committed
    /\ \A p \in Process : \A r \in In(file[p]) : r.by = None => pc[r.writer] \in Committed

\* Every record of a death is the word of a daemon that has left its loop.
LEMMA StepCommitted == IInv /\ [Next]_vars => AllDead'
<1> SUFFICES ASSUME IInv, [Next]_vars PROVE AllDead'
  OBVIOUS
<1>0. /\ TypeOK /\ AllGood /\ DOMAIN file = Process
      /\ \A r \in In(ledger) : r.by = None => pc'[r.writer] \in Committed
      /\ \A p \in Process : \A r \in In(file[p]) : r.by = None => pc'[r.writer] \in Committed
  BY InvGood, CommittedStays DEF IInv, TypeOK
<1> USE <1>0
<1> USE DEF AllDead
<1>1. ASSUME NEW d \in Daemon, Boot(d) PROVE AllDead'
  BY <1>1 DEF Boot, vars, AllDead
<1>2. ASSUME NEW d \in Daemon, NEW b \in Daemon, NEW s \in Session, Move(d, b, s)
      PROVE  AllDead'
  BY <1>2 DEF Move, vars, AllDead
<1>3. ASSUME NEW d \in Daemon, EndSweep(d) PROVE AllDead'
  <2>1. d \in Process
    BY DEF Process
  <2>2. PICK f \in Loads : file' = [file EXCEPT ![d] = WriteRecords(d, f)]
    BY <1>3 DEF EndSweep, Load
  <2>3. Good(f) /\ In(f) \subseteq In(ledger)
    BY LoadsGood, EmptyFile DEF Loads
  <2>4. \A r \in In(WriteRecords(d, f)) : r \in In(ledger) \/ r.by # None
    BY <2>3, WriteRecordsGood
  <2>5. ledger' = ledger
    BY <1>3 DEF EndSweep
  <2>6. QED
    BY <2>1, <2>2, <2>4, <2>5
<1>4. ASSUME NEW d \in Daemon, SaveHandoff(d) PROVE AllDead'
  <2>1. d \in Process
    BY DEF Process
  <2>2. ledger' \in Saves(d) /\ file' = [file EXCEPT ![d] = Empty]
    BY <1>4 DEF SaveHandoff, Save
  <2>3. ledger' = ledger \/ ledger' = file[d]
    BY <2>2 DEF Saves
  <2>4. QED
    BY <2>1, <2>2, <2>3, EmptyFile
<1>5. ASSUME NEW d \in Daemon, Shutdown(d) PROVE AllDead'
  <2>1. CASE UNCHANGED file
    BY <1>5, <2>1 DEF Shutdown
  <2>2. CASE \E f \in Loads : Load(d, "leaving", ExitMerged(d, f))
    <3>1. d \in Process
      BY DEF Process
    <3>2. PICK f \in Loads : /\ file' = [file EXCEPT ![d] = ExitMerged(d, f)]
                            /\ pc' = [pc EXCEPT ![d] = "leaving"]
      BY <2>2 DEF Load
    <3>3. Good(f) /\ In(f) \subseteq In(ledger)
      BY LoadsGood, EmptyFile DEF Loads
    <3>4. \A r \in In(ExitMerged(d, f)) : r \in In(ledger) \/ r.writer = d
      BY <3>3, ExitMergedGood
    <3>5. pc'[d] \in Committed
      BY <3>1, <3>2 DEF Committed, TypeOK
    <3>6. QED
      BY <1>5, <3>1, <3>2, <3>4, <3>5 DEF Shutdown
  <2>3. QED
    BY <1>5, <2>1, <2>2 DEF Shutdown
<1>6. ASSUME NEW d \in Daemon, SaveExit(d) PROVE AllDead'
  <2>1. d \in Process
    BY DEF Process
  <2>2. ledger' \in Saves(d) /\ file' = [file EXCEPT ![d] = Empty]
    BY <1>6 DEF SaveExit, Save
  <2>3. ledger' = ledger \/ ledger' = file[d]
    BY <2>2 DEF Saves
  <2>4. QED
    BY <2>1, <2>2, <2>3, EmptyFile
<1>7. ASSUME NEW d \in Daemon, Die(d) PROVE AllDead'
  BY <1>7, EmptyFile DEF Die, vars, AllDead, Process
<1>8. ASSUME NEW w \in Wrapper, NEW s \in Session, Lookup(w, s) PROVE AllDead'
  BY <1>8 DEF Lookup, vars, AllDead
<1>9. ASSUME NEW w \in Wrapper, PruneLoad(w) PROVE AllDead'
  <2>1. w \in Process
    BY DEF Process
  <2>2. PICK f \in Loads : file' = [file EXCEPT ![w] = Only(f, {r \in In(f) : r.session \notin stale[w]})]
    BY <1>9 DEF PruneLoad, Load
  <2>3. Good(f) /\ In(f) \subseteq In(ledger)
    BY LoadsGood, EmptyFile DEF Loads
  <2>4. \A r \in In(Only(f, {r \in In(f) : r.session \notin stale[w]})) : r \in In(ledger) \/ r.by # None
    BY <2>3, OnlyGood
  <2>5. ledger' = ledger
    BY <1>9 DEF PruneLoad
  <2>6. QED
    BY <2>1, <2>2, <2>4, <2>5
<1>10. ASSUME NEW w \in Wrapper, PruneSave(w) PROVE AllDead'
  <2>1. w \in Process
    BY DEF Process
  <2>2. ledger' \in Saves(w) /\ file' = [file EXCEPT ![w] = Empty]
    BY <1>10 DEF PruneSave, Save
  <2>3. ledger' = ledger \/ ledger' = file[w]
    BY <2>2 DEF Saves
  <2>4. QED
    BY <2>1, <2>2, <2>3, EmptyFile
<1>11. ASSUME NEW w \in Wrapper, ClearLoad(w) PROVE AllDead'
  <2>1. w \in Process
    BY DEF Process
  <2>2. PICK f \in Loads : file' = [file EXCEPT ![w] = Only(f, {r \in In(f) : r.session # want[w]})]
    BY <1>11 DEF ClearLoad, Load
  <2>3. Good(f) /\ In(f) \subseteq In(ledger)
    BY LoadsGood, EmptyFile DEF Loads
  <2>4. \A r \in In(Only(f, {r \in In(f) : r.session # want[w]})) : r \in In(ledger) \/ r.by # None
    BY <2>3, OnlyGood
  <2>5. ledger' = ledger
    BY <1>11 DEF ClearLoad
  <2>6. QED
    BY <2>1, <2>2, <2>4, <2>5
<1>12. ASSUME NEW w \in Wrapper, ClearSave(w) PROVE AllDead'
  <2>1. w \in Process
    BY DEF Process
  <2>2. ledger' \in Saves(w) /\ file' = [file EXCEPT ![w] = Empty]
    BY <1>12 DEF ClearSave, Save
  <2>3. ledger' = ledger \/ ledger' = file[w]
    BY <2>2 DEF Saves
  <2>4. QED
    BY <2>1, <2>2, <2>3, EmptyFile
<1>13. ASSUME NEW w \in Wrapper, Launch(w) PROVE AllDead'
  BY <1>13 DEF Launch, vars, AllDead
<1>14. CASE Tick
  BY <1>14 DEF Tick, vars, AllDead
<1>15. CASE UNCHANGED vars
  BY <1>15 DEF vars, AllDead
<1>16. QED
  BY <1>1, <1>2, <1>3, <1>4, <1>5, <1>6, <1>7, <1>8, <1>9, <1>10, <1>11, <1>12, <1>13,
     <1>14, <1>15 DEF Next

\* The initial states satisfy the invariant.
LEMMA InitIInv == Init => IInv
<1> SUFFICES ASSUME Init PROVE IInv
  OBVIOUS
<1>1. ledger = Empty /\ \A p \in Process : file[p] = Empty
  BY DEF Init
<1>2. AllSole /\ AllCommitted
  BY <1>1, EmptyFile DEF AllSole, AllCommitted, DeathIsCommitted
<1>3. TypeOK
  BY <1>1, EmptyFile, ConstantsAssumption
     DEF Init, TypeOK, Process, DaemonPc, WrapperPc
<1>4. QED
  BY <1>2, <1>3 DEF IInv

\* The invariant holds in every reachable state.
LEMMA Invariance == Spec => []IInv
<1>1. IInv /\ [Next]_vars => IInv'
  <2> SUFFICES ASSUME IInv, [Next]_vars PROVE IInv'
    OBVIOUS
  <2>1. PlainTypes' /\ AllGood' /\ AllDead'
    BY StepPlain, StepGood, StepCommitted
  <2>2. TypeOK' /\ AllSole'
    BY <2>1 DEF PlainTypes, AllGood, Good, TypeOK, AllSole
  <2>3. AllCommitted'
    BY <2>1 DEF AllDead, AllCommitted, DeathIsCommitted, Committed
  <2>4. QED
    BY <2>2, <2>3 DEF IInv
<1>2. QED
  BY InitIInv, <1>1, PTL DEF Spec

\* Type correctness.
THEOREM TypeCorrect == Spec => []TypeOK
<1>1. IInv => TypeOK
  BY DEF IInv
<1>2. QED
  BY Invariance, <1>1, PTL

\* The ledger never holds two records of one pid about one row, for any
\* number of daemons and wrappers that load and rename at will.
THEOREM LedgerStaysBounded == Spec => []OneWitnessPerRow
<1>1. IInv => OneWitnessPerRow
  BY DEF IInv, AllSole, OneWitnessPerRow
<1>2. QED
  BY Invariance, <1>1, PTL

\* No record of a death, not even one renamed back by a slower writer, is
\* about a daemon that still serves.
THEOREM DeathsAreTrue == Spec => []DiedIsNotServed
<1>1. IInv => DiedIsNotServed
  BY DEF IInv, AllCommitted, DiedIsNotServed
<1>2. QED
  BY Invariance, <1>1, PTL
=============================================================================
