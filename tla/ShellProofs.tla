---------------------------- MODULE ShellProofs ----------------------------
(***************************************************************************)
(* Proofs about the two components that run in yggterm-shell: the clients  *)
(* of the web profile lock (ProfileLock), for any number of clients, and   *)
(* the mount loop with its output fence (SeedFence), for any number of     *)
(* runtimes, chunks and disturbances.  The two parts share nothing.        *)
(*                                                                         *)
(* ProfileLock.  A client counts on the lock from the moment the verdict   *)
(* on its surface is "writable" until its last surface is gone (Counts).   *)
(* SoleWriter is inductive only over all of that time (CountsOK): the      *)
(* verdict and the cached held entry turn into an open jar without asking  *)
(* the daemon again.                                                       *)
(*                                                                         *)
(* SeedFence.  The argument is about one sequence, the Pipeline: what the  *)
(* page shows, and behind it what is staged, fenced and on the bridge, in  *)
(* painting order.  Every write and every flush only thins it (Thins): it  *)
(* adds nothing, keeps the order, and what no longer shows was reported.   *)
(* OrderKept follows once a round's chunks are known to follow every chunk *)
(* on its way (CountInv, RunInv).  NothingLost needs more, for there are   *)
(* two places where output is thrown away unreported.  drop_seed_covered:  *)
(* a dropped batch that would have shown holds nothing beyond its own      *)
(* number, and all batches before it go too, so that the seed's screen     *)
(* shows instead (CoverInv, ShutInv).  The dedupe of later rounds: no      *)
(* chunk with the stamp's number is on its way (AccountInv), so that what  *)
(* the page shows of it is the seed or a later screen (SeenInv), which is  *)
(* of the stream's runtime (OneRuntimeInv).                                *)
(***************************************************************************)
EXTENDS ProfileLock, SeedFence, SequenceTheorems, WellFoundedInduction, TLAPS

-----------------------------------------------------------------------------
(***************************************************************************)
(* The web profile write lock                                              *)
(***************************************************************************)
Counts(c) == c \in held \/ c \in jar \/ ask[c] = "writable"

AskOK == \A c \in Client : ask[c] # "no" => c \in up

CountsOK ==
    ~restarted /\ ~erred =>
        \A c \in Client : Counts(c) => holder = c \/ c \in Shadow \cap preempted

GrantedOK == \A c \in Shadow : Counts(c) => c \in granted

IInv == TypeOK /\ AskOK /\ CountsOK /\ GrantedOK

\* The initial states satisfy the invariant.
LEMMA InitIInv == Init => IInv
BY ClientAssumption
   DEF Init, IInv, TypeOK, AskOK, CountsOK, GrantedOK, Counts, Client

\* The types are preserved.
LEMMA StepType == IInv /\ [Next]_vars => TypeOK'
<1> SUFFICES ASSUME IInv, [Next]_vars PROVE TypeOK'
  OBVIOUS
<1> USE ClientAssumption
<1> USE DEF IInv, Client
<1>1. CASE DaemonRestart
  BY <1>1 DEF DaemonRestart, vars, daemonVars, clientVars, historyVars, TypeOK
<1>2. ASSUME NEW c \in Client, Start(c) PROVE TypeOK'
  BY <1>2 DEF Start, vars, daemonVars, clientVars, historyVars, TypeOK
<1>3. ASSUME NEW c \in Client, Die(c) PROVE TypeOK'
  BY <1>3 DEF Die, vars, daemonVars, clientVars, historyVars, TypeOK
<1>4. ASSUME NEW c \in Client, ReusePid(c) PROVE TypeOK'
  BY <1>4 DEF ReusePid, vars, daemonVars, clientVars, historyVars, TypeOK
<1>5. ASSUME NEW c \in Client, FreePid(c) PROVE TypeOK'
  BY <1>5 DEF FreePid, vars, daemonVars, clientVars, historyVars, TypeOK
<1>6. ASSUME NEW c \in Client, AskCached(c) PROVE TypeOK'
  BY <1>6 DEF AskCached, vars, daemonVars, clientVars, historyVars, TypeOK
<1>7. ASSUME NEW c \in Client, Ask(c) PROVE TypeOK'
  BY <1>7 DEF Ask, vars, daemonVars, clientVars, historyVars, TypeOK, Acquired,
     Displaced
<1>8. ASSUME NEW c \in Client, AskErrs(c) PROVE TypeOK'
  BY <1>8 DEF AskErrs, vars, daemonVars, clientVars, historyVars, TypeOK, Acquired,
     Displaced
<1>9. ASSUME NEW c \in Client, Open(c) PROVE TypeOK'
  BY <1>9 DEF Open, vars, daemonVars, clientVars, historyVars, TypeOK, AskOK
<1>10. ASSUME NEW c \in Client, CreateFails(c) PROVE TypeOK'
  BY <1>10 DEF CreateFails, vars, daemonVars, clientVars, historyVars, TypeOK, EndTick,
     Released, NothingInUse, AskOK
<1>11. ASSUME NEW c \in Client, Close(c) PROVE TypeOK'
  BY <1>11 DEF Close, vars, daemonVars, clientVars, historyVars, TypeOK, EndTick,
     Released, NothingInUse, VerbAfterClose
<1>12. ASSUME NEW c \in Client, Check(c) PROVE TypeOK'
  BY <1>12 DEF Check, vars, daemonVars, clientVars, historyVars, TypeOK, Reaped
<1>13. ASSUME NEW c \in Client, Inject(c) PROVE TypeOK'
  BY <1>13 DEF Inject, vars, daemonVars, clientVars, historyVars, TypeOK
<1>14. CASE UNCHANGED vars
  BY <1>14 DEF vars, daemonVars, clientVars, historyVars, TypeOK
<1>15. QED
  BY <1>1, <1>2, <1>3, <1>4, <1>5, <1>6, <1>7, <1>8, <1>9, <1>10, <1>11, <1>12, <1>13,
     <1>14 DEF Next

\* Only running clients open surfaces.
LEMMA StepAsk == IInv /\ [Next]_vars => AskOK'
<1> SUFFICES ASSUME IInv, [Next]_vars PROVE AskOK'
  OBVIOUS
<1> USE ClientAssumption
<1> USE DEF IInv, Client
<1>1. CASE DaemonRestart
  BY <1>1 DEF DaemonRestart, vars, daemonVars, clientVars, historyVars, AskOK, TypeOK
<1>2. ASSUME NEW c \in Client, Start(c) PROVE AskOK'
  BY <1>2 DEF Start, vars, daemonVars, clientVars, historyVars, AskOK, TypeOK
<1>3. ASSUME NEW c \in Client, Die(c) PROVE AskOK'
  BY <1>3 DEF Die, vars, daemonVars, clientVars, historyVars, AskOK, TypeOK
<1>4. ASSUME NEW c \in Client, ReusePid(c) PROVE AskOK'
  BY <1>4 DEF ReusePid, vars, daemonVars, clientVars, historyVars, AskOK, TypeOK
<1>5. ASSUME NEW c \in Client, FreePid(c) PROVE AskOK'
  BY <1>5 DEF FreePid, vars, daemonVars, clientVars, historyVars, AskOK, TypeOK
<1>6. ASSUME NEW c \in Client, AskCached(c) PROVE AskOK'
  BY <1>6 DEF AskCached, vars, daemonVars, clientVars, historyVars, AskOK, TypeOK
<1>7. ASSUME NEW c \in Client, Ask(c) PROVE AskOK'
  BY <1>7 DEF Ask, vars, daemonVars, clientVars, historyVars, AskOK, TypeOK
<1>8. ASSUME NEW c \in Client, AskErrs(c) PROVE AskOK'
  BY <1>8 DEF AskErrs, vars, daemonVars, clientVars, historyVars, AskOK, TypeOK
<1>9. ASSUME NEW c \in Client, Open(c) PROVE AskOK'
  BY <1>9 DEF Open, vars, daemonVars, clientVars, historyVars, AskOK, TypeOK
<1>10. ASSUME NEW c \in Client, CreateFails(c) PROVE AskOK'
  BY <1>10 DEF CreateFails, vars, daemonVars, clientVars, historyVars, AskOK, TypeOK
<1>11. ASSUME NEW c \in Client, Close(c) PROVE AskOK'
  BY <1>11 DEF Close, vars, daemonVars, clientVars, historyVars, AskOK, TypeOK
<1>12. ASSUME NEW c \in Client, Check(c) PROVE AskOK'
  BY <1>12 DEF Check, vars, daemonVars, clientVars, historyVars, AskOK, TypeOK
<1>13. ASSUME NEW c \in Client, Inject(c) PROVE AskOK'
  BY <1>13 DEF Inject, vars, daemonVars, clientVars, historyVars, AskOK, TypeOK
<1>14. CASE UNCHANGED vars
  BY <1>14 DEF vars, daemonVars, clientVars, historyVars, AskOK, TypeOK
<1>15. QED
  BY <1>1, <1>2, <1>3, <1>4, <1>5, <1>6, <1>7, <1>8, <1>9, <1>10, <1>11, <1>12, <1>13,
     <1>14 DEF Next

\* A client that counts on the lock has it, or has been preempted.
LEMMA StepCounts == IInv /\ [Next]_vars => CountsOK'
<1> SUFFICES ASSUME IInv, [Next]_vars PROVE CountsOK'
  OBVIOUS
<1> USE ClientAssumption
<1> USE DEF IInv, Client
<1>1. CASE DaemonRestart
  BY <1>1 DEF DaemonRestart, vars, daemonVars, clientVars, historyVars, CountsOK,
     Counts, TypeOK, AskOK
<1>2. ASSUME NEW c \in Client, Start(c) PROVE CountsOK'
  BY <1>2 DEF Start, vars, daemonVars, clientVars, historyVars, CountsOK, Counts,
     TypeOK, AskOK
<1>3. ASSUME NEW c \in Client, Die(c) PROVE CountsOK'
  BY <1>3 DEF Die, vars, daemonVars, clientVars, historyVars, CountsOK, Counts, TypeOK,
     AskOK
<1>4. ASSUME NEW c \in Client, ReusePid(c) PROVE CountsOK'
  BY <1>4 DEF ReusePid, vars, daemonVars, clientVars, historyVars, CountsOK, Counts,
     TypeOK, AskOK
<1>5. ASSUME NEW c \in Client, FreePid(c) PROVE CountsOK'
  BY <1>5 DEF FreePid, vars, daemonVars, clientVars, historyVars, CountsOK, Counts,
     TypeOK, AskOK
<1>6. ASSUME NEW c \in Client, AskCached(c) PROVE CountsOK'
  BY <1>6 DEF AskCached, vars, daemonVars, clientVars, historyVars, CountsOK, Counts,
     TypeOK, AskOK
<1>7. ASSUME NEW c \in Client, Ask(c) PROVE CountsOK'
  BY <1>7 DEF Ask, vars, daemonVars, clientVars, historyVars, CountsOK, Counts, TypeOK,
     AskOK, Acquired, Displaced, Writable, MayPreempt, IsAlive
<1>8. ASSUME NEW c \in Client, AskErrs(c) PROVE CountsOK'
  BY <1>8 DEF AskErrs, vars, daemonVars, clientVars, historyVars, CountsOK, Counts,
     TypeOK, AskOK
<1>9. ASSUME NEW c \in Client, Open(c) PROVE CountsOK'
  BY <1>9 DEF Open, vars, daemonVars, clientVars, historyVars, CountsOK, Counts,
     TypeOK, AskOK
<1>10. ASSUME NEW c \in Client, CreateFails(c) PROVE CountsOK'
  BY <1>10 DEF CreateFails, vars, daemonVars, clientVars, historyVars, CountsOK,
     Counts, TypeOK, AskOK, EndTick, Released, NothingInUse
<1>11. ASSUME NEW c \in Client, Close(c) PROVE CountsOK'
  BY <1>11 DEF Close, vars, daemonVars, clientVars, historyVars, CountsOK, Counts,
     TypeOK, AskOK, EndTick, Released, NothingInUse
<1>12. ASSUME NEW c \in Client, Check(c) PROVE CountsOK'
  BY <1>12 DEF Check, vars, daemonVars, clientVars, historyVars, CountsOK, Counts,
     TypeOK, AskOK, Reaped, IsAlive
<1>13. ASSUME NEW c \in Client, Inject(c) PROVE CountsOK'
  BY <1>13 DEF Inject, vars, daemonVars, clientVars, historyVars, CountsOK, Counts,
     TypeOK, AskOK
<1>14. CASE UNCHANGED vars
  BY <1>14 DEF vars, daemonVars, clientVars, historyVars, CountsOK, Counts, TypeOK,
     AskOK
<1>15. QED
  BY <1>1, <1>2, <1>3, <1>4, <1>5, <1>6, <1>7, <1>8, <1>9, <1>10, <1>11, <1>12, <1>13,
     <1>14 DEF Next

\* A Shadow that counts on the lock was given it.
LEMMA StepGranted == IInv /\ [Next]_vars => GrantedOK'
<1> SUFFICES ASSUME IInv, [Next]_vars PROVE GrantedOK'
  OBVIOUS
<1> USE ClientAssumption
<1> USE DEF IInv, Client
<1>1. CASE DaemonRestart
  BY <1>1 DEF DaemonRestart, vars, daemonVars, clientVars, historyVars, GrantedOK,
     Counts, TypeOK
<1>2. ASSUME NEW c \in Client, Start(c) PROVE GrantedOK'
  BY <1>2 DEF Start, vars, daemonVars, clientVars, historyVars, GrantedOK, Counts,
     TypeOK
<1>3. ASSUME NEW c \in Client, Die(c) PROVE GrantedOK'
  BY <1>3 DEF Die, vars, daemonVars, clientVars, historyVars, GrantedOK, Counts, TypeOK
<1>4. ASSUME NEW c \in Client, ReusePid(c) PROVE GrantedOK'
  BY <1>4 DEF ReusePid, vars, daemonVars, clientVars, historyVars, GrantedOK, Counts,
     TypeOK
<1>5. ASSUME NEW c \in Client, FreePid(c) PROVE GrantedOK'
  BY <1>5 DEF FreePid, vars, daemonVars, clientVars, historyVars, GrantedOK, Counts,
     TypeOK
<1>6. ASSUME NEW c \in Client, AskCached(c) PROVE GrantedOK'
  BY <1>6 DEF AskCached, vars, daemonVars, clientVars, historyVars, GrantedOK, Counts,
     TypeOK
<1>7. ASSUME NEW c \in Client, Ask(c) PROVE GrantedOK'
  BY <1>7 DEF Ask, vars, daemonVars, clientVars, historyVars, GrantedOK, Counts, TypeOK
<1>8. ASSUME NEW c \in Client, AskErrs(c) PROVE GrantedOK'
  BY <1>8 DEF AskErrs, vars, daemonVars, clientVars, historyVars, GrantedOK, Counts,
     TypeOK, WritableOnError
<1>9. ASSUME NEW c \in Client, Open(c) PROVE GrantedOK'
  BY <1>9 DEF Open, vars, daemonVars, clientVars, historyVars, GrantedOK, Counts, TypeOK
<1>10. ASSUME NEW c \in Client, CreateFails(c) PROVE GrantedOK'
  BY <1>10 DEF CreateFails, vars, daemonVars, clientVars, historyVars, GrantedOK,
     Counts, TypeOK, EndTick, Released, NothingInUse
<1>11. ASSUME NEW c \in Client, Close(c) PROVE GrantedOK'
  BY <1>11 DEF Close, vars, daemonVars, clientVars, historyVars, GrantedOK, Counts,
     TypeOK, EndTick, Released, NothingInUse
<1>12. ASSUME NEW c \in Client, Check(c) PROVE GrantedOK'
  BY <1>12 DEF Check, vars, daemonVars, clientVars, historyVars, GrantedOK, Counts,
     TypeOK
<1>13. ASSUME NEW c \in Client, Inject(c) PROVE GrantedOK'
  BY <1>13 DEF Inject, vars, daemonVars, clientVars, historyVars, GrantedOK, Counts,
     TypeOK
<1>14. CASE UNCHANGED vars
  BY <1>14 DEF vars, daemonVars, clientVars, historyVars, GrantedOK, Counts, TypeOK
<1>15. QED
  BY <1>1, <1>2, <1>3, <1>4, <1>5, <1>6, <1>7, <1>8, <1>9, <1>10, <1>11, <1>12, <1>13,
     <1>14 DEF Next

\* The invariant holds in every reachable state.
LEMMA Invariance == Spec => []IInv
<1>1. IInv /\ [Next]_vars => IInv'
  BY StepType, StepAsk, StepCounts, StepGranted DEF IInv
<1>2. QED
  BY InitIInv, <1>1, PTL DEF Spec

\* Type correctness.
THEOREM TypeCorrect == Spec => []TypeOK
<1>1. IInv => TypeOK
  BY DEF IInv
<1>2. QED
  BY Invariance, <1>1, PTL

\* acquire never makes a second writer: while one daemon answers, whoever has the
\* jar open is the holder, or a Shadow an Active client has preempted.
THEOREM OneWriter == Spec => []SoleWriter
<1>1. IInv => SoleWriter
  BY DEF IInv, TypeOK, CountsOK, Counts, SoleWriter, Client
<1>2. QED
  BY Invariance, <1>1, PTL

\* The reconciler's fallback by role: a Shadow opens no jar it was not given.
THEOREM ShadowFailsClosed == Spec => []ShadowJarWasGranted
<1>1. IInv => ShadowJarWasGranted
  BY DEF IInv, TypeOK, GrantedOK, Counts, ShadowJarWasGranted, Client
<1>2. QED
  BY Invariance, <1>1, PTL

\* acquire and reap_dead: a live holder loses the lock to nobody but, as a Shadow,
\* to an Active client.
THEOREM LiveHolderIsSafe == Spec => LiveHolderYieldsOnlyToActive
<1> DEFINE Yields == \A c \in up :
                       holder = c => (\/ holder' \in {c, None}
                                      \/ c \in Shadow /\ holder' \in Active)
<1>1. IInv /\ [Next]_vars => [Yields]_vars
  <2> SUFFICES ASSUME IInv, Next PROVE Yields
    OBVIOUS
  <2> USE ClientAssumption
  <2> USE DEF IInv, TypeOK, Client
  <2>1. CASE DaemonRestart
    BY <2>1 DEF DaemonRestart
  <2>2. ASSUME NEW c \in Client,
               Start(c) \/ Die(c) \/ ReusePid(c) \/ FreePid(c) \/ AskCached(c)
               \/ Open(c) \/ Inject(c)
        PROVE  Yields
    BY <2>2 DEF Start, Die, ReusePid, FreePid, AskCached, Open, Inject, daemonVars
  <2>3. ASSUME NEW c \in Client, Ask(c) \/ AskErrs(c) PROVE Yields
    BY <2>3 DEF Ask, AskErrs, Acquired, Writable, MayPreempt, IsAlive
  <2>4. ASSUME NEW c \in Client, CreateFails(c) \/ Close(c) PROVE Yields
    BY <2>4 DEF CreateFails, Close, EndTick, Released
  <2>5. ASSUME NEW c \in Client, Check(c) PROVE Yields
    BY <2>5 DEF Check, Reaped, IsAlive
  <2>6. QED
    BY <2>1, <2>2, <2>3, <2>4, <2>5 DEF Next
<1>2. QED
  BY Invariance, <1>1, PTL DEF Spec, LiveHolderYieldsOnlyToActive

-----------------------------------------------------------------------------
(***************************************************************************)
(* The output fence of a synthesized terminal mount                        *)
(***************************************************************************)

-----------------------------------------------------------------------------
(* Induction on naturals and on sequences, stated with sets.               *)

\* A nonempty set of naturals has a least element.
LEMMA LeastNatural ==
    ASSUME NEW T \in SUBSET Nat, T # {}
    PROVE  \E n \in T : \A m \in T : n <= m
<1>1. \E n \in T : \A m \in T : ~(<<m, n>> \in OpToRel(<, Nat))
  BY NatLessThanWellFounded, WFMin
<1>2. PICK n \in T : \A m \in T : ~(<<m, n>> \in OpToRel(<, Nat))
  BY <1>1
<1>3. \A m \in T : ~(m < n)
  BY <1>2 DEF OpToRel
<1>4. QED
  BY <1>3

\* A set that has the empty sequence and is closed under Append has them all.
LEMMA AppendInduction ==
    ASSUME NEW S, NEW G \in SUBSET Seq(S), <<>> \in G,
           \A s \in G, e \in S : Append(s, e) \in G
    PROVE  G = Seq(S)
<1> DEFINE T == {Len(s) : s \in Seq(S) \ G}
<1> SUFFICES ASSUME T # {} PROVE FALSE
  OBVIOUS
<1>1. T \in SUBSET Nat
  OBVIOUS
<1>2. PICK n \in T : \A m \in T : n <= m
  <2> HIDE DEF T
  <2>1. QED
    BY <1>1, LeastNatural
<1>3. PICK s \in Seq(S) : s \notin G /\ Len(s) = n
  BY <1>2
<1>4. s # <<>>
  BY <1>3
<1>5. PICK t \in Seq(S), e \in S : s = Append(t, e)
  BY <1>4, SequenceEmptyOrAppend
<1>6. Len(t) < n
  BY <1>3, <1>5
<1>7. t \in G
  <2>1. t \notin G => Len(t) \in T
    OBVIOUS
  <2>2. Len(t) \in T => n <= Len(t)
    BY <1>2
  <2>3. n \in Nat /\ Len(t) \in Nat
    BY <1>1
  <2>4. QED
    BY <1>6, <2>1, <2>2, <2>3
<1>8. QED
  BY <1>3, <1>5, <1>7

-----------------------------------------------------------------------------
(* FlattenSeq                                                              *)

\* The recursive function by which FlattenSeq is defined.
FlattensTo(s, f) == f = [i \in 1..Len(s) |-> IF i = 1 THEN s[i] ELSE f[i - 1] \o s[i]]

\* FlattenSeq of nothing.
LEMMA FlattenSeqEmpty == FlattenSeq(<<>>) = <<>>
BY DEF FlattenSeq

\* There is such a function.
LEMMA FlattenExists ==
    ASSUME NEW S, NEW s \in Seq(Seq(S))
    PROVE  \E f : FlattensTo(s, f)
<1> DEFINE G == {t \in Seq(Seq(S)) : \E f : FlattensTo(t, f)}
<1>1. <<>> \in G
  <2>1. FlattensTo(<<>>, [i \in 1..0 |-> <<>>])
    BY DEF FlattensTo
  <2>2. QED
    BY <2>1
<1>2. ASSUME NEW t \in G, NEW e \in Seq(S) PROVE Append(t, e) \in G
  <2>1. PICK f : FlattensTo(t, f)
    OBVIOUS
  <2> DEFINE u == Append(t, e)
             m == Len(t) + 1
             g == [i \in 1..m |-> IF i < m THEN f[i] ELSE IF m = 1 THEN e ELSE f[m - 1] \o e]
  <2>2. u \in Seq(Seq(S)) /\ Len(u) = m /\ u[m] = e /\ \A i \in 1..Len(t) : u[i] = t[i]
    OBVIOUS
  <2>3. \A i \in 1..Len(t) : f[i] = IF i = 1 THEN t[i] ELSE f[i - 1] \o t[i]
    BY <2>1 DEF FlattensTo
  <2> HIDE DEF u
  <2>4. \A i \in 1..m : g[i] = IF i = 1 THEN u[i] ELSE g[i - 1] \o u[i]
    <3> TAKE i \in 1..m
    <3>1. CASE i < m
      <4>1. i \in 1..Len(t) /\ g[i] = f[i] /\ u[i] = t[i]
        BY <3>1, <2>2
      <4>2. i # 1 => g[i - 1] = f[i - 1]
        BY <4>1
      <4>3. QED
        BY <4>1, <4>2, <2>3
    <3>2. CASE i = m /\ m = 1
      BY <3>2, <2>2
    <3>3. CASE i = m /\ m # 1
      <4>1. g[i] = f[m - 1] \o e /\ g[i - 1] = f[m - 1]
        BY <3>3
      <4>2. QED
        BY <3>3, <4>1, <2>2
    <3>4. QED
      BY <3>1, <3>2, <3>3
  <2>5. g = [i \in 1..m |-> IF i = 1 THEN u[i] ELSE g[i - 1] \o u[i]]
    <3>1. g = [i \in 1..m |-> g[i]]
      OBVIOUS
    <3> HIDE DEF g
    <3>2. QED
      BY <2>4, <3>1
  <2>6. FlattensTo(u, g)
    BY <2>2, <2>5 DEF FlattensTo
  <2>7. QED
    BY <2>2, <2>6 DEF u
<1>3. G = Seq(Seq(S))
  <2>1. G \in SUBSET Seq(Seq(S))
    OBVIOUS
  <2> HIDE DEF G
  <2>2. QED
    BY <1>1, <1>2, <2>1, AppendInduction
<1>4. QED
  BY <1>3

\* FlattenSeq, by the function its definition chooses.
LEMMA FlattenSeqDef ==
    ASSUME NEW S, NEW s \in Seq(Seq(S)), s # <<>>
    PROVE  \E f : FlattensTo(s, f) /\ FlattenSeq(s) = f[Len(s)]
<1> DEFINE g == CHOOSE f : f = [i \in 1..Len(s) |-> IF i = 1 THEN s[i] ELSE f[i - 1] \o s[i]]
<1>1. FlattensTo(s, g)
  BY FlattenExists DEF FlattensTo
<1>2. Len(s) # 0
  OBVIOUS
<1>3. FlattenSeq(s) = g[Len(s)]
  BY <1>2 DEF FlattenSeq
<1>4. QED
  BY <1>1, <1>3

\* What FlattenSeq does with one more sequence at the end.
LEMMA FlattenSeqAppend ==
    ASSUME NEW S, NEW s \in Seq(Seq(S)), NEW e \in Seq(S)
    PROVE  FlattenSeq(Append(s, e)) = FlattenSeq(s) \o e
<1> DEFINE u == Append(s, e)
<1>1. u \in Seq(Seq(S)) /\ u # <<>> /\ Len(u) = Len(s) + 1 /\ u[Len(s) + 1] = e
      /\ \A i \in 1..Len(s) : u[i] = s[i]
  BY AppendProperties
<1> HIDE DEF u
<1>2. PICK g : FlattensTo(u, g) /\ FlattenSeq(u) = g[Len(u)]
  BY <1>1, FlattenSeqDef
<1>3. \A i \in 1..Len(u) : g[i] = IF i = 1 THEN u[i] ELSE g[i - 1] \o u[i]
  BY <1>2 DEF FlattensTo
<1>4. CASE s = <<>>
  <2>1. FlattenSeq(u) = e
    BY <1>1, <1>2, <1>3, <1>4
  <2>2. QED
    BY <2>1, <1>4, FlattenSeqEmpty DEF u
<1>5. CASE s # <<>>
  <2>1. PICK f : FlattensTo(s, f) /\ FlattenSeq(s) = f[Len(s)]
    BY <1>5, FlattenSeqDef
  <2>2. \A i \in 1..Len(s) : f[i] = IF i = 1 THEN s[i] ELSE f[i - 1] \o s[i]
    BY <2>1 DEF FlattensTo
  <2> DEFINE T == {i \in 1..Len(s) : f[i] # g[i]}
  <2>3. T = {}
    <3> SUFFICES ASSUME T # {} PROVE FALSE
      OBVIOUS
    <3>1. T \in SUBSET Nat
      OBVIOUS
    <3>2. PICK n \in T : \A m \in T : n <= m
      <4> HIDE DEF T
      <4>1. QED
        BY <3>1, LeastNatural
    <3>3. n \in 1..Len(s) /\ n \in 1..Len(u) /\ f[n] # g[n]
      BY <3>2, <1>1
    <3>4. n # 1
      BY <3>3, <1>1, <1>3, <2>2
    <3>5. f[n - 1] = g[n - 1]
      <4>1. n - 1 \in 1..Len(s) /\ ~(n <= n - 1)
        BY <3>3, <3>4
      <4>2. n - 1 \notin T
        BY <3>2, <4>1
      <4>3. QED
        BY <4>1, <4>2
    <3>6. QED
      BY <3>3, <3>4, <3>5, <1>1, <1>3, <2>2
  <2>4. f[Len(s)] = g[Len(s)] /\ Len(s) \in 1..Len(s) /\ Len(s) + 1 \in 1..Len(u)
    <3>1. Len(s) \in 1..Len(s) /\ Len(s) + 1 \in 1..Len(u)
      BY <1>5, <1>1
    <3>2. QED
      BY <2>3, <3>1
  <2>5. FlattenSeq(u) = g[Len(s)] \o e
    <3>1. Len(s) \in Nat /\ Len(s) # 0
      BY <1>5
    <3>2. g[Len(s) + 1] = g[(Len(s) + 1) - 1] \o u[Len(s) + 1]
      <4>1. Len(s) + 1 # 1
        BY <3>1
      <4>2. QED
        BY <1>3, <2>4, <4>1
    <3>3. (Len(s) + 1) - 1 = Len(s)
      BY <3>1
    <3>4. QED
      BY <1>1, <1>2, <3>2, <3>3
  <2>6. QED
    BY <2>1, <2>4, <2>5 DEF u
<1>6. QED
  BY <1>4, <1>5

\* Sequences of sequences of S flatten to a sequence of S.
LEMMA FlattenSeqType ==
    ASSUME NEW S, NEW s \in Seq(Seq(S))
    PROVE  FlattenSeq(s) \in Seq(S)
<1> DEFINE G == {t \in Seq(Seq(S)) : FlattenSeq(t) \in Seq(S)}
<1>1. <<>> \in G
  <2>1. <<>> \in Seq(Seq(S)) /\ <<>> \in Seq(S)
    OBVIOUS
  <2>2. QED
    BY <2>1, FlattenSeqEmpty, Zenon
<1>2. ASSUME NEW t \in G, NEW e \in Seq(S) PROVE Append(t, e) \in G
  <2>1. FlattenSeq(Append(t, e)) = FlattenSeq(t) \o e
    BY FlattenSeqAppend
  <2>2. FlattenSeq(t) \o e \in Seq(S) /\ Append(t, e) \in Seq(Seq(S))
    OBVIOUS
  <2>3. QED
    BY <2>1, <2>2, Zenon
<1>3. G \in SUBSET Seq(Seq(S))
  OBVIOUS
<1>4. G = Seq(Seq(S))
  <2> HIDE DEF G
  <2>1. QED
    BY <1>1, <1>2, <1>3, AppendInduction
<1>5. QED
  BY <1>4

-----------------------------------------------------------------------------
(* What a sequence of items shows, and its order                           *)

HasScreen(s) == \E i \in DOMAIN s : s[i].kind = "screen"
Visible(s) == Range(Shows(s))

\* Item x shows number n of runtime r.
Tells(x, r, n) ==
    x.runtime = r /\ x.kind # "scrap" /\ IF x.kind = "chunk" THEN x.n = n ELSE x.n >= n
Precedes(x, y) == x.kind = "chunk" /\ y.kind = "chunk" /\ x.runtime = y.runtime => x.n < y.n
Ordered(s) == \A i, j \in DOMAIN s : i < j => Precedes(s[i], s[j])
AllPrecede(A, B) == \A x \in A, y \in B : Precedes(x, y)

\* The members of a sequence, by index and as a set.
LEMMA InRange ==
    ASSUME NEW S, NEW s \in Seq(S)
    PROVE  /\ \A i \in 1..Len(s) : s[i] \in Range(s)
           /\ \A x \in Range(s) : \E i \in 1..Len(s) : x = s[i]
           /\ Range(s) \subseteq S
BY RangeEquality, RangeOfSeq

\* Carries, by members instead of by positions.
LEMMA CarriesTells ==
    ASSUME NEW s \in Seq(Item), NEW r, NEW n
    PROVE  Carries(s, r, n) <=> \E x \in Range(s) : Tells(x, r, n)
BY InRange DEF Carries, Tells

\* The same for HasScreen.
LEMMA HasScreenRange ==
    ASSUME NEW s \in Seq(Item)
    PROVE  HasScreen(s) <=> \E x \in Range(s) : x.kind = "screen"
BY InRange DEF HasScreen

\* The last screen is where the terminal starts afresh.
LEMMA ShowsFromLast ==
    ASSUME NEW s \in Seq(Item), NEW m \in 1..Len(s), s[m].kind = "screen",
           \A j \in 1..Len(s) : j > m => s[j].kind # "screen"
    PROVE  Shows(s) = SubSeq(s, m, Len(s))
<1> DEFINE clears == {i \in DOMAIN s : s[i].kind = "screen"}
<1>1. m \in clears /\ \A j \in clears : m >= j
  OBVIOUS
<1>2. clears \subseteq Int
  OBVIOUS
<1>3. Max(clears) = m
  <2> DEFINE M == CHOOSE x \in clears : \A y \in clears : x >= y
  <2>1. M \in clears /\ \A j \in clears : M >= j
    <3> HIDE DEF clears
    <3>1. QED
      BY <1>1
  <2>2. M \in Int /\ m \in Int /\ M >= m /\ m >= M
    BY <1>1, <1>2, <2>1
  <2> HIDE DEF M
  <2>3. M = m
    BY <2>2
  <2>4. QED
    BY <2>3 DEF Max, M
<1>4. clears # {}
  BY <1>1
<1>5. QED
  BY <1>3, <1>4 DEF Shows

\* A page with a screen has a last one.
LEMMA LastScreenExists ==
    ASSUME NEW s \in Seq(Item), HasScreen(s)
    PROVE  \E m \in 1..Len(s) : /\ s[m].kind = "screen"
                                /\ \A j \in 1..Len(s) : j > m => s[j].kind # "screen"
<1> DEFINE T == {k \in Nat : \E i \in 1..Len(s) : s[i].kind = "screen" /\ k = Len(s) - i}
<1>1. PICK i \in 1..Len(s) : s[i].kind = "screen"
  BY DEF HasScreen
<1>2. Len(s) - i \in T
  BY <1>1
<1>3. T \in SUBSET Nat /\ T # {}
  BY <1>2
<1>4. PICK k \in T : \A l \in T : k <= l
  <2> HIDE DEF T
  <2>1. QED
    BY <1>3, LeastNatural
<1>5. PICK m \in 1..Len(s) : s[m].kind = "screen" /\ k = Len(s) - m
  BY <1>4
<1>6. ASSUME NEW j \in 1..Len(s), j > m, s[j].kind = "screen" PROVE FALSE
  <2>1. Len(s) - j \in T
    BY <1>6
  <2>2. k <= Len(s) - j
    BY <1>4, <2>1
  <2>3. QED
    BY <1>5, <1>6, <2>2
<1>7. QED
  BY <1>5, <1>6

\* Without a screen everything shows.
LEMMA ShowsAll ==
    ASSUME NEW s \in Seq(Item), ~HasScreen(s)
    PROVE  Shows(s) = s
BY DEF Shows, HasScreen

\* What is shown is a suffix that starts with the last screen, or everything.
LEMMA ShowsSuffix ==
    ASSUME NEW s \in Seq(Item)
    PROVE  \E m \in 1..Len(s) + 1 :
              /\ Shows(s) = SubSeq(s, m, Len(s))
              /\ HasScreen(s) => m <= Len(s) /\ s[m].kind = "screen"
              /\ ~HasScreen(s) => m = 1
              /\ \A j \in 1..Len(s) : j > m => s[j].kind # "screen"
<1>1. CASE HasScreen(s)
  BY <1>1, LastScreenExists, ShowsFromLast
<1>2. CASE ~HasScreen(s)
  <2>1. SubSeq(s, 1, Len(s)) = s
    BY SubSeqFull
  <2>2. QED
    BY <1>2, <2>1, ShowsAll DEF HasScreen
<1>3. QED
  BY <1>1, <1>2

\* A suffix, by position and by members.
LEMMA SuffixFacts ==
    ASSUME NEW s \in Seq(Item), NEW m \in 1..Len(s) + 1
    PROVE  /\ SubSeq(s, m, Len(s)) \in Seq(Item)
           /\ Len(SubSeq(s, m, Len(s))) = Len(s) - m + 1
           /\ \A i \in 1..(Len(s) - m + 1) : SubSeq(s, m, Len(s))[i] = s[m + i - 1]
           /\ Range(SubSeq(s, m, Len(s))) = {s[i] : i \in m..Len(s)}
<1>1. /\ SubSeq(s, m, Len(s)) \in Seq(Item)
      /\ Len(SubSeq(s, m, Len(s))) = Len(s) - m + 1
      /\ \A i \in 1..(Len(s) - m + 1) : SubSeq(s, m, Len(s))[i] = s[m + i - 1]
  BY SubSeqProperties
<1> DEFINE u == SubSeq(s, m, Len(s))
<1> HIDE DEF u
<1>2. ASSUME NEW x \in Range(u) PROVE x \in {s[i] : i \in m..Len(s)}
  <2>1. PICK i \in 1..Len(u) : x = u[i]
    BY <1>1, InRange DEF u
  <2>2. x = s[m + i - 1] /\ m + i - 1 \in m..Len(s)
    BY <1>1, <2>1 DEF u
  <2>3. QED
    BY <2>2
<1>3. ASSUME NEW i \in m..Len(s) PROVE s[i] \in Range(u)
  <2>1. i - m + 1 \in 1..Len(u) /\ m + (i - m + 1) - 1 = i
    BY <1>1 DEF u
  <2>2. u[i - m + 1] = s[i]
    BY <1>1, <2>1 DEF u
  <2>3. QED
    BY <1>1, <2>1, <2>2, InRange DEF u
<1>4. QED
  BY <1>1, <1>2, <1>3 DEF u

\* What shows is part of what was painted; something shows if anything was painted.
LEMMA ShowsType ==
    ASSUME NEW s \in Seq(Item)
    PROVE  /\ Shows(s) \in Seq(Item)
           /\ Visible(s) \subseteq Range(s)
           /\ s # <<>> => Shows(s) # <<>>
           /\ HasScreen(Shows(s)) <=> HasScreen(s)
           /\ \A x \in Range(s) : x.kind = "screen" => HasScreen(s)
<1>1. PICK m \in 1..Len(s) + 1 :
              /\ Shows(s) = SubSeq(s, m, Len(s))
              /\ HasScreen(s) => m <= Len(s) /\ s[m].kind = "screen"
              /\ ~HasScreen(s) => m = 1
              /\ \A j \in 1..Len(s) : j > m => s[j].kind # "screen"
  BY ShowsSuffix
<1>2. Shows(s) \in Seq(Item) /\ Visible(s) = {s[i] : i \in m..Len(s)}
  BY <1>1, SuffixFacts DEF Visible
<1>3. Visible(s) \subseteq Range(s)
  BY <1>2, InRange
<1>4. s # <<>> => Shows(s) # <<>>
  <2>1. s # <<>> => m <= Len(s)
    BY <1>1
  <2>2. s # <<>> => Len(Shows(s)) # 0
    BY <1>1, <2>1, SuffixFacts
  <2>3. QED
    BY <2>2
<1>5. HasScreen(Shows(s)) => HasScreen(s)
  BY <1>2, <1>3, HasScreenRange DEF Visible
<1>6. HasScreen(s) => HasScreen(Shows(s))
  <2>1. HasScreen(s) => s[m] \in Visible(s) /\ s[m].kind = "screen"
    BY <1>1, <1>2
  <2>2. QED
    BY <1>2, <2>1, HasScreenRange DEF Visible
<1>7. QED
  BY <1>2, <1>3, <1>4, <1>5, <1>6, HasScreenRange

\* The members of a concatenation.
LEMMA RangeConcat ==
    ASSUME NEW a \in Seq(Item), NEW b \in Seq(Item)
    PROVE  /\ a \o b \in Seq(Item)
           /\ Range(a \o b) = Range(a) \cup Range(b)
           /\ HasScreen(a \o b) <=> HasScreen(a) \/ HasScreen(b)
<1>1. a \o b \in Seq(Item)
  OBVIOUS
<1>2. Range(a \o b) = Range(a) \cup Range(b)
  BY RangeConcatenation
<1>3. QED
  BY <1>1, <1>2, HasScreenRange

\* A screen in the second part hides the first; without one all of it shows.
LEMMA VisibleConcat ==
    ASSUME NEW a \in Seq(Item), NEW b \in Seq(Item)
    PROVE  Visible(a \o b) = IF HasScreen(b) THEN Visible(b) ELSE Visible(a) \cup Range(b)
<1> DEFINE s == a \o b
<1>1. /\ s \in Seq(Item)
      /\ Len(s) = Len(a) + Len(b)
      /\ \A i \in 1..Len(s) : s[i] = IF i <= Len(a) THEN a[i] ELSE b[i - Len(a)]
  BY ConcatProperties
<1>2. Len(a) \in Nat /\ Len(b) \in Nat
  OBVIOUS
<1> HIDE DEF s
<1>3. CASE HasScreen(b)
  <2>1. PICK m \in 1..Len(b) + 1 :
              /\ Shows(b) = SubSeq(b, m, Len(b))
              /\ m <= Len(b) /\ b[m].kind = "screen"
              /\ \A j \in 1..Len(b) : j > m => b[j].kind # "screen"
    BY <1>3, ShowsSuffix
  <2>2. /\ Len(a) + m \in 1..Len(s)
        /\ s[Len(a) + m] = b[m]
    <3>1. Len(a) + m \in 1..Len(s) /\ ~(Len(a) + m <= Len(a)) /\ (Len(a) + m) - Len(a) = m
      BY <1>1, <1>2, <2>1
    <3>2. QED
      BY <1>1, <3>1
  <2>3. ASSUME NEW j \in 1..Len(s), j > Len(a) + m PROVE s[j].kind # "screen"
    <3>1. s[j] = b[j - Len(a)] /\ j - Len(a) \in 1..Len(b) /\ j - Len(a) > m
      BY <1>1, <1>2, <2>3
    <3>2. QED
      BY <2>1, <3>1
  <2>4. Shows(s) = SubSeq(s, Len(a) + m, Len(s))
    BY <1>1, <2>1, <2>2, <2>3, ShowsFromLast
  <2>5. Visible(s) = {s[i] : i \in (Len(a) + m)..Len(s)}
    <3>1. Len(a) + m \in 1..Len(s) + 1
      BY <1>1, <1>2, <2>2
    <3>2. QED
      BY <1>1, <2>4, <3>1, SuffixFacts DEF Visible
  <2>6. Visible(b) = {b[i] : i \in m..Len(b)}
    BY <2>1, SuffixFacts DEF Visible
  <2>7. \A i \in (Len(a) + m)..Len(s) : s[i] = b[i - Len(a)] /\ i - Len(a) \in m..Len(b)
    BY <1>1, <1>2, <2>1
  <2>8. \A i \in m..Len(b) : b[i] = s[Len(a) + i] /\ Len(a) + i \in (Len(a) + m)..Len(s)
    BY <1>1, <1>2, <2>1
  <2>9. Visible(s) = Visible(b)
    BY <2>5, <2>6, <2>7, <2>8, ZenonT(60)
  <2>10. QED
    BY <1>3, <2>9 DEF s
<1>4. CASE ~HasScreen(b) /\ HasScreen(a)
  <2>1. PICK m \in 1..Len(a) + 1 :
              /\ Shows(a) = SubSeq(a, m, Len(a))
              /\ m <= Len(a) /\ a[m].kind = "screen"
              /\ \A j \in 1..Len(a) : j > m => a[j].kind # "screen"
    BY <1>4, ShowsSuffix
  <2>2. m \in 1..Len(s) /\ s[m] = a[m]
    BY <1>1, <1>2, <2>1
  <2>3. ASSUME NEW j \in 1..Len(s), j > m PROVE s[j].kind # "screen"
    <3>1. CASE j <= Len(a)
      BY <1>1, <1>2, <2>1, <2>3, <3>1
    <3>2. CASE j > Len(a)
      <4>1. s[j] = b[j - Len(a)] /\ j - Len(a) \in 1..Len(b)
        BY <1>1, <1>2, <3>2
      <4>2. QED
        BY <1>4, <4>1 DEF HasScreen
    <3>3. QED
      BY <3>1, <3>2, <1>2
  <2>4. Shows(s) = SubSeq(s, m, Len(s))
    BY <1>1, <2>1, <2>2, <2>3, ShowsFromLast
  <2>5. Visible(s) = {s[i] : i \in m..Len(s)}
    <3>1. m \in 1..Len(s) + 1
      BY <1>1, <1>2, <2>2
    <3>2. QED
      BY <1>1, <2>4, <3>1, SuffixFacts DEF Visible
  <2>6. Visible(a) = {a[i] : i \in m..Len(a)}
    BY <2>1, SuffixFacts DEF Visible
  <2>7. ASSUME NEW i \in m..Len(s) PROVE s[i] \in Visible(a) \cup Range(b)
    <3>1. CASE i <= Len(a)
      BY <1>1, <1>2, <2>1, <2>6, <3>1
    <3>2. CASE i > Len(a)
      <4>1. s[i] = b[i - Len(a)] /\ i - Len(a) \in 1..Len(b)
        <5>1. i \in 1..Len(s) /\ ~(i <= Len(a))
          BY <1>1, <1>2, <2>1, <3>2
        <5>2. QED
          BY <1>1, <1>2, <5>1
      <4>2. QED
        BY <4>1, InRange
    <3>3. QED
      BY <3>1, <3>2, <1>2
  <2>8. ASSUME NEW x \in Visible(a) \cup Range(b) PROVE x \in Visible(s)
    <3>1. CASE x \in Visible(a)
      <4>1. PICK i \in m..Len(a) : x = a[i]
        BY <2>6, <3>1
      <4>2. x = s[i] /\ i \in m..Len(s)
        BY <1>1, <1>2, <2>1, <4>1
      <4>3. QED
        BY <2>5, <4>2
    <3>2. CASE x \in Range(b)
      <4>1. PICK i \in 1..Len(b) : x = b[i]
        BY <3>2, InRange
      <4>2. Len(a) + i \in m..Len(s) /\ ~(Len(a) + i <= Len(a)) /\ (Len(a) + i) - Len(a) = i
        BY <1>1, <1>2, <2>1, <4>1
      <4>3. x = s[Len(a) + i]
        BY <1>1, <4>1, <4>2, <2>1
      <4>4. QED
        BY <2>5, <4>2, <4>3
    <3>3. QED
      BY <3>1, <3>2, <2>8
  <2>9. Visible(s) = Visible(a) \cup Range(b)
    BY <2>5, <2>7, <2>8
  <2>10. QED
    BY <1>4, <2>9 DEF s
<1>5. CASE ~HasScreen(b) /\ ~HasScreen(a)
  <2>1. ~HasScreen(s)
    BY <1>5, RangeConcat DEF s
  <2>2. Visible(s) = Range(s) /\ Visible(a) = Range(a)
    BY <1>1, <1>5, <2>1, ShowsAll DEF Visible
  <2>3. QED
    BY <1>5, <2>2, RangeConcat DEF s
<1>6. QED
  BY <1>3, <1>4, <1>5

\* Showing twice is showing once.
LEMMA VisibleShows ==
    ASSUME NEW s \in Seq(Item)
    PROVE  Visible(Shows(s)) = Visible(s)
<1>1. CASE ~HasScreen(s)
  BY <1>1, ShowsAll DEF Visible
<1>2. CASE HasScreen(s)
  <2>1. PICK m \in 1..Len(s) + 1 :
              /\ Shows(s) = SubSeq(s, m, Len(s))
              /\ m <= Len(s) /\ s[m].kind = "screen"
              /\ \A j \in 1..Len(s) : j > m => s[j].kind # "screen"
    BY <1>2, ShowsSuffix
  <2> DEFINE u == SubSeq(s, m, Len(s))
  <2>2. /\ u \in Seq(Item) /\ Len(u) = Len(s) - m + 1
        /\ \A i \in 1..(Len(s) - m + 1) : u[i] = s[m + i - 1]
    BY SuffixFacts
  <2> HIDE DEF u
  <2>3. 1 \in 1..Len(u) /\ u[1] = s[m]
    <3>1. m + 1 - 1 = m /\ 1 \in 1..(Len(s) - m + 1)
      BY <2>1
    <3>2. QED
      BY <2>2, <3>1
  <2>4. ASSUME NEW j \in 1..Len(u), j > 1 PROVE u[j].kind # "screen"
    <3>1. u[j] = s[m + j - 1] /\ m + j - 1 \in 1..Len(s) /\ m + j - 1 > m
      BY <2>1, <2>2, <2>4
    <3>2. QED
      BY <2>1, <3>1
  <2>5. Shows(u) = SubSeq(u, 1, Len(u))
    BY <2>1, <2>2, <2>3, <2>4, ShowsFromLast
  <2>6. Shows(u) = u
    BY <2>2, <2>5, SubSeqFull
  <2>7. QED
    BY <2>1, <2>6 DEF u, Visible
<1>3. QED
  BY <1>1, <1>2

\* Clearing keeps the order.
LEMMA OrderedShows ==
    ASSUME NEW s \in Seq(Item), Ordered(s)
    PROVE  Ordered(Shows(s))
<1>1. PICK m \in 1..Len(s) + 1 : Shows(s) = SubSeq(s, m, Len(s))
  BY ShowsSuffix
<1> DEFINE u == SubSeq(s, m, Len(s))
<1>2. /\ u \in Seq(Item) /\ Len(u) = Len(s) - m + 1
      /\ \A i \in 1..(Len(s) - m + 1) : u[i] = s[m + i - 1]
  BY SuffixFacts
<1> HIDE DEF u
<1>3. ASSUME NEW i \in DOMAIN u, NEW j \in DOMAIN u, i < j PROVE Precedes(u[i], u[j])
  <2>1. i \in 1..(Len(s) - m + 1) /\ j \in 1..(Len(s) - m + 1)
    BY <1>2, <1>3
  <2>2. /\ u[i] = s[m + i - 1] /\ m + i - 1 \in DOMAIN s
        /\ u[j] = s[m + j - 1] /\ m + j - 1 \in DOMAIN s
        /\ m + i - 1 < m + j - 1
    <3>1. DOMAIN s = 1..Len(s) /\ Len(s) \in Nat
      OBVIOUS
    <3>2. m + i - 1 \in 1..Len(s) /\ m + j - 1 \in 1..Len(s) /\ m + i - 1 < m + j - 1
      BY <1>3, <2>1, <3>1
    <3>3. QED
      BY <1>2, <2>1, <3>1, <3>2
  <2>3. QED
    BY <2>2 DEF Ordered
<1>4. Ordered(u)
  BY <1>3 DEF Ordered
<1>5. QED
  BY <1>1, <1>4 DEF u

\* A concatenation is in order if both parts are and the first precedes the second.
LEMMA OrderedConcat ==
    ASSUME NEW a \in Seq(Item), NEW b \in Seq(Item)
    PROVE  Ordered(a \o b) <=> Ordered(a) /\ Ordered(b) /\ AllPrecede(Range(a), Range(b))
<1> DEFINE s == a \o b
<1>1. /\ s \in Seq(Item)
      /\ Len(s) = Len(a) + Len(b)
      /\ \A i \in 1..Len(s) : s[i] = IF i <= Len(a) THEN a[i] ELSE b[i - Len(a)]
  BY ConcatProperties
<1>2. Len(a) \in Nat /\ Len(b) \in Nat
  OBVIOUS
<1> HIDE DEF s
<1>3. \A i \in 1..Len(a) : i \in DOMAIN s /\ s[i] = a[i]
  BY <1>1, <1>2
<1>4. \A i \in 1..Len(b) : Len(a) + i \in DOMAIN s /\ s[Len(a) + i] = b[i]
  <2> TAKE i \in 1..Len(b)
  <2>1. Len(a) + i \in 1..Len(s) /\ ~(Len(a) + i <= Len(a)) /\ (Len(a) + i) - Len(a) = i
    BY <1>1, <1>2
  <2>2. QED
    BY <1>1, <2>1
<1>5. ASSUME Ordered(s) PROVE Ordered(a) /\ Ordered(b) /\ AllPrecede(Range(a), Range(b))
  <2>1. Ordered(a)
    BY <1>3, <1>5 DEF Ordered
  <2>2. ASSUME NEW i \in DOMAIN b, NEW j \in DOMAIN b, i < j PROVE Precedes(b[i], b[j])
    <3>1. i \in 1..Len(b) /\ j \in 1..Len(b) /\ Len(a) + i < Len(a) + j
      BY <1>2, <2>2
    <3>2. QED
      BY <1>4, <1>5, <3>1 DEF Ordered
  <2>3. ASSUME NEW x \in Range(a), NEW y \in Range(b) PROVE Precedes(x, y)
    <3>1. PICK i \in 1..Len(a) : x = a[i]
      BY InRange
    <3>2. PICK j \in 1..Len(b) : y = b[j]
      BY InRange
    <3>3. i < Len(a) + j
      BY <1>2
    <3>4. QED
      BY <1>3, <1>4, <1>5, <3>1, <3>2, <3>3 DEF Ordered
  <2>4. QED
    BY <2>1, <2>2, <2>3 DEF Ordered, AllPrecede
<1>6. ASSUME Ordered(a), Ordered(b), AllPrecede(Range(a), Range(b)) PROVE Ordered(s)
  <2> SUFFICES ASSUME NEW i \in DOMAIN s, NEW j \in DOMAIN s, i < j
               PROVE  Precedes(s[i], s[j])
    BY DEF Ordered
  <2>1. i \in 1..Len(s) /\ j \in 1..Len(s)
    BY <1>1
  <2>2. CASE j <= Len(a)
    <3>1. i \in DOMAIN a /\ j \in DOMAIN a /\ s[i] = a[i] /\ s[j] = a[j]
      BY <1>1, <1>2, <2>1, <2>2
    <3>2. QED
      BY <1>6, <3>1 DEF Ordered
  <2>3. CASE i > Len(a)
    <3>1. /\ i - Len(a) \in DOMAIN b /\ j - Len(a) \in DOMAIN b /\ i - Len(a) < j - Len(a)
          /\ s[i] = b[i - Len(a)] /\ s[j] = b[j - Len(a)]
      BY <1>1, <1>2, <2>1, <2>3
    <3>2. QED
      BY <1>6, <3>1 DEF Ordered
  <2>4. CASE i <= Len(a) /\ j > Len(a)
    <3>1. /\ i \in 1..Len(a) /\ j - Len(a) \in 1..Len(b)
          /\ s[i] = a[i] /\ s[j] = b[j - Len(a)]
      BY <1>1, <1>2, <2>1, <2>4
    <3>2. s[i] \in Range(a) /\ s[j] \in Range(b)
      BY <3>1, InRange
    <3>3. QED
      BY <1>6, <3>2 DEF AllPrecede
  <2>5. QED
    BY <2>1, <2>2, <2>3, <2>4, <1>2
<1>7. QED
  BY <1>5, <1>6 DEF s

-----------------------------------------------------------------------------
(* Batches                                                                 *)

Parts(b) == [i \in DOMAIN b |-> b[i].items]

\* The batches without their numbers.
LEMMA PartsFacts ==
    ASSUME NEW b \in Seq(Batch)
    PROVE  /\ Parts(b) \in Seq(Seq(Item))
           /\ Len(Parts(b)) = Len(b)
           /\ ItemsOf(b) = FlattenSeq(Parts(b))
<1>1. \A i \in 1..Len(b) : b[i].items \in Seq(Item)
  <2>1. \A i \in 1..Len(b) : b[i] \in Batch
    BY ElementOfSeq
  <2>2. QED
    BY <2>1 DEF Batch
<1>2. QED
  BY <1>1 DEF Parts, ItemsOf

\* ItemsOf, batch by batch.
LEMMA ItemsOfEmpty == ItemsOf(<<>>) = <<>>
<1>1. Parts(<<>>) = <<>>
  BY DEF Parts
<1>2. QED
  BY <1>1, FlattenSeqEmpty DEF ItemsOf, Parts

\* One more batch.
LEMMA ItemsOfAppend ==
    ASSUME NEW b \in Seq(Batch), NEW x \in Batch
    PROVE  /\ ItemsOf(Append(b, x)) = ItemsOf(b) \o x.items
           /\ x.items \in Seq(Item)
<1>1. x.items \in Seq(Item)
  BY DEF Batch
<1>2. Append(b, x) \in Seq(Batch)
  OBVIOUS
<1>3. Parts(Append(b, x)) = Append(Parts(b), x.items)
  <2>1. /\ Parts(Append(b, x)) \in Seq(Seq(Item))
        /\ Append(Parts(b), x.items) \in Seq(Seq(Item))
        /\ Len(Parts(Append(b, x))) = Len(b) + 1
        /\ Len(Append(Parts(b), x.items)) = Len(b) + 1
    <3>1. Len(Append(b, x)) = Len(b) + 1
      OBVIOUS
    <3>2. Parts(b) \in Seq(Seq(Item)) /\ Len(Parts(b)) = Len(b)
      BY PartsFacts
    <3>3. Parts(Append(b, x)) \in Seq(Seq(Item)) /\ Len(Parts(Append(b, x))) = Len(b) + 1
      BY <1>2, <3>1, PartsFacts
    <3> DEFINE p == Parts(b)
    <3> HIDE DEF p
    <3>4. Append(p, x.items) \in Seq(Seq(Item)) /\ Len(Append(p, x.items)) = Len(b) + 1
      BY <1>1, <3>2 DEF p
    <3>5. QED
      BY <3>3, <3>4 DEF p
  <2>2. ASSUME NEW i \in 1..Len(b) + 1
        PROVE  Parts(Append(b, x))[i] = Append(Parts(b), x.items)[i]
    <3>1. CASE i = Len(b) + 1
      BY <3>1, <1>1, PartsFacts DEF Parts
    <3>2. CASE i \in 1..Len(b)
      BY <3>2, <1>1, PartsFacts DEF Parts
    <3>3. i = Len(b) + 1 \/ i \in 1..Len(b)
      OBVIOUS
    <3>4. QED
      BY <3>1, <3>2, <3>3, Zenon
  <2>3. QED
    BY <2>1, <2>2, SeqEqual
<1>4. QED
  BY <1>1, <1>2, <1>3, PartsFacts, FlattenSeqAppend

\* Batches hold items.
LEMMA ItemsOfType ==
    ASSUME NEW b \in Seq(Batch)
    PROVE  ItemsOf(b) \in Seq(Item)
BY PartsFacts, FlattenSeqType

\* One batch.
LEMMA ItemsOfOne ==
    ASSUME NEW x \in Batch
    PROVE  ItemsOf(<<x>>) = x.items
<1>1. <<>> \in Seq(Batch) /\ Append(<<>>, x) = <<x>>
  OBVIOUS
<1>2. ItemsOf(Append(<<>>, x)) = ItemsOf(<<>>) \o x.items /\ x.items \in Seq(Item)
  BY <1>1, ItemsOfAppend
<1>3. <<>> \o x.items = x.items
  BY <1>2, ConcatEmptySeq
<1>4. QED
  BY <1>1, <1>2, <1>3, ItemsOfEmpty

\* Two groups of batches.
LEMMA ItemsOfConcat ==
    ASSUME NEW a \in Seq(Batch), NEW b \in Seq(Batch)
    PROVE  ItemsOf(a \o b) = ItemsOf(a) \o ItemsOf(b)
<1> DEFINE G == {c \in Seq(Batch) : ItemsOf(a \o c) = ItemsOf(a) \o ItemsOf(c)}
<1>1. <<>> \in G
  <2>1. a \o <<>> = a /\ ItemsOf(a) \o <<>> = ItemsOf(a)
    BY ConcatEmptySeq, ItemsOfType
  <2>2. <<>> \in Seq(Batch)
    OBVIOUS
  <2>3. QED
    BY <2>1, <2>2, ItemsOfEmpty, Zenon
<1>2. ASSUME NEW c \in G, NEW x \in Batch PROVE Append(c, x) \in G
  <2>1. a \o Append(c, x) = Append(a \o c, x) /\ a \o c \in Seq(Batch)
    OBVIOUS
  <2>2. ItemsOf(Append(a \o c, x)) = ItemsOf(a \o c) \o x.items
    BY <2>1, ItemsOfAppend
  <2>3. ItemsOf(Append(c, x)) = ItemsOf(c) \o x.items /\ x.items \in Seq(Item)
    BY ItemsOfAppend
  <2>4. (ItemsOf(a) \o ItemsOf(c)) \o x.items = ItemsOf(a) \o (ItemsOf(c) \o x.items)
    <3>1. ItemsOf(a) \in Seq(Item) /\ ItemsOf(c) \in Seq(Item)
      BY ItemsOfType
    <3>2. \A u, v, w \in Seq(Item) : (u \o v) \o w = u \o (v \o w)
      BY ConcatAssociative, SMTT(60)
    <3>3. QED
      BY <2>3, <3>1, <3>2
  <2>5. Append(c, x) \in Seq(Batch)
    OBVIOUS
  <2>6. ItemsOf(a \o c) = ItemsOf(a) \o ItemsOf(c)
    OBVIOUS
  <2>7. QED
    BY <2>1, <2>2, <2>3, <2>4, <2>5, <2>6, Zenon
<1>3. G \in SUBSET Seq(Batch)
  OBVIOUS
<1>4. G = Seq(Batch)
  <2> HIDE DEF G
  <2>1. QED
    BY <1>1, <1>2, <1>3, AppendInduction
<1>5. QED
  BY <1>4

\* An item of the batches is an item of one of them.
LEMMA ItemsOfRange ==
    ASSUME NEW b \in Seq(Batch), NEW x
    PROVE  x \in Range(ItemsOf(b)) <=> \E i \in 1..Len(b) : x \in Range(b[i].items)
<1> DEFINE G == {c \in Seq(Batch) :
                   x \in Range(ItemsOf(c)) <=> \E i \in 1..Len(c) : x \in Range(c[i].items)}
<1>1. <<>> \in G
  <2>1. Range(<<>>) = {} /\ <<>> \in Seq(Batch) /\ Len(<<>>) = 0
    BY DEF Range
  <2>2. QED
    BY <2>1, ItemsOfEmpty
<1>2. ASSUME NEW c \in G, NEW y \in Batch PROVE Append(c, y) \in G
  <2> DEFINE d == Append(c, y)
  <2>1. Range(ItemsOf(d)) = Range(ItemsOf(c)) \cup Range(y.items)
    BY ItemsOfAppend, ItemsOfType, RangeConcat
  <2>2. /\ d \in Seq(Batch) /\ Len(d) = Len(c) + 1 /\ d[Len(c) + 1] = y
        /\ \A i \in 1..Len(c) : d[i] = c[i]
    BY AppendProperties
  <2> HIDE DEF d
  <2>3. (\E i \in 1..Len(d) : x \in Range(d[i].items))
           <=> (\E i \in 1..Len(c) : x \in Range(c[i].items)) \/ x \in Range(y.items)
    <3>1. \A i \in 1..Len(d) : i \in 1..Len(c) \/ i = Len(c) + 1
      BY <2>2
    <3>2. Len(c) + 1 \in 1..Len(d) /\ \A i \in 1..Len(c) : i \in 1..Len(d)
      BY <2>2
    <3>3. QED
      BY <2>2, <3>1, <3>2, Zenon
  <2>4. x \in Range(ItemsOf(c)) <=> \E i \in 1..Len(c) : x \in Range(c[i].items)
    OBVIOUS
  <2>5. QED
    BY <2>1, <2>2, <2>3, <2>4 DEF d
<1>3. G \in SUBSET Seq(Batch)
  OBVIOUS
<1>4. G = Seq(Batch)
  <2> HIDE DEF G
  <2>1. QED
    BY <1>1, <1>2, <1>3, AppendInduction
<1>5. QED
  BY <1>4

\* Where a visible item of some batches is: nothing behind it is a screen.
LEMMA VisibleBatch ==
    ASSUME NEW b \in Seq(Batch), NEW x \in Visible(ItemsOf(b))
    PROVE  \E i \in 1..Len(b) : /\ x \in Range(b[i].items)
                                /\ \A j \in 1..Len(b) : j > i => ~HasScreen(b[j].items)
<1> DEFINE At(c) == \E i \in 1..Len(c) : /\ x \in Range(c[i].items)
                                         /\ \A j \in 1..Len(c) : j > i => ~HasScreen(c[j].items)
           G == {c \in Seq(Batch) : x \in Visible(ItemsOf(c)) => At(c)}
<1>1. <<>> \in G
  <2>1. Range(<<>>) = {} /\ <<>> \in Seq(Batch) /\ <<>> \in Seq(Item)
    BY DEF Range
  <2>2. Visible(ItemsOf(<<>>)) = {}
    BY <2>1, ItemsOfEmpty, ShowsType, Zenon
  <2>3. QED
    BY <2>1, <2>2
<1>2. ASSUME NEW c \in G, NEW y \in Batch PROVE Append(c, y) \in G
  <2> DEFINE d == Append(c, y)
  <2>1. /\ d \in Seq(Batch) /\ Len(d) = Len(c) + 1 /\ d[Len(c) + 1] = y
        /\ \A i \in 1..Len(c) : d[i] = c[i]
    BY AppendProperties
  <2>2. /\ Visible(ItemsOf(d)) = IF HasScreen(y.items) THEN Visible(y.items)
                                 ELSE Visible(ItemsOf(c)) \cup Range(y.items)
        /\ Visible(y.items) \subseteq Range(y.items)
    <3>1. ItemsOf(c) \in Seq(Item) /\ y.items \in Seq(Item) /\ ItemsOf(d) = ItemsOf(c) \o y.items
      BY ItemsOfAppend, ItemsOfType
    <3>2. QED
      BY <3>1, VisibleConcat, ShowsType
  <2>3. Len(c) \in Nat
    OBVIOUS
  <2>4. x \in Visible(ItemsOf(c)) => At(c)
    OBVIOUS
  <2> HIDE DEF d
  <2>5. ASSUME x \in Visible(ItemsOf(d)) PROVE At(d)
    <3>1. CASE x \in Range(y.items)
      <4>1. Len(c) + 1 \in 1..Len(d) /\ \A j \in 1..Len(d) : ~(j > Len(c) + 1)
        BY <2>1, <2>3
      <4>2. QED
        BY <2>1, <3>1, <4>1
    <3>2. CASE x \notin Range(y.items)
      <4>1. x \in Visible(ItemsOf(c)) /\ ~HasScreen(y.items)
        BY <2>2, <2>5, <3>2
      <4>2. PICK i \in 1..Len(c) : /\ x \in Range(c[i].items)
                                   /\ \A j \in 1..Len(c) : j > i => ~HasScreen(c[j].items)
        BY <2>4, <4>1
      <4>3. i \in 1..Len(d) /\ x \in Range(d[i].items)
        BY <2>1, <4>2
      <4>4. ASSUME NEW j \in 1..Len(d), j > i PROVE ~HasScreen(d[j].items)
        <5>1. CASE j = Len(c) + 1
          BY <5>1, <2>1, <4>1
        <5>2. CASE j \in 1..Len(c)
          BY <5>2, <2>1, <4>2, <4>4
        <5>3. QED
          BY <5>1, <5>2, <2>1, <2>3
      <4>5. QED
        BY <4>3, <4>4
    <3>3. QED
      BY <3>1, <3>2
  <2>6. QED
    BY <2>1, <2>5 DEF d
<1>3. G \in SUBSET Seq(Batch)
  OBVIOUS
<1>4. G = Seq(Batch)
  <2> HIDE DEF G
  <2>1. QED
    BY <1>1, <1>2, <1>3, AppendInduction
<1>5. QED
  BY <1>4

\* Concatenation of items is associative.
LEMMA ItemsAssociative ==
    \A u, v, w \in Seq(Item) : (u \o v) \o w = u \o (v \o w)
BY ConcatAssociative

\* An emptied batch is a batch.
LEMMA EmptiedType ==
    ASSUME NEW x \in Batch
    PROVE  Emptied(x) \in Batch /\ Emptied(x).items = <<>>
<1>1. <<>> \in Seq(Item)
  OBVIOUS
<1>2. Emptied(x) = [items |-> <<>>, covered |-> x.covered] /\ x.covered \in 0..MaxOutput
  BY DEF Emptied, Batch
<1>3. QED
  BY <1>1, <1>2 DEF Batch

\* drop_seed_covered, batch by batch.
LEMMA DropType ==
    ASSUME NEW b \in Seq(Batch), NEW q \in Nat
    PROVE  /\ DropSeedCovered(b, q) \in Seq(Batch)
           /\ Len(DropSeedCovered(b, q)) = Len(b)
           /\ \A i \in 1..Len(b) : 
                /\ b[i] \in Batch
                /\ DropSeedCovered(b, q)[i].items = IF b[i].covered <= q THEN <<>> ELSE b[i].items
<1>1. \A i \in 1..Len(b) : b[i] \in Batch /\ Emptied(b[i]) \in Batch /\ Emptied(b[i]).items = <<>>
  <2>1. \A i \in 1..Len(b) : b[i] \in Batch
    BY ElementOfSeq
  <2>2. ASSUME NEW x \in Batch PROVE Emptied(x) \in Batch /\ Emptied(x).items = <<>>
    BY EmptiedType
  <2>3. QED
    BY <2>1, <2>2
<1>2. QED
  BY <1>1 DEF DropSeedCovered

\* Dropping covered batches loses items and reorders nothing.
LEMMA DropFacts ==
    ASSUME NEW b \in Seq(Batch), NEW q \in Nat
    PROVE  /\ Range(ItemsOf(DropSeedCovered(b, q))) \subseteq Range(ItemsOf(b))
           /\ Ordered(ItemsOf(b)) => Ordered(ItemsOf(DropSeedCovered(b, q)))
<1> DEFINE D(c) == DropSeedCovered(c, q)
           G == {c \in Seq(Batch) : Ordered(ItemsOf(c)) => Ordered(ItemsOf(D(c)))}
<1>1. ASSUME NEW c \in Seq(Batch) PROVE Range(ItemsOf(D(c))) \subseteq Range(ItemsOf(c))
  <2>1. ASSUME NEW x \in Range(ItemsOf(D(c))) PROVE x \in Range(ItemsOf(c))
    <3>1. PICK i \in 1..Len(c) : x \in Range(D(c)[i].items)
      BY DropType, ItemsOfRange
    <3>2. Range(<<>>) = {}
      BY DEF Range
    <3>3. x \in Range(c[i].items)
      BY <3>1, <3>2, DropType
    <3>4. QED
      BY <3>3, ItemsOfRange
  <2>2. QED
    BY <2>1
<1>2. <<>> \in G
  <2>1. D(<<>>) = <<>> /\ <<>> \in Seq(Batch)
    BY DEF DropSeedCovered
  <2>2. QED
    BY <2>1, Zenon
<1>3. ASSUME NEW c \in G, NEW y \in Batch PROVE Append(c, y) \in G
  <2> DEFINE z == IF y.covered <= q THEN Emptied(y) ELSE y
  <2>1. c \in Seq(Batch) /\ Append(c, y) \in Seq(Batch)
    OBVIOUS
  <2>2. z \in Batch /\ z.items \in Seq(Item) /\ Range(z.items) \subseteq Range(y.items)
    <3>1. z \in Batch
      BY EmptiedType
    <3>2. z.items = <<>> \/ z = y
      BY EmptiedType
    <3>3. Range(<<>>) = {}
      BY DEF Range
    <3>4. Range(z.items) \subseteq Range(y.items)
      BY <3>2, <3>3, Zenon
    <3>5. z.items \in Seq(Item)
      BY <3>1 DEF Batch
    <3>6. QED
      BY <3>1, <3>4, <3>5
  <2>3. D(Append(c, y)) = Append(D(c), z)
    BY <2>1 DEF DropSeedCovered
  <2>4. Ordered(z.items) \/ z = y
    <3>1. z.items = <<>> \/ z = y
      BY EmptiedType
    <3>2. Ordered(<<>>)
      BY DEF Ordered
    <3>3. QED
      BY <3>1, <3>2, Zenon
  <2> HIDE DEF z
  <2>5. D(c) \in Seq(Batch)
    BY <2>1, DropType
  <2>6. /\ ItemsOf(D(Append(c, y))) = ItemsOf(D(c)) \o z.items
        /\ ItemsOf(Append(c, y)) = ItemsOf(c) \o y.items
        /\ ItemsOf(c) \in Seq(Item) /\ ItemsOf(D(c)) \in Seq(Item) /\ y.items \in Seq(Item)
    BY <2>1, <2>2, <2>3, <2>5, ItemsOfAppend, ItemsOfType
  <2>7. ASSUME Ordered(ItemsOf(Append(c, y))) PROVE Ordered(ItemsOf(D(Append(c, y))))
    <3>1. Ordered(ItemsOf(c)) /\ Ordered(y.items) /\ AllPrecede(Range(ItemsOf(c)), Range(y.items))
      BY <2>6, <2>7, OrderedConcat
    <3>2. Ordered(ItemsOf(D(c))) /\ Ordered(z.items)
      BY <2>4, <3>1
    <3>3. AllPrecede(Range(ItemsOf(D(c))), Range(z.items))
      BY <1>1, <2>1, <2>2, <3>1 DEF AllPrecede
    <3>4. QED
      BY <2>2, <2>6, <3>2, <3>3, OrderedConcat
  <2>8. QED
    BY <2>1, <2>7
<1>4. G \in SUBSET Seq(Batch)
  OBVIOUS
<1>5. G = Seq(Batch)
  <2> HIDE DEF G
  <2>1. QED
    BY <1>2, <1>3, <1>4, AppendInduction
<1>6. QED
  BY <1>1, <1>5

\* A flush paints a first part of what it is given and reports the rest.
LEMMA FlushSplits ==
    ASSUME NEW b \in Seq(Batch), NEW e \in FlushEnds(b)
    PROVE  /\ Painted(b, e) \in Seq(Item)
           /\ Undelivered(b, e) \subseteq Range(ItemsOf(b))
           /\ \E z \in Seq(Item) : /\ ItemsOf(b) = Painted(b, e) \o z
                                   /\ Range(z) \subseteq Undelivered(b, e)
<1> DEFINE n == Len(b)
<1>1. /\ e.acked \in 0..n /\ e.painted \in 0..n
      /\ e.acked <= e.painted /\ n \in Nat
  BY DEF FlushEnds
<1> DEFINE Cut(k) == SubSeq(b, 1, k)
           Rest(k) == SubSeq(b, k + 1, n)
<1>2. ASSUME NEW k \in 0..n
      PROVE  /\ Cut(k) \in Seq(Batch) /\ Rest(k) \in Seq(Batch)
             /\ Len(Rest(k)) = n - k
             /\ \A i \in 1..(n - k) : Rest(k)[i] = b[k + i]
             /\ b = Cut(k) \o Rest(k)
  <2>1. \A i \in 1..n : b[i] \in Batch
    BY ElementOfSeq
  <2>2. /\ Cut(k) \in Seq(Batch) /\ Len(Cut(k)) = k
        /\ \A i \in 1..k : Cut(k)[i] = b[i]
    OBVIOUS
  <2>3. /\ Rest(k) \in Seq(Batch) /\ Len(Rest(k)) = n - k
        /\ \A i \in 1..(n - k) : Rest(k)[i] = b[k + i]
    OBVIOUS
  <2>4. b = Cut(k) \o Rest(k)
    <3>1. SubSeq(b, 1, k) \o SubSeq(b, k + 1, n) = SubSeq(b, 1, n)
      <4>1. 1 \in 1..(Len(b) + 1) /\ k \in (1 - 1)..Len(b) /\ n \in k..Len(b)
        BY <1>1
      <4>2. QED
        BY <4>1, ConcatAdjacentSubSeq
    <3>2. QED
      BY <3>1, SubSeqFull
  <2>5. QED
    BY <2>2, <2>3, <2>4
<1> HIDE DEF Cut, Rest
<1>3. Painted(b, e) = ItemsOf(Cut(e.painted)) /\ Undelivered(b, e) = Range(ItemsOf(Rest(e.acked)))
  BY DEF Painted, Undelivered, Cut, Rest
<1>4. Painted(b, e) \in Seq(Item)
  BY <1>1, <1>2, <1>3, ItemsOfType
<1>5. ASSUME NEW x \in Undelivered(b, e) PROVE x \in Range(ItemsOf(b))
  <2>1. PICK i \in 1..(n - e.acked) : x \in Range(b[e.acked + i].items)
    <3>1. e.acked \in 0..n
      BY <1>1
    <3>2. PICK i \in 1..Len(Rest(e.acked)) : x \in Range(Rest(e.acked)[i].items)
      BY <1>2, <1>3, <1>5, <3>1, ItemsOfRange
    <3>3. i \in 1..(n - e.acked) /\ Rest(e.acked)[i] = b[e.acked + i]
      BY <1>2, <3>1, <3>2
    <3>4. QED
      BY <3>2, <3>3
  <2>2. e.acked + i \in 1..n
    BY <1>1, <2>1
  <2>3. QED
    BY <2>1, <2>2, ItemsOfRange
<1> DEFINE z == ItemsOf(Rest(e.painted))
<1>6. z \in Seq(Item) /\ ItemsOf(b) = Painted(b, e) \o z
  BY <1>1, <1>2, <1>3, ItemsOfConcat, ItemsOfType
<1>7. ASSUME NEW x \in Range(z) PROVE x \in Undelivered(b, e)
  <2>1. PICK i \in 1..(n - e.painted) : x \in Range(b[e.painted + i].items)
    <3>1. e.painted \in 0..n
      BY <1>1
    <3>2. PICK i \in 1..Len(Rest(e.painted)) : x \in Range(Rest(e.painted)[i].items)
      BY <1>2, <1>7, <3>1, ItemsOfRange
    <3>3. i \in 1..(n - e.painted) /\ Rest(e.painted)[i] = b[e.painted + i]
      BY <1>2, <3>1, <3>2
    <3>4. QED
      BY <3>2, <3>3
  <2> DEFINE j == e.painted - e.acked + i
  <2>2. j \in 1..(n - e.acked) /\ e.acked + j = e.painted + i
    BY <1>1, <2>1
  <2>3. x \in Range(Rest(e.acked)[j].items)
    BY <1>1, <1>2, <2>1, <2>2
  <2>4. Rest(e.acked) \in Seq(Batch) /\ j \in 1..Len(Rest(e.acked))
    BY <1>1, <1>2, <2>2
  <2>5. x \in Range(ItemsOf(Rest(e.acked)))
    <3> HIDE DEF j
    <3>1. QED
      BY <2>3, <2>4, ItemsOfRange
  <2>6. QED
    BY <1>3, <2>5
<1>8. QED
  BY <1>4, <1>5, <1>6, <1>7

\* What is on the page and on its way to it when `gone` is left out and the
\* part ahead of it has been painted.
LEMMA Thinned ==
    ASSUME NEW a \in Seq(Item), NEW p \in Seq(Item), NEW gone \in Seq(Item), NEW w \in Seq(Item)
    PROVE  LET before == (a \o (p \o gone)) \o w
               after == Shows(a \o p) \o w
           IN  /\ after \in Seq(Item) /\ before \in Seq(Item)
               /\ Ordered(before) => Ordered(after)
               /\ Visible(before) \subseteq Visible(after) \cup Range(gone)
               /\ Range(after) \subseteq Range(before)
<1> DEFINE ap == a \o p
           before == (a \o (p \o gone)) \o w
           after == Shows(ap) \o w
<1>1. ap \in Seq(Item) /\ p \o gone \in Seq(Item) /\ ap \o gone \in Seq(Item)
  OBVIOUS
<1>2. a \o (p \o gone) = ap \o gone
  BY ItemsAssociative, ZenonT(60)
<1>3. before = (ap \o gone) \o w
  BY <1>2
<1> HIDE DEF ap
<1>4. Shows(ap) \in Seq(Item)
  BY <1>1, ShowsType
<1>5. before \in Seq(Item) /\ after \in Seq(Item)
  BY <1>1, <1>3, <1>4
<1>6. Range(before) = Range(ap) \cup Range(gone) \cup Range(w)
  <2>1. Range(ap \o gone) = Range(ap) \cup Range(gone)
    BY <1>1, RangeConcat
  <2>2. Range(before) = Range(ap \o gone) \cup Range(w)
    BY <1>1, <1>3, RangeConcat
  <2>3. QED
    BY <2>1, <2>2
<1>7. Range(after) = Visible(ap) \cup Range(w) /\ Visible(ap) \subseteq Range(ap)
  BY <1>1, <1>4, RangeConcat, ShowsType DEF Visible
<1>8. Ordered(before) => Ordered(after)
  <2> SUFFICES ASSUME Ordered(before) PROVE Ordered(after)
    OBVIOUS
  <2>1. Ordered(ap \o gone) /\ Ordered(w) /\ AllPrecede(Range(ap \o gone), Range(w))
    BY <1>1, <1>3, OrderedConcat
  <2>2. Ordered(ap)
    BY <1>1, <2>1, OrderedConcat
  <2>3. Ordered(Shows(ap))
    BY <1>1, <2>2, OrderedShows
  <2>4. AllPrecede(Range(Shows(ap)), Range(w))
    BY <1>1, <1>7, <2>1, RangeConcat DEF AllPrecede, Visible
  <2>5. QED
    BY <1>4, <2>1, <2>3, <2>4, OrderedConcat
<1>9. Visible(before) \subseteq Visible(after) \cup Range(gone)
  <2>1. Visible(before) = IF HasScreen(w) THEN Visible(w) ELSE Visible(ap \o gone) \cup Range(w)
    BY <1>1, <1>3, VisibleConcat
  <2>2. Visible(after) = IF HasScreen(w) THEN Visible(w) ELSE Visible(Shows(ap)) \cup Range(w)
    BY <1>4, VisibleConcat
  <2>3. Visible(ap \o gone) = IF HasScreen(gone) THEN Visible(gone) ELSE Visible(ap) \cup Range(gone)
    BY <1>1, VisibleConcat
  <2>4. Visible(gone) \subseteq Range(gone) /\ Visible(Shows(ap)) = Visible(ap)
    BY <1>1, ShowsType, VisibleShows
  <2>5. QED
    BY <2>1, <2>2, <2>3, <2>4
<1>10. QED
  BY <1>5, <1>6, <1>7, <1>8, <1>9 DEF ap

\* Writing the seed: an item that is no chunk, put where it clears nothing.
LEMMA Inserted ==
    ASSUME NEW a \in Seq(Item), NEW x \in Item, NEW w \in Seq(Item),
           x.kind # "chunk", x.kind = "screen" => a = <<>>
    PROVE  LET before == a \o w
               after == Append(a, x) \o w
           IN  /\ before \in Seq(Item) /\ after \in Seq(Item)
               /\ Ordered(before) => Ordered(after)
               /\ Visible(before) \subseteq Visible(after)
               /\ Range(after) = Range(before) \cup {x}
<1> DEFINE o == <<x>>
           before == a \o w
           after == Append(a, x) \o w
<1>1. o \in Seq(Item) /\ Append(a, x) = a \o o /\ a \o o \in Seq(Item)
  OBVIOUS
<1>2. Range(o) = {x} /\ Ordered(o) /\ (HasScreen(o) <=> x.kind = "screen")
  BY DEF Range, Ordered, HasScreen
<1> HIDE DEF o
<1>3. after = (a \o o) \o w
  BY <1>1
<1>4. before \in Seq(Item) /\ after \in Seq(Item)
  BY <1>1, <1>3
<1>5. Range(after) = Range(before) \cup {x}
  <2>1. Range(a \o o) = Range(a) \cup Range(o)
    BY <1>1, RangeConcat
  <2>2. Range(after) = Range(a \o o) \cup Range(w) /\ Range(before) = Range(a) \cup Range(w)
    BY <1>1, <1>3, RangeConcat
  <2>3. QED
    BY <1>2, <2>1, <2>2
<1>6. Ordered(before) => Ordered(after)
  <2> SUFFICES ASSUME Ordered(before) PROVE Ordered(after)
    OBVIOUS
  <2>1. Ordered(a) /\ Ordered(w) /\ AllPrecede(Range(a), Range(w))
    BY OrderedConcat
  <2>2. AllPrecede(Range(a), Range(o)) /\ AllPrecede(Range(o), Range(w))
    BY <1>2 DEF AllPrecede, Precedes
  <2>3. Ordered(a \o o)
    BY <1>1, <1>2, <2>1, <2>2, OrderedConcat
  <2>4. AllPrecede(Range(a \o o), Range(w))
    BY <1>1, <2>1, <2>2, RangeConcat DEF AllPrecede
  <2>5. QED
    BY <1>1, <1>3, <2>1, <2>3, <2>4, OrderedConcat
<1>7. Visible(before) \subseteq Visible(after)
  <2>1. Visible(before) = IF HasScreen(w) THEN Visible(w) ELSE Visible(a) \cup Range(w)
    BY VisibleConcat
  <2>2. Visible(after) = IF HasScreen(w) THEN Visible(w) ELSE Visible(a \o o) \cup Range(w)
    BY <1>1, <1>3, VisibleConcat
  <2>3. Visible(a \o o) = IF HasScreen(o) THEN Visible(o) ELSE Visible(a) \cup Range(o)
    BY <1>1, VisibleConcat
  <2>4. HasScreen(o) => Visible(a) = {}
    <3>1. Visible(<<>>) \subseteq Range(<<>>) /\ Range(<<>>) = {}
      <4>1. <<>> \in Seq(Item)
        OBVIOUS
      <4>2. Range(<<>>) = {}
        BY DEF Range
      <4>3. QED
        BY <4>1, <4>2, ShowsType
    <3>2. QED
      BY <1>2, <3>1
  <2>5. QED
    BY <2>1, <2>2, <2>3, <2>4
<1>8. QED
  BY <1>4, <1>5, <1>6, <1>7

-----------------------------------------------------------------------------
(* What a write or a flush may do to what is shown and on its way          *)

\* q shows what p shows but for what is lost, adds nothing and keeps the order.
Thins(p, q, lost) ==
    /\ p \in Seq(Item) /\ q \in Seq(Item)
    /\ Ordered(p) => Ordered(q)
    /\ Visible(p) \subseteq Visible(q) \cup lost
    /\ Range(q) \subseteq Range(p)

\* The page, the staged release, the fence and the bridge, in painting order.
Flow(pg, st, ba, br) == pg \o ((ItemsOf(st) \o ItemsOf(ba)) \o br)

\* The empty sequence.
LEMMA EmptyItems ==
    /\ <<>> \in Seq(Item) /\ <<>> \in Seq(Batch)
    /\ Range(<<>>) = {}
    /\ Visible(<<>>) = {}
    /\ ~HasScreen(<<>>)
    /\ Ordered(<<>>)
    /\ ItemsOf(<<>>) = <<>>
    /\ \A s \in Seq(Item) : s \o <<>> = s /\ <<>> \o s = s
<1>1. <<>> \in Seq(Item) /\ <<>> \in Seq(Batch)
  OBVIOUS
<1>2. Range(<<>>) = {} /\ ~HasScreen(<<>>) /\ Ordered(<<>>)
  BY DEF Range, HasScreen, Ordered
<1>3. Visible(<<>>) = {}
  BY <1>1, <1>2, ShowsType
<1>4. \A s \in Seq(Item) : s \o <<>> = s /\ <<>> \o s = s
  BY ConcatEmptySeq
<1>5. QED
  BY <1>1, <1>2, <1>3, <1>4, ItemsOfEmpty

\* Thinning twice.
LEMMA ThinsTrans ==
    ASSUME NEW p, NEW q, NEW r, NEW l1, NEW l2, Thins(p, q, l1), Thins(q, r, l2)
    PROVE  Thins(p, r, l1 \cup l2)
BY DEF Thins

\* Repainting: what is shown is all that is left of the page.
LEMMA ShowsThins ==
    ASSUME NEW a \in Seq(Item), NEW w \in Seq(Item)
    PROVE  Thins(a \o w, Shows(a) \o w, {})
<1> DEFINE e == <<>>
<1>1. e \in Seq(Item) /\ a \o (e \o e) = a /\ a \o e = a /\ Range(e) = {}
  <2>1. e \in Seq(Item) /\ Range(e) = {}
    BY EmptyItems
  <2>2. e \o e = e /\ a \o e = a
    BY <2>1, EmptyItems
  <2>3. QED
    BY <2>1, <2>2
<1> HIDE DEF e
<1>2. /\ Shows(a \o e) \o w \in Seq(Item) /\ (a \o (e \o e)) \o w \in Seq(Item)
      /\ Ordered((a \o (e \o e)) \o w) => Ordered(Shows(a \o e) \o w)
      /\ Visible((a \o (e \o e)) \o w) \subseteq Visible(Shows(a \o e) \o w) \cup Range(e)
      /\ Range(Shows(a \o e) \o w) \subseteq Range((a \o (e \o e)) \o w)
  BY <1>1, Thinned
<1>3. QED
  BY <1>1, <1>2 DEF Thins

\* Leaving out something between.
LEMMA SkipThins ==
    ASSUME NEW a \in Seq(Item), NEW gone \in Seq(Item), NEW w \in Seq(Item)
    PROVE  Thins((a \o gone) \o w, a \o w, Range(gone))
<1> DEFINE p == (a \o gone) \o w
           q == a \o w
<1>1. a \o gone \in Seq(Item) /\ p \in Seq(Item) /\ q \in Seq(Item)
  OBVIOUS
<1>2. /\ Range(a \o gone) = Range(a) \cup Range(gone)
      /\ Range(q) = Range(a) \cup Range(w)
      /\ Range(p) = Range(a \o gone) \cup Range(w)
  BY <1>1, RangeConcat
<1>3. Ordered(p) => Ordered(q)
  <2>1. Ordered(p) => Ordered(a \o gone) /\ Ordered(w) /\ AllPrecede(Range(a \o gone), Range(w))
    BY <1>1, OrderedConcat
  <2>2. Ordered(a \o gone) => Ordered(a)
    BY OrderedConcat
  <2>3. AllPrecede(Range(a \o gone), Range(w)) => AllPrecede(Range(a), Range(w))
    BY <1>2 DEF AllPrecede
  <2>4. QED
    BY <2>1, <2>2, <2>3, OrderedConcat
<1>4. Visible(p) \subseteq Visible(q) \cup Range(gone)
  <2>1. Visible(p) = IF HasScreen(w) THEN Visible(w) ELSE Visible(a \o gone) \cup Range(w)
    BY <1>1, VisibleConcat
  <2>2. Visible(q) = IF HasScreen(w) THEN Visible(w) ELSE Visible(a) \cup Range(w)
    BY <1>1, VisibleConcat
  <2>3. Visible(a \o gone) = IF HasScreen(gone) THEN Visible(gone) ELSE Visible(a) \cup Range(gone)
    BY VisibleConcat
  <2>4. Visible(gone) \subseteq Range(gone)
    BY ShowsType
  <2>5. QED
    BY <2>1, <2>2, <2>3, <2>4
<1>5. QED
  BY <1>1, <1>2, <1>3, <1>4 DEF Thins

\* A flush of the fence: with nothing staged, or with nothing in the fence.
LEMMA FlushThins ==
    ASSUME NEW pg \in Seq(Item), NEW st \in Seq(Batch), NEW ba \in Seq(Batch), NEW br \in Seq(Item),
           st = <<>> \/ ba = <<>>, NEW e \in FlushEnds(ba)
    PROVE  /\ Thins(Flow(pg, st, ba, br), Flow(Shows(pg \o Painted(ba, e)), st, <<>>, br),
                    Undelivered(ba, e))
           /\ Range(Painted(ba, e)) \subseteq Range(ItemsOf(ba))
<1>1. PICK z \in Seq(Item) : /\ ItemsOf(ba) = Painted(ba, e) \o z
                             /\ Range(z) \subseteq Undelivered(ba, e)
  BY FlushSplits
<1> DEFINE p == Painted(ba, e)
           s == ItemsOf(st)
<1>2. p \in Seq(Item) /\ s \in Seq(Item) /\ ItemsOf(ba) \in Seq(Item)
  BY FlushSplits, ItemsOfType
<1>3. Range(p) \subseteq Range(ItemsOf(ba))
  BY <1>1, <1>2, RangeConcat
<1>4. CASE st = <<>>
  <2>1. s = <<>>
    BY <1>4, EmptyItems
  <2> HIDE DEF p, s
  <2>2. Flow(pg, st, ba, br) = ((pg \o p) \o z) \o br
    <3>1. s \o ItemsOf(ba) = p \o z
      BY <1>1, <1>2, <2>1, EmptyItems DEF p
    <3>2. Flow(pg, st, ba, br) = pg \o ((p \o z) \o br)
      BY <3>1 DEF Flow, s
    <3>3. p \o z \in Seq(Item) /\ pg \o p \in Seq(Item)
      BY <1>2
    <3>4. pg \o ((p \o z) \o br) = (pg \o (p \o z)) \o br
      BY <3>3, ItemsAssociative, ZenonT(60)
    <3>5. pg \o (p \o z) = (pg \o p) \o z
      BY <1>2, ItemsAssociative, ZenonT(60)
    <3>6. QED
      BY <3>2, <3>4, <3>5
  <2>3. Flow(Shows(pg \o p), st, <<>>, br) = Shows(pg \o p) \o br
    <3>1. (s \o ItemsOf(<<>>)) \o br = br
      BY <2>1, EmptyItems, Zenon
    <3>2. QED
      BY <3>1 DEF Flow, s
  <2>4. pg \o p \in Seq(Item)
    BY <1>2
  <2>5. Thins(((pg \o p) \o z) \o br, (pg \o p) \o br, Range(z))
    BY <2>4, SkipThins
  <2>6. Thins((pg \o p) \o br, Shows(pg \o p) \o br, {})
    BY <2>4, ShowsThins
  <2>7. Thins(((pg \o p) \o z) \o br, Shows(pg \o p) \o br, Range(z) \cup {})
    BY <2>5, <2>6, ThinsTrans
  <2>8. Thins(((pg \o p) \o z) \o br, Shows(pg \o p) \o br, Undelivered(ba, e))
    BY <1>1, <2>7 DEF Thins
  <2>9. QED
    BY <1>3, <2>2, <2>3, <2>8 DEF p
<1>5. CASE ba = <<>>
  <2>1. ItemsOf(ba) = <<>> /\ ItemsOf(<<>>) = <<>>
    BY <1>5, EmptyItems
  <2>2. p = <<>>
    <3> HIDE DEF p
    <3>1. p \o z = <<>>
      BY <1>1, <2>1 DEF p
    <3>2. Len(p \o z) = Len(p) + Len(z) /\ Len(p) \in Nat /\ Len(z) \in Nat
      BY <1>2, ConcatProperties
    <3>3. Len(p) = 0
      BY <3>1, <3>2, EmptySeq
    <3>4. QED
      BY <1>2, <3>3, EmptySeq
  <2> HIDE DEF p, s
  <2>3. s \o <<>> = s /\ pg \o p = pg
    BY <1>2, <2>2, EmptyItems
  <2>4. Flow(pg, st, ba, br) = pg \o (s \o br)
    BY <2>1, <2>3 DEF Flow, s
  <2>5. Flow(Shows(pg \o p), st, <<>>, br) = Shows(pg) \o (s \o br)
    BY <2>1, <2>3 DEF Flow, s
  <2>6. s \o br \in Seq(Item)
    BY <1>2
  <2>7. Thins(pg \o (s \o br), Shows(pg) \o (s \o br), {})
    BY <2>6, ShowsThins
  <2>8. Thins(pg \o (s \o br), Shows(pg) \o (s \o br), Undelivered(ba, e))
    BY <2>7 DEF Thins
  <2>9. QED
    BY <1>3, <2>4, <2>5, <2>8 DEF p
<1>6. QED
  BY <1>4, <1>5

\* A staged batch is painted and taken off.
LEMMA ReleaseThins ==
    ASSUME NEW pg \in Seq(Item), NEW st \in Seq(Batch), NEW br \in Seq(Item), st # <<>>
    PROVE  /\ Head(st).items \in Seq(Item) /\ Tail(st) \in Seq(Batch)
           /\ Range(ItemsOf(st)) = Range(Head(st).items) \cup Range(ItemsOf(Tail(st)))
           /\ Thins(Flow(pg, st, <<>>, br), Flow(Shows(pg \o Head(st).items), Tail(st), <<>>, br), {})
<1> DEFINE h == Head(st).items
           t == ItemsOf(Tail(st))
<1>1. Head(st) \in Batch /\ Tail(st) \in Seq(Batch) /\ st = <<Head(st)>> \o Tail(st)
  BY HeadTailProperties
<1>2. h \in Seq(Item) /\ t \in Seq(Item)
  BY <1>1, ItemsOfType DEF Batch
<1>3. ItemsOf(st) = h \o t
  <2>1. <<Head(st)>> \in Seq(Batch)
    BY <1>1
  <2>2. ItemsOf(<<Head(st)>> \o Tail(st)) = ItemsOf(<<Head(st)>>) \o t
    BY <1>1, <2>1, ItemsOfConcat
  <2>3. ItemsOf(<<Head(st)>>) = h
    BY <1>1, ItemsOfOne
  <2>4. QED
    BY <1>1, <2>2, <2>3
<1> HIDE DEF h, t
<1>4. Flow(pg, st, <<>>, br) = (pg \o h) \o (t \o br)
  <2>1. h \o t \in Seq(Item) /\ t \o br \in Seq(Item) /\ ItemsOf(<<>>) = <<>>
    BY <1>2, EmptyItems
  <2>2. (h \o t) \o <<>> = h \o t
    BY <2>1, EmptyItems
  <2>3. Flow(pg, st, <<>>, br) = pg \o ((h \o t) \o br)
    BY <1>3, <2>1, <2>2 DEF Flow
  <2>4. (h \o t) \o br = h \o (t \o br)
    BY <1>2, ItemsAssociative
  <2>5. pg \o (h \o (t \o br)) = (pg \o h) \o (t \o br)
    BY <1>2, <2>1, ItemsAssociative
  <2>6. QED
    BY <2>3, <2>4, <2>5
<1>5. Flow(Shows(pg \o h), Tail(st), <<>>, br) = Shows(pg \o h) \o (t \o br)
  <2>1. ItemsOf(<<>>) = <<>> /\ t \o <<>> = t
    BY <1>2, EmptyItems
  <2>2. QED
    BY <2>1 DEF Flow, t
<1>6. pg \o h \in Seq(Item) /\ t \o br \in Seq(Item)
  BY <1>2
<1>7. Thins((pg \o h) \o (t \o br), Shows(pg \o h) \o (t \o br), {})
  BY <1>6, ShowsThins
<1>8. Range(h \o t) = Range(h) \cup Range(t)
  BY <1>2, RangeConcat
<1>9. QED
  BY <1>1, <1>2, <1>3, <1>4, <1>5, <1>7, <1>8 DEF h, t

\* The staged flush fails: all but the last batch is reported.
LEMMA ReleaseFailThins ==
    ASSUME NEW pg \in Seq(Item), NEW st \in Seq(Batch), NEW br \in Seq(Item), Len(st) > 1
    PROVE  /\ <<Last(st)>> \in Seq(Batch)
           /\ Head(st).items \in Seq(Item) /\ Range(Head(st).items) \subseteq Range(ItemsOf(st))
           /\ Range(ItemsOf(<<Last(st)>>)) \subseteq Range(ItemsOf(st))
           /\ Range(ItemsOf(Front(st))) \subseteq Range(ItemsOf(st))
           /\ Range(ItemsOf(st)) \subseteq Item
           /\ Thins(Flow(pg, st, <<>>, br), Flow(pg, <<Last(st)>>, <<>>, br), Range(ItemsOf(Front(st))))
           /\ Thins(Flow(pg, st, <<>>, br), Flow(Shows(pg \o Head(st).items), <<Last(st)>>, <<>>, br),
                    Range(ItemsOf(Front(st))))
<1> DEFINE fr == Front(st)
           la == Last(st)
           rest == ItemsOf(Tail(fr))
           h == Head(st).items
           f == ItemsOf(fr)
           l == la.items
<1>1. /\ fr \in Seq(Batch) /\ Len(fr) = Len(st) - 1 /\ la \in Batch
      /\ \A i \in 1..Len(fr) : fr[i] = st[i]
      /\ st = fr \o <<la>>
      /\ <<la>> \in Seq(Batch)
  <2>1. fr \in Seq(Batch) /\ Len(fr) = Len(st) - 1 /\ \A i \in 1..Len(fr) : fr[i] = st[i]
    BY DEF Front
  <2>2. la \in Batch /\ la = st[Len(st)]
    BY ElementOfSeq DEF Last
  <2>3. st = Append(fr, la)
    <3> HIDE DEF fr, la
    <3>1. Append(fr, la) \in Seq(Batch) /\ Len(Append(fr, la)) = Len(st)
      BY <2>1, <2>2
    <3>2. ASSUME NEW i \in 1..Len(st) PROVE st[i] = Append(fr, la)[i]
      <4>1. CASE i = Len(st)
        BY <2>1, <2>2, <4>1
      <4>2. CASE i # Len(st)
        BY <2>1, <2>2, <4>2
      <4>3. QED
        BY <4>1, <4>2
    <3>3. QED
      BY <3>1, <3>2, SeqEqual
  <2>4. Append(fr, la) = fr \o <<la>> /\ <<la>> \in Seq(Batch)
    <3> HIDE DEF fr, la
    <3>1. QED
      BY <2>1, <2>2
  <2>5. QED
    BY <2>1, <2>2, <2>3, <2>4
<1>2. fr # <<>> /\ Head(fr) = Head(st) /\ Head(fr) \in Batch /\ Tail(fr) \in Seq(Batch)
      /\ fr = <<Head(fr)>> \o Tail(fr)
  <2> HIDE DEF fr, la
  <2>1. Len(fr) > 0 /\ 1 \in 1..Len(fr)
    BY <1>1
  <2>2. fr # <<>>
    BY <2>1
  <2>3. Head(fr) = fr[1] /\ Head(st) = st[1]
    BY <1>1, <2>2
  <2>4. QED
    BY <1>1, <2>1, <2>2, <2>3, HeadTailProperties
<1> HIDE DEF fr, la
<1>3. /\ h \in Seq(Item) /\ rest \in Seq(Item) /\ f \in Seq(Item) /\ l \in Seq(Item)
      /\ ItemsOf(<<la>>) = l
      /\ ItemsOf(st) = f \o l
      /\ f = h \o rest
  <2>1. h \in Seq(Item) /\ l \in Seq(Item)
    BY <1>1, <1>2 DEF Batch
  <2>2. rest \in Seq(Item) /\ f \in Seq(Item)
    BY <1>1, <1>2, ItemsOfType
  <2>3. ItemsOf(<<la>>) = l
    BY <1>1, ItemsOfOne
  <2>4. ItemsOf(st) = f \o ItemsOf(<<la>>)
    BY <1>1, ItemsOfConcat
  <2>5. f = ItemsOf(<<Head(fr)>>) \o rest
    <3>1. <<Head(fr)>> \in Seq(Batch)
      BY <1>2
    <3>2. ItemsOf(<<Head(fr)>> \o Tail(fr)) = ItemsOf(<<Head(fr)>>) \o rest
      BY <1>2, <3>1, ItemsOfConcat
    <3>3. QED
      BY <1>2, <3>2
  <2>6. ItemsOf(<<Head(fr)>>) = h
    BY <1>2, ItemsOfOne
  <2>7. QED
    BY <2>1, <2>2, <2>3, <2>4, <2>5, <2>6
<1> HIDE DEF rest, h, f, l
<1>4. /\ Range(f \o l) = Range(f) \cup Range(l) /\ Range(h \o rest) = Range(h) \cup Range(rest)
      /\ Range(f \o l) \subseteq Item
  <2>1. f \o l \in Seq(Item)
    BY <1>3
  <2>2. QED
    BY <1>3, <2>1, RangeConcat, InRange
<1> DEFINE w == l \o br
<1>5. w \in Seq(Item)
  BY <1>3
<1>6. /\ Flow(pg, st, <<>>, br) = (pg \o f) \o w
      /\ Flow(pg, <<la>>, <<>>, br) = pg \o w
      /\ Flow(Shows(pg \o h), <<la>>, <<>>, br) = Shows(pg \o h) \o w
  <2>1. ItemsOf(<<>>) = <<>> /\ (f \o l) \o <<>> = f \o l /\ l \o <<>> = l
    <3>1. f \o l \in Seq(Item)
      BY <1>3
    <3>2. QED
      BY <1>3, <3>1, EmptyItems
  <2>2. Flow(pg, st, <<>>, br) = pg \o ((f \o l) \o br)
    BY <1>3, <2>1 DEF Flow
  <2>3. (f \o l) \o br = f \o w
    BY <1>3, ItemsAssociative, ZenonT(60)
  <2>4. pg \o (f \o w) = (pg \o f) \o w
    <3> HIDE DEF w
    <3>1. QED
      BY <1>3, <1>5, ItemsAssociative, ZenonT(60)
  <2>5. QED
    BY <1>3, <2>1, <2>2, <2>3, <2>4 DEF Flow
<1> HIDE DEF w
<1>7. Thins((pg \o f) \o w, pg \o w, Range(f))
  BY <1>3, <1>5, SkipThins
<1>8. Thins((pg \o f) \o w, Shows(pg \o h) \o w, Range(f))
  <2>1. pg \o f = (pg \o h) \o rest
    BY <1>3, ItemsAssociative, ZenonT(60)
  <2>2. pg \o h \in Seq(Item)
    BY <1>3
  <2>3. Thins(((pg \o h) \o rest) \o w, (pg \o h) \o w, Range(rest))
    BY <1>3, <1>5, <2>2, SkipThins
  <2>4. Thins((pg \o h) \o w, Shows(pg \o h) \o w, {})
    BY <1>5, <2>2, ShowsThins
  <2>5. Thins((pg \o f) \o w, Shows(pg \o h) \o w, Range(rest) \cup {})
    BY <2>1, <2>3, <2>4, ThinsTrans
  <2>6. QED
    BY <1>3, <1>4, <2>5 DEF Thins
<1>9. QED
  BY <1>1, <1>3, <1>4, <1>6, <1>7, <1>8 DEF f, h, la, fr

\* The pipeline and its members.
LEMMA FlowType ==
    ASSUME NEW pg \in Seq(Item), NEW st \in Seq(Batch), NEW ba \in Seq(Batch), NEW br \in Seq(Item)
    PROVE  /\ (ItemsOf(st) \o ItemsOf(ba)) \o br \in Seq(Item)
           /\ Range((ItemsOf(st) \o ItemsOf(ba)) \o br)
                = Range(ItemsOf(st)) \cup Range(ItemsOf(ba)) \cup Range(br)
           /\ Flow(pg, st, ba, br) \in Seq(Item)
           /\ Range(Flow(pg, st, ba, br)) = Range(pg) \cup Range((ItemsOf(st) \o ItemsOf(ba)) \o br)
<1> DEFINE s == ItemsOf(st)
           b == ItemsOf(ba)
           h == (s \o b) \o br
<1>1. s \in Seq(Item) /\ b \in Seq(Item)
  BY ItemsOfType
<1> HIDE DEF s, b
<1>2. s \o b \in Seq(Item) /\ Range(s \o b) = Range(s) \cup Range(b)
  BY <1>1, RangeConcat
<1>3. h \in Seq(Item) /\ Range(h) = Range(s \o b) \cup Range(br)
  BY <1>2, RangeConcat
<1> HIDE DEF h
<1>4. pg \o h \in Seq(Item) /\ Range(pg \o h) = Range(pg) \cup Range(h)
  BY <1>3, RangeConcat
<1>5. QED
  BY <1>2, <1>3, <1>4 DEF Flow, s, b, h

\* Holding a round for the frame.
LEMMA HoldFlow ==
    ASSUME NEW pg \in Seq(Item), NEW st \in Seq(Batch), NEW ba \in Seq(Batch), NEW br \in Seq(Item),
           NEW d \in Seq(Item)
    PROVE  Flow(pg, st, ba, br \o d) = Flow(pg, st, ba, br) \o d
<1> DEFINE u == ItemsOf(st) \o ItemsOf(ba)
<1>1. u \in Seq(Item)
  <2>1. ItemsOf(st) \in Seq(Item) /\ ItemsOf(ba) \in Seq(Item)
    BY ItemsOfType
  <2>2. QED
    BY <2>1
<1> HIDE DEF u
<1>2. u \o (br \o d) = (u \o br) \o d /\ u \o br \in Seq(Item)
  BY <1>1, ItemsAssociative, SMTT(60)
<1>3. pg \o ((u \o br) \o d) = (pg \o (u \o br)) \o d
  BY <1>2, ItemsAssociative
<1>4. QED
  BY <1>2, <1>3 DEF Flow, u

\* Nothing staged.
LEMMA UnstagedFlow ==
    ASSUME NEW pg \in Seq(Item), NEW ba \in Seq(Batch), NEW br \in Seq(Item)
    PROVE  /\ Flow(pg, <<>>, ba, br) = pg \o (ItemsOf(ba) \o br)
           /\ Flow(pg, <<>>, <<>>, br) = pg \o br
           /\ Flow(pg, <<>>, ba, <<>>) = pg \o ItemsOf(ba)
           /\ Flow(pg, ba, <<>>, <<>>) = pg \o ItemsOf(ba)
           /\ Flow(pg, <<>>, <<>>, <<>>) = pg
<1> DEFINE b == ItemsOf(ba)
           o == <<>>
<1>1. b \in Seq(Item) /\ o \in Seq(Item) /\ ItemsOf(<<>>) = o
  BY ItemsOfType, EmptyItems
<1>2. \A s \in Seq(Item) : s \o o = s /\ o \o s = s
  BY EmptyItems
<1> HIDE DEF b, o
<1>3. o \o b = b /\ o \o o = o /\ b \o o = b /\ o \o br = br /\ pg \o o = pg
  BY <1>1, <1>2
<1>4. QED
  BY <1>1, <1>3 DEF Flow, b, o

\* The frame goes into the fence, or with what is in it into a staged release.
LEMMA RetainFlow ==
    ASSUME NEW pg \in Seq(Item), NEW ba \in Seq(Batch), NEW br \in Seq(Item), NEW c \in 0..MaxOutput
    PROVE  LET x == [items |-> br, covered |-> c]
           IN  /\ Append(ba, x) \in Seq(Batch)
               /\ Flow(pg, <<>>, Append(ba, x), <<>>) = Flow(pg, <<>>, ba, br)
               /\ Flow(pg, Append(ba, x), <<>>, <<>>) = Flow(pg, <<>>, ba, br)
               /\ Range(ItemsOf(Append(ba, x))) = Range(ItemsOf(ba)) \cup Range(br)
<1> DEFINE x == [items |-> br, covered |-> c]
           y == Append(ba, x)
<1>1. x \in Batch /\ x.items = br
  BY DEF Batch
<1> HIDE DEF x
<1>2. y \in Seq(Batch) /\ ItemsOf(y) = ItemsOf(ba) \o br
  BY <1>1, ItemsOfAppend, SMTT(60)
<1> HIDE DEF y
<1>3. Range(ItemsOf(ba) \o br) = Range(ItemsOf(ba)) \cup Range(br)
  BY ItemsOfType, RangeConcat
<1>4. /\ Flow(pg, <<>>, y, <<>>) = Flow(pg, <<>>, ba, br)
      /\ Flow(pg, y, <<>>, <<>>) = Flow(pg, <<>>, ba, br)
  <2>1. /\ Flow(pg, <<>>, y, <<>>) = pg \o ItemsOf(y)
        /\ Flow(pg, y, <<>>, <<>>) = pg \o ItemsOf(y)
    BY <1>2, EmptyItems, UnstagedFlow
  <2>2. Flow(pg, <<>>, ba, br) = pg \o (ItemsOf(ba) \o br)
    BY UnstagedFlow
  <2>3. QED
    BY <1>2, <2>1, <2>2
<1>5. QED
  BY <1>2, <1>3, <1>4 DEF x, y

\* Painting at once, with nothing staged and nothing in the fence.
LEMMA DirectThins ==
    ASSUME NEW pg \in Seq(Item), NEW br \in Seq(Item), NEW d \in Seq(Item)
    PROVE  Thins(Flow(pg, <<>>, <<>>, br) \o d, Flow(Shows(pg \o (br \o d)), <<>>, <<>>, <<>>), {})
<1> DEFINE x == pg \o (br \o d)
           o == <<>>
<1>1. x \in Seq(Item) /\ br \o d \in Seq(Item) /\ o \in Seq(Item)
  OBVIOUS
<1>2. Flow(pg, <<>>, <<>>, br) = pg \o br
  BY EmptyItems, UnstagedFlow
<1>3. (pg \o br) \o d = x
  BY ItemsAssociative
<1> HIDE DEF x, o
<1>4. Thins(x \o o, Shows(x) \o o, {})
  BY <1>1, ShowsThins
<1>5. Shows(x) \in Seq(Item)
  BY <1>1, ShowsType
<1>6. x \o o = x /\ Shows(x) \o o = Shows(x)
  BY <1>1, <1>5, EmptyItems DEF o
<1>7. Flow(Shows(x), <<>>, <<>>, <<>>) = Shows(x)
  BY <1>5, EmptyItems, UnstagedFlow
<1>8. QED
  BY <1>2, <1>3, <1>4, <1>6, <1>7 DEF x

\* How the parts of a broken fence regroup: k and r are c and d cut elsewhere,
\* and p and z are b and k.
Regroups(g, b, c, d, k, r, p, z) ==
    /\ {g, b, c, d, k, r, p, z} \subseteq Seq(Item)
    /\ k \o r = c \o d
    /\ b \o k = p \o z
    => (g \o (b \o c)) \o d = ((g \o p) \o z) \o r

\* Four parts, grouped from the left and from the right.
LEMMA Regrouped ==
    ASSUME NEW a \in Seq(Item), NEW b \in Seq(Item), NEW c \in Seq(Item), NEW d \in Seq(Item)
    PROVE  /\ (a \o (b \o c)) \o d = a \o (b \o (c \o d))
           /\ a \o ((b \o c) \o d) = ((a \o b) \o c) \o d
<1>1. b \o c \in Seq(Item) /\ c \o d \in Seq(Item)
  OBVIOUS
<1>2. (a \o (b \o c)) \o d = a \o ((b \o c) \o d)
  BY <1>1, ItemsAssociative, SMTT(60)
<1>3. (b \o c) \o d = b \o (c \o d) /\ a \o (b \o c) = (a \o b) \o c
  BY ItemsAssociative, ZenonT(60)
<1>4. QED
  BY <1>2, <1>3

\* Regroups holds of any parts.
LEMMA BreakGroups ==
    ASSUME NEW g, NEW b, NEW c, NEW d, NEW k, NEW r, NEW p, NEW z
    PROVE  Regroups(g, b, c, d, k, r, p, z)
<1>0. SUFFICES ASSUME g \in Seq(Item), b \in Seq(Item), c \in Seq(Item), d \in Seq(Item),
                      k \in Seq(Item), r \in Seq(Item), p \in Seq(Item), z \in Seq(Item),
                      k \o r = c \o d, b \o k = p \o z
               PROVE  (g \o (b \o c)) \o d = ((g \o p) \o z) \o r
  BY Zenon DEF Regroups
<1> DEFINE Left4(s, t, u, v) == (s \o (t \o u)) \o v = s \o (t \o (u \o v))
           Right4(s, t, u, v) == s \o ((t \o u) \o v) = ((s \o t) \o u) \o v
<1>1. \A s, t, u, v \in Seq(Item) : Left4(s, t, u, v) /\ Right4(s, t, u, v)
  BY Regrouped
<1> HIDE DEF Left4, Right4
<1>2. Left4(g, b, c, d) /\ Right4(g, p, z, r)
  BY <1>0, <1>1, Zenon
<1>3. b \o (k \o r) = (b \o k) \o r
  <2>1. b \in Seq(Item) /\ k \in Seq(Item) /\ r \in Seq(Item)
    BY <1>0
  <2>2. QED
    BY <2>1, ItemsAssociative
<1>4. QED
  BY <1>0, <1>2, <1>3, Zenon DEF Left4, Right4

\* The fence is released in the middle of a round: its batches, and what the
\* round had put behind them, are flushed ahead of the rest.
LEMMA BreakThins ==
    ASSUME NEW pg \in Seq(Item), NEW ba \in Seq(Batch), NEW kb \in Seq(Batch), NEW br \in Seq(Item),
           NEW d \in Seq(Item), NEW rest \in Seq(Item), NEW e \in FlushEnds(ba \o kb)
    PROVE  ItemsOf(kb) \o rest = br \o d =>
             Thins(Flow(pg, <<>>, ba, br) \o d,
                   Flow(Shows((pg \o Painted(ba \o kb, e)) \o rest), <<>>, <<>>, <<>>),
                   Undelivered(ba \o kb, e))
<1>0. SUFFICES ASSUME ItemsOf(kb) \o rest = br \o d
               PROVE  Thins(Flow(pg, <<>>, ba, br) \o d,
                            Flow(Shows((pg \o Painted(ba \o kb, e)) \o rest), <<>>, <<>>, <<>>),
                            Undelivered(ba \o kb, e))
  OBVIOUS
<1> DEFINE flushed == ba \o kb
           p == Painted(flushed, e)
           b == ItemsOf(ba)
           k == ItemsOf(kb)
           y == (pg \o p) \o rest
           o == <<>>
<1>1. flushed \in Seq(Batch) /\ b \in Seq(Item) /\ k \in Seq(Item) /\ o \in Seq(Item)
  <2>1. flushed \in Seq(Batch) /\ o \in Seq(Item)
    OBVIOUS
  <2>2. QED
    BY <2>1, ItemsOfType
<1>2. ItemsOf(flushed) = b \o k
  BY ItemsOfConcat
<1> HIDE DEF flushed
<1>3. PICK z \in Seq(Item) : ItemsOf(flushed) = p \o z /\ Range(z) \subseteq Undelivered(flushed, e)
  BY <1>1, FlushSplits DEF flushed
<1>4. p \in Seq(Item)
  BY <1>1, FlushSplits DEF flushed
<1> HIDE DEF p, b, k, o
<1>5. Flow(pg, <<>>, ba, br) \o d = ((pg \o p) \o z) \o rest
  <2>1. Flow(pg, <<>>, ba, br) = pg \o (b \o br)
    BY UnstagedFlow DEF b
  <2>2. k \o rest = br \o d /\ b \o k = p \o z
    BY <1>0, <1>2, <1>3 DEF k
  <2>3. (pg \o (b \o br)) \o d = ((pg \o p) \o z) \o rest
    <3>1. Regroups(pg, b, br, d, k, rest, p, z)
      BY BreakGroups, Zenon
    <3>2. {pg, b, br, d, k, rest, p, z} \subseteq Seq(Item)
      BY <1>1, <1>4, Zenon
    <3>3. QED
      BY <2>2, <3>1, <3>2, Zenon DEF Regroups
  <2>4. QED
    BY <2>1, <2>3
<1>6. pg \o p \in Seq(Item) /\ y \in Seq(Item)
  BY <1>4
<1>7. Thins(((pg \o p) \o z) \o rest, y, Range(z))
  BY <1>6, SkipThins
<1> HIDE DEF y
<1>8. Thins(y \o o, Shows(y) \o o, {})
  BY <1>1, <1>6, ShowsThins
<1>9. Shows(y) \in Seq(Item)
  BY <1>6, ShowsType
<1>10. y \o o = y /\ Shows(y) \o o = Shows(y)
  BY <1>6, <1>9, EmptyItems DEF o
<1>11. Thins(((pg \o p) \o z) \o rest, Shows(y), Range(z) \cup {})
  BY <1>7, <1>8, <1>10, ThinsTrans
<1>12. Thins(((pg \o p) \o z) \o rest, Shows(y), Undelivered(flushed, e))
  BY <1>3, <1>11 DEF Thins
<1>13. Flow(Shows(y), <<>>, <<>>, <<>>) = Shows(y)
  BY <1>9, EmptyItems, UnstagedFlow
<1>14. QED
  BY <1>5, <1>12, <1>13 DEF y, p, flushed

-----------------------------------------------------------------------------
(* The writes of a round                                                   *)

Writes(br, d) == IF br = <<>> THEN <<d>> ELSE <<br, d>>
Kept(br, d, k, c) == [i \in 1..k |-> [items |-> Writes(br, d)[i], covered |-> c]]
Left(br, d, k) == FlattenSeq(SubSeq(Writes(br, d), k + 1, Len(Writes(br, d))))

\* Sequences of one and of two.
LEMMA Few ==
    ASSUME NEW S, NEW a \in S, NEW b \in S
    PROVE  /\ <<a>> \in Seq(S) /\ <<a, b>> \in Seq(S) /\ <<>> \in Seq(S)
           /\ Len(<<a>>) = 1 /\ Len(<<a, b>>) = 2
           /\ Append(<<>>, a) = <<a>> /\ Append(<<a>>, b) = <<a, b>>
           /\ SubSeq(<<a>>, 1, 1) = <<a>> /\ SubSeq(<<a>>, 2, 1) = <<>>
           /\ SubSeq(<<a, b>>, 1, 2) = <<a, b>> /\ SubSeq(<<a, b>>, 2, 2) = <<b>>
           /\ SubSeq(<<a, b>>, 3, 2) = <<>>
<1>1. <<a>> \in Seq(S) /\ <<a, b>> \in Seq(S) /\ <<>> \in Seq(S)
  OBVIOUS
<1>2. Len(<<a>>) = 1 /\ Len(<<a, b>>) = 2
  OBVIOUS
<1>3. Append(<<>>, a) = <<a>> /\ Append(<<a>>, b) = <<a, b>>
  <2>1. Append(<<>>, a) = <<a>>
    OBVIOUS
  <2>2. Len(Append(<<a>>, b)) = 2 /\ Append(<<a>>, b) \in Seq(S)
    BY <1>1
  <2>3. Append(<<a>>, b)[1] = a /\ Append(<<a>>, b)[2] = b
    BY <1>1, <1>2, AppendProperties
  <2>4. <<a, b>>[1] = a /\ <<a, b>>[2] = b
    OBVIOUS
  <2>5. \A i \in 1..2 : Append(<<a>>, b)[i] = <<a, b>>[i]
    BY <2>3, <2>4
  <2>6. Append(<<a>>, b) = <<a, b>>
    BY <1>1, <1>2, <2>2, <2>5, SeqEqual
  <2>7. QED
    BY <2>1, <2>6
<1>4. SubSeq(<<a>>, 1, 1) = <<a>> /\ SubSeq(<<a, b>>, 1, 2) = <<a, b>>
  BY <1>1, <1>2, SubSeqFull
<1>5. SubSeq(<<a>>, 2, 1) = <<>> /\ SubSeq(<<a, b>>, 3, 2) = <<>>
  BY SubSeqEmpty
<1>6. SubSeq(<<a, b>>, 2, 2) = <<b>>
  <2>1. Tail(<<a, b>>) = SubSeq(<<a, b>>, 2, 2)
    BY <1>1, <1>2, TailIsSubSeq
  <2>2. Tail(<<a, b>>) = <<b>>
    OBVIOUS
  <2>3. QED
    BY <2>1, <2>2
<1>7. QED
  BY <1>1, <1>2, <1>3, <1>4, <1>5, <1>6

\* One and two writes.
LEMMA FlattenFew ==
    ASSUME NEW a \in Seq(Item), NEW b \in Seq(Item)
    PROVE  FlattenSeq(<<a>>) = a /\ FlattenSeq(<<a, b>>) = a \o b
<1>1. <<>> \in Seq(Seq(Item)) /\ Append(<<>>, a) = <<a>>
  BY Few
<1>2. FlattenSeq(Append(<<>>, a)) = <<>> \o a
  BY <1>1, FlattenSeqAppend, FlattenSeqEmpty
<1>3. <<>> \o a = a
  BY EmptyItems
<1>4. <<a>> \in Seq(Seq(Item)) /\ Append(<<a>>, b) = <<a, b>>
  BY Few
<1>5. FlattenSeq(Append(<<a>>, b)) = FlattenSeq(<<a>>) \o b
  BY <1>4, FlattenSeqAppend
<1>6. QED
  BY <1>1, <1>2, <1>3, <1>4, <1>5

\* Every cut of the one or two writes of a round.
LEMMA KeptFacts ==
    ASSUME NEW br \in Seq(Item), NEW d \in Seq(Item), NEW c \in 0..MaxOutput
    PROVE  LET xb == [items |-> br, covered |-> c]
               xd == [items |-> d, covered |-> c]
           IN  /\ br = <<>> =>
                    /\ Writes(br, d) = <<d>> /\ Len(Writes(br, d)) = 1
                    /\ Kept(br, d, 0, c) = <<>> /\ Left(br, d, 0) = d
                    /\ Kept(br, d, 1, c) = <<xd>> /\ Left(br, d, 1) = <<>>
               /\ br # <<>> =>
                    /\ Writes(br, d) = <<br, d>> /\ Len(Writes(br, d)) = 2
                    /\ Kept(br, d, 0, c) = <<>> /\ Left(br, d, 0) = br \o d
                    /\ Kept(br, d, 1, c) = <<xb>> /\ Left(br, d, 1) = d
                    /\ Kept(br, d, 2, c) = <<xb, xd>> /\ Left(br, d, 2) = <<>>
<1> DEFINE W == Writes(br, d)
           xb == [items |-> br, covered |-> c]
           xd == [items |-> d, covered |-> c]
<1>1. Kept(br, d, 0, c) = <<>>
  BY DEF Kept
<1>2. /\ SubSeq(<<d>>, 1, 1) = <<d>> /\ SubSeq(<<d>>, 2, 1) = <<>> /\ Len(<<d>>) = 1
      /\ SubSeq(<<br, d>>, 1, 2) = <<br, d>> /\ SubSeq(<<br, d>>, 2, 2) = <<d>>
      /\ SubSeq(<<br, d>>, 3, 2) = <<>> /\ Len(<<br, d>>) = 2
  BY Few
<1>3. FlattenSeq(<<d>>) = d /\ FlattenSeq(<<br, d>>) = br \o d /\ FlattenSeq(<<>>) = <<>>
  BY FlattenFew, FlattenSeqEmpty
<1>4. ASSUME br = <<>>
      PROVE  /\ W = <<d>> /\ Len(W) = 1
             /\ Kept(br, d, 1, c) = <<xd>>
             /\ Left(br, d, 0) = d /\ Left(br, d, 1) = <<>>
  <2>1. W = <<d>>
    BY <1>4 DEF Writes
  <2>2. Kept(br, d, 1, c) = <<xd>>
    BY <2>1 DEF Kept
  <2>3. Left(br, d, 0) = FlattenSeq(SubSeq(<<d>>, 1, 1)) /\ Left(br, d, 1) = FlattenSeq(SubSeq(<<d>>, 2, 1))
    <3>1. Left(br, d, 0) = FlattenSeq(SubSeq(<<d>>, 0 + 1, 1)) /\ Left(br, d, 1) = FlattenSeq(SubSeq(<<d>>, 1 + 1, 1))
      BY <1>2, <2>1, Zenon DEF Left
    <3>2. 0 + 1 = 1 /\ 1 + 1 = 2
      OBVIOUS
    <3>3. QED
      BY <3>1, <3>2, Zenon
  <2>4. QED
    BY <1>2, <1>3, <2>1, <2>2, <2>3, Zenon
<1>5. ASSUME br # <<>>
      PROVE  /\ W = <<br, d>> /\ Len(W) = 2
             /\ Kept(br, d, 1, c) = <<xb>> /\ Kept(br, d, 2, c) = <<xb, xd>>
             /\ Left(br, d, 0) = br \o d /\ Left(br, d, 1) = d /\ Left(br, d, 2) = <<>>
  <2>1. W = <<br, d>>
    BY <1>5 DEF Writes
  <2>2. Kept(br, d, 1, c) = <<xb>> /\ Kept(br, d, 2, c) = <<xb, xd>>
    BY <2>1 DEF Kept
  <2>3. /\ Left(br, d, 0) = FlattenSeq(SubSeq(<<br, d>>, 1, 2))
        /\ Left(br, d, 1) = FlattenSeq(SubSeq(<<br, d>>, 2, 2))
        /\ Left(br, d, 2) = FlattenSeq(SubSeq(<<br, d>>, 3, 2))
    <3>1. /\ Left(br, d, 0) = FlattenSeq(SubSeq(<<br, d>>, 0 + 1, 2))
          /\ Left(br, d, 1) = FlattenSeq(SubSeq(<<br, d>>, 1 + 1, 2))
          /\ Left(br, d, 2) = FlattenSeq(SubSeq(<<br, d>>, 2 + 1, 2))
      BY <1>2, <2>1, Zenon DEF Left
    <3>2. 0 + 1 = 1 /\ 1 + 1 = 2 /\ 2 + 1 = 3
      OBVIOUS
    <3>3. QED
      BY <3>1, <3>2, Zenon
  <2>4. QED
    BY <1>2, <1>3, <2>1, <2>2, <2>3, Zenon
<1>6. QED
  BY <1>1, <1>4, <1>5, Zenon

\* Whatever is retained of a round, the rest follows it.
LEMMA WritesFacts ==
    ASSUME NEW br \in Seq(Item), NEW d \in Seq(Item), NEW c \in 0..MaxOutput
    PROVE  /\ Writes(br, d) # <<>>
           /\ FlattenSeq(Writes(br, d)) = br \o d
           /\ Len(Writes(br, d)) \in Nat
           /\ \A k \in 0..Len(Writes(br, d)) :
                /\ Kept(br, d, k, c) \in Seq(Batch)
                /\ \A i \in 1..Len(Kept(br, d, k, c)) : Kept(br, d, k, c)[i].covered = c
                /\ Left(br, d, k) \in Seq(Item)
                /\ ItemsOf(Kept(br, d, k, c)) \o Left(br, d, k) = br \o d
                /\ k = Len(Writes(br, d)) => ItemsOf(Kept(br, d, k, c)) = br \o d
<1> DEFINE xb == [items |-> br, covered |-> c]
           xd == [items |-> d, covered |-> c]
           o == <<>>
           bd == br \o d
           Covers(s) == \A i \in 1..Len(s) : s[i].covered = c
           Good(k) == /\ Kept(br, d, k, c) \in Seq(Batch)
                      /\ Covers(Kept(br, d, k, c))
                      /\ Left(br, d, k) \in Seq(Item)
                      /\ ItemsOf(Kept(br, d, k, c)) \o Left(br, d, k) = br \o d
                      /\ k = Len(Writes(br, d)) => ItemsOf(Kept(br, d, k, c)) = br \o d
<1>1. xb \in Batch /\ xd \in Batch /\ xb.items = br /\ xd.items = d /\ xb.covered = c /\ xd.covered = c
  BY DEF Batch
<1>2. bd \in Seq(Item) /\ o \in Seq(Item) /\ o \in Seq(Batch) /\ ItemsOf(o) = o
  BY EmptyItems
<1>3. \A s \in Seq(Item) : s \o o = s /\ o \o s = s
  BY EmptyItems
<1>4. /\ <<xb>> \in Seq(Batch) /\ <<xd>> \in Seq(Batch) /\ <<xb, xd>> \in Seq(Batch)
      /\ ItemsOf(<<xb>>) = br /\ ItemsOf(<<xd>>) = d /\ ItemsOf(<<xb, xd>>) = br \o d
  <2> HIDE DEF xb, xd
  <2>1. <<xb>> \in Seq(Batch) /\ <<xd>> \in Seq(Batch) /\ <<xb, xd>> \in Seq(Batch) /\ Append(<<xb>>, xd) = <<xb, xd>>
    BY <1>1, Few
  <2>2. ItemsOf(<<xb>>) = br /\ ItemsOf(<<xd>>) = d
    BY <1>1, ItemsOfOne
  <2>3. ItemsOf(Append(<<xb>>, xd)) = ItemsOf(<<xb>>) \o d
    BY <1>1, <2>1, ItemsOfAppend
  <2>4. QED
    BY <2>1, <2>2, <2>3
<1>5. Covers(<<>>) /\ Covers(<<xb>>) /\ Covers(<<xd>>) /\ Covers(<<xb, xd>>)
  <2> HIDE DEF xb, xd
  <2>1. Covers(<<>>) /\ Covers(<<xb>>) /\ Covers(<<xd>>)
    BY <1>1
  <2>2. Len(<<xb, xd>>) = 2 /\ <<xb, xd>>[1] = xb /\ <<xb, xd>>[2] = xd
    OBVIOUS
  <2>3. Covers(<<xb, xd>>)
    BY <1>1, <2>2
  <2>4. QED
    BY <2>1, <2>3
<1>6. /\ br = <<>> =>
            /\ Writes(br, d) = <<d>> /\ Len(Writes(br, d)) = 1
            /\ Kept(br, d, 0, c) = <<>> /\ Left(br, d, 0) = d
            /\ Kept(br, d, 1, c) = <<xd>> /\ Left(br, d, 1) = <<>>
      /\ br # <<>> =>
            /\ Writes(br, d) = <<br, d>> /\ Len(Writes(br, d)) = 2
            /\ Kept(br, d, 0, c) = <<>> /\ Left(br, d, 0) = br \o d
            /\ Kept(br, d, 1, c) = <<xb>> /\ Left(br, d, 1) = d
            /\ Kept(br, d, 2, c) = <<xb, xd>> /\ Left(br, d, 2) = <<>>
  BY KeptFacts
<1>7. FlattenSeq(<<d>>) = d /\ FlattenSeq(<<br, d>>) = br \o d /\ <<d>> # <<>> /\ <<br, d>> # <<>>
  <2>1. Len(<<d>>) = 1 /\ Len(<<br, d>>) = 2 /\ Len(<<>>) = 0
    BY Few
  <2>2. QED
    BY <2>1, FlattenFew
<1>8. CASE br = <<>>
  <2>1. bd = d
    BY <1>3, <1>8 DEF o
  <2>2. Good(0)
    <3> HIDE DEF xb, xd, Covers
    <3>1. Kept(br, d, 0, c) = o /\ Left(br, d, 0) = bd /\ Len(Writes(br, d)) # 0
      BY <1>6, <1>8, <2>1 DEF o
    <3>2. Covers(o) /\ ItemsOf(o) \o bd = bd
      BY <1>2, <1>3, <1>5 DEF o
    <3> HIDE DEF o
    <3>3. QED
      BY <1>2, <3>1, <3>2, Zenon
  <2>3. Good(1)
    <3> HIDE DEF xb, xd, Covers
    <3>1. Kept(br, d, 1, c) = <<xd>> /\ Left(br, d, 1) = o
      BY <1>6, <1>8 DEF o
    <3>2. ItemsOf(<<xd>>) = bd /\ bd \o o = bd
      BY <1>2, <1>3, <1>4, <2>1
    <3> HIDE DEF o
    <3>3. QED
      BY <1>2, <1>4, <1>5, <3>1, <3>2, Zenon
  <2>4. \A k \in 0..Len(Writes(br, d)) : k = 0 \/ k = 1
    <3>1. Len(Writes(br, d)) = 1
      BY <1>6, <1>8, Zenon
    <3>2. QED
      BY <3>1
  <2> HIDE DEF Good
  <2>5. \A k \in 0..Len(Writes(br, d)) : Good(k)
    BY <2>2, <2>3, <2>4
  <2>6. FlattenSeq(Writes(br, d)) = bd /\ Writes(br, d) # <<>> /\ Len(Writes(br, d)) \in Nat
    BY <1>6, <1>7, <1>8, <2>1
  <2>7. QED
    BY <2>5, <2>6 DEF Good
<1>9. CASE br # <<>>
  <2>1. Len(Writes(br, d)) = 2
    BY <1>6, <1>9, Zenon
  <2>2. Good(0)
    <3> HIDE DEF xb, xd, Covers
    <3>1. Kept(br, d, 0, c) = o /\ Left(br, d, 0) = bd /\ Len(Writes(br, d)) # 0
      <4>1. Kept(br, d, 0, c) = o /\ Left(br, d, 0) = bd
        BY <1>6, <1>9, Zenon DEF o
      <4>2. QED
        BY <2>1, <4>1
    <3>2. Covers(o) /\ ItemsOf(o) \o bd = bd
      BY <1>2, <1>3, <1>5 DEF o
    <3> HIDE DEF o
    <3>3. QED
      BY <1>2, <3>1, <3>2, Zenon
  <2>3. Good(1)
    <3> HIDE DEF xb, xd, Covers
    <3>1. Kept(br, d, 1, c) = <<xb>> /\ Left(br, d, 1) = d /\ Len(Writes(br, d)) # 1
      BY <1>6, <1>9
    <3> HIDE DEF o
    <3>3. QED
      BY <1>2, <1>4, <1>5, <3>1, Zenon
  <2>4. Good(2)
    <3> HIDE DEF xb, xd, Covers
    <3>1. Kept(br, d, 2, c) = <<xb, xd>> /\ Left(br, d, 2) = o
      BY <1>6, <1>9 DEF o
    <3>2. ItemsOf(<<xb, xd>>) = bd /\ bd \o o = bd
      BY <1>2, <1>3, <1>4
    <3> HIDE DEF o
    <3>3. QED
      BY <1>2, <1>4, <1>5, <3>1, <3>2, Zenon
  <2>5. \A k \in 0..Len(Writes(br, d)) : k = 0 \/ k = 1 \/ k = 2
    BY <2>1
  <2> HIDE DEF Good
  <2>6. \A k \in 0..Len(Writes(br, d)) : Good(k)
    BY <2>2, <2>3, <2>4, <2>5
  <2>7. FlattenSeq(Writes(br, d)) = bd /\ Writes(br, d) # <<>> /\ Len(Writes(br, d)) \in Nat
    BY <1>6, <1>7, <1>9
  <2>8. QED
    BY <2>6, <2>7 DEF Good
<1>10. QED
  BY <1>8, <1>9

-----------------------------------------------------------------------------
(* Dropping what the seed covers                                           *)

\* x is in a dropped batch, and no screen follows it.
DroppedLast(b, q, x) ==
    \E i \in 1..Len(b) : /\ x \in Range(b[i].items)
                         /\ b[i].covered <= q
                         /\ \A j \in 1..Len(b) : j > i => ~HasScreen(b[j].items)

\* An item that shows still does, unless its batch was dropped.
LEMMA DropVisible ==
    ASSUME NEW b \in Seq(Batch), NEW q \in Nat, NEW x \in Visible(ItemsOf(b))
    PROVE  x \in Visible(ItemsOf(DropSeedCovered(b, q))) \/ DroppedLast(b, q, x)
<1> DEFINE D(c) == DropSeedCovered(c, q)
           G == {c \in Seq(Batch) : x \in Visible(ItemsOf(c)) =>
                                       x \in Visible(ItemsOf(D(c))) \/ DroppedLast(c, q, x)}
<1>1. <<>> \in G
  <2>1. Visible(ItemsOf(<<>>)) = {} /\ <<>> \in Seq(Batch)
    BY EmptyItems
  <2>2. QED
    BY <2>1
<1>2. ASSUME NEW c \in G, NEW y \in Batch PROVE Append(c, y) \in G
  <2> DEFINE a == Append(c, y)
             z == IF y.covered <= q THEN Emptied(y) ELSE y
  <2>1. /\ a \in Seq(Batch) /\ Len(a) = Len(c) + 1 /\ a[Len(c) + 1] = y
        /\ \A i \in 1..Len(c) : a[i] = c[i]
        /\ Len(c) \in Nat /\ c \in Seq(Batch)
    BY AppendProperties
  <2>2. D(a) = Append(D(c), z)
    BY <2>1 DEF DropSeedCovered
  <2>3. z \in Batch /\ (y.covered <= q => z.items = <<>>) /\ (~(y.covered <= q) => z = y)
    BY EmptiedType
  <2>4. x \in Visible(ItemsOf(c)) => x \in Visible(ItemsOf(D(c))) \/ DroppedLast(c, q, x)
    OBVIOUS
  <2>5. D(c) \in Seq(Batch)
    BY <2>1, DropType
  <2> HIDE DEF a, z
  <2>6. /\ Visible(ItemsOf(a)) = IF HasScreen(y.items) THEN Visible(y.items)
                                 ELSE Visible(ItemsOf(c)) \cup Range(y.items)
        /\ Visible(y.items) \subseteq Range(y.items)
    <3>1. ItemsOf(a) = ItemsOf(c) \o y.items /\ y.items \in Seq(Item) /\ ItemsOf(c) \in Seq(Item)
      BY <2>1, ItemsOfAppend, ItemsOfType DEF a
    <3>2. QED
      BY <3>1, VisibleConcat, ShowsType
  <2>7. Visible(ItemsOf(D(a))) = IF HasScreen(z.items) THEN Visible(z.items)
                                 ELSE Visible(ItemsOf(D(c))) \cup Range(z.items)
    <3>1. ItemsOf(D(a)) = ItemsOf(D(c)) \o z.items /\ z.items \in Seq(Item) /\ ItemsOf(D(c)) \in Seq(Item)
      BY <2>2, <2>3, <2>5, ItemsOfAppend, ItemsOfType
    <3>2. QED
      BY <3>1, VisibleConcat
  <2>8. ASSUME ~HasScreen(y.items), DroppedLast(c, q, x) PROVE DroppedLast(a, q, x)
    <3>1. PICK i \in 1..Len(c) : /\ x \in Range(c[i].items)
                                 /\ c[i].covered <= q
                                 /\ \A j \in 1..Len(c) : j > i => ~HasScreen(c[j].items)
      BY <2>8 DEF DroppedLast
    <3>2. i \in 1..Len(a) /\ a[i] = c[i]
      BY <2>1
    <3>3. ASSUME NEW j \in 1..Len(a), j > i PROVE ~HasScreen(a[j].items)
      <4>1. CASE j = Len(c) + 1
        BY <2>1, <2>8, <4>1
      <4>2. CASE j # Len(c) + 1
        <5>1. j \in 1..Len(c)
          BY <2>1, <4>2
        <5>2. QED
          BY <2>1, <3>1, <3>3, <5>1
      <4>3. QED
        BY <4>1, <4>2
    <3>4. QED
      BY <3>1, <3>2, <3>3 DEF DroppedLast
  <2>9. ASSUME x \in Range(y.items), y.covered <= q PROVE DroppedLast(a, q, x)
    <3>1. Len(c) + 1 \in 1..Len(a) /\ \A j \in 1..Len(a) : ~(j > Len(c) + 1)
      BY <2>1
    <3>2. QED
      BY <2>1, <2>9, <3>1 DEF DroppedLast
  <2>10. ASSUME x \in Visible(ItemsOf(a)) PROVE x \in Visible(ItemsOf(D(a))) \/ DroppedLast(a, q, x)
    <3>1. CASE y.covered <= q
      <4>1. ~HasScreen(z.items) /\ Range(z.items) = {}
        BY <2>3, <3>1, EmptyItems
      <4>2. QED
        BY <2>4, <2>6, <2>7, <2>8, <2>9, <2>10, <3>1, <4>1
    <3>2. CASE ~(y.covered <= q)
      <4>1. z = y
        BY <2>3, <3>2
      <4>2. QED
        BY <2>4, <2>6, <2>7, <2>8, <2>10, <4>1
    <3>3. QED
      BY <3>1, <3>2
  <2>11. QED
    BY <2>1, <2>10 DEF a
<1>3. G \in SUBSET Seq(Batch)
  OBVIOUS
<1>4. G = Seq(Batch)
  <2> HIDE DEF G
  <2>1. QED
    BY <1>1, <1>2, <1>3, AppendInduction
<1>5. QED
  BY <1>4

\* The same of the whole: the page is the seed's screen.
LEMMA CommitVisible ==
    ASSUME NEW s \in Item, s.kind = "screen", NEW ba \in Seq(Batch), NEW br \in Seq(Item), NEW q \in Nat
    PROVE  /\ \A x \in Visible(Flow(<<s>>, <<>>, ba, br)) :
                 \/ x \in Visible(Flow(<<s>>, <<>>, DropSeedCovered(ba, q), br))
                 \/ DroppedLast(ba, q, x) /\ ~HasScreen(br)
           /\ Ordered(Flow(<<s>>, <<>>, ba, br))
                => Ordered(Flow(<<s>>, <<>>, DropSeedCovered(ba, q), br))
           /\ Range(Flow(<<s>>, <<>>, DropSeedCovered(ba, q), br)) \subseteq Range(Flow(<<s>>, <<>>, ba, br))
           /\ \A i \in 1..Len(ba) :
                 /\ ~HasScreen(br)
                 /\ \A j \in 1..Len(ba) : j > i => ~HasScreen(ba[j].items)
                 /\ \A j \in 1..i : ba[j].covered <= q
                 => s \in Visible(Flow(<<s>>, <<>>, DropSeedCovered(ba, q), br))
<1> DEFINE D == DropSeedCovered(ba, q)
           o == <<s>>
           b == ItemsOf(ba)
           d == ItemsOf(D)
<1>1. D \in Seq(Batch) /\ b \in Seq(Item) /\ d \in Seq(Item) /\ o \in Seq(Item)
  <2>1. D \in Seq(Batch) /\ o \in Seq(Item)
    BY DropType
  <2>2. QED
    BY <2>1, ItemsOfType
<1>2. Range(o) = {s} /\ HasScreen(o) /\ Visible(o) = {s}
  <2>1. Range(o) = {s} /\ HasScreen(o)
    BY DEF Range, HasScreen
  <2>2. Shows(o) = o
    <3>1. 1 \in 1..Len(o) /\ o[1].kind = "screen" /\ \A j \in 1..Len(o) : ~(j > 1)
      OBVIOUS
    <3>2. Shows(o) = SubSeq(o, 1, Len(o))
      <4> HIDE DEF o
      <4>1. QED
        BY <1>1, <3>1, ShowsFromLast
    <3>3. QED
      BY <1>1, <3>2, SubSeqFull
  <2>3. QED
    BY <2>1, <2>2 DEF Visible
<1>3. Range(d) \subseteq Range(b) /\ (Ordered(b) => Ordered(d))
  BY DropFacts
<1>4. \A x \in Visible(b) : x \in Visible(d) \/ DroppedLast(ba, q, x)
  BY DropVisible
<1>5. /\ Flow(<<s>>, <<>>, ba, br) = o \o (b \o br)
      /\ Flow(<<s>>, <<>>, D, br) = o \o (d \o br)
  BY <1>1, UnstagedFlow
<1>6. HasScreen(d) => HasScreen(b)
  BY <1>1, <1>3, HasScreenRange
<1>7. ASSUME NEW i \in 1..Len(ba), \A j \in 1..Len(ba) : j > i => ~HasScreen(ba[j].items),
             \A j \in 1..i : ba[j].covered <= q
      PROVE  ~HasScreen(d)
  <2> SUFFICES ASSUME HasScreen(d) PROVE FALSE
    OBVIOUS
  <2>1. PICK x \in Range(d) : x.kind = "screen"
    BY <1>1, HasScreenRange
  <2>2. Len(D) = Len(ba) /\ \A j \in 1..Len(ba) : ba[j] \in Batch /\ D[j].items = IF ba[j].covered <= q THEN <<>> ELSE ba[j].items
    BY DropType
  <2>3. PICK j \in 1..Len(ba) : x \in Range(D[j].items)
    <3> HIDE DEF D
    <3>1. PICK j \in 1..Len(D) : x \in Range(D[j].items)
      BY <1>1, <2>1, ItemsOfRange
    <3>2. QED
      BY <2>2, <3>1
  <2>4. D[j].items # <<>>
    BY <2>3, EmptyItems
  <2>5. ~(ba[j].covered <= q) /\ D[j].items = ba[j].items
    BY <2>2, <2>4
  <2>6. ~(j \in 1..i)
    BY <1>7, <2>5
  <2>7. j > i
    BY <2>6
  <2>8. ba[j].items \in Seq(Item) /\ ~HasScreen(ba[j].items)
    BY <1>7, <2>2, <2>7 DEF Batch
  <2>9. QED
    BY <2>1, <2>3, <2>5, <2>8, HasScreenRange
<1> HIDE DEF D, o, b, d
<1> DEFINE u == b \o br
           v == d \o br
<1>8. /\ u \in Seq(Item) /\ v \in Seq(Item)
      /\ Range(u) = Range(b) \cup Range(br) /\ Range(v) = Range(d) \cup Range(br)
      /\ HasScreen(u) <=> HasScreen(b) \/ HasScreen(br)
      /\ HasScreen(v) <=> HasScreen(d) \/ HasScreen(br)
      /\ Visible(u) = IF HasScreen(br) THEN Visible(br) ELSE Visible(b) \cup Range(br)
      /\ Visible(v) = IF HasScreen(br) THEN Visible(br) ELSE Visible(d) \cup Range(br)
  BY <1>1, RangeConcat, VisibleConcat
<1>9. Ordered(u) => Ordered(v)
  <2>1. AllPrecede(Range(b), Range(br)) => AllPrecede(Range(d), Range(br))
    BY <1>3 DEF AllPrecede
  <2>2. QED
    BY <1>1, <1>3, <2>1, OrderedConcat
<1> HIDE DEF u, v
<1>10. /\ Range(o \o u) = Range(o) \cup Range(u) /\ Range(o \o v) = Range(o) \cup Range(v)
       /\ Visible(o \o u) = IF HasScreen(u) THEN Visible(u) ELSE Visible(o) \cup Range(u)
       /\ Visible(o \o v) = IF HasScreen(v) THEN Visible(v) ELSE Visible(o) \cup Range(v)
  BY <1>1, <1>8, RangeConcat, VisibleConcat
<1>11. Ordered(o \o u) => Ordered(o \o v)
  <2>1. AllPrecede(Range(o), Range(u)) => AllPrecede(Range(o), Range(v))
    BY <1>3, <1>8 DEF AllPrecede
  <2>2. QED
    BY <1>1, <1>8, <1>9, <2>1, OrderedConcat
<1>12. Visible(u) \subseteq Range(u) /\ Visible(v) \subseteq Range(v)
  BY <1>8, ShowsType
<1>13. ~HasScreen(b) => Visible(b) = Range(b)
  BY <1>1, ShowsAll DEF Visible
<1>14. ~HasScreen(d) => Visible(d) = Range(d)
  BY <1>1, ShowsAll DEF Visible
<1>15. ASSUME NEW x \in Visible(o \o u)
       PROVE  x \in Visible(o \o v) \/ (DroppedLast(ba, q, x) /\ ~HasScreen(br))
  <2>1. CASE HasScreen(br)
    BY <1>8, <1>10, <1>15, <2>1
  <2>2. CASE ~HasScreen(br)
    <3>1. x \in Range(br) => x \in Visible(o \o v)
      BY <1>8, <1>10, <2>2
    <3>2. x \in Visible(d) => x \in Visible(o \o v)
      BY <1>8, <1>10, <1>14, <2>2
    <3>3. x \in Visible(b) => x \in Visible(o \o v) \/ DroppedLast(ba, q, x)
      BY <1>4, <3>2
    <3>4. x \in Visible(b) \/ x \in Range(br) \/ (x = s /\ ~HasScreen(b))
      BY <1>2, <1>8, <1>10, <1>13, <1>15, <2>2
    <3>5. ~HasScreen(b) => s \in Visible(o \o v)
      BY <1>2, <1>6, <1>8, <1>10, <2>2
    <3>6. QED
      BY <2>2, <3>1, <3>3, <3>4, <3>5
  <2>3. QED
    BY <2>1, <2>2
<1>16. ~HasScreen(d) /\ ~HasScreen(br) => s \in Visible(o \o v)
  BY <1>2, <1>8, <1>10
<1>17. Range(o \o v) \subseteq Range(o \o u)
  BY <1>3, <1>8, <1>10
<1>18. /\ Flow(<<s>>, <<>>, ba, br) = o \o u
       /\ Flow(<<s>>, <<>>, DropSeedCovered(ba, q), br) = o \o v
  BY <1>5 DEF D, u, v
<1>19. QED
  BY <1>7, <1>11, <1>15, <1>16, <1>17, <1>18

-----------------------------------------------------------------------------
(* The inductive invariant                                                 *)

\* What is on its way to the page, and that behind what the page shows.
Held == (ItemsOf(staged) \o ItemsOf(fence.batches)) \o bridge
Pipeline == Flow(page, staged, fence.batches, bridge)

\* A replay without a screen: chunks in order, after the cursor unless that is
\* beyond the end.
ReplayOK(r) ==
    /\ Ordered(r.items)
    /\ \A x \in Range(r.items) : \E k \in 1..r.next :
          x = Chunk(r.runtime, k) /\ (r.from <= r.next => k > r.from)

\* The answer on its way is of a runtime no older than the stream's, reaches at
\* least as far as the cursor, and holds what TerminalSession::read puts in it.
ReadOK ==
    /\ read.runtime \in 1..runtime
    /\ stream <= read.runtime
    /\ read.runtime = runtime => read.next <= output
    /\ read.runtime = stream => cursor <= read.next
    /\ read.whole =>
          \/ read.next = 0 /\ read.items = <<>>
          \/ read.next > 0 /\ read.items = <<Screen(read.runtime, read.next)>>
          \/ read.next > 0 /\ ReplayOK(read)
    /\ ~read.whole =>
          /\ read.from > 0 /\ read.from <= read.next
          /\ read.items = [i \in 1..(read.next - read.from) |-> Chunk(read.runtime, read.from + i)]

\* The loop's position is one the daemon has reached.
RunInv ==
    /\ stream <= runtime
    /\ stream = 0 => cursor = 0 /\ fence.batches = <<>>
    /\ stream = runtime => cursor <= output
    /\ read.st = "answered" => ReadOK

\* No more than the loop, the daemon and the answer on its way have counted.
Bound(n) ==
    /\ cursor > 0 => n <= cursor
    /\ stream = runtime => n <= output
    /\ read.st = "answered" /\ read.runtime = stream => n <= read.next

\* What is held or painted is output the loop has already read.
Counted(x) == x.runtime <= stream /\ (x.runtime = stream => Bound(x.n))
CountInv ==
    /\ \A x \in Range(Held) : Counted(x) /\ x.kind # "text"
    /\ \A x \in Range(page) : x.kind = "chunk" => Counted(x)

\* While the fence is up nothing is staged, and the page shows the seed or nothing.
ShutInv ==
    /\ ~fence.up => fence.batches = <<>>
    /\ staged # <<>> => ~fence.up
    /\ fence.up /\ seed.st \in {"fetching", "answered"} => page = <<>>
    /\ fence.up /\ seed.st = "proving" =>
          page = IF seed.wrote THEN <<Screen(seed.runtime, seed.n)>> ELSE <<>>
    /\ seed.st \in {"done", "discarded"} => ~fence.up

\* A stamp is the seed's number, and exists once the seed has got that far.
StampInv ==
    /\ seed.seq \in {0, seed.n}
    /\ seed.wrote => seed.n > 0
    /\ pending.seq > 0 => seed.st = "proving" /\ pending.seq = seed.n
    /\ stamp > 0 => seed.st = "done" /\ stamp = seed.n

\* Unless the runtime changed unseen, everything is of the stream's runtime, but
\* for the seed before it.
OneRuntimeInv ==
    causes = {} =>
       /\ \A x \in Range(Held) : x.runtime = stream
       /\ \A x \in Range(page) :
             \/ x.runtime = stream
             \/ x.kind # "chunk" /\ x.runtime = seed.runtime /\ seed.st \in {"proving", "done"}
       /\ (pending.seq > 0 \/ stamp > 0) /\ stream # 0 => seed.runtime = stream

\* Unless it was hidden, the page shows what the stamp stands for.
SeenInv ==
    causes = {} /\ mounted /\ (stamp > 0 \/ (seed.wrote /\ pending.seq > 0)) =>
       \E x \in Range(page) : Tells(x, seed.runtime, seed.n)

\* Unless a release was overtaken, all chunks are in order on their way.
OrderInv == causes \intersect {"overtaken release", "repeated replay"} = {} => Ordered(Pipeline)

\* A retained batch whose items would show if the fence were flushed now holds
\* nothing beyond the number it is filed under, nor does any batch before it.
LastScreenIn(i) ==
    /\ ~HasScreen(bridge)
    /\ \A j \in 1..Len(fence.batches) : j > i => ~HasScreen(fence.batches[j].items)
CoverInv ==
    causes = {} =>
      /\ \A i \in 1..Len(fence.batches) : Bound(fence.batches[i].covered)
      /\ cursor > 0 => \A i \in 1..Len(fence.batches) : LastScreenIn(i) =>
          /\ \A x \in Range(fence.batches[i].items) : x.n <= fence.batches[i].covered
          /\ \A j \in 1..i : fence.batches[j].covered <= fence.batches[i].covered

\* Every number the cursor has passed will show, was reported, or is below a
\* stamp that no chunk on its way repeats.
Accounted(n) ==
    \/ \E x \in Visible(Pipeline) : Tells(x, stream, n)
    \/ \E x \in reported : Tells(x, stream, n)
    \/ n <= stamp /\ Chunk(stream, stamp) \notin Range(Pipeline)
AccountInv == causes = {} /\ mounted => \A n \in 1..cursor : Accounted(n)

FenceInv ==
    /\ FenceTypeOK
    /\ RunInv
    /\ CountInv
    /\ ShutInv
    /\ StampInv
    /\ OneRuntimeInv
    /\ SeenInv
    /\ OrderInv
    /\ CoverInv
    /\ AccountInv

-----------------------------------------------------------------------------
(* What a round delivers                                                   *)
Round == Fresh(read.items)
Data == Forwarded(Round)

\* The types of the answer and of the loop's positions.
LEMMA ReadType ==
    ASSUME FenceTypeOK
    PROVE  /\ read.items \in Seq(Item) /\ read.from \in 0..MaxOutput /\ read.next \in 0..MaxOutput
           /\ read.runtime \in Names /\ read.name \in Names /\ stamp \in 0..MaxOutput /\ cursor \in 0..MaxOutput
           /\ read.from \in Nat /\ read.next \in Nat /\ stamp \in Nat /\ cursor \in Nat
           /\ stream \in Nat /\ runtime \in Nat /\ read.runtime \in Nat /\ output \in Nat
           /\ read.whole \in BOOLEAN
<1>1. /\ read.items \in Seq(Item) /\ read.from \in 0..MaxOutput /\ read.next \in 0..MaxOutput
      /\ read.runtime \in Names /\ read.name \in Names /\ read.whole \in BOOLEAN
  BY DEF FenceTypeOK
<1>2. /\ stamp \in 0..MaxOutput /\ cursor \in 0..MaxOutput /\ stream \in Names
      /\ runtime \in Runtimes /\ output \in 0..MaxOutput
  BY DEF FenceTypeOK
<1>3. MaxOutput \in Nat /\ MaxRuntimes \in Nat
  BY RuntimeBound, OutputBound
<1>4. QED
  BY <1>1, <1>2, <1>3 DEF Names, Runtimes

\* The chunks of a mid-stream round, from the stamp on.
LEMMA ChunksOfRound ==
    ASSUME FenceTypeOK, RunInv, read.st = "answered", read.from = cursor, ~read.whole
    PROVE  LET base == IF stamp > cursor THEN stamp ELSE cursor
           IN  /\ cursor > 0 /\ cursor <= read.next /\ ~Rewound
               /\ Round \in Seq(Item)
               /\ Len(Round) = IF base <= read.next THEN read.next - base ELSE 0
               /\ \A i \in 1..Len(Round) : Round[i] = Chunk(read.runtime, base + i)
<1> DEFINE base == IF stamp > cursor THEN stamp ELSE cursor
           items == read.items
<1>1. /\ read.runtime \in 1..runtime /\ cursor > 0 /\ cursor <= read.next
      /\ items = [i \in 1..(read.next - cursor) |-> Chunk(read.runtime, cursor + i)]
  BY DEF RunInv, ReadOK
<1>2. /\ items \in Seq(Item) /\ cursor \in Nat /\ read.next \in Nat /\ stamp \in Nat
  BY ReadType
<1>3. ~Rewound
  BY <1>1, <1>2 DEF Rewound
<1>4. Len(items) = read.next - cursor
  BY <1>1, <1>2
<1>5. \A i \in 1..Len(items) : items[i] = Chunk(read.runtime, cursor + i)
  BY <1>1, <1>4
<1> HIDE DEF items
<1>6. CASE stamp > cursor
  <2>1. Round = SubSeq(items, stamp - cursor + 1, Len(items)) /\ base = stamp
    BY <1>1, <1>3, <1>6 DEF Round, Fresh, items
  <2> DEFINE m == stamp - cursor + 1
             n == Len(items)
  <2>2. m \in Int /\ n \in Int /\ n \in Nat /\ m >= 1
    BY <1>2, <1>6
  <2>3. \A i \in m..n : items[i] \in Item
    <3>1. \A i \in 1..Len(items) : items[i] \in Item
      BY <1>2, ElementOfSeq
    <3>2. QED
      BY <2>2, <3>1
  <2>4. /\ SubSeq(items, m, n) \in Seq(Item)
        /\ Len(SubSeq(items, m, n)) = IF m <= n THEN n - m + 1 ELSE 0
        /\ \A i \in 1..(n - m + 1) : SubSeq(items, m, n)[i] = items[m + i - 1]
    <3> HIDE DEF m, n
    <3>1. QED
      BY <2>2, <2>3, SubSeqProperties
  <2>5. Len(Round) = IF stamp <= read.next THEN read.next - stamp ELSE 0
    BY <1>2, <1>4, <2>1, <2>4
  <2>6. ASSUME NEW i \in 1..Len(Round) PROVE Round[i] = Chunk(read.runtime, stamp + i)
    <3>1. stamp <= read.next /\ i \in 1..(read.next - stamp)
      BY <1>2, <2>5
    <3>2. i \in 1..(n - m + 1) /\ m + i - 1 \in 1..n /\ cursor + (m + i - 1) = stamp + i
      BY <1>2, <1>4, <1>6, <3>1
    <3>3. Round[i] = items[m + i - 1]
      BY <2>1, <2>4, <3>2
    <3>4. items[m + i - 1] = Chunk(read.runtime, cursor + (m + i - 1))
      BY <1>5, <3>2
    <3>5. QED
      BY <3>2, <3>3, <3>4
  <2>7. QED
    BY <1>1, <1>3, <2>1, <2>4, <2>5, <2>6, ZenonT(60)
<1>7. CASE ~(stamp > cursor)
  <2>1. Round = items
    BY <1>7 DEF Round, Fresh, items
  <2>2. QED
    BY <1>1, <1>2, <1>3, <1>4, <1>5, <1>7, <2>1
<1>8. QED
  BY <1>6, <1>7

\* A round is a screen, nothing, a replay, or the chunks after the cursor and the stamp.
LEMMA FreshFacts ==
    ASSUME FenceTypeOK, RunInv, read.st = "answered", read.from = cursor
    PROVE  /\ Round \in Seq(Item)
           /\ Ordered(Round)
           /\ read.whole =>
                \/ read.next = 0 /\ Round = <<>>
                \/ read.next > 0 /\ Round = <<Screen(read.runtime, read.next)>>
                \/ read.next > 0 /\ Round = read.items /\ ReplayOK(read)
           /\ ~read.whole =>
                /\ cursor > 0 /\ cursor <= read.next /\ ~Rewound
                /\ \A x \in Range(Round) : \E k \in (cursor + 1)..read.next :
                      x = Chunk(read.runtime, k) /\ k > stamp
                /\ \A k \in (cursor + 1)..read.next : k > stamp => Chunk(read.runtime, k) \in Range(Round)
<1>1. /\ cursor \in Nat /\ read.next \in Nat /\ stamp \in Nat /\ read.items \in Seq(Item)
  BY ReadType
<1>2. CASE read.whole
  <2>1. Round = read.items
    BY <1>2 DEF Round, Fresh
  <2>2. \/ read.next = 0 /\ read.items = <<>>
        \/ read.next > 0 /\ read.items = <<Screen(read.runtime, read.next)>>
        \/ read.next > 0 /\ ReplayOK(read)
    BY <1>2 DEF RunInv, ReadOK
  <2>3. Ordered(<<>>) /\ Ordered(<<Screen(read.runtime, read.next)>>)
    BY DEF Ordered
  <2>4. QED
    BY <1>1, <1>2, <2>1, <2>2, <2>3 DEF ReplayOK
<1>3. CASE ~read.whole
  <2> DEFINE base == IF stamp > cursor THEN stamp ELSE cursor
  <2>1. /\ cursor > 0 /\ cursor <= read.next /\ ~Rewound
        /\ Round \in Seq(Item)
        /\ Len(Round) = IF base <= read.next THEN read.next - base ELSE 0
        /\ \A i \in 1..Len(Round) : Round[i] = Chunk(read.runtime, base + i)
    BY <1>3, ChunksOfRound
  <2>2. base \in Nat /\ base >= cursor /\ base >= stamp /\ (base = stamp \/ base = cursor)
    BY <1>1
  <2> HIDE DEF base
  <2>3. ASSUME NEW x \in Range(Round)
        PROVE  \E k \in (cursor + 1)..read.next : x = Chunk(read.runtime, k) /\ k > stamp
    <3>1. PICK i \in 1..Len(Round) : x = Round[i]
      BY <2>1, InRange
    <3>2. base + i \in (cursor + 1)..read.next /\ base + i > stamp
      BY <1>1, <2>1, <2>2
    <3>3. x = Chunk(read.runtime, base + i)
      BY <2>1, <3>1
    <3>4. QED
      BY <3>2, <3>3
  <2>4. ASSUME NEW k \in (cursor + 1)..read.next, k > stamp
        PROVE  Chunk(read.runtime, k) \in Range(Round)
    <3>1. k - base \in 1..Len(Round) /\ base + (k - base) = k
      BY <1>1, <2>1, <2>2, <2>4
    <3>2. Round[k - base] = Chunk(read.runtime, base + (k - base))
      BY <2>1, <3>1
    <3>3. QED
      BY <2>1, <3>1, <3>2, InRange
  <2>5. Ordered(Round)
    <3>1. ASSUME NEW i \in DOMAIN Round, NEW j \in DOMAIN Round, i < j PROVE Precedes(Round[i], Round[j])
      <4>1. i \in 1..Len(Round) /\ j \in 1..Len(Round)
        BY <2>1
      <4>2. Round[i] = Chunk(read.runtime, base + i) /\ Round[j] = Chunk(read.runtime, base + j)
        BY <2>1, <4>1
      <4>3. Round[i].n = base + i /\ Round[j].n = base + j
        BY <4>2 DEF Chunk
      <4>4. base + i < base + j
        BY <2>2, <3>1, <4>1
      <4>5. QED
        BY <4>3, <4>4 DEF Precedes
    <3>2. QED
      BY <3>1 DEF Ordered
  <2>6. QED
    BY <1>3, <2>1, <2>3, <2>4, <2>5
<1>4. QED
  BY <1>2, <1>3

\* What the filters leave: items of the round and scraps, in the round's order.
LEMMA ForwardedFacts ==
    ASSUME NEW q \in Seq(Item)
    PROVE  /\ Forwarded(q) \in Seq(Item)
           /\ \A x \in Range(Forwarded(q)) : \E y \in Range(q) : x = y \/ x = Scrap(y.runtime)
           /\ Ordered(q) => Ordered(Forwarded(q))
<1>1. CASE DOMAIN q \subseteq read.lost
  <2>1. Forwarded(q) = <<>>
    BY <1>1 DEF Forwarded
  <2>2. Ordered(<<>>)
    BY DEF Ordered
  <2>3. QED
    BY <2>1, <2>2, EmptyItems
<1>2. CASE ~(DOMAIN q \subseteq read.lost)
  <2> DEFINE f == [i \in 1..Len(q) |-> IF i \in read.lost THEN Scrap(q[i].runtime) ELSE q[i]]
  <2>1. Forwarded(q) = f
    BY <1>2 DEF Forwarded
  <2>2. ASSUME NEW i \in 1..Len(q) PROVE f[i] \in Item /\ q[i] \in Item
    <3>1. q[i] \in Item
      BY ElementOfSeq
    <3>2. Scrap(q[i].runtime) \in Item
      BY <3>1, OutputBound DEF Item, Scrap
    <3>3. QED
      BY <3>1, <3>2
  <2>3. f \in Seq(Item) /\ Len(f) = Len(q) /\ Len(q) \in Nat
    BY <2>2
  <2>4. ASSUME NEW x \in Range(f) PROVE \E y \in Range(q) : x = y \/ x = Scrap(y.runtime)
    <3> HIDE DEF f
    <3>1. PICK i \in 1..Len(f) : x = f[i]
      BY <2>3, <2>4, InRange
    <3>2. q[i] \in Range(q) /\ i \in 1..Len(q)
      BY <2>3, <3>1, InRange
    <3>3. x = q[i] \/ x = Scrap(q[i].runtime)
      BY <3>1, <3>2 DEF f
    <3>4. QED
      BY <3>2, <3>3
  <2>5. ASSUME Ordered(q), NEW i \in DOMAIN f, NEW j \in DOMAIN f, i < j PROVE Precedes(f[i], f[j])
    <3>1. i \in DOMAIN q /\ j \in DOMAIN q
      BY <2>3
    <3>2. Precedes(q[i], q[j])
      BY <2>5, <3>1 DEF Ordered
    <3>3. \A y : Scrap(y).kind # "chunk"
      BY DEF Scrap
    <3>4. (f[i] = q[i] \/ f[i].kind # "chunk") /\ (f[j] = q[j] \/ f[j].kind # "chunk")
      BY <2>5, <3>3
    <3>5. QED
      BY <3>2, <3>4 DEF Precedes
  <2> HIDE DEF f
  <2>6. Ordered(q) => Ordered(f)
    BY <2>5 DEF Ordered
  <2>7. QED
    BY <2>1, <2>3, <2>4, <2>6
<1>3. QED
  BY <1>1, <1>2

\* A chunk of the round: beyond the cursor unless that is beyond the end.
RoundChunk(x) ==
    /\ \E k \in 1..read.next : x = Chunk(read.runtime, k) /\ (cursor <= read.next => k > cursor)
    /\ read.whole => IsReplay

\* What a round delivers.
LEMMA RoundFacts ==
    ASSUME FenceTypeOK, RunInv, read.st = "answered", read.from = cursor
    PROVE  /\ Data \in Seq(Item)
           /\ Ordered(Data)
           /\ \A x \in Range(Data) :
                \/ x = Scrap(read.runtime)
                \/ x = Screen(read.runtime, read.next) /\ read.whole
                \/ RoundChunk(x)
<1>1. /\ Round \in Seq(Item) /\ Ordered(Round) /\ cursor \in Nat /\ read.next \in Nat
      /\ read.items \in Seq(Item)
  BY FreshFacts, ReadType
<1>2. ASSUME NEW y \in Range(Round)
      PROVE  \/ y = Screen(read.runtime, read.next) /\ read.whole
             \/ RoundChunk(y)
  <2>1. CASE ~read.whole
    <3>1. PICK k \in (cursor + 1)..read.next : y = Chunk(read.runtime, k)
      BY <1>2, <2>1, FreshFacts
    <3>2. k \in 1..read.next /\ k > cursor
      BY <1>1, <3>1
    <3>3. QED
      BY <2>1, <3>1, <3>2 DEF RoundChunk
  <2>2. CASE read.whole /\ Round = <<>>
    BY <1>2, <2>2, EmptyItems
  <2>3. CASE read.whole /\ Round = <<Screen(read.runtime, read.next)>>
    BY <1>2, <2>3 DEF Range
  <2>4. CASE read.whole /\ read.next > 0 /\ Round = read.items /\ ReplayOK(read)
    <3>1. PICK k \in 1..read.next : y = Chunk(read.runtime, k) /\ (read.from <= read.next => k > read.from)
      BY <1>2, <2>4 DEF ReplayOK
    <3>2. read.items # <<Screen(read.runtime, read.next)>>
      <4>1. ASSUME Range(read.items) = {Screen(read.runtime, read.next)} PROVE FALSE
        BY <1>2, <2>4, <3>1, <4>1 DEF Screen, Chunk
      <4>2. Range(<<Screen(read.runtime, read.next)>>) = {Screen(read.runtime, read.next)}
        BY DEF Range
      <4>3. QED
        BY <4>1, <4>2
    <3>3. QED
      BY <2>4, <3>1, <3>2 DEF IsReplay, RoundChunk
  <2>5. QED
    BY <2>1, <2>2, <2>3, <2>4, FreshFacts
<1>3. Data \in Seq(Item) /\ Ordered(Data)
      /\ \A x \in Range(Data) : \E y \in Range(Round) : x = y \/ x = Scrap(y.runtime)
  BY <1>1, ForwardedFacts DEF Data
<1>4. \A y \in Range(Round) : y.runtime = read.runtime
  BY <1>2 DEF Screen, Chunk, RoundChunk
<1>5. QED
  BY <1>2, <1>3, <1>4

-----------------------------------------------------------------------------
(* The four ways in which a round is written                               *)
AcceptUnseen ==
    Swapped(read.runtime) \union Foreign(seed.runtime, read.runtime, pending'.seq + stamp')
    \union Shortens \union Repeats \union Rewrites(Round, Data)

AcceptHolds ==
    /\ bridge' = bridge \o Data
    /\ causes' = causes \union AcceptUnseen
    /\ UNCHANGED <<fence, page, reported>>

AcceptWrites ==
    /\ bridge' = <<>>
    /\ causes' = causes \union AcceptUnseen \union Overtakes(Writes(bridge, Data)) \union Hides(page')

AcceptPaints ==
    /\ AcceptWrites
    /\ ~fence.up
    /\ page' = Shows(page \o (bridge \o Data))
    /\ UNCHANGED <<fence, reported>>

AcceptRetains ==
    /\ AcceptWrites
    /\ fence.up
    /\ fence' = [fence EXCEPT !.batches =
                    fence.batches \o Kept(bridge, Data, Len(Writes(bridge, Data)), read.next)]
    /\ UNCHANGED <<page, reported>>

AcceptBreaks ==
    /\ AcceptWrites
    /\ fence.up
    /\ fence' = Down
    /\ \E k \in 0..Len(Writes(bridge, Data)) :
          \E e \in FlushEnds(fence.batches \o Kept(bridge, Data, k, read.next)) :
             /\ page' = Shows((page \o Painted(fence.batches \o Kept(bridge, Data, k, read.next), e))
                              \o Left(bridge, Data, k))
             /\ reported' = reported
                            \union Undelivered(fence.batches \o Kept(bridge, Data, k, read.next), e)

AcceptRest ==
    /\ mounted
    /\ read.st = "answered"
    /\ read.from = cursor
    /\ read' = NoRead
    /\ known' = read.name
    /\ stream' = read.runtime
    /\ cursor' = read.next
    /\ IF Rewound THEN stamp' = 0 /\ pending' = Unstamped ELSE UNCHANGED <<stamp, pending>>
    /\ UNCHANGED <<runtime, output, named, seed, frozen, staged, mounted, disturbances>>

\* Accept is one of the four.
LEMMA AcceptCases ==
    ASSUME FenceTypeOK, RunInv, Accept
    PROVE  AcceptRest /\ (AcceptHolds \/ AcceptPaints \/ AcceptRetains \/ AcceptBreaks)
<1>1. AcceptRest
  BY DEF Accept, AcceptRest, ReadIsStale
<1>2. Data \in Seq(Item) /\ bridge \in Seq(Item) /\ read.next \in 0..MaxOutput
  BY <1>1, RoundFacts, ReadType DEF AcceptRest, FenceTypeOK
<1> DEFINE W == Writes(bridge, Data)
<1>3. Len(W) \in Nat /\ FlattenSeq(W) = bridge \o Data
  BY <1>2, WritesFacts
<1>4. \/ AcceptHolds
      \/ AcceptWrites /\ StageWrites(W, read.next)
  BY DEF Accept, AcceptHolds, AcceptWrites, AcceptUnseen, Data, Round, Writes
<1>5. ASSUME AcceptWrites, StageWrites(W, read.next)
      PROVE  AcceptPaints \/ AcceptRetains \/ AcceptBreaks
  <2>1. CASE ~fence.up
    BY <1>3, <1>5, <2>1 DEF StageWrites, AcceptPaints
  <2>2. CASE fence.up
    <3> DEFINE B(k) == fence.batches \o Kept(bridge, Data, k, read.next)
    <3>1. PICK k \in 0..Len(W) :
            IF k = Len(W)
            THEN /\ fence' = [fence EXCEPT !.batches = B(k)]
                 /\ UNCHANGED <<page, reported>>
            ELSE \E e \in FlushEnds(B(k)) :
                    /\ page' = Shows(page \o Painted(B(k), e) \o Left(bridge, Data, k))
                    /\ reported' = reported \union Undelivered(B(k), e)
                    /\ fence' = Down
      BY <1>5, <2>2 DEF StageWrites, Kept, Left
    <3>2. CASE k = Len(W)
      BY <1>5, <2>2, <3>1, <3>2 DEF AcceptRetains
    <3>3. CASE k # Len(W)
      <4>1. PICK e \in FlushEnds(B(k)) :
                    /\ page' = Shows(page \o Painted(B(k), e) \o Left(bridge, Data, k))
                    /\ reported' = reported \union Undelivered(B(k), e)
                    /\ fence' = Down
        BY <3>1, <3>3
      <4>2. QED
        BY <1>5, <2>2, <4>1 DEF AcceptBreaks
    <3>4. QED
      BY <3>2, <3>3
  <2>3. QED
    BY <2>1, <2>2
<1>6. QED
  BY <1>1, <1>4, <1>5

-----------------------------------------------------------------------------
(* Types                                                                   *)

\* Painting adds what it paints, and never blanks the page.
LEMMA PaintType ==
    ASSUME NEW pg \in Seq(Item), NEW s \in Seq(Item)
    PROVE  /\ pg \o s \in Seq(Item)
           /\ Shows(pg \o s) \in Seq(Item)
           /\ Range(Shows(pg \o s)) \subseteq Range(pg) \cup Range(s)
           /\ pg # <<>> => Shows(pg \o s) # <<>>
<1>1. pg \o s \in Seq(Item) /\ Range(pg \o s) = Range(pg) \cup Range(s)
  BY RangeConcat
<1>2. pg # <<>> => pg \o s # <<>>
  <2>1. Len(pg \o s) = Len(pg) + Len(s) /\ Len(pg) \in Nat /\ Len(s) \in Nat
    OBVIOUS
  <2>2. pg # <<>> => Len(pg) # 0
    OBVIOUS
  <2>3. QED
    BY <2>1, <2>2
<1>3. QED
  BY <1>1, <1>2, ShowsType DEF Visible

\* The same of a flush, however it ends.
LEMMA FlushType ==
    ASSUME NEW pg \in Seq(Item), NEW b \in Seq(Batch), NEW e \in FlushEnds(b)
    PROVE  /\ Painted(b, e) \in Seq(Item)
           /\ Range(Painted(b, e)) \subseteq Range(ItemsOf(b))
           /\ Undelivered(b, e) \subseteq Item
           /\ Shows(pg \o Painted(b, e)) \in Seq(Item)
           /\ Range(Shows(pg \o Painted(b, e))) \subseteq Range(pg) \cup Range(ItemsOf(b))
           /\ pg # <<>> => Shows(pg \o Painted(b, e)) # <<>>
<1>1. PICK z \in Seq(Item) : ItemsOf(b) = Painted(b, e) \o z
  BY FlushSplits
<1>2. Painted(b, e) \in Seq(Item) /\ Undelivered(b, e) \subseteq Range(ItemsOf(b))
  BY FlushSplits
<1>3. Range(Painted(b, e)) \subseteq Range(ItemsOf(b))
  BY <1>1, <1>2, RangeConcat
<1>4. Range(ItemsOf(b)) \subseteq Item
  BY ItemsOfType, InRange
<1>5. QED
  BY <1>2, <1>3, <1>4, PaintType

\* The types of what is held and painted and of the stamps.
LEMMA StateType ==
    ASSUME FenceTypeOK
    PROVE  /\ page \in Seq(Item) /\ bridge \in Seq(Item) /\ staged \in Seq(Batch)
           /\ fence.batches \in Seq(Batch) /\ fence.up \in BOOLEAN
           /\ fence = [up |-> fence.up, batches |-> fence.batches]
           /\ cursor \in 0..MaxOutput /\ read.next \in 0..MaxOutput
           /\ seed.n \in 0..MaxOutput /\ seed.runtime \in Runtimes /\ seed.seq \in 0..MaxOutput
           /\ seed.name \in Names /\ seed.wrote \in BOOLEAN
           /\ pending.seq \in 0..MaxOutput /\ pending.name \in Names
           /\ stamp \in 0..MaxOutput
BY DEF FenceTypeOK

\* The types of the daemon's state and of the bounds.
LEMMA ScalarType ==
    ASSUME FenceTypeOK
    PROVE  /\ runtime \in Runtimes /\ output \in 0..MaxOutput /\ named \subseteq Runtimes
           /\ cursor \in 0..MaxOutput /\ disturbances \in 0..MaxDisturbances
           /\ MaxOutput \in Nat /\ MaxLaterOutput \in 0..MaxOutput /\ MaxRuntimes \in Nat \ {0}
           /\ MaxDisturbances \in Nat
           /\ runtime \in Names /\ Name(runtime) \in Names /\ 0 \in Names
<1>1. /\ runtime \in Runtimes /\ output \in 0..MaxOutput /\ named \subseteq Runtimes
      /\ cursor \in 0..MaxOutput /\ disturbances \in 0..MaxDisturbances
  BY DEF FenceTypeOK
<1>2. /\ MaxOutput \in Nat /\ MaxLaterOutput \in 0..MaxOutput /\ MaxRuntimes \in Nat \ {0}
      /\ MaxDisturbances \in Nat
  BY OutputBound, RuntimeBound, DisturbanceBound
<1>3. QED
  BY <1>1, <1>2 DEF Name, Names, Runtimes

\* Items that the code makes.
LEMMA ScreenType ==
    ASSUME NEW r \in Runtimes, NEW n \in 0..MaxOutput
    PROVE  /\ Screen(r, n) \in Item /\ Chunk(r, n) \in Item
           /\ [kind |-> "text", runtime |-> r, n |-> n] \in Item
           /\ <<Screen(r, n)>> \in Seq(Item) /\ <<>> \in Seq(Item)
<1>1. /\ Screen(r, n) \in Item /\ Chunk(r, n) \in Item
      /\ [kind |-> "text", runtime |-> r, n |-> n] \in Item
  BY DEF Screen, Chunk, Item
<1>2. QED
  BY <1>1, Few

\* The answers on their way.
ReadSet == [st: {"none", "answered"}, from: 0..MaxOutput, runtime: Names, name: Names,
            next: 0..MaxOutput, whole: BOOLEAN, items: Seq(Item), lost: SUBSET (1..MaxOutput)]

\* The chunks after a cursor.
LEMMA ChunksFacts ==
    ASSUME FenceTypeOK, NEW from \in 0..output
    PROVE  /\ Chunks(from) \in Seq(Item) /\ Ordered(Chunks(from))
           /\ \A x \in Range(Chunks(from)) : \E k \in (from + 1)..output : x = Chunk(runtime, k)
<1> DEFINE m == output - from
           f == [i \in 1..m |-> Chunk(runtime, from + i)]
<1>1. /\ output \in 0..MaxOutput /\ runtime \in Runtimes /\ MaxOutput \in Nat
  BY ScalarType
<1>2. m \in Nat /\ from \in Nat /\ output \in Nat
  BY <1>1
<1>3. ASSUME NEW i \in 1..m PROVE f[i] \in Item /\ from + i \in (from + 1)..output /\ f[i] = Chunk(runtime, from + i)
  <2>1. from + i \in 0..MaxOutput /\ from + i \in (from + 1)..output
    BY <1>1, <1>2
  <2>2. QED
    BY <1>1, <2>1, ScreenType
<1>4. Chunks(from) = f
  BY DEF Chunks
<1> HIDE DEF m
<1>5. f \in Seq(Item) /\ Len(f) = m
  BY <1>2, <1>3
<1>6. Ordered(f)
  <2>1. ASSUME NEW i \in 1..m, NEW j \in 1..m, i < j PROVE Precedes(f[i], f[j])
    <3>1. f[i].n = from + i /\ f[j].n = from + j
      BY <1>3 DEF Chunk
    <3>2. from + i < from + j
      BY <1>2, <2>1
    <3>3. QED
      BY <3>1, <3>2 DEF Precedes
  <2>2. QED
    BY <2>1 DEF Ordered
<1> HIDE DEF f
<1>7. ASSUME NEW x \in Range(f) PROVE \E k \in (from + 1)..output : x = Chunk(runtime, k)
  <2>1. PICK i \in 1..m : x = f[i]
    BY <1>5, <1>7, InRange
  <2>2. QED
    BY <1>3, <2>1
<1>8. QED
  BY <1>4, <1>5, <1>6, <1>7

\* What is selected of the ring.
LEMMA RetainedFacts ==
    ASSUME FenceTypeOK, output > 0, NEW from \in Nat, NEW gap \in BOOLEAN,
           gap => from < output, ~gap => from = 0 \/ from > output, NEW s \in Selections(from, gap)
    PROVE  /\ Retained(s) \in Seq(Item) /\ Ordered(Retained(s))
           /\ \A x \in Range(Retained(s)) : \E k \in 1..output :
                 x = Chunk(runtime, k) /\ (from <= output => k > from)
<1>1. /\ output \in 0..MaxOutput /\ runtime \in Runtimes /\ MaxOutput \in Nat /\ output \in Nat
  BY ScalarType
<1>2. /\ s.head \in 0..output /\ s.kept \in 0..output /\ s.head + s.kept <= output
      /\ gap => s.head = 0 /\ from + s.kept < output
  BY DEF Selections
<1> DEFINE t == output - s.kept
           a == IF s.head = 0 THEN <<>> ELSE <<Chunk(runtime, s.head)>>
           b == Chunks(t)
<1>3. t \in 0..output /\ t \in Nat /\ s.head <= t /\ s.head \in Nat /\ (gap => from < t)
  BY <1>1, <1>2
<1>4. b \in Seq(Item) /\ Ordered(b) /\ \A x \in Range(b) : \E k \in (t + 1)..output : x = Chunk(runtime, k)
  <2> HIDE DEF t
  <2>1. QED
    BY <1>3, ChunksFacts
<1>5. /\ a \in Seq(Item) /\ Ordered(a)
      /\ \A x \in Range(a) : s.head > 0 /\ x = Chunk(runtime, s.head)
  <2>1. CASE s.head = 0
    <3>1. a = <<>> /\ Ordered(<<>>)
      BY <2>1 DEF Ordered
    <3>2. QED
      BY <3>1, EmptyItems
  <2>2. CASE s.head # 0
    <3>1. s.head \in 0..MaxOutput /\ s.head > 0
      BY <1>1, <1>2, <2>2
    <3>2. a = <<Chunk(runtime, s.head)>> /\ Ordered(<<Chunk(runtime, s.head)>>)
      BY <2>2 DEF Ordered
    <3>3. Chunk(runtime, s.head) \in Item
      BY <1>1, <3>1, ScreenType
    <3>4. <<Chunk(runtime, s.head)>> \in Seq(Item) /\ Range(<<Chunk(runtime, s.head)>>) = {Chunk(runtime, s.head)}
      BY <3>3, Few DEF Range
    <3>5. QED
      BY <3>1, <3>2, <3>4
  <2>3. QED
    BY <2>1, <2>2
<1>6. Retained(s) = a \o b
  BY DEF Retained
<1>7. AllPrecede(Range(a), Range(b))
  <2>1. ASSUME NEW x \in Range(a), NEW y \in Range(b) PROVE Precedes(x, y)
    <3>1. PICK k \in (t + 1)..output : y = Chunk(runtime, k)
      BY <1>4, <2>1
    <3>2. x.n = s.head /\ y.n = k
      BY <1>5, <2>1, <3>1 DEF Chunk
    <3>3. s.head < k
      BY <1>1, <1>3, <3>1
    <3>4. QED
      BY <3>2, <3>3 DEF Precedes
  <2>2. QED
    BY <2>1 DEF AllPrecede
<1> HIDE DEF a, b, t
<1>8. Retained(s) \in Seq(Item) /\ Ordered(Retained(s)) /\ Range(Retained(s)) = Range(a) \cup Range(b)
  BY <1>4, <1>5, <1>6, <1>7, OrderedConcat, RangeConcat
<1>9. ASSUME NEW x \in Range(Retained(s))
      PROVE  \E k \in 1..output : x = Chunk(runtime, k) /\ (from <= output => k > from)
  <2>1. CASE x \in Range(a)
    <3>1. x = Chunk(runtime, s.head) /\ s.head \in 1..output /\ (from <= output => s.head > from)
      BY <1>1, <1>2, <1>5, <2>1
    <3>2. QED
      BY <3>1
  <2>2. CASE x \in Range(b)
    <3>1. PICK k \in (t + 1)..output : x = Chunk(runtime, k)
      BY <1>4, <2>2
    <3>2. k \in 1..output /\ (from <= output => k > from)
      BY <1>1, <1>3, <3>1
    <3>3. QED
      BY <3>1, <3>2
  <2>3. QED
    BY <1>8, <1>9, <2>1, <2>2
<1>10. QED
  BY <1>8, <1>9

\* What TerminalSession::read may send.
LEMMA SentFacts ==
    ASSUME FenceTypeOK, NEW gap \in BOOLEAN, gap => cursor > 0 /\ cursor < output,
           NEW items \in Sent(cursor, gap)
    PROVE  /\ items \in Seq(Item)
           /\ ~Whole(cursor, gap) => cursor > 0 /\ cursor <= output /\ items = Chunks(cursor)
           /\ Whole(cursor, gap) =>
                \/ output = 0 /\ items = <<>>
                \/ output > 0 /\ items = <<Screen(runtime, output)>>
                \/ /\ output > 0 /\ Ordered(items)
                   /\ \A x \in Range(items) : \E k \in 1..output :
                         x = Chunk(runtime, k) /\ (cursor <= output => k > cursor)
<1>1. /\ output \in 0..MaxOutput /\ runtime \in Runtimes /\ cursor \in 0..MaxOutput /\ MaxOutput \in Nat
      /\ output \in Nat /\ cursor \in Nat
  BY ScalarType
<1>2. CASE ~Whole(cursor, gap)
  <2>1. cursor > 0 /\ cursor <= output /\ items = Chunks(cursor) /\ cursor \in 0..output
    BY <1>1, <1>2 DEF Whole, Sent
  <2>2. QED
    BY <1>2, <2>1, ChunksFacts
<1>3. CASE Whole(cursor, gap)
  <2>1. CASE output = 0
    BY <1>3, <2>1, EmptyItems DEF Sent
  <2>2. CASE output > 0 /\ items = <<Screen(runtime, output)>>
    BY <1>1, <1>3, <2>2, ScreenType
  <2>3. CASE output > 0 /\ \E s \in Selections(cursor, gap) : items = Retained(s)
    <3>1. ~gap => cursor = 0 \/ cursor > output
      BY <1>3 DEF Whole
    <3>2. PICK s \in Selections(cursor, gap) : items = Retained(s)
      BY <2>3
    <3>3. /\ items \in Seq(Item) /\ Ordered(items)
          /\ \A x \in Range(items) : \E k \in 1..output :
                 x = Chunk(runtime, k) /\ (cursor <= output => k > cursor)
      BY <1>1, <2>3, <3>1, <3>2, RetainedFacts
    <3>4. QED
      BY <1>3, <2>3, <3>3
  <2>4. output = 0 \/ output > 0
    BY <1>1
  <2>5. output > 0 => items = <<Screen(runtime, output)>> \/ \E s \in Selections(cursor, gap) : items = Retained(s)
    BY <1>1, <1>3 DEF Sent
  <2>6. QED
    BY <2>1, <2>2, <2>3, <2>4, <2>5
<1>4. QED
  BY <1>2, <1>3

\* TerminalSession::read answers with items.
LEMMA AnswerType ==
    ASSUME FenceTypeOK, NEW gap \in BOOLEAN, NEW items \in Seq(Item), NEW lost \in SUBSET (1..MaxOutput)
    PROVE  Answer(cursor, gap, items, lost) \in ReadSet
<1>1. /\ cursor \in 0..MaxOutput /\ output \in 0..MaxOutput
      /\ runtime \in Names /\ Name(runtime) \in Names
  BY ScalarType
<1>2. Whole(cursor, gap) \in BOOLEAN
  BY DEF Whole
<1>3. QED
  BY <1>1, <1>2 DEF Answer, ReadSet

\* No answer on its way.
LEMMA NoReadType == NoRead \in ReadSet
<1>1. <<>> \in Seq(Item) /\ 0 \in Names /\ 0 \in 0..MaxOutput
  BY OutputBound, RuntimeBound DEF Names
<1>2. QED
  BY <1>1 DEF NoRead, ReadSet

\* The fence when it is down.
LEMMA DownType == Down \in [up: BOOLEAN, batches: Seq(Batch)] /\ Down.up = FALSE /\ Down.batches = <<>>
<1>1. <<>> \in Seq(Batch)
  OBVIOUS
<1>2. QED
  BY <1>1 DEF Down

\* No stamp.
LEMMA UnstampedType == Unstamped \in [seq: 0..MaxOutput, name: Names] /\ Unstamped.seq = 0
BY OutputBound, RuntimeBound DEF Unstamped, Names

CauseSet == {"overtaken release", "hidden seed", "foreign seed", "swapped runtime",
             "short replay", "repeated replay", "rewritten"}

\* The causes are the seven.
LEMMA CauseType ==
    /\ \A x : Overtakes(x) \subseteq CauseSet /\ Hides(x) \subseteq CauseSet /\ Swapped(x) \subseteq CauseSet
    /\ \A x, y, z : Foreign(x, y, z) \subseteq CauseSet
    /\ Shortens \subseteq CauseSet /\ Repeats \subseteq CauseSet
    /\ \A x, y : Rewrites(x, y) \subseteq CauseSet
<1>1. /\ \A x : Overtakes(x) \subseteq CauseSet /\ Hides(x) \subseteq CauseSet /\ Swapped(x) \subseteq CauseSet
      /\ \A x, y, z : Foreign(x, y, z) \subseteq CauseSet
  BY DEF Overtakes, Hides, Swapped, Foreign, CauseSet
<1>2. Shortens \subseteq CauseSet /\ Repeats \subseteq CauseSet /\ \A x, y : Rewrites(x, y) \subseteq CauseSet
  BY DEF Shortens, Repeats, Rewrites, CauseSet
<1>3. QED
  BY <1>1, <1>2

\* The initial states are of the types.
LEMMA FenceInitType == FenceInit => FenceTypeOK
<1> SUFFICES ASSUME FenceInit PROVE FenceTypeOK
  OBVIOUS
<1>1. 1 \in Runtimes /\ 0 \in 0..MaxOutput /\ 0 \in Names /\ 1 \in Names /\ 0 \in 0..MaxDisturbances
  BY RuntimeBound, OutputBound, DisturbanceBound DEF Runtimes, Names
<1>2. runtime \in Runtimes /\ output \in 0..MaxOutput /\ known \in Names /\ cursor \in 0..MaxOutput
      /\ stamp \in 0..MaxOutput /\ mounted \in BOOLEAN /\ disturbances \in 0..MaxDisturbances
      /\ stream \in Names /\ reported \subseteq Item
      /\ causes \subseteq CauseSet
  BY <1>1 DEF FenceInit
<1>3. named \subseteq Runtimes /\ frozen \in Names
  BY <1>1 DEF FenceInit
<1>4. seed \in [st: {"fetching", "answered", "proving", "done", "discarded"}, runtime: Runtimes,
                 n: 0..MaxOutput, seq: 0..MaxOutput, name: Names, wrote: BOOLEAN]
  BY <1>1 DEF FenceInit
<1>5. staged \in Seq(Batch) /\ bridge \in Seq(Item) /\ page \in Seq(Item)
  BY EmptyItems DEF FenceInit
<1>6. fence \in [up: BOOLEAN, batches: Seq(Batch)]
  BY EmptyItems DEF FenceInit
<1>7. QED
  BY <1>2, <1>3, <1>4, <1>5, <1>6, NoReadType, UnstampedType DEF FenceInit, FenceTypeOK, ReadSet, CauseSet

\* The steps that leave what is held and painted, the stamps and the history alone.
LEMMA QuietType ==
    ASSUME FenceTypeOK,
           Output \/ Replace \/ Capture \/ CaptureFails \/ IssueRead \/ Reattach \/ DiscardRead \/ Ended
    PROVE  FenceTypeOK'
<1>2. CASE Output
  <2>1. output' \in 0..MaxOutput
    BY <1>2, ScalarType DEF Output
  <2>2. QED
    BY <1>2, <2>1 DEF Output, FenceTypeOK, loopVars, paintVars
<1>3. CASE Replace
  <2>1. runtime' \in Runtimes /\ output' \in 0..MaxOutput /\ named' \subseteq Runtimes
    BY <1>3, ScalarType DEF Replace, Runtimes
  <2>2. QED
    BY <1>3, <2>1 DEF Replace, FenceTypeOK, loopVars, paintVars
<1>4. CASE Capture
  <2>1. 0 \in 0..MaxOutput /\ output \in 0..MaxOutput /\ runtime \in Runtimes /\ Name(runtime) \in Names
    BY ScalarType
  <2>2. PICK q \in 0..MaxOutput : seed' = [st |-> "answered", runtime |-> runtime, n |-> output,
                                  seq |-> q, name |-> Name(runtime), wrote |-> FALSE]
    BY <1>4, <2>1 DEF Capture
  <2>3. seed' \in [st: {"fetching", "answered", "proving", "done", "discarded"}, runtime: Runtimes,
                   n: 0..MaxOutput, seq: 0..MaxOutput, name: Names, wrote: BOOLEAN]
    BY <2>1, <2>2
  <2>4. QED
    BY <1>4, <2>3 DEF Capture, FenceTypeOK, loopVars, paintVars
<1>5. CASE CaptureFails
  <2>1. 0 \in 0..MaxOutput /\ runtime \in Runtimes /\ 0 \in Names
    BY ScalarType
  <2>2. seed' \in [st: {"fetching", "answered", "proving", "done", "discarded"}, runtime: Runtimes,
                   n: 0..MaxOutput, seq: 0..MaxOutput, name: Names, wrote: BOOLEAN]
    BY <1>5, <2>1 DEF CaptureFails
  <2>3. QED
    BY <1>5, <2>2 DEF CaptureFails, FenceTypeOK, loopVars, paintVars
<1>6. CASE IssueRead
  <2>1. read' \in ReadSet
    <3>1. PICK gap \in BOOLEAN :
            /\ gap => cursor > 0 /\ cursor < output
            /\ \E items \in Sent(cursor, gap), lost \in SUBSET (1..MaxOutput) :
                  read' = Answer(cursor, gap, items, lost)
      BY <1>6 DEF IssueRead
    <3>2. QED
      BY <3>1, SentFacts, AnswerType
  <2>2. disturbances' \in 0..MaxDisturbances
    <3>1. /\ disturbances \in Nat /\ disturbances <= MaxDisturbances
          /\ runtime \in Nat /\ runtime >= 1 /\ MaxDisturbances \in Nat
      BY ScalarType, DisturbanceBound DEF Runtimes
    <3>2. \/ disturbances' = disturbances
          \/ Undisturbed /\ disturbances' = disturbances + 1
      BY <1>6 DEF IssueRead
    <3>3. QED
      BY <3>1, <3>2 DEF Undisturbed
  <2>3. QED
    BY <1>6, <2>1, <2>2 DEF IssueRead, FenceTypeOK, loopVars, paintVars, ReadSet
<1>7. CASE Reattach
  <2>1. disturbances' \in 0..MaxDisturbances /\ cursor' \in 0..MaxOutput
    BY <1>7, ScalarType DEF Reattach, Undisturbed, Runtimes
  <2>2. QED
    BY <1>7, <2>1 DEF Reattach, FenceTypeOK, paintVars
<1>8. CASE DiscardRead
  BY <1>8, NoReadType DEF DiscardRead, FenceTypeOK, loopVars, paintVars, ReadSet
<1>9. CASE Ended
  BY <1>9 DEF Ended, FenceTypeOK, fenceVars
<1>10. QED
  BY <1>2, <1>3, <1>4, <1>5, <1>6, <1>7, <1>8, <1>9

SeedType == [st: {"fetching", "answered", "proving", "done", "discarded"}, runtime: Runtimes,
             n: 0..MaxOutput, seq: 0..MaxOutput, name: Names, wrote: BOOLEAN]

\* The seed's record as the fetch and the proof go on.
LEMMA SeedMoves ==
    ASSUME FenceTypeOK, NEW st \in {"fetching", "answered", "proving", "done", "discarded"},
           NEW w \in BOOLEAN
    PROVE  /\ [seed EXCEPT !.st = st] \in SeedType
           /\ [seed EXCEPT !.st = st, !.wrote = w] \in SeedType
           /\ \A s \in {[seed EXCEPT !.st = st], [seed EXCEPT !.st = st, !.wrote = w]} :
                 s.st = st /\ s.n = seed.n /\ s.seq = seed.seq /\ s.runtime = seed.runtime
           /\ [seed EXCEPT !.st = st].wrote = seed.wrote
           /\ [seed EXCEPT !.st = st, !.wrote = w].wrote = w
<1>1. seed \in SeedType
  BY DEF FenceTypeOK, SeedType
<1>2. QED
  BY <1>1 DEF SeedType

\* The two ways of a seed's arrival.
SeedDropped ==
    /\ seed' = [seed EXCEPT !.st = "discarded"]
    /\ pending' = Unstamped
    /\ fence' = Down
    /\ \E e \in FlushEnds(fence.batches) :
          /\ page' = Shows(page \o Painted(fence.batches, e))
          /\ reported' = reported \union Undelivered(fence.batches, e)
    /\ UNCHANGED causes

SeedTaken ==
    /\ pending' = IF seed.seq > 0 THEN [seq |-> seed.seq, name |-> seed.name] ELSE pending
    /\ \E wrote \in BOOLEAN :
          /\ wrote => seed.n > 0
          /\ page' = IF ~wrote THEN page
                     ELSE IF fence.up THEN <<Screen(seed.runtime, seed.n)>>
                     ELSE Append(page, [kind |-> "text", runtime |-> seed.runtime, n |-> seed.n])
          /\ seed' = [seed EXCEPT !.st = "proving", !.wrote = wrote]
          /\ causes' = causes \union Foreign(seed.runtime, stream, seed.seq)
                              \union (IF wrote THEN Overtakes(<<seed>>) ELSE {})
    /\ UNCHANGED <<fence, reported>>

SeedRest ==
    /\ mounted
    /\ seed.st = "answered"
    /\ UNCHANGED <<runtime, output, named, read, frozen, known, cursor, stamp, mounted,
                   bridge, staged, disturbances, stream>>

\* SeedArrives is one of the two.
LEMMA SeedCases ==
    ASSUME SeedArrives
    PROVE  SeedRest /\ (SeedDropped \/ SeedTaken)
<1>1. SeedRest
  BY DEF SeedArrives, SeedRest
<1>2. SeedDropped \/ SeedTaken
  <2>1. CASE seed.name # 0 /\ known # 0 /\ seed.name # known
    BY <2>1 DEF SeedArrives, SeedDropped
  <2>2. CASE ~(seed.name # 0 /\ known # 0 /\ seed.name # known)
    <3>1. PICK wrote \in {w \in BOOLEAN : w => seed.n > 0} :
                  /\ page' = IF ~wrote THEN page
                             ELSE IF fence.up THEN <<Screen(seed.runtime, seed.n)>>
                             ELSE Append(page, [kind |-> "text", runtime |-> seed.runtime, n |-> seed.n])
                  /\ seed' = [seed EXCEPT !.st = "proving", !.wrote = wrote]
                  /\ causes' = causes \union Foreign(seed.runtime, stream, seed.seq)
                                      \union (IF wrote THEN Overtakes(<<seed>>) ELSE {})
      BY <2>2 DEF SeedArrives
    <3>2. wrote \in BOOLEAN /\ (wrote => seed.n > 0)
      OBVIOUS
    <3>3. pending' = (IF seed.seq > 0 THEN [seq |-> seed.seq, name |-> seed.name] ELSE pending)
          /\ UNCHANGED <<fence, reported>>
      BY <2>2 DEF SeedArrives
    <3>4. QED
      BY <3>1, <3>2, <3>3 DEF SeedTaken
  <2>3. QED
    BY <2>1, <2>2
<1>3. QED
  BY <1>1, <1>2

\* The proof, with or without a commit.
ProofRest ==
    /\ mounted
    /\ seed.st = "proving"
    /\ seed' = [seed EXCEPT !.st = "done"]
    /\ fence' = Down
    /\ UNCHANGED <<runtime, output, named, read, frozen, known, cursor, mounted, bridge, staged,
                   disturbances, stream>>
    /\ pending' \in [seq: {0}, name: Names]

ProofFlush(batches) ==
    \E e \in FlushEnds(batches) :
       /\ page' = Shows(page \o Painted(batches, e))
       /\ reported' = reported \union Undelivered(batches, e)
       /\ causes' = causes \union Hides(page')

ProofCommits ==
    /\ pending.seq > 0
    /\ seed.wrote
    /\ stamp' = pending.seq
    /\ ProofFlush(DropSeedCovered(fence.batches, pending.seq))

ProofPasses ==
    /\ stamp' = stamp
    /\ ProofFlush(fence.batches)

\* ProofAnswers is one of the two.
LEMMA ProofCases ==
    ASSUME FenceTypeOK, ProofAnswers
    PROVE  ProofRest /\ (ProofCommits \/ ProofPasses)
<1> DEFINE Commits(proof) == proof = "applied" /\ pending.seq > 0 /\ pending.name # 0
           B(proof) == IF Commits(proof) THEN DropSeedCovered(fence.batches, pending.seq)
                       ELSE fence.batches
<1>1. PICK proof \in {"applied", "unapplied", "unreadable"} :
          /\ proof = "applied" => seed.wrote
          /\ stamp' = IF Commits(proof) THEN pending.seq ELSE stamp
          /\ pending' = IF proof = "unreadable" THEN [pending EXCEPT !.seq = 0] ELSE Unstamped
          /\ \E e \in FlushEnds(B(proof)) :
                    /\ page' = Shows(page \o Painted(B(proof), e))
                    /\ reported' = reported \union Undelivered(B(proof), e)
                    /\ causes' = causes \union Hides(page')
  BY DEF ProofAnswers
<1>2. pending' \in [seq: {0}, name: Names]
  <2>1. pending \in [seq: 0..MaxOutput, name: Names] /\ 0 \in Names
    BY ScalarType DEF FenceTypeOK
  <2>2. [pending EXCEPT !.seq = 0] \in [seq: {0}, name: Names] /\ Unstamped \in [seq: {0}, name: Names]
    BY <2>1 DEF Unstamped
  <2>3. QED
    BY <1>1, <2>2
<1>3. ProofRest
  BY <1>2 DEF ProofAnswers, ProofRest
<1>4. CASE Commits(proof)
  <2>1. B(proof) = DropSeedCovered(fence.batches, pending.seq) /\ stamp' = pending.seq
        /\ pending.seq > 0 /\ seed.wrote
    BY <1>1, <1>4
  <2> HIDE DEF B
  <2>2. PICK e \in FlushEnds(B(proof)) :
                    /\ page' = Shows(page \o Painted(B(proof), e))
                    /\ reported' = reported \union Undelivered(B(proof), e)
                    /\ causes' = causes \union Hides(page')
    BY <1>1
  <2>3. /\ e \in FlushEnds(DropSeedCovered(fence.batches, pending.seq))
        /\ page' = Shows(page \o Painted(DropSeedCovered(fence.batches, pending.seq), e))
        /\ reported' = reported \union Undelivered(DropSeedCovered(fence.batches, pending.seq), e)
        /\ causes' = causes \union Hides(page')
    BY <2>1, <2>2
  <2>4. QED
    BY <1>3, <2>1, <2>3 DEF ProofCommits, ProofFlush
<1>5. CASE ~Commits(proof)
  <2>1. B(proof) = fence.batches /\ stamp' = stamp
    BY <1>1, <1>5
  <2> HIDE DEF B
  <2>2. PICK e \in FlushEnds(B(proof)) :
                    /\ page' = Shows(page \o Painted(B(proof), e))
                    /\ reported' = reported \union Undelivered(B(proof), e)
                    /\ causes' = causes \union Hides(page')
    BY <1>1
  <2>3. /\ e \in FlushEnds(fence.batches)
        /\ page' = Shows(page \o Painted(fence.batches, e))
        /\ reported' = reported \union Undelivered(fence.batches, e)
        /\ causes' = causes \union Hides(page')
    BY <2>1, <2>2
  <2>4. QED
    BY <1>3, <2>1, <2>3 DEF ProofPasses, ProofFlush
<1>6. QED
  BY <1>3, <1>4, <1>5

-----------------------------------------------------------------------------
\* SeedArrives keeps the types.
LEMMA SeedArrivesType ==
    ASSUME FenceTypeOK, SeedArrives
    PROVE  FenceTypeOK'
<1>1. SeedRest /\ (SeedDropped \/ SeedTaken)
  BY SeedCases
<1>2. SUFFICES /\ seed' \in SeedType
               /\ pending' \in [seq: 0..MaxOutput, name: Names]
               /\ fence' \in [up: BOOLEAN, batches: Seq(Batch)]
               /\ page' \in Seq(Item) /\ reported' \subseteq Item /\ causes' \subseteq CauseSet
  BY <1>1 DEF SeedRest, FenceTypeOK, SeedType, CauseSet
<1>3. /\ page \in Seq(Item) /\ fence.batches \in Seq(Batch) /\ reported \subseteq Item
      /\ causes \subseteq CauseSet
  BY DEF FenceTypeOK, CauseSet
<1>4. CASE SeedDropped
  <2>1. PICK e \in FlushEnds(fence.batches) :
          /\ page' = Shows(page \o Painted(fence.batches, e))
          /\ reported' = reported \union Undelivered(fence.batches, e)
    BY <1>4 DEF SeedDropped
  <2>2. page' \in Seq(Item) /\ reported' \subseteq Item
    BY <1>3, <2>1, FlushType
  <2>3. QED
    BY <1>3, <1>4, <2>2, SeedMoves, UnstampedType, DownType DEF SeedDropped
<1>5. CASE SeedTaken
  <2>1. PICK wrote \in BOOLEAN :
          /\ page' = IF ~wrote THEN page
                     ELSE IF fence.up THEN <<Screen(seed.runtime, seed.n)>>
                     ELSE Append(page, [kind |-> "text", runtime |-> seed.runtime, n |-> seed.n])
          /\ seed' = [seed EXCEPT !.st = "proving", !.wrote = wrote]
          /\ causes' = causes \union Foreign(seed.runtime, stream, seed.seq)
                              \union (IF wrote THEN Overtakes(<<seed>>) ELSE {})
    BY <1>5 DEF SeedTaken
  <2>2. seed.n \in 0..MaxOutput /\ seed.runtime \in Runtimes /\ seed.seq \in 0..MaxOutput
        /\ seed.name \in Names
    BY StateType
  <2>3. page' \in Seq(Item)
    <3>1. [kind |-> "text", runtime |-> seed.runtime, n |-> seed.n] \in Item
          /\ <<Screen(seed.runtime, seed.n)>> \in Seq(Item)
      BY <2>2, ScreenType
    <3>2. QED
      BY <1>3, <2>1, <3>1
  <2>4. causes' \subseteq CauseSet
    BY <1>3, <2>1, CauseType
  <2>5. pending' \in [seq: 0..MaxOutput, name: Names]
    BY <1>5, <2>2 DEF SeedTaken, FenceTypeOK
  <2>6. seed' \in SeedType
    BY <2>1, SeedMoves
  <2>7. QED
    BY <1>5, <2>3, <2>4, <2>5, <2>6 DEF SeedTaken, FenceTypeOK
<1>6. QED
  BY <1>1, <1>4, <1>5

\* ProofAnswers keeps the types.
LEMMA ProofAnswersType ==
    ASSUME FenceTypeOK, ProofAnswers
    PROVE  FenceTypeOK'
<1>1. ProofRest /\ (ProofCommits \/ ProofPasses)
  BY ProofCases
<1>2. SUFFICES /\ stamp' \in 0..MaxOutput
               /\ page' \in Seq(Item) /\ reported' \subseteq Item /\ causes' \subseteq CauseSet
  <2>1. seed' \in SeedType
    BY <1>1, SeedMoves DEF ProofRest
  <2>2. pending' \in [seq: 0..MaxOutput, name: Names]
    <3>1. 0 \in 0..MaxOutput
      BY ScalarType
    <3>2. QED
      BY <1>1, <3>1 DEF ProofRest
  <2>3. QED
    BY <1>1, <1>2, <2>1, <2>2, DownType DEF ProofRest, FenceTypeOK, SeedType, CauseSet
<1>3. /\ page \in Seq(Item) /\ fence.batches \in Seq(Batch) /\ reported \subseteq Item
      /\ causes \subseteq CauseSet /\ stamp \in 0..MaxOutput /\ pending.seq \in 0..MaxOutput
      /\ pending.seq \in Nat
  <2>1. /\ page \in Seq(Item) /\ fence.batches \in Seq(Batch) /\ reported \subseteq Item
        /\ causes \subseteq CauseSet /\ stamp \in 0..MaxOutput /\ pending.seq \in 0..MaxOutput
    BY DEF FenceTypeOK, CauseSet
  <2>2. QED
    BY <2>1, ScalarType
<1>4. ASSUME NEW b \in Seq(Batch), ProofFlush(b)
      PROVE  page' \in Seq(Item) /\ reported' \subseteq Item /\ causes' \subseteq CauseSet
  <2>1. PICK e \in FlushEnds(b) : /\ page' = Shows(page \o Painted(b, e))
                                  /\ reported' = reported \union Undelivered(b, e)
                                  /\ causes' = causes \union Hides(page')
    BY <1>4 DEF ProofFlush
  <2>2. QED
    BY <1>3, <2>1, FlushType, CauseType
<1>5. DropSeedCovered(fence.batches, pending.seq) \in Seq(Batch)
  BY <1>3, DropType
<1>6. CASE ProofCommits
  BY <1>3, <1>4, <1>5, <1>6 DEF ProofCommits
<1>7. CASE ProofPasses
  BY <1>3, <1>4, <1>7 DEF ProofPasses
<1>8. QED
  BY <1>1, <1>6, <1>7

\* Remount keeps the types.
LEMMA RemountType ==
    ASSUME FenceTypeOK, Remount
    PROVE  FenceTypeOK'
<1>1. stamp' \in 0..MaxOutput /\ pending' \in [seq: 0..MaxOutput, name: Names]
  <2>1. 0 \in 0..MaxOutput
    BY ScalarType
  <2>2. QED
    BY <2>1, UnstampedType DEF Remount, FenceTypeOK
<1>2. QED
  BY <1>1, NoReadType DEF Remount, FenceTypeOK, paintVars, ReadSet

\* Accept keeps the types.
LEMMA AcceptType ==
    ASSUME FenceTypeOK, RunInv, Accept
    PROVE  FenceTypeOK'
<1>1. AcceptRest /\ (AcceptHolds \/ AcceptPaints \/ AcceptRetains \/ AcceptBreaks)
  BY AcceptCases
<1>2. Data \in Seq(Item)
  BY <1>1, RoundFacts DEF AcceptRest
<1>3. SUFFICES /\ bridge' \in Seq(Item) /\ fence' \in [up: BOOLEAN, batches: Seq(Batch)]
               /\ page' \in Seq(Item) /\ reported' \subseteq Item /\ causes' \subseteq CauseSet
  <2>1. stamp' \in 0..MaxOutput /\ pending' \in [seq: 0..MaxOutput, name: Names]
    <3>1. 0 \in 0..MaxOutput
      BY ScalarType
    <3>2. QED
      BY <1>1, <3>1, UnstampedType DEF AcceptRest, FenceTypeOK
  <2>2. known' \in Names /\ stream' \in Names /\ cursor' \in 0..MaxOutput
    BY <1>1, ReadType DEF AcceptRest
  <2>3. QED
    BY <1>1, <1>3, <2>1, <2>2, NoReadType DEF AcceptRest, FenceTypeOK, CauseSet, ReadSet
<1>4. /\ page \in Seq(Item) /\ fence.batches \in Seq(Batch) /\ reported \subseteq Item
      /\ causes \subseteq CauseSet /\ bridge \in Seq(Item) /\ read.next \in 0..MaxOutput
      /\ fence \in [up: BOOLEAN, batches: Seq(Batch)]
  BY DEF FenceTypeOK, CauseSet
<1>5. AcceptUnseen \subseteq CauseSet
  BY CauseType DEF AcceptUnseen
<1>6. AcceptWrites => causes' \subseteq CauseSet /\ bridge' \in Seq(Item)
  BY <1>4, <1>5, CauseType, EmptyItems DEF AcceptWrites
<1>7. bridge \o Data \in Seq(Item)
  BY <1>2, <1>4
<1> DEFINE K(k) == Kept(bridge, Data, k, read.next)
<1>8. /\ Len(Writes(bridge, Data)) \in Nat
      /\ \A k \in 0..Len(Writes(bridge, Data)) : K(k) \in Seq(Batch) /\ Left(bridge, Data, k) \in Seq(Item)
  BY <1>2, <1>4, WritesFacts
<1> HIDE DEF K
<1>9. \A k \in 0..Len(Writes(bridge, Data)) : fence.batches \o K(k) \in Seq(Batch)
  BY <1>4, <1>8
<1>10. CASE AcceptHolds
  BY <1>4, <1>5, <1>7, <1>10 DEF AcceptHolds
<1>11. CASE AcceptPaints
  <2>1. page' \in Seq(Item)
    BY <1>4, <1>7, <1>11, PaintType DEF AcceptPaints
  <2>2. QED
    BY <1>4, <1>6, <1>11, <2>1 DEF AcceptPaints
<1>12. CASE AcceptRetains
  <2>1. fence.batches \o K(Len(Writes(bridge, Data))) \in Seq(Batch)
    BY <1>8, <1>9
  <2>2. fence' \in [up: BOOLEAN, batches: Seq(Batch)]
    BY <1>4, <1>12, <2>1 DEF AcceptRetains, K
  <2>3. QED
    BY <1>4, <1>6, <1>12, <2>2 DEF AcceptRetains
<1>13. CASE AcceptBreaks
  <2>0. PICK k \in 0..Len(Writes(bridge, Data)) : \E e \in FlushEnds(fence.batches \o K(k)) :
             /\ page' = Shows((page \o Painted(fence.batches \o K(k), e)) \o Left(bridge, Data, k))
             /\ reported' = reported \union Undelivered(fence.batches \o K(k), e)
    BY <1>13 DEF AcceptBreaks, K
  <2>1. PICK e \in FlushEnds(fence.batches \o K(k)) :
             /\ page' = Shows((page \o Painted(fence.batches \o K(k), e)) \o Left(bridge, Data, k))
             /\ reported' = reported \union Undelivered(fence.batches \o K(k), e)
    BY <2>0
  <2> DEFINE b == fence.batches \o K(k)
  <2>2. b \in Seq(Batch)
    BY <1>9
  <2>3. Painted(b, e) \in Seq(Item) /\ Undelivered(b, e) \subseteq Item
    <3> HIDE DEF b
    <3>1. e \in FlushEnds(b)
      BY DEF b
    <3>2. QED
      BY <1>4, <2>2, <3>1, FlushType
  <2>4. page \o Painted(b, e) \in Seq(Item)
    BY <1>4, <2>3
  <2>5. page' \in Seq(Item)
    BY <1>8, <2>1, <2>4, PaintType
  <2>6. QED
    BY <1>4, <1>6, <1>13, <2>1, <2>3, <2>5, DownType DEF AcceptBreaks
<1>14. QED
  BY <1>1, <1>10, <1>11, <1>12, <1>13

\* FlushDue keeps the types.
LEMMA FlushDueType ==
    ASSUME FenceTypeOK, FlushDue
    PROVE  FenceTypeOK'
<1>1. SUFFICES /\ bridge' \in Seq(Item) /\ fence' \in [up: BOOLEAN, batches: Seq(Batch)]
               /\ page' \in Seq(Item) /\ staged' \in Seq(Batch) /\ causes' \subseteq CauseSet
  BY <1>1 DEF FlushDue, FenceTypeOK, loopVars, CauseSet
<1>2. /\ page \in Seq(Item) /\ fence.batches \in Seq(Batch) /\ staged \in Seq(Batch)
      /\ causes \subseteq CauseSet /\ bridge \in Seq(Item) /\ cursor \in 0..MaxOutput
      /\ fence \in [up: BOOLEAN, batches: Seq(Batch)]
  BY DEF FenceTypeOK, CauseSet
<1>3. bridge' \in Seq(Item)
  BY EmptyItems DEF FlushDue
<1>4. Append(fence.batches, [items |-> bridge, covered |-> cursor]) \in Seq(Batch)
  BY <1>2, RetainFlow
<1>5. Shows(page \o bridge) \in Seq(Item)
  BY <1>2, PaintType
<1>6. causes \union Overtakes(bridge) \union Hides(page') \subseteq CauseSet
  BY <1>2, CauseType
<1>7. QED
  BY <1>2, <1>3, <1>4, <1>5, <1>6, DownType DEF FlushDue

\* ReleaseStep keeps the types.
LEMMA ReleaseStepType ==
    ASSUME FenceTypeOK, ReleaseStep
    PROVE  FenceTypeOK'
<1>1. SUFFICES page' \in Seq(Item) /\ staged' \in Seq(Batch) /\ reported' \subseteq Item
  <2>1. causes \subseteq CauseSet
    BY DEF FenceTypeOK, CauseSet
  <2>2. causes' \subseteq CauseSet
    BY <2>1, CauseType DEF ReleaseStep
  <2>3. QED
    BY <1>1, <2>2 DEF ReleaseStep, FenceTypeOK, loopVars, CauseSet
<1>2. page \in Seq(Item) /\ staged \in Seq(Batch) /\ bridge \in Seq(Item) /\ reported \subseteq Item
  BY DEF FenceTypeOK
<1>3. staged # <<>>
  BY DEF ReleaseStep
<1>4. Head(staged).items \in Seq(Item) /\ Tail(staged) \in Seq(Batch)
  BY <1>2, <1>3, ReleaseThins
<1>5. Shows(page \o Head(staged).items) \in Seq(Item)
  BY <1>2, <1>4, PaintType
<1>6. Len(staged) > 1 => /\ <<Last(staged)>> \in Seq(Batch)
                         /\ Range(ItemsOf(Front(staged))) \subseteq Item
  BY <1>2, ReleaseFailThins
<1>7. QED
  BY <1>2, <1>4, <1>5, <1>6 DEF ReleaseStep

\* Every step keeps the types.
LEMMA FenceTypeStep ==
    ASSUME FenceTypeOK, RunInv, [FenceNext]_fenceVars
    PROVE  FenceTypeOK'
<1>1. CASE UNCHANGED fenceVars
  BY <1>1 DEF fenceVars, FenceTypeOK
<1>2. CASE FenceNext
  BY <1>2, QuietType, SeedArrivesType, ProofAnswersType, RemountType, AcceptType, FlushDueType,
     ReleaseStepType, Zenon DEF FenceNext
<1>3. QED
  BY <1>1, <1>2

-----------------------------------------------------------------------------
(* RunInv                                                                  *)

\* What is held, and the pipeline.
LEMMA HeldFacts ==
    ASSUME FenceTypeOK
    PROVE  /\ Held \in Seq(Item) /\ Pipeline \in Seq(Item) /\ Range(Held) \subseteq Item
           /\ Range(Held) = Range(ItemsOf(staged)) \cup Range(ItemsOf(fence.batches)) \cup Range(bridge)
           /\ Range(Pipeline) = Range(page) \cup Range(Held)
           /\ Pipeline = page \o Held
<1>1. page \in Seq(Item) /\ bridge \in Seq(Item) /\ staged \in Seq(Batch) /\ fence.batches \in Seq(Batch)
  BY StateType
<1>2. /\ Held \in Seq(Item) /\ Pipeline \in Seq(Item)
      /\ Range(Held) = Range(ItemsOf(staged)) \cup Range(ItemsOf(fence.batches)) \cup Range(bridge)
      /\ Range(Pipeline) = Range(page) \cup Range(Held)
  BY <1>1, FlowType DEF Held, Pipeline
<1>3. QED
  BY <1>2, InRange DEF Pipeline, Flow, Held

\* Before the first round nothing is held.
LEMMA NothingHeld ==
    ASSUME FenceTypeOK, CountInv, stream = 0
    PROVE  Range(Held) = {} /\ bridge = <<>>
<1>1. Range(Held) = {}
  <2>1. ASSUME NEW x \in Range(Held) PROVE FALSE
    <3>1. x \in Item /\ x.runtime <= 0
      BY <2>1, HeldFacts DEF CountInv, Counted
    <3>2. x.runtime \in 1..MaxRuntimes
      BY <3>1 DEF Item, Runtimes
    <3>3. QED
      BY <3>1, <3>2, RuntimeBound
  <2>2. QED
    BY <2>1
<1>2. bridge = <<>>
  <2>1. Range(bridge) = {} /\ bridge \in Seq(Item)
    BY <1>1, HeldFacts, StateType
  <2>2. ASSUME bridge # <<>> PROVE FALSE
    <3>1. 1 \in 1..Len(bridge)
      BY <2>1, <2>2
    <3>2. bridge[1] \in Range(bridge)
      BY <2>1, <3>1, InRange
    <3>3. QED
      BY <2>1, <3>2
  <2>3. QED
    BY <2>2
<1>3. QED
  BY <1>1, <1>2

\* A new answer is as ReadOK says.
LEMMA IssueReadRun ==
    ASSUME FenceTypeOK, RunInv, IssueRead
    PROVE  RunInv'
<1>1. /\ cursor \in Nat /\ output \in Nat /\ runtime \in Nat /\ stream \in Nat
  BY ReadType
<1>2. runtime >= 1
  BY ScalarType DEF Runtimes
<1>0. PICK gap \in BOOLEAN :
        /\ gap => cursor > 0 /\ cursor < output
        /\ \E items \in Sent(cursor, gap), lost \in SUBSET (1..MaxOutput) :
              read' = Answer(cursor, gap, items, lost)
  BY DEF IssueRead
<1>3. PICK items \in Sent(cursor, gap), lost \in SUBSET (1..MaxOutput) :
           read' = Answer(cursor, gap, items, lost)
  BY <1>0
<1>4. /\ runtime' = runtime /\ output' = output /\ stream' = stream /\ cursor' = cursor /\ fence' = fence
  BY DEF IssueRead, loopVars, paintVars
<1> DEFINE whole == Whole(cursor, gap)
<1>5. /\ read'.runtime = runtime /\ read'.next = output /\ read'.from = cursor /\ read'.whole = whole
      /\ read'.items = items
  BY <1>3 DEF Answer
<1>6. /\ ~whole => cursor > 0 /\ cursor <= output /\ items = Chunks(cursor)
      /\ whole =>
           \/ output = 0 /\ items = <<>>
           \/ output > 0 /\ items = <<Screen(runtime, output)>>
           \/ /\ output > 0 /\ Ordered(items)
              /\ \A x \in Range(items) : \E k \in 1..output :
                    x = Chunk(runtime, k) /\ (cursor <= output => k > cursor)
  BY <1>0, SentFacts
<1>7. /\ stream <= runtime /\ (stream = 0 => cursor = 0 /\ fence.batches = <<>>)
      /\ (stream = runtime => cursor <= output)
  BY DEF RunInv
<1> HIDE DEF whole
<1>8. whole \in BOOLEAN
  BY DEF whole, Whole
<1>9. ReadOK'
  <2>1. /\ read'.runtime \in 1..runtime'
        /\ stream' <= read'.runtime
        /\ read'.runtime = runtime' => read'.next <= output'
        /\ read'.runtime = stream' => cursor' <= read'.next
    BY <1>1, <1>2, <1>4, <1>5, <1>7
  <2>2. read'.whole =>
          \/ read'.next = 0 /\ read'.items = <<>>
          \/ read'.next > 0 /\ read'.items = <<Screen(read'.runtime, read'.next)>>
          \/ read'.next > 0 /\ ReplayOK(read')
    BY <1>5, <1>6, <1>8 DEF ReplayOK
  <2>3. /\ ~read'.whole => read'.from > 0 /\ read'.from <= read'.next
    BY <1>5, <1>6, <1>8
  <2>4. /\ ~read'.whole =>
            read'.items = [i \in 1..(read'.next - read'.from) |-> Chunk(read'.runtime, read'.from + i)]
    BY <1>5, <1>6, <1>8 DEF Chunks
  <2>5. QED
    BY <2>1, <2>2, <2>3, <2>4 DEF ReadOK, Screen, Chunk, ReplayOK
<1>10. QED
  BY <1>4, <1>7, <1>9 DEF RunInv

\* Every step preserves RunInv.
LEMMA RunStep ==
    ASSUME FenceTypeOK, RunInv, CountInv, [FenceNext]_fenceVars
    PROVE  RunInv'
<1>1. /\ cursor \in Nat /\ output \in Nat /\ runtime \in Nat /\ stream \in Nat /\ read.next \in Nat
      /\ read.runtime \in Nat
  BY ReadType
<1>2. /\ stream <= runtime /\ (stream = 0 => cursor = 0 /\ fence.batches = <<>>)
      /\ (stream = runtime => cursor <= output)
      /\ (read.st = "answered" => ReadOK)
  BY DEF RunInv
<1>3. ASSUME UNCHANGED <<runtime, output, cursor, read, stream>>,
             fence'.batches = fence.batches \/ fence'.batches = <<>>
      PROVE  RunInv'
  <2>1. read.st = "answered" => ReadOK'
    BY <1>2, <1>3 DEF ReadOK
  <2>2. QED
    BY <1>2, <1>3, <2>1 DEF RunInv
<1>4. CASE Output
  <2>1. /\ output' = output + 1
        /\ UNCHANGED <<runtime, cursor, read, stream, fence>>
    BY <1>4 DEF Output, loopVars, paintVars
  <2>2. ReadOK => ReadOK'
    BY <1>1, <2>1 DEF ReadOK
  <2>3. stream' = runtime' => cursor' <= output'
    BY <1>1, <1>2, <2>1
  <2>4. QED
    BY <1>2, <2>1, <2>2, <2>3 DEF RunInv
<1>5. CASE Replace
  <2>1. /\ runtime' = runtime + 1 /\ output' = 0
        /\ UNCHANGED <<cursor, read, stream, fence>>
    BY <1>5 DEF Replace, loopVars, paintVars
  <2>2. ReadOK => ReadOK'
    BY <1>1, <2>1 DEF ReadOK
  <2>3. stream' <= runtime' /\ stream' # runtime'
    BY <1>1, <1>2, <2>1
  <2>4. QED
    BY <1>2, <2>1, <2>2, <2>3 DEF RunInv
<1>6. CASE Capture \/ CaptureFails
  BY <1>3, <1>6 DEF Capture, CaptureFails, loopVars, paintVars
<1>7. CASE SeedArrives
  <2>1. SeedRest /\ (SeedDropped \/ SeedTaken)
    BY <1>7, SeedCases
  <2>2. QED
    BY <1>3, <2>1, DownType DEF SeedRest, SeedDropped, SeedTaken
<1>8. CASE ProofAnswers
  BY <1>3, <1>8, ProofCases, DownType DEF ProofRest
<1>9. CASE IssueRead
  BY <1>9, IssueReadRun
<1>10. CASE Reattach
  <2>1. cursor' = 0 /\ UNCHANGED <<runtime, output, read, stream, fence>>
    BY <1>10 DEF Reattach, paintVars
  <2>2. ReadOK => ReadOK'
    BY <1>1, <2>1 DEF ReadOK
  <2>3. cursor' <= output'
    BY <1>1, <2>1
  <2>4. QED
    BY <1>2, <2>1, <2>2, <2>3 DEF RunInv
<1>11. CASE DiscardRead \/ Remount
  <2>1. read' = NoRead /\ UNCHANGED <<runtime, output, cursor, stream, fence>>
    BY <1>11 DEF DiscardRead, Remount, loopVars, paintVars
  <2>2. read'.st # "answered"
    BY <2>1 DEF NoRead
  <2>3. QED
    BY <1>2, <2>1, <2>2 DEF RunInv
<1>12. CASE Accept
  <2>1. AcceptRest
    BY <1>12, AcceptCases
  <2>2. read'.st # "answered"
    BY <2>1 DEF AcceptRest, NoRead
  <2>3. /\ read.runtime \in 1..runtime
        /\ (read.runtime = runtime => read.next <= output)
    BY <1>2, <2>1 DEF AcceptRest, ReadOK
  <2>4. /\ stream' <= runtime' /\ stream' # 0 /\ (stream' = runtime' => cursor' <= output')
    BY <1>1, <2>1, <2>3 DEF AcceptRest
  <2>5. QED
    BY <2>2, <2>4 DEF RunInv
<1>13. CASE FlushDue
  <2>1. bridge # <<>> /\ UNCHANGED <<runtime, output, cursor, read, stream>>
    BY <1>13 DEF FlushDue, loopVars
  <2>2. stream # 0
    BY <2>1, NothingHeld
  <2>3. read.st = "answered" => ReadOK'
    BY <1>2, <2>1 DEF ReadOK
  <2>4. QED
    BY <1>2, <2>1, <2>2, <2>3 DEF RunInv
<1>14. CASE ReleaseStep
  BY <1>3, <1>14 DEF ReleaseStep, loopVars
<1>15. CASE Ended \/ UNCHANGED fenceVars
  BY <1>3, <1>15 DEF Ended, fenceVars
<1>16. QED
  BY <1>4, <1>5, <1>6, <1>7, <1>8, <1>9, <1>10, <1>11, <1>12, <1>13, <1>14, <1>15 DEF FenceNext

-----------------------------------------------------------------------------
(* ShutInv and StampInv                                                    *)

\* Every step preserves ShutInv.
LEMMA ShutStep ==
    ASSUME FenceTypeOK, RunInv, ShutInv, [FenceNext]_fenceVars
    PROVE  ShutInv'
<1>1. /\ ~fence.up => fence.batches = <<>>
      /\ staged # <<>> => ~fence.up
      /\ fence.up /\ seed.st \in {"fetching", "answered"} => page = <<>>
      /\ fence.up /\ seed.st = "proving" =>
            page = IF seed.wrote THEN <<Screen(seed.runtime, seed.n)>> ELSE <<>>
      /\ seed.st \in {"done", "discarded"} => ~fence.up
      /\ fence.up \in BOOLEAN
  BY StateType DEF ShutInv
<1>2. ASSUME UNCHANGED <<fence, staged, page, seed>> PROVE ShutInv'
  BY <1>1, <1>2 DEF ShutInv, Screen
<1>3. ASSUME fence' = Down PROVE ShutInv'
  BY <1>3, DownType DEF ShutInv
<1>4. CASE Output \/ Replace \/ IssueRead \/ Reattach \/ DiscardRead \/ Remount \/ Ended \/ UNCHANGED fenceVars
  BY <1>2, <1>4
     DEF Output, Replace, IssueRead, Reattach, DiscardRead, Remount, Ended, fenceVars, paintVars
<1>5. CASE Capture \/ CaptureFails
  <2>1. UNCHANGED <<fence, staged, page>> /\ seed.st = "fetching" /\ seed'.st = "answered"
    BY <1>5 DEF Capture, CaptureFails, paintVars
  <2>2. QED
    BY <1>1, <2>1 DEF ShutInv
<1>6. CASE SeedArrives
  <2>1. SeedRest /\ (SeedDropped \/ SeedTaken)
    BY <1>6, SeedCases
  <2>2. CASE SeedDropped
    BY <1>3, <2>2 DEF SeedDropped
  <2>3. CASE SeedTaken
    <3>1. PICK wrote \in BOOLEAN :
          /\ page' = IF ~wrote THEN page
                     ELSE IF fence.up THEN <<Screen(seed.runtime, seed.n)>>
                     ELSE Append(page, [kind |-> "text", runtime |-> seed.runtime, n |-> seed.n])
          /\ seed' = [seed EXCEPT !.st = "proving", !.wrote = wrote]
      BY <2>3 DEF SeedTaken
    <3>2. seed'.st = "proving" /\ seed'.wrote = wrote /\ seed'.runtime = seed.runtime /\ seed'.n = seed.n
      BY <3>1, SeedMoves
    <3>3. fence' = fence /\ staged' = staged
      BY <2>1, <2>3 DEF SeedTaken, SeedRest
    <3>4. fence.up => page = <<>>
      BY <1>1, <2>1 DEF SeedRest
    <3>5. fence.up => page' = IF wrote THEN <<Screen(seed.runtime, seed.n)>> ELSE <<>>
      BY <3>1, <3>4
    <3>6. QED
      BY <1>1, <3>2, <3>3, <3>5 DEF ShutInv, Screen
  <2>4. QED
    BY <2>1, <2>2, <2>3
<1>7. CASE ProofAnswers
  BY <1>3, <1>7, ProofCases DEF ProofRest
<1>8. CASE Accept
  <2>1. AcceptRest /\ (AcceptHolds \/ AcceptPaints \/ AcceptRetains \/ AcceptBreaks)
    BY <1>8, AcceptCases
  <2>2. CASE AcceptHolds
    BY <1>2, <2>1, <2>2 DEF AcceptHolds, AcceptRest
  <2>3. CASE AcceptPaints
    BY <1>1, <2>1, <2>3 DEF AcceptPaints, AcceptRest, ShutInv
  <2>4. CASE AcceptRetains
    <3>1. /\ UNCHANGED <<staged, page, seed>> /\ fence'.up = fence.up /\ fence.up
      BY <2>1, <2>4, StateType DEF AcceptRetains, AcceptRest, FenceTypeOK
    <3>2. QED
      BY <1>1, <3>1 DEF ShutInv, Screen
  <2>5. CASE AcceptBreaks
    BY <1>3, <2>5 DEF AcceptBreaks
  <2>6. QED
    BY <2>1, <2>2, <2>3, <2>4, <2>5
<1>9. CASE FlushDue
  <2>1. seed' = seed
    BY <1>9 DEF FlushDue
  <2>2. CASE ~fence.up
    BY <1>1, <1>9, <2>1, <2>2 DEF FlushDue, ShutInv
  <2>3. CASE fence' = Down
    BY <1>3, <2>3
  <2>4. CASE fence.up /\ fence' # Down
    <3>1. UNCHANGED <<staged, page, seed>> /\ fence'.up = fence.up
      BY <1>9, <2>4 DEF FlushDue, FenceTypeOK
    <3>2. QED
      BY <1>1, <2>4, <3>1 DEF ShutInv, Screen
  <2>5. QED
    BY <2>2, <2>3, <2>4
<1>10. CASE ReleaseStep
  BY <1>1, <1>10 DEF ReleaseStep, ShutInv
<1>11. QED
  BY <1>4, <1>5, <1>6, <1>7, <1>8, <1>9, <1>10 DEF FenceNext

\* Every step preserves StampInv.
LEMMA StampStep ==
    ASSUME FenceTypeOK, RunInv, StampInv, [FenceNext]_fenceVars
    PROVE  StampInv'
<1>1. /\ seed.seq \in {0, seed.n}
      /\ seed.wrote => seed.n > 0
      /\ pending.seq > 0 => seed.st = "proving" /\ pending.seq = seed.n
      /\ stamp > 0 => seed.st = "done" /\ stamp = seed.n
      /\ seed.n \in Nat /\ seed.seq \in Nat /\ pending.seq \in Nat /\ stamp \in Nat
  BY StateType, ScalarType DEF StampInv
<1>2. ASSUME seed' = seed,
             (stamp' = stamp /\ pending' = pending) \/ (stamp' = 0 /\ pending' = Unstamped)
      PROVE  StampInv'
  BY <1>1, <1>2, UnstampedType DEF StampInv
<1>3. CASE Output \/ Replace \/ IssueRead \/ Reattach \/ DiscardRead \/ Ended \/ UNCHANGED fenceVars
  BY <1>2, <1>3
     DEF Output, Replace, IssueRead, Reattach, DiscardRead, Ended, fenceVars, loopVars
<1>4. CASE Remount
  BY <1>2, <1>4 DEF Remount
<1>5. CASE Capture \/ CaptureFails
  <2>1. UNCHANGED <<stamp, pending>> /\ seed.st = "fetching"
    BY <1>5 DEF Capture, CaptureFails, loopVars
  <2>2. seed'.seq \in {0, seed'.n} /\ seed'.wrote = FALSE
    BY <1>5 DEF Capture, CaptureFails
  <2>3. pending.seq = 0 /\ stamp = 0
    BY <1>1, <2>1
  <2>4. QED
    BY <2>1, <2>2, <2>3 DEF StampInv
<1>6. CASE SeedArrives
  <2>1. SeedRest /\ (SeedDropped \/ SeedTaken)
    BY <1>6, SeedCases
  <2>2. stamp' = stamp /\ stamp = 0 /\ pending.seq = 0
    BY <1>1, <2>1 DEF SeedRest
  <2>3. CASE SeedDropped
    <3>1. seed'.seq = seed.seq /\ seed'.n = seed.n /\ seed'.wrote = seed.wrote
      BY <2>3, SeedMoves DEF SeedDropped
    <3>2. pending'.seq = 0
      BY <2>3, UnstampedType DEF SeedDropped
    <3>3. QED
      BY <1>1, <2>2, <3>1, <3>2 DEF StampInv
  <2>4. CASE SeedTaken
    <3>1. PICK wrote \in BOOLEAN :
          /\ wrote => seed.n > 0
          /\ seed' = [seed EXCEPT !.st = "proving", !.wrote = wrote]
      BY <2>4 DEF SeedTaken
    <3>2. seed'.st = "proving" /\ seed'.wrote = wrote /\ seed'.seq = seed.seq /\ seed'.n = seed.n
      BY <3>1, SeedMoves
    <3>3. pending'.seq = seed.seq
      <4>1. pending' = IF seed.seq > 0 THEN [seq |-> seed.seq, name |-> seed.name] ELSE pending
        BY <2>4 DEF SeedTaken
      <4>2. QED
        BY <1>1, <2>2, <4>1
    <3>4. QED
      BY <1>1, <2>2, <3>1, <3>2, <3>3 DEF StampInv
  <2>5. QED
    BY <2>1, <2>3, <2>4
<1>7. CASE ProofAnswers
  <2>1. ProofRest /\ (ProofCommits \/ ProofPasses)
    BY <1>7, ProofCases
  <2>2. seed'.st = "done" /\ seed'.wrote = seed.wrote /\ seed'.seq = seed.seq /\ seed'.n = seed.n
    BY <2>1, SeedMoves DEF ProofRest
  <2>3. pending'.seq = 0
    BY <2>1 DEF ProofRest
  <2>4. stamp' = 0 \/ stamp' = seed.n
    BY <1>1, <2>1 DEF ProofRest, ProofCommits, ProofPasses
  <2>5. QED
    BY <1>1, <2>2, <2>3, <2>4 DEF StampInv
<1>8. CASE Accept
  <2>1. AcceptRest
    BY <1>8, AcceptCases
  <2>2. QED
    BY <1>2, <2>1 DEF AcceptRest
<1>9. CASE FlushDue \/ ReleaseStep
  BY <1>2, <1>9 DEF FlushDue, ReleaseStep, loopVars
<1>10. QED
  BY <1>3, <1>4, <1>5, <1>6, <1>7, <1>8, <1>9 DEF FenceNext

-----------------------------------------------------------------------------
(* Where the items of a step come from                                     *)

\* The same in the next state.
LEMMA HeldFactsNext ==
    ASSUME FenceTypeOK'
    PROVE  /\ page' \in Seq(Item) /\ bridge' \in Seq(Item) /\ staged' \in Seq(Batch)
           /\ fence'.batches \in Seq(Batch)
           /\ Held' \in Seq(Item) /\ Pipeline' \in Seq(Item) /\ Range(Held') \subseteq Item
           /\ Range(Held') = Range(ItemsOf(staged')) \cup Range(ItemsOf(fence'.batches)) \cup Range(bridge')
           /\ Range(Pipeline') = Range(page') \cup Range(Held')
           /\ Pipeline' = Flow(page', staged', fence'.batches, bridge')
<1>1. page' \in Seq(Item) /\ bridge' \in Seq(Item) /\ staged' \in Seq(Batch) /\ fence'.batches \in Seq(Batch)
  BY DEF FenceTypeOK
<1>2. Pipeline' = Flow(page', staged', fence'.batches, bridge')
  BY DEF Pipeline, Flow
<1>3. Held' = (ItemsOf(staged') \o ItemsOf(fence'.batches)) \o bridge'
  BY DEF Held
<1>4. /\ Held' \in Seq(Item) /\ Pipeline' \in Seq(Item)
      /\ Range(Held') = Range(ItemsOf(staged')) \cup Range(ItemsOf(fence'.batches)) \cup Range(bridge')
      /\ Range(Pipeline') = Range(page') \cup Range(Held')
  BY <1>1, <1>2, <1>3, FlowType
<1>5. QED
  BY <1>1, <1>2, <1>4, InRange

\* A step that reads nothing and writes no seed only moves items towards the page.
OnlyMoves ==
    /\ Range(Held') \subseteq Range(Held)
    /\ Range(page') \subseteq Range(page) \cup Range(Held)

\* A flush only moves items.
LEMMA FlushMoves ==
    ASSUME FenceTypeOK, FenceTypeOK', staged' = staged, bridge' = bridge, fence' = Down,
           NEW b \in Seq(Batch), Range(ItemsOf(b)) \subseteq Range(ItemsOf(fence.batches)),
           NEW e \in FlushEnds(b), page' = Shows(page \o Painted(b, e))
    PROVE  OnlyMoves
<1>1. Range(page') \subseteq Range(page) \cup Range(ItemsOf(b))
  BY StateType, FlushType
<1>2. Range(ItemsOf(fence'.batches)) = {}
  BY DownType, EmptyItems
<1>3. QED
  BY <1>1, <1>2, HeldFacts, HeldFactsNext DEF OnlyMoves

\* So does the discard of a seed.
LEMMA SeedDroppedMoves ==
    ASSUME FenceTypeOK, FenceTypeOK', SeedRest, SeedDropped
    PROVE  OnlyMoves
<1>1. PICK e \in FlushEnds(fence.batches) : page' = Shows(page \o Painted(fence.batches, e))
  BY DEF SeedDropped
<1>2. fence.batches \in Seq(Batch)
  BY StateType
<1>3. QED
  BY <1>1, <1>2, FlushMoves DEF SeedDropped, SeedRest

\* So does the proof.
LEMMA ProofMoves ==
    ASSUME FenceTypeOK, FenceTypeOK', ProofAnswers
    PROVE  OnlyMoves
<1>1. ProofRest /\ (ProofCommits \/ ProofPasses)
  BY ProofCases
<1>2. fence.batches \in Seq(Batch) /\ pending.seq \in Nat
  BY StateType, ScalarType
<1>3. ASSUME NEW b \in Seq(Batch), Range(ItemsOf(b)) \subseteq Range(ItemsOf(fence.batches)), ProofFlush(b)
      PROVE  OnlyMoves
  <2>1. PICK e \in FlushEnds(b) : page' = Shows(page \o Painted(b, e))
    BY <1>3 DEF ProofFlush
  <2>2. staged' = staged /\ bridge' = bridge /\ fence' = Down
    BY <1>1 DEF ProofRest
  <2>3. QED
    BY <1>3, <2>1, <2>2, FlushMoves
<1>4. CASE ProofCommits
  <2>1. DropSeedCovered(fence.batches, pending.seq) \in Seq(Batch)
    BY <1>2, DropType
  <2>2. Range(ItemsOf(DropSeedCovered(fence.batches, pending.seq))) \subseteq Range(ItemsOf(fence.batches))
    BY <1>2, DropFacts
  <2>3. QED
    BY <1>3, <1>4, <2>1, <2>2 DEF ProofCommits
<1>5. CASE ProofPasses
  BY <1>2, <1>3, <1>5 DEF ProofPasses
<1>6. QED
  BY <1>1, <1>4, <1>5

\* So does the frame timer.
LEMMA FlushDueMoves ==
    ASSUME FenceTypeOK, FenceTypeOK', ShutInv, FlushDue
    PROVE  OnlyMoves
<1>1. bridge' = <<>> /\ Range(bridge') = {}
  BY EmptyItems DEF FlushDue
<1>2. /\ page \in Seq(Item) /\ bridge \in Seq(Item) /\ staged \in Seq(Batch) /\ fence.batches \in Seq(Batch)
      /\ cursor \in 0..MaxOutput
  BY StateType
<1> DEFINE more == Append(fence.batches, [items |-> bridge, covered |-> cursor])
<1>3. Range(ItemsOf(more)) = Range(ItemsOf(fence.batches)) \cup Range(bridge)
  BY <1>2, RetainFlow
<1>4. CASE fence' = [fence EXCEPT !.batches = more] /\ UNCHANGED <<page, staged>>
  <2>1. fence'.batches = more
    BY <1>4, StateType DEF FenceTypeOK
  <2>2. QED
    BY <1>1, <1>3, <1>4, <2>1, HeldFacts, HeldFactsNext DEF OnlyMoves
<1>5. CASE staged' = more /\ fence' = Down /\ UNCHANGED page
  <2>1. Range(ItemsOf(fence'.batches)) = {}
    BY <1>5, DownType, EmptyItems
  <2>2. QED
    BY <1>1, <1>3, <1>5, <2>1, HeldFacts, HeldFactsNext DEF OnlyMoves
<1>6. CASE page' = Shows(page \o bridge) /\ UNCHANGED <<fence, staged>>
  <2>1. Range(page') \subseteq Range(page) \cup Range(bridge)
    BY <1>2, <1>6, PaintType
  <2>2. QED
    BY <1>1, <1>6, <2>1, HeldFacts, HeldFactsNext DEF OnlyMoves
<1>7. QED
  BY <1>4, <1>5, <1>6 DEF FlushDue

\* So does a staged release.
LEMMA ReleaseMoves ==
    ASSUME FenceTypeOK, FenceTypeOK', ReleaseStep
    PROVE  OnlyMoves
<1>1. page \in Seq(Item) /\ bridge \in Seq(Item) /\ staged \in Seq(Batch) /\ staged # <<>>
  BY StateType DEF ReleaseStep
<1>2. bridge' = bridge /\ fence' = fence
  BY DEF ReleaseStep
<1>3. /\ Head(staged).items \in Seq(Item)
      /\ Range(ItemsOf(staged)) = Range(Head(staged).items) \cup Range(ItemsOf(Tail(staged)))
  BY <1>1, ReleaseThins
<1>4. Range(Shows(page \o Head(staged).items)) \subseteq Range(page) \cup Range(Head(staged).items)
  BY <1>1, <1>3, PaintType
<1>5. Len(staged) > 1 => Range(ItemsOf(<<Last(staged)>>)) \subseteq Range(ItemsOf(staged))
  BY <1>1, ReleaseFailThins
<1>6. /\ Range(page') \subseteq Range(page) \cup Range(ItemsOf(staged))
      /\ Range(ItemsOf(staged')) \subseteq Range(ItemsOf(staged))
  BY <1>3, <1>4, <1>5 DEF ReleaseStep
<1>7. QED
  BY <1>2, <1>6, HeldFacts, HeldFactsNext DEF OnlyMoves

\* A cut of a round's writes into what is retained and what is left.
Cuts(br, d, k, c) ==
    /\ Kept(br, d, k, c) \in Seq(Batch)
    /\ \A i \in 1..Len(Kept(br, d, k, c)) : Kept(br, d, k, c)[i].covered = c
    /\ Left(br, d, k) \in Seq(Item)
    /\ ItemsOf(Kept(br, d, k, c)) \o Left(br, d, k) = br \o d
    /\ k = Len(Writes(br, d)) => ItemsOf(Kept(br, d, k, c)) = br \o d

\* WritesFacts, as a relation that can be cited for the state's own parts.
LEMMA CutFacts ==
    ASSUME NEW br \in Seq(Item), NEW d \in Seq(Item), NEW c \in 0..MaxOutput
    PROVE  /\ Len(Writes(br, d)) \in Nat
           /\ \A k \in 0..Len(Writes(br, d)) : Cuts(br, d, k, c)
<1>1. /\ Len(Writes(br, d)) \in Nat
      /\ \A k \in 0..Len(Writes(br, d)) :
                /\ Kept(br, d, k, c) \in Seq(Batch)
                /\ \A i \in 1..Len(Kept(br, d, k, c)) : Kept(br, d, k, c)[i].covered = c
                /\ Left(br, d, k) \in Seq(Item)
                /\ ItemsOf(Kept(br, d, k, c)) \o Left(br, d, k) = br \o d
                /\ k = Len(Writes(br, d)) => ItemsOf(Kept(br, d, k, c)) = br \o d
  BY WritesFacts, Zenon
<1>2. QED
  BY <1>1, Zenon DEF Cuts

\* A round adds what it delivers.
LEMMA AcceptMoves ==
    ASSUME FenceTypeOK, FenceTypeOK', RunInv, Accept
    PROVE  /\ Range(Held') \subseteq Range(Held) \cup Range(Data)
           /\ Range(page') \subseteq Range(page) \cup Range(Held) \cup Range(Data)
<1>1. AcceptRest /\ (AcceptHolds \/ AcceptPaints \/ AcceptRetains \/ AcceptBreaks)
  BY AcceptCases
<1>2. Data \in Seq(Item) /\ bridge \in Seq(Item) /\ page \in Seq(Item) /\ fence.batches \in Seq(Batch)
      /\ read.next \in 0..MaxOutput
  BY <1>1, RoundFacts, StateType DEF AcceptRest
<1>3. bridge \o Data \in Seq(Item) /\ Range(bridge \o Data) = Range(bridge) \cup Range(Data)
  BY <1>2, RangeConcat
<1>4. staged' = staged /\ (AcceptWrites => Range(bridge') = {})
  BY <1>1, EmptyItems DEF AcceptRest, AcceptWrites
<1> DEFINE K(k) == Kept(bridge, Data, k, read.next)
           L(k) == Left(bridge, Data, k)
<1>5. /\ Len(Writes(bridge, Data)) \in Nat
      /\ \A k \in 0..Len(Writes(bridge, Data)) :
            /\ K(k) \in Seq(Batch) /\ L(k) \in Seq(Item)
            /\ ItemsOf(K(k)) \o L(k) = bridge \o Data
            /\ k = Len(Writes(bridge, Data)) => ItemsOf(K(k)) = bridge \o Data
  <2>1. /\ Len(Writes(bridge, Data)) \in Nat
        /\ \A k \in 0..Len(Writes(bridge, Data)) : Cuts(bridge, Data, k, read.next)
    BY <1>2, CutFacts
  <2>2. QED
    BY <2>1, Zenon DEF Cuts
<1> HIDE DEF K, L
<1>6. ASSUME NEW k \in 0..Len(Writes(bridge, Data))
      PROVE  /\ fence.batches \o K(k) \in Seq(Batch)
             /\ Range(ItemsOf(fence.batches \o K(k))) = Range(ItemsOf(fence.batches)) \cup Range(ItemsOf(K(k)))
             /\ Range(ItemsOf(K(k))) \subseteq Range(bridge) \cup Range(Data)
             /\ Range(L(k)) \subseteq Range(bridge) \cup Range(Data)
  <2>1. K(k) \in Seq(Batch) /\ L(k) \in Seq(Item) /\ ItemsOf(K(k)) \in Seq(Item) /\ ItemsOf(fence.batches) \in Seq(Item)
    BY <1>2, <1>5, ItemsOfType
  <2>2. ItemsOf(fence.batches \o K(k)) = ItemsOf(fence.batches) \o ItemsOf(K(k))
    BY <1>2, <2>1, ItemsOfConcat
  <2>3. Range(ItemsOf(fence.batches) \o ItemsOf(K(k))) = Range(ItemsOf(fence.batches)) \cup Range(ItemsOf(K(k)))
    BY <2>1, RangeConcat
  <2>4. Range(ItemsOf(K(k)) \o L(k)) = Range(ItemsOf(K(k))) \cup Range(L(k))
    BY <2>1, RangeConcat
  <2>5. ItemsOf(K(k)) \o L(k) = bridge \o Data
    BY <1>5
  <2>6. fence.batches \o K(k) \in Seq(Batch)
    BY <1>2, <2>1
  <2>7. QED
    BY <1>3, <2>2, <2>3, <2>4, <2>5, <2>6
<1>7. CASE AcceptHolds
  <2>1. bridge' = bridge \o Data /\ fence' = fence /\ page' = page
    BY <1>7 DEF AcceptHolds
  <2>2. QED
    BY <1>3, <1>4, <2>1, HeldFacts, HeldFactsNext
<1>8. CASE AcceptPaints
  <2>1. fence' = fence /\ page' = Shows(page \o (bridge \o Data)) /\ AcceptWrites
    BY <1>8 DEF AcceptPaints
  <2>2. Range(page') \subseteq Range(page) \cup Range(bridge \o Data)
    BY <1>2, <1>3, <2>1, PaintType
  <2>3. QED
    BY <1>3, <1>4, <2>1, <2>2, HeldFacts, HeldFactsNext
<1>9. CASE AcceptRetains
  <2>1. fence'.batches = fence.batches \o K(Len(Writes(bridge, Data))) /\ page' = page /\ AcceptWrites
    BY <1>9 DEF AcceptRetains, K, FenceTypeOK
  <2>2. Len(Writes(bridge, Data)) \in 0..Len(Writes(bridge, Data))
    BY <1>5
  <2>3. Range(ItemsOf(fence'.batches)) \subseteq Range(ItemsOf(fence.batches)) \cup Range(bridge) \cup Range(Data)
    BY <1>6, <2>1, <2>2
  <2>4. QED
    BY <1>4, <2>1, <2>3, HeldFacts, HeldFactsNext
<1>10. CASE AcceptBreaks
  <2>1. PICK k \in 0..Len(Writes(bridge, Data)) : \E e \in FlushEnds(fence.batches \o K(k)) :
             page' = Shows((page \o Painted(fence.batches \o K(k), e)) \o L(k))
    BY <1>10 DEF AcceptBreaks, K, L
  <2>2. PICK e \in FlushEnds(fence.batches \o K(k)) :
             page' = Shows((page \o Painted(fence.batches \o K(k), e)) \o L(k))
    BY <2>1
  <2> DEFINE b == fence.batches \o K(k)
  <2>3. b \in Seq(Batch) /\ Range(ItemsOf(b)) \subseteq Range(ItemsOf(fence.batches)) \cup Range(bridge) \cup Range(Data)
    BY <1>6
  <2>4. e \in FlushEnds(b) /\ page' = Shows((page \o Painted(b, e)) \o L(k))
    BY <2>2
  <2> HIDE DEF b
  <2>5. Painted(b, e) \in Seq(Item) /\ Range(Painted(b, e)) \subseteq Range(ItemsOf(b))
    BY <1>2, <2>3, <2>4, FlushType
  <2>6. /\ page \o Painted(b, e) \in Seq(Item)
        /\ Range(page \o Painted(b, e)) = Range(page) \cup Range(Painted(b, e))
    BY <1>2, <2>5, RangeConcat
  <2>7. Range(page') \subseteq Range(page \o Painted(b, e)) \cup Range(L(k))
    BY <1>5, <2>4, <2>6, PaintType
  <2>8. Range(L(k)) \subseteq Range(bridge) \cup Range(Data)
    BY <1>6
  <2>9. Range(ItemsOf(fence'.batches)) = {} /\ AcceptWrites
    BY <1>10, DownType, EmptyItems DEF AcceptBreaks
  <2>10. QED
    BY <1>4, <2>3, <2>5, <2>6, <2>7, <2>8, <2>9, HeldFacts, HeldFactsNext
<1>11. QED
  BY <1>1, <1>7, <1>8, <1>9, <1>10

-----------------------------------------------------------------------------
(* CountInv                                                                *)

\* The fields of an item.
LEMMA ItemFields ==
    ASSUME NEW x \in Item
    PROVE  x.n \in Nat /\ x.runtime \in Nat /\ x.runtime >= 1 /\ x.n \in 0..MaxOutput /\ x.runtime \in Runtimes
           /\ x.kind \in {"chunk", "screen", "text", "scrap"}
<1>1. x.n \in 0..MaxOutput /\ x.runtime \in 1..MaxRuntimes /\ x.kind \in {"chunk", "screen", "text", "scrap"}
  BY DEF Item, Runtimes
<1>2. QED
  BY <1>1, OutputBound, RuntimeBound DEF Runtimes

\* What was counted stays counted: numbers only grow within a runtime.
LEMMA CountedStays ==
    ASSUME FenceTypeOK, RunInv, [FenceNext]_fenceVars, NEW x \in Item, Counted(x)
    PROVE  Counted(x)'
<1>1. /\ cursor \in Nat /\ output \in Nat /\ runtime \in Nat /\ stream \in Nat /\ read.next \in Nat
      /\ read.runtime \in Nat /\ x.n \in Nat /\ x.runtime \in Nat
  BY ReadType, ItemFields
<1>2. /\ x.runtime <= stream
      /\ x.runtime = stream =>
           /\ cursor > 0 => x.n <= cursor
           /\ stream = runtime => x.n <= output
           /\ read.st = "answered" /\ read.runtime = stream => x.n <= read.next
  BY DEF Counted, Bound
<1>3. /\ stream <= runtime
      /\ read.st = "answered" => stream <= read.runtime /\ (read.runtime = runtime => read.next <= output)
  BY DEF RunInv, ReadOK
<1>4. SUFFICES
      /\ x.runtime <= stream'
      /\ x.runtime = stream' =>
           /\ cursor' > 0 => x.n <= cursor'
           /\ stream' = runtime' => x.n <= output'
           /\ read'.st = "answered" /\ read'.runtime = stream' => x.n <= read'.next
  BY DEF Counted, Bound
<1>5. CASE UNCHANGED <<runtime, output, cursor, read, stream>>
  BY <1>2, <1>5
<1>6. CASE Output
  <2>1. output' = output + 1 /\ UNCHANGED <<runtime, cursor, read, stream>>
    BY <1>6 DEF Output, loopVars
  <2>2. QED
    BY <1>1, <1>2, <2>1
<1>7. CASE Replace
  <2>1. runtime' = runtime + 1 /\ UNCHANGED <<cursor, read, stream>>
    BY <1>7 DEF Replace, loopVars
  <2>2. QED
    BY <1>1, <1>2, <1>3, <2>1
<1>8. CASE IssueRead
  <2>1. read'.runtime = runtime /\ read'.next = output /\ UNCHANGED <<runtime, output, cursor, stream>>
    BY <1>8 DEF IssueRead, Answer, loopVars
  <2>2. QED
    BY <1>1, <1>2, <2>1
<1>9. CASE Reattach
  <2>1. cursor' = 0 /\ UNCHANGED <<runtime, output, read, stream>>
    BY <1>9 DEF Reattach
  <2>2. QED
    BY <1>1, <1>2, <2>1
<1>10. CASE DiscardRead \/ Remount
  <2>1. read'.st = "none" /\ UNCHANGED <<runtime, output, cursor, stream>>
    BY <1>10 DEF DiscardRead, Remount, NoRead, loopVars
  <2>2. QED
    BY <1>1, <1>2, <2>1
<1>11. CASE Accept
  <2>1. /\ read.st = "answered" /\ stream' = read.runtime /\ cursor' = read.next /\ read'.st = "none"
        /\ UNCHANGED <<runtime, output>>
    BY <1>11 DEF Accept, NoRead
  <2>2. QED
    BY <1>1, <1>2, <1>3, <2>1
<1>12. QED
  BY <1>5, <1>6, <1>7, <1>8, <1>9, <1>10, <1>11
     DEF FenceNext, fenceVars, Capture, CaptureFails, SeedArrives, ProofAnswers, FlushDue, ReleaseStep,
         Ended, loopVars, paintVars

\* What a round delivers is counted when it is accepted.
LEMMA RoundCounted ==
    ASSUME FenceTypeOK, RunInv, Accept, NEW x \in Range(Data)
    PROVE  Counted(x)' /\ x.kind # "text" /\ x \in Item /\ x.runtime = read.runtime /\ x.n <= read.next
<1>1. /\ cursor \in Nat /\ output \in Nat /\ runtime \in Nat /\ stream \in Nat /\ read.next \in Nat
      /\ read.runtime \in Nat
  BY ReadType
<1>2. /\ read.st = "answered" /\ read.from = cursor /\ stream' = read.runtime /\ cursor' = read.next
      /\ read'.st = "none" /\ UNCHANGED <<runtime, output>>
  BY DEF Accept, NoRead, ReadIsStale
<1>3. Data \in Seq(Item) /\ x \in Item
  BY <1>2, RoundFacts, InRange
<1>4. x.kind # "text" /\ x.runtime = read.runtime /\ x.n <= read.next
  <2>1. \/ x = Scrap(read.runtime) \/ x = Screen(read.runtime, read.next)
        \/ \E k \in 1..read.next : x = Chunk(read.runtime, k)
    BY <1>2, RoundFacts DEF RoundChunk
  <2>2. QED
    BY <1>1, <2>1 DEF Scrap, Screen, Chunk
<1>5. read.runtime = runtime => read.next <= output
  BY <1>2 DEF RunInv, ReadOK
<1>6. x.n \in Nat
  BY <1>3, ItemFields
<1>7. Counted(x)'
  <2>1. /\ x.runtime <= stream'
        /\ x.runtime = stream' =>
             /\ cursor' > 0 => x.n <= cursor'
             /\ stream' = runtime' => x.n <= output'
             /\ read'.st = "answered" /\ read'.runtime = stream' => x.n <= read'.next
    BY <1>1, <1>2, <1>4, <1>5, <1>6
  <2>2. QED
    BY <2>1 DEF Counted, Bound
<1>8. QED
  BY <1>3, <1>4, <1>7

\* A seed that is taken adds at most itself, and is no chunk.
LEMMA SeedTakenAdds ==
    ASSUME FenceTypeOK, SeedRest, SeedTaken
    PROVE  /\ Held' = Held
           /\ \A x \in Range(page') : x \in Range(page) \/ (x.kind # "chunk" /\ x.runtime = seed.runtime)
<1>1. Held' = Held
  BY DEF Held, SeedRest, SeedTaken
<1>2. page \in Seq(Item) /\ seed.runtime \in Runtimes /\ seed.n \in 0..MaxOutput
  BY StateType
<1> DEFINE t == [kind |-> "text", runtime |-> seed.runtime, n |-> seed.n]
           s == Screen(seed.runtime, seed.n)
<1>3. t \in Item /\ t.kind # "chunk" /\ t.runtime = seed.runtime /\ s.kind # "chunk" /\ s.runtime = seed.runtime
  BY <1>2, ScreenType DEF Screen
<1>4. Range(<<s>>) = {s} /\ Range(Append(page, t)) = Range(page) \cup {t}
  <2>1. Range(<<s>>) = {s}
    BY DEF Range
  <2> HIDE DEF t
  <2>2. Append(page, t) = page \o <<t>> /\ <<t>> \in Seq(Item)
    BY <1>2, <1>3
  <2>3. Range(<<t>>) = {t}
    BY DEF Range
  <2>4. Range(page \o <<t>>) = Range(page) \cup Range(<<t>>)
    BY <1>2, <2>2, RangeConcat
  <2> HIDE DEF s
  <2>5. QED
    BY <2>1, <2>2, <2>3, <2>4
<1>5. page' = page \/ page' = <<s>> \/ page' = Append(page, t)
  BY DEF SeedTaken
<1> HIDE DEF s, t
<1>6. QED
  BY <1>1, <1>3, <1>4, <1>5

\* Every step preserves CountInv.
LEMMA CountStep ==
    ASSUME FenceTypeOK, FenceTypeOK', RunInv, ShutInv, CountInv, [FenceNext]_fenceVars
    PROVE  CountInv'
<1>1. /\ \A x \in Range(Held) : x \in Item /\ Counted(x)' /\ x.kind # "text"
      /\ \A x \in Range(page) : x.kind = "chunk" => Counted(x)'
  <2>1. Range(Held) \subseteq Item /\ Range(page) \subseteq Item
    BY HeldFacts, StateType, InRange
  <2>2. QED
    BY <2>1, CountedStays DEF CountInv
<1>2. SUFFICES /\ \A x \in Range(Held') : Counted(x)' /\ x.kind # "text"
               /\ \A x \in Range(page') : x.kind = "chunk" => Counted(x)'
  BY DEF CountInv
<1>3. ASSUME OnlyMoves PROVE CountInv'
  BY <1>1, <1>3 DEF OnlyMoves, CountInv
<1>4. CASE SeedArrives
  <2>1. SeedRest /\ (SeedDropped \/ SeedTaken)
    BY <1>4, SeedCases
  <2>2. CASE SeedDropped
    BY <1>3, <2>1, <2>2, SeedDroppedMoves DEF CountInv
  <2>3. CASE SeedTaken
    <3>1. /\ Held' = Held
          /\ \A x \in Range(page') : x \in Range(page) \/ (x.kind # "chunk" /\ x.runtime = seed.runtime)
      BY <2>1, <2>3, SeedTakenAdds
    <3>2. QED
      BY <1>1, <3>1
  <2>4. QED
    BY <2>1, <2>2, <2>3
<1>5. CASE Accept
  <2>1. \A x \in Range(Data) : Counted(x)' /\ x.kind # "text"
    BY <1>5, RoundCounted
  <2>2. /\ Range(Held') \subseteq Range(Held) \cup Range(Data)
        /\ Range(page') \subseteq Range(page) \cup Range(Held) \cup Range(Data)
    BY <1>5, AcceptMoves
  <2>3. QED
    BY <1>1, <2>1, <2>2
<1>6. CASE UNCHANGED <<page, staged, fence, bridge>>
  <2>1. Held' = Held /\ page' = page
    BY <1>6 DEF Held
  <2>2. QED
    BY <1>1, <2>1
<1>7. CASE ProofAnswers \/ FlushDue \/ ReleaseStep
  BY <1>3, <1>7, ProofMoves, FlushDueMoves, ReleaseMoves DEF CountInv
<1>8. QED
  BY <1>4, <1>5, <1>6, <1>7
     DEF FenceNext, fenceVars, Output, Replace, Capture, CaptureFails, IssueRead, Reattach, DiscardRead,
         Remount, Ended, loopVars, paintVars

-----------------------------------------------------------------------------
(* The pipeline from one state to the next                                 *)

\* More may be lost.
LEMMA ThinsMore ==
    ASSUME NEW p, NEW q, NEW l1, NEW l2, Thins(p, q, l1), l1 \subseteq l2
    PROVE  Thins(p, q, l2)
BY DEF Thins

\* Nothing need be lost.
LEMMA ThinsSame ==
    ASSUME NEW p \in Seq(Item), NEW l
    PROVE  Thins(p, p, l)
BY DEF Thins

\* A flush of the fence, of b in place of its batches.
LEMMA FlushStepThins ==
    ASSUME FenceTypeOK, FenceTypeOK', ShutInv, staged' = staged, bridge' = bridge, fence' = Down,
           NEW b \in Seq(Batch), fence.batches = <<>> => b = <<>>,
           NEW e \in FlushEnds(b), page' = Shows(page \o Painted(b, e)),
           reported' = reported \union Undelivered(b, e)
    PROVE  Thins(Flow(page, staged, b, bridge), Pipeline', reported')
<1>1. page \in Seq(Item) /\ bridge \in Seq(Item) /\ staged \in Seq(Batch)
  BY StateType
<1>2. staged = <<>> \/ b = <<>>
  BY DEF ShutInv
<1>3. Thins(Flow(page, staged, b, bridge), Flow(Shows(page \o Painted(b, e)), staged, <<>>, bridge),
            Undelivered(b, e))
  BY <1>1, <1>2, FlushThins
<1>4. Pipeline' = Flow(Shows(page \o Painted(b, e)), staged, <<>>, bridge)
  BY DownType, HeldFactsNext
<1>5. Undelivered(b, e) \subseteq reported'
  OBVIOUS
<1>6. QED
  BY <1>3, <1>4, <1>5, ThinsMore

\* The discard of a seed flushes the fence.
LEMMA SeedDroppedThins ==
    ASSUME FenceTypeOK, FenceTypeOK', ShutInv, SeedRest, SeedDropped
    PROVE  Thins(Pipeline, Pipeline', reported')
<1>1. PICK e \in FlushEnds(fence.batches) : /\ page' = Shows(page \o Painted(fence.batches, e))
                                            /\ reported' = reported \union Undelivered(fence.batches, e)
  BY DEF SeedDropped
<1>2. fence.batches \in Seq(Batch)
  BY StateType
<1>3. Thins(Flow(page, staged, fence.batches, bridge), Pipeline', reported')
  BY <1>1, <1>2, FlushStepThins DEF SeedDropped, SeedRest
<1>4. QED
  BY <1>3 DEF Pipeline

\* So does a proof.
LEMMA ProofFlushThins ==
    ASSUME FenceTypeOK, FenceTypeOK', ShutInv, ProofRest,
           NEW b \in Seq(Batch), fence.batches = <<>> => b = <<>>, ProofFlush(b)
    PROVE  Thins(Flow(page, staged, b, bridge), Pipeline', reported')
<1>1. PICK e \in FlushEnds(b) : /\ page' = Shows(page \o Painted(b, e))
                                /\ reported' = reported \union Undelivered(b, e)
  BY DEF ProofFlush
<1>2. QED
  BY <1>1, FlushStepThins DEF ProofRest

\* A proof that commits nothing loses nothing.
LEMMA ProofPassesThins ==
    ASSUME FenceTypeOK, FenceTypeOK', ShutInv, ProofRest, ProofPasses
    PROVE  Thins(Pipeline, Pipeline', reported')
<1>1. fence.batches \in Seq(Batch)
  BY StateType
<1>2. Thins(Flow(page, staged, fence.batches, bridge), Pipeline', reported')
  BY <1>1, ProofFlushThins DEF ProofPasses
<1>3. QED
  BY <1>2 DEF Pipeline

\* What a commit takes away: only what was in a dropped batch, behind the seed.
LEMMA ProofCommitsThins ==
    ASSUME FenceTypeOK, FenceTypeOK', ShutInv, ProofRest, ProofCommits
    PROVE  LET s == Screen(seed.runtime, seed.n)
           IN  /\ Ordered(Pipeline) => Ordered(Pipeline')
               /\ Range(Pipeline') \subseteq Range(Pipeline)
               /\ \A x \in Visible(Pipeline) :
                     \/ x \in Visible(Pipeline') \cup reported'
                     \/ DroppedLast(fence.batches, pending.seq, x) /\ ~HasScreen(bridge)
               /\ \A i \in 1..Len(fence.batches) :
                     /\ ~HasScreen(bridge)
                     /\ \A j \in 1..Len(fence.batches) : j > i => ~HasScreen(fence.batches[j].items)
                     /\ \A j \in 1..i : fence.batches[j].covered <= pending.seq
                     => s \in Visible(Pipeline') \cup reported'
<1> DEFINE s == Screen(seed.runtime, seed.n)
           b == DropSeedCovered(fence.batches, pending.seq)
           mid == Flow(page, staged, b, bridge)
<1>1. /\ page \in Seq(Item) /\ bridge \in Seq(Item) /\ staged \in Seq(Batch) /\ fence.batches \in Seq(Batch)
      /\ pending.seq \in Nat /\ seed.runtime \in Runtimes /\ seed.n \in 0..MaxOutput
  BY StateType, ScalarType
<1>2. b \in Seq(Batch) /\ Len(b) = Len(fence.batches)
  BY <1>1, DropType
<1>3. fence.batches = <<>> => b = <<>>
  BY <1>1, <1>2
<1>4. Thins(mid, Pipeline', reported')
  <2> HIDE DEF b
  <2>1. ProofFlush(b)
    BY DEF ProofCommits, b
  <2>2. QED
    BY <1>2, <1>3, <2>1, ProofFlushThins
<1>5. s \in Item /\ s.kind = "screen"
  BY <1>1, ScreenType DEF Screen
<1> HIDE DEF s
<1>6. CASE fence.batches = <<>>
  <2>1. mid = Pipeline /\ Len(fence.batches) = 0
    BY <1>3, <1>6 DEF Pipeline
  <2> HIDE DEF mid
  <2>2. QED
    BY <1>4, <2>1 DEF Thins, s
<1>7. CASE fence.batches # <<>>
  <2>1. page = <<s>> /\ staged = <<>>
    BY <1>7 DEF ShutInv, ProofRest, ProofCommits, s
  <2>2. Pipeline = Flow(<<s>>, <<>>, fence.batches, bridge) /\ mid = Flow(<<s>>, <<>>, b, bridge)
    BY <2>1 DEF Pipeline
  <2>3. /\ \A x \in Visible(Flow(<<s>>, <<>>, fence.batches, bridge)) :
                 \/ x \in Visible(Flow(<<s>>, <<>>, b, bridge))
                 \/ DroppedLast(fence.batches, pending.seq, x) /\ ~HasScreen(bridge)
        /\ Ordered(Flow(<<s>>, <<>>, fence.batches, bridge))
                => Ordered(Flow(<<s>>, <<>>, b, bridge))
        /\ Range(Flow(<<s>>, <<>>, b, bridge)) \subseteq Range(Flow(<<s>>, <<>>, fence.batches, bridge))
        /\ \A i \in 1..Len(fence.batches) :
                 /\ ~HasScreen(bridge)
                 /\ \A j \in 1..Len(fence.batches) : j > i => ~HasScreen(fence.batches[j].items)
                 /\ \A j \in 1..i : fence.batches[j].covered <= pending.seq
                 => s \in Visible(Flow(<<s>>, <<>>, b, bridge))
    BY <1>1, <1>5, CommitVisible
  <2> HIDE DEF mid, b
  <2>4. /\ \A x \in Visible(Pipeline) :
                 \/ x \in Visible(mid)
                 \/ DroppedLast(fence.batches, pending.seq, x) /\ ~HasScreen(bridge)
        /\ Ordered(Pipeline) => Ordered(mid)
        /\ Range(mid) \subseteq Range(Pipeline)
        /\ \A i \in 1..Len(fence.batches) :
                 /\ ~HasScreen(bridge)
                 /\ \A j \in 1..Len(fence.batches) : j > i => ~HasScreen(fence.batches[j].items)
                 /\ \A j \in 1..i : fence.batches[j].covered <= pending.seq
                 => s \in Visible(mid)
    BY <2>2, <2>3, Zenon
  <2>5. /\ Visible(mid) \subseteq Visible(Pipeline') \cup reported'
        /\ Ordered(mid) => Ordered(Pipeline')
        /\ Range(Pipeline') \subseteq Range(mid)
    BY <1>4 DEF Thins
  <2>6. QED
    BY <2>4, <2>5 DEF s
<1>8. QED
  BY <1>6, <1>7

\* A seed that is taken is put behind what the page shows.
LEMMA SeedTakenFlow ==
    ASSUME FenceTypeOK, FenceTypeOK', ShutInv, SeedRest, SeedTaken
    PROVE  /\ Ordered(Pipeline) => Ordered(Pipeline')
           /\ Visible(Pipeline) \subseteq Visible(Pipeline')
           /\ \A x \in Range(Pipeline') : x \in Range(Pipeline) \/ x.kind # "chunk"
<1> DEFINE t == [kind |-> "text", runtime |-> seed.runtime, n |-> seed.n]
           s == Screen(seed.runtime, seed.n)
<1>1. /\ page \in Seq(Item) /\ seed.runtime \in Runtimes /\ seed.n \in 0..MaxOutput
      /\ Held \in Seq(Item) /\ Pipeline = page \o Held
  BY StateType, HeldFacts
<1>2. t \in Item /\ s \in Item /\ t.kind = "text" /\ s.kind = "screen"
  BY <1>1, ScreenType DEF Screen
<1>3. Pipeline' = page' \o Held
  BY DEF Pipeline, Held, Flow, SeedRest, SeedTaken
<1>4. page' = page \/ page' = Append(page, t) \/ (page = <<>> /\ page' = Append(page, s))
  <2>1. page' = page \/ page' = Append(page, t) \/ (fence.up /\ page' = <<s>>)
    BY DEF SeedTaken
  <2>2. fence.up => page = <<>>
    BY DEF ShutInv, SeedRest
  <2> HIDE DEF s
  <2>3. Append(<<>>, s) = <<s>>
    BY <1>2, Few
  <2>4. QED
    BY <2>1, <2>2, <2>3
<1> HIDE DEF s, t
<1>5. CASE page' = page
  BY <1>1, <1>3, <1>5
<1>6. ASSUME NEW x \in Item, x.kind # "chunk", x.kind = "screen" => page = <<>>, page' = Append(page, x)
      PROVE  /\ Ordered(Pipeline) => Ordered(Pipeline')
             /\ Visible(Pipeline) \subseteq Visible(Pipeline')
             /\ Range(Pipeline') = Range(Pipeline) \cup {x}
  <2>1. /\ Ordered(page \o Held) => Ordered(Append(page, x) \o Held)
        /\ Visible(page \o Held) \subseteq Visible(Append(page, x) \o Held)
        /\ Range(Append(page, x) \o Held) = Range(page \o Held) \cup {x}
    BY <1>1, <1>6, Inserted
  <2>2. QED
    BY <1>1, <1>3, <1>6, <2>1
<1>7. CASE page' = Append(page, t)
  BY <1>2, <1>6, <1>7
<1>8. CASE page = <<>> /\ page' = Append(page, s)
  BY <1>2, <1>6, <1>8
<1>9. QED
  BY <1>4, <1>5, <1>7, <1>8

\* The frame timer, unless it overtakes a staged release.
LEMMA FlushDueThins ==
    ASSUME FenceTypeOK, FenceTypeOK', ShutInv, FlushDue, "overtaken release" \notin causes'
    PROVE  Thins(Pipeline, Pipeline', reported')
<1>1. /\ page \in Seq(Item) /\ bridge \in Seq(Item) /\ staged \in Seq(Batch) /\ fence.batches \in Seq(Batch)
      /\ cursor \in 0..MaxOutput /\ Pipeline \in Seq(Item)
  BY StateType, HeldFacts
<1>2. bridge # <<>> /\ bridge' = <<>> /\ Pipeline' = Flow(page', staged', fence'.batches, <<>>)
  BY HeldFactsNext DEF FlushDue
<1> DEFINE more == Append(fence.batches, [items |-> bridge, covered |-> cursor])
<1>3. /\ Flow(page, <<>>, more, <<>>) = Flow(page, <<>>, fence.batches, bridge)
      /\ Flow(page, more, <<>>, <<>>) = Flow(page, <<>>, fence.batches, bridge)
  BY <1>1, RetainFlow, ZenonT(60)
<1>4. CASE fence.up /\ fence' = [fence EXCEPT !.batches = more] /\ UNCHANGED <<page, staged>>
  <2>1. fence'.batches = more /\ staged = <<>>
    BY <1>4, StateType DEF FenceTypeOK, ShutInv
  <2> HIDE DEF more
  <2>2. Pipeline' = Pipeline
    BY <1>2, <1>3, <1>4, <2>1 DEF Pipeline
  <2>3. QED
    BY <1>1, <2>2, ThinsSame
<1>5. CASE fence.up /\ staged' = more /\ fence' = Down /\ UNCHANGED page
  <2>1. fence'.batches = <<>> /\ staged = <<>>
    BY <1>5, DownType DEF ShutInv
  <2> HIDE DEF more
  <2>2. Pipeline' = Pipeline
    BY <1>2, <1>3, <1>5, <2>1 DEF Pipeline
  <2>3. QED
    BY <1>1, <2>2, ThinsSame
<1>6. CASE /\ ~fence.up
           /\ page' = Shows(page \o bridge) /\ UNCHANGED <<fence, staged>>
           /\ causes' = causes \union Overtakes(bridge) \union Hides(page')
  <2>1. staged = <<>> /\ fence.batches = <<>>
    BY <1>2, <1>6 DEF Overtakes, ShutInv
  <2>2. Thins(Flow(page, <<>>, <<>>, bridge) \o <<>>, Flow(Shows(page \o (bridge \o <<>>)), <<>>, <<>>, <<>>), {})
    BY <1>1, EmptyItems, DirectThins
  <2>3. bridge \o <<>> = bridge /\ Pipeline \o <<>> = Pipeline
    BY <1>1, EmptyItems
  <2>4. Pipeline = Flow(page, <<>>, <<>>, bridge) /\ Pipeline' = Flow(Shows(page \o bridge), <<>>, <<>>, <<>>)
    BY <1>2, <1>6, <2>1 DEF Pipeline
  <2>5. Thins(Pipeline, Pipeline', {})
    BY <2>2, <2>3, <2>4
  <2>6. QED
    BY <2>5 DEF Thins
<1>7. QED
  BY <1>4, <1>5, <1>6 DEF FlushDue

\* A staged release.
LEMMA ReleaseStepThins ==
    ASSUME FenceTypeOK, FenceTypeOK', ShutInv, ReleaseStep
    PROVE  Thins(Pipeline, Pipeline', reported')
<1>1. /\ page \in Seq(Item) /\ bridge \in Seq(Item) /\ staged \in Seq(Batch) /\ staged # <<>>
      /\ fence.batches = <<>> /\ bridge' = bridge /\ fence' = fence
  BY StateType DEF ShutInv, ReleaseStep
<1>2. Pipeline = Flow(page, staged, <<>>, bridge) /\ Pipeline' = Flow(page', staged', <<>>, bridge)
  BY <1>1 DEF Pipeline
<1> DEFINE h == Head(staged).items
<1>3. CASE page' = Shows(page \o h) /\ staged' = Tail(staged)
  <2>1. Thins(Flow(page, staged, <<>>, bridge), Flow(Shows(page \o h), Tail(staged), <<>>, bridge), {})
    BY <1>1, ReleaseThins
  <2>2. QED
    BY <1>2, <1>3, <2>1, ThinsMore
<1>4. CASE /\ Len(staged) > 1
           /\ page' = page \/ page' = Shows(page \o h)
           /\ reported' = reported \union Range(ItemsOf(Front(staged)))
           /\ staged' = <<Last(staged)>>
  <2>1. /\ Thins(Flow(page, staged, <<>>, bridge), Flow(page, <<Last(staged)>>, <<>>, bridge),
                 Range(ItemsOf(Front(staged))))
        /\ Thins(Flow(page, staged, <<>>, bridge), Flow(Shows(page \o h), <<Last(staged)>>, <<>>, bridge),
                 Range(ItemsOf(Front(staged))))
    BY <1>1, <1>4, ReleaseFailThins
  <2>2. Thins(Pipeline, Pipeline', Range(ItemsOf(Front(staged))))
    BY <1>2, <1>4, <2>1
  <2>3. QED
    BY <1>4, <2>2, ThinsMore
<1>5. QED
  BY <1>3, <1>4 DEF ReleaseStep

\* Two regroupings, as relations that can be cited for the state's own parts.
Appends(pg, st, ba, br, d) == Flow(pg, st, ba, br \o d) = Flow(pg, st, ba, br) \o d
Rotates(a, b, c, d) == (a \o (b \o c)) \o d = a \o (b \o (c \o d))

\* Holding goes behind everything.
LEMMA AppendsAlways ==
    \A pg \in Seq(Item), st \in Seq(Batch), ba \in Seq(Batch), br \in Seq(Item), d \in Seq(Item) :
        Appends(pg, st, ba, br, d)
BY HoldFlow DEF Appends

\* The round goes from behind the pipeline to behind the bridge.
LEMMA RotatesAlways == \A a, b, c, d \in Seq(Item) : Rotates(a, b, c, d)
<1>1. ASSUME NEW a \in Seq(Item), NEW b \in Seq(Item), NEW c \in Seq(Item), NEW d \in Seq(Item)
      PROVE  (a \o (b \o c)) \o d = a \o (b \o (c \o d))
  <2>1. b \o c \in Seq(Item) /\ c \o d \in Seq(Item)
    BY RangeConcat
  <2>2. (a \o (b \o c)) \o d = a \o ((b \o c) \o d)
    BY <2>1, ItemsAssociative, SMTT(60)
  <2>3. (b \o c) \o d = b \o (c \o d)
    BY ItemsAssociative
  <2>4. QED
    BY <2>2, <2>3
<1>2. QED
  BY <1>1, Zenon DEF Rotates

\* A natural number is in its own interval.
LEMMA UpToItself == \A n \in Nat : n \in 0..n
OBVIOUS

\* A round goes behind everything on its way.
LEMMA AcceptThins ==
    ASSUME FenceTypeOK, FenceTypeOK', RunInv, ShutInv, Accept, "overtaken release" \notin causes'
    PROVE  Thins(Pipeline \o Data, Pipeline', reported')
<1>1. AcceptRest /\ (AcceptHolds \/ AcceptPaints \/ AcceptRetains \/ AcceptBreaks)
  BY AcceptCases
<1>2. /\ Data \in Seq(Item) /\ bridge \in Seq(Item) /\ page \in Seq(Item) /\ fence.batches \in Seq(Batch)
      /\ staged \in Seq(Batch) /\ read.next \in 0..MaxOutput /\ Pipeline \in Seq(Item)
  BY <1>1, RoundFacts, StateType, HeldFacts DEF AcceptRest
<1>3. Pipeline' = Flow(page', staged, fence'.batches, bridge')
  BY <1>1, HeldFactsNext DEF AcceptRest
<1>0. bridge \o Data \in Seq(Item) /\ Pipeline \o Data \in Seq(Item)
  BY <1>2, RangeConcat
<1> DEFINE K(k) == Kept(bridge, Data, k, read.next)
           L(k) == Left(bridge, Data, k)
<1> HIDE DEF K, L
<1>4. /\ Len(Writes(bridge, Data)) \in Nat
      /\ \A k \in 0..Len(Writes(bridge, Data)) : Cuts(bridge, Data, k, read.next)
  BY <1>2, CutFacts
<1>5. AcceptHolds \/ staged = <<>>
  <2>1. Writes(bridge, Data) # <<>>
    BY <1>2, WritesFacts
  <2>2. fence.up => staged = <<>>
    BY DEF ShutInv
  <2>3. ~fence.up /\ AcceptWrites => staged = <<>>
    BY <2>1 DEF AcceptWrites, Overtakes
  <2>4. QED
    BY <1>1, <2>2, <2>3 DEF AcceptPaints, AcceptRetains, AcceptBreaks
<1>6. CASE AcceptHolds
  <2>1. Pipeline' = Flow(page, staged, fence.batches, bridge \o Data)
    BY <1>3, <1>6 DEF AcceptHolds
  <2>2. Flow(page, staged, fence.batches, bridge \o Data) = Flow(page, staged, fence.batches, bridge) \o Data
    <3>1. Appends(page, staged, fence.batches, bridge, Data)
      BY <1>2, AppendsAlways, Zenon
    <3>2. QED
      BY <3>1, Zenon DEF Appends
  <2>4. Pipeline' = Pipeline \o Data
    BY <2>1, <2>2 DEF Pipeline
  <2>3. Pipeline \o Data \in Seq(Item)
    BY <1>0
  <2>5. QED
    BY <2>3, <2>4, ThinsSame
<1>7. CASE AcceptPaints /\ staged = <<>>
  <2>1. fence.batches = <<>> /\ fence' = fence /\ bridge' = <<>> /\ page' = Shows(page \o (bridge \o Data))
    BY <1>7 DEF AcceptPaints, AcceptWrites, ShutInv
  <2>2. /\ Pipeline = Flow(page, <<>>, <<>>, bridge)
        /\ Pipeline' = Flow(Shows(page \o (bridge \o Data)), <<>>, <<>>, <<>>)
    BY <1>3, <1>7, <2>1 DEF Pipeline
  <2>3. Thins(Pipeline \o Data, Pipeline', {})
    BY <1>2, <2>2, DirectThins
  <2>4. QED
    BY <2>3 DEF Thins
<1>8. CASE AcceptRetains /\ staged = <<>>
  <2> DEFINE all == K(Len(Writes(bridge, Data)))
  <2>1. fence'.batches = fence.batches \o all /\ page' = page /\ bridge' = <<>>
    BY <1>8 DEF AcceptRetains, AcceptWrites, FenceTypeOK, K
  <2>2. all \in Seq(Batch) /\ ItemsOf(all) = bridge \o Data
    <3>1. Len(Writes(bridge, Data)) \in 0..Len(Writes(bridge, Data))
      BY <1>4, UpToItself, Zenon
    <3>2. QED
      BY <1>4, <3>1, Zenon DEF Cuts, K
  <2> HIDE DEF all
  <2>3. /\ fence.batches \o all \in Seq(Batch)
        /\ ItemsOf(fence.batches \o all) = ItemsOf(fence.batches) \o (bridge \o Data)
    <3>1. fence.batches \o all \in Seq(Batch)
      BY <1>2, <2>2, ConcatProperties
    <3>2. ItemsOf(fence.batches \o all) = ItemsOf(fence.batches) \o ItemsOf(all)
      BY <1>2, <2>2, ItemsOfConcat
    <3>3. QED
      BY <2>2, <3>1, <3>2
  <2>4. Pipeline' = page \o (ItemsOf(fence.batches) \o (bridge \o Data))
    <3> DEFINE more == fence.batches \o all
    <3>1. Pipeline' = Flow(page, <<>>, more, <<>>)
      BY <1>3, <1>8, <2>1
    <3>2. more \in Seq(Batch) /\ ItemsOf(more) = ItemsOf(fence.batches) \o (bridge \o Data)
      BY <2>3
    <3> HIDE DEF more
    <3>3. Flow(page, <<>>, more, <<>>) = page \o ItemsOf(more)
      BY <1>2, <3>2, EmptyItems, UnstagedFlow
    <3>4. QED
      BY <3>1, <3>2, <3>3
  <2>5. Pipeline = page \o (ItemsOf(fence.batches) \o bridge)
    BY <1>2, <1>8, UnstagedFlow, ZenonT(60) DEF Pipeline
  <2>6. ItemsOf(fence.batches) \in Seq(Item)
    BY <1>2, ItemsOfType
  <2>7. Pipeline' = Pipeline \o Data
    <3>1. Rotates(page, ItemsOf(fence.batches), bridge, Data)
      BY <1>2, <2>6, RotatesAlways, Zenon
    <3>2. QED
      BY <2>4, <2>5, <3>1, Zenon DEF Rotates
  <2>8. Pipeline \o Data \in Seq(Item)
    BY <1>0
  <2>9. QED
    BY <2>7, <2>8, ThinsSame
<1>9. CASE AcceptBreaks /\ staged = <<>>
  <2>1. PICK k \in 0..Len(Writes(bridge, Data)) : \E e \in FlushEnds(fence.batches \o K(k)) :
             /\ page' = Shows((page \o Painted(fence.batches \o K(k), e)) \o L(k))
             /\ reported' = reported \union Undelivered(fence.batches \o K(k), e)
    BY <1>9 DEF AcceptBreaks, K, L
  <2>2. PICK e \in FlushEnds(fence.batches \o K(k)) :
             /\ page' = Shows((page \o Painted(fence.batches \o K(k), e)) \o L(k))
             /\ reported' = reported \union Undelivered(fence.batches \o K(k), e)
    BY <2>1
  <2>3. Cuts(bridge, Data, k, read.next)
    BY <1>4
  <2>4. K(k) \in Seq(Batch) /\ L(k) \in Seq(Item) /\ ItemsOf(K(k)) \o L(k) = bridge \o Data
    BY <2>3, Zenon DEF Cuts, K, L
  <2> DEFINE kb == K(k)
             rest == L(k)
  <2>5. /\ kb \in Seq(Batch) /\ rest \in Seq(Item) /\ ItemsOf(kb) \o rest = bridge \o Data
        /\ e \in FlushEnds(fence.batches \o kb)
        /\ page' = Shows((page \o Painted(fence.batches \o kb, e)) \o rest)
        /\ reported' = reported \union Undelivered(fence.batches \o kb, e)
    BY <2>2, <2>4
  <2> HIDE DEF kb, rest
  <2>6. Thins(Flow(page, <<>>, fence.batches, bridge) \o Data,
              Flow(Shows((page \o Painted(fence.batches \o kb, e)) \o rest), <<>>, <<>>, <<>>),
              Undelivered(fence.batches \o kb, e))
    BY <1>2, <2>5, BreakThins
  <2>7. fence'.batches = <<>> /\ bridge' = <<>>
    BY <1>9, DownType DEF AcceptBreaks, AcceptWrites
  <2>8. Pipeline' = Flow(page', <<>>, <<>>, <<>>)
    BY <1>3, <1>9, <2>7
  <2>9. Pipeline = Flow(page, <<>>, fence.batches, bridge)
    BY <1>9 DEF Pipeline
  <2>10. Thins(Pipeline \o Data, Pipeline', Undelivered(fence.batches \o kb, e))
    BY <2>5, <2>6, <2>8, <2>9
  <2>11. Undelivered(fence.batches \o kb, e) \subseteq reported'
    BY <2>5
  <2>12. QED
    BY <2>10, <2>11, ThinsMore
<1>10. QED
  BY <1>1, <1>5, <1>6, <1>7, <1>8, <1>9

-----------------------------------------------------------------------------
(* OrderInv                                                                *)

\* The history only grows.
LEMMA CausesGrow ==
    ASSUME FenceTypeOK, RunInv, [FenceNext]_fenceVars
    PROVE  causes \subseteq causes'
<1>1. CASE SeedArrives
  BY <1>1, SeedCases DEF SeedDropped, SeedTaken
<1>2. CASE ProofAnswers
  <2>1. \E b : ProofFlush(b)
    BY <1>2, ProofCases DEF ProofCommits, ProofPasses
  <2>2. QED
    BY <2>1 DEF ProofFlush
<1>3. CASE Accept
  <2>1. AcceptHolds \/ AcceptWrites
    BY <1>3, AcceptCases DEF AcceptPaints, AcceptRetains, AcceptBreaks
  <2>2. QED
    BY <2>1 DEF AcceptHolds, AcceptWrites
<1>4. CASE FlushDue
  BY <1>4 DEF FlushDue
<1>5. CASE ReleaseStep
  BY <1>5 DEF ReleaseStep
<1>6. CASE UNCHANGED causes
  BY <1>6
<1>7. QED
  BY <1>1, <1>2, <1>3, <1>4, <1>5, <1>6
     DEF FenceNext, fenceVars, Output, Replace, Capture, CaptureFails, IssueRead, Reattach, DiscardRead,
         Remount, Ended, loopVars, paintVars

\* What is not read, written or painted leaves the pipeline alone.
LEMMA QuietFlow ==
    ASSUME UNCHANGED <<page, staged, fence, bridge>>
    PROVE  Pipeline' = Pipeline /\ Held' = Held
BY DEF Pipeline, Held, Flow

\* The chunks of a round come after every chunk that is on its way.
LEMMA RoundFollows ==
    ASSUME FenceTypeOK, RunInv, CountInv, Accept, Repeats = {}
    PROVE  AllPrecede(Range(Pipeline), Range(Data))
<1>1. SUFFICES ASSUME NEW x \in Range(Pipeline), NEW y \in Range(Data),
                      x.kind = "chunk", y.kind = "chunk", x.runtime = y.runtime
               PROVE  x.n < y.n
  BY DEF AllPrecede, Precedes
<1>2. read.st = "answered" /\ read.from = cursor
  BY DEF Accept, ReadIsStale
<1>3. /\ cursor \in Nat /\ stream \in Nat /\ read.next \in Nat /\ read.runtime \in Nat
  BY ReadType
<1>4. x \in Item /\ Counted(x)
  <2>1. Range(Pipeline) = Range(page) \cup Range(Held) /\ Range(Held) \subseteq Item /\ Range(page) \subseteq Item
    BY HeldFacts, StateType, InRange
  <2>2. QED
    BY <1>1, <2>1 DEF CountInv
<1>5. x.n \in Nat /\ x.runtime \in Nat
  BY <1>4, ItemFields
<1>6. y.runtime = read.runtime
  BY RoundCounted
<1>7. stream <= read.runtime
  BY <1>2 DEF RunInv, ReadOK
<1>8. x.runtime = stream /\ (cursor > 0 => x.n <= cursor)
  <2>1. x.runtime <= stream
    BY <1>4 DEF Counted
  <2>2. x.runtime = stream
    BY <1>1, <1>3, <1>5, <1>6, <1>7, <2>1
  <2>3. QED
    BY <1>4, <2>2 DEF Counted, Bound
<1>9. PICK k \in 1..read.next :
        y = Chunk(read.runtime, k) /\ (cursor <= read.next => k > cursor) /\ (read.whole => IsReplay)
  <2>1. y # Scrap(read.runtime) /\ y # Screen(read.runtime, read.next)
    BY <1>1 DEF Scrap, Screen
  <2>2. QED
    BY <1>2, <2>1, RoundFacts DEF RoundChunk
<1>10. y.n = k /\ k \in Nat
  BY <1>3, <1>9 DEF Chunk
<1>11. CASE cursor > 0
  <2>1. cursor <= read.next
    BY <1>1, <1>2, <1>6, <1>8 DEF RunInv, ReadOK
  <2>2. QED
    BY <1>3, <1>5, <1>8, <1>9, <1>10, <1>11, <2>1
<1>12. CASE cursor = 0
  <2>1. read.whole
    BY <1>2, <1>12 DEF RunInv, ReadOK
  <2>2. /\ fence.batches = <<>> /\ staged = <<>> /\ bridge = <<>>
        /\ \A i \in DOMAIN page : ~(page[i].kind = "chunk" /\ page[i].runtime = read.runtime)
    BY <1>2, <1>9, <1>12, <2>1 DEF Repeats
  <2>3. Range(Held) = {}
    <3>1. Range(<<>>) = {} /\ ItemsOf(<<>>) = <<>>
      BY EmptyItems
    <3>2. QED
      BY <2>2, <3>1, HeldFacts
  <2>4. x \in Range(page)
    BY <1>1, <2>3, HeldFacts
  <2>5. PICK i \in 1..Len(page) : x = page[i]
    BY <2>4, StateType, InRange
  <2>6. i \in DOMAIN page
    BY <2>5, StateType
  <2>7. QED
    BY <1>1, <1>6, <2>2, <2>5, <2>6
<1>13. QED
  BY <1>3, <1>11, <1>12

\* Every step preserves OrderInv.
LEMMA OrderStep ==
    ASSUME FenceTypeOK, FenceTypeOK', RunInv, CountInv, ShutInv, OrderInv, [FenceNext]_fenceVars
    PROVE  OrderInv'
<1>1. SUFFICES ASSUME "overtaken release" \notin causes', "repeated replay" \notin causes'
               PROVE  Ordered(Pipeline')
  BY DEF OrderInv
<1>2. Ordered(Pipeline)
  BY <1>1, CausesGrow DEF OrderInv
<1>3. ASSUME Thins(Pipeline, Pipeline', reported') PROVE Ordered(Pipeline')
  BY <1>2, <1>3 DEF Thins
<1>4. CASE SeedArrives
  <2>1. SeedRest /\ (SeedDropped \/ SeedTaken)
    BY <1>4, SeedCases
  <2>2. QED
    BY <1>2, <1>3, <2>1, SeedDroppedThins, SeedTakenFlow
<1>5. CASE ProofAnswers
  <2>1. ProofRest /\ (ProofCommits \/ ProofPasses)
    BY <1>5, ProofCases
  <2>2. QED
    BY <1>2, <1>3, <2>1, ProofPassesThins, ProofCommitsThins
<1>6. CASE FlushDue
  BY <1>1, <1>3, <1>6, FlushDueThins
<1>7. CASE ReleaseStep
  BY <1>3, <1>7, ReleaseStepThins
<1>8. CASE Accept
  <2>1. Data \in Seq(Item) /\ Ordered(Data) /\ Pipeline \in Seq(Item)
    BY <1>8, RoundFacts, HeldFacts DEF Accept, ReadIsStale
  <2>2. AllPrecede(Range(Pipeline), Range(Data))
    <3>1. AcceptHolds \/ AcceptWrites
      BY <1>8, AcceptCases DEF AcceptPaints, AcceptRetains, AcceptBreaks
    <3>2. Repeats \subseteq causes'
      BY <3>1 DEF AcceptHolds, AcceptWrites, AcceptUnseen
    <3>3. Repeats = {}
      BY <1>1, <3>2 DEF Repeats
    <3>4. QED
      BY <1>8, <3>3, RoundFollows
  <2>3. Ordered(Pipeline \o Data)
    BY <1>2, <2>1, <2>2, OrderedConcat
  <2>4. Thins(Pipeline \o Data, Pipeline', reported')
    BY <1>1, <1>8, AcceptThins
  <2>5. QED
    BY <2>3, <2>4 DEF Thins
<1>9. CASE UNCHANGED <<page, staged, fence, bridge>>
  BY <1>2, <1>9, QuietFlow
<1>10. QED
  BY <1>4, <1>5, <1>6, <1>7, <1>8, <1>9
     DEF FenceNext, fenceVars, Output, Replace, Capture, CaptureFails, IssueRead, Reattach, DiscardRead,
         Remount, Ended, loopVars, paintVars

-----------------------------------------------------------------------------
(* OneRuntimeInv                                                           *)


\* Every step preserves OneRuntimeInv.
LEMMA OneRuntimeStep ==
    ASSUME FenceTypeOK, FenceTypeOK', RunInv, CountInv, ShutInv, StampInv, OneRuntimeInv,
           [FenceNext]_fenceVars
    PROVE  OneRuntimeInv'
<1>1. SUFFICES ASSUME causes' = {}
               PROVE  /\ \A x \in Range(Held') : x.runtime = stream'
                      /\ \A x \in Range(page') :
                            \/ x.runtime = stream'
                            \/ x.kind # "chunk" /\ x.runtime = seed'.runtime /\ seed'.st \in {"proving", "done"}
                      /\ (pending'.seq > 0 \/ stamp' > 0) /\ stream' # 0 => seed'.runtime = stream'
  BY DEF OneRuntimeInv
<1>2. causes = {}
  BY <1>1, CausesGrow
<1>3. /\ \A x \in Range(Held) : x.runtime = stream
      /\ \A x \in Range(page) :
             \/ x.runtime = stream
             \/ x.kind # "chunk" /\ x.runtime = seed.runtime /\ seed.st \in {"proving", "done"}
      /\ (pending.seq > 0 \/ stamp > 0) /\ stream # 0 => seed.runtime = stream
  BY <1>2 DEF OneRuntimeInv
<1>4. /\ pending.seq > 0 => seed.st = "proving"
      /\ stamp > 0 => seed.st = "done"
      /\ pending.seq \in Nat /\ stamp \in Nat /\ seed.seq \in Nat
  BY StateType, ScalarType, SMTT(60) DEF StampInv
<1>5. CASE /\ UNCHANGED <<page, staged, fence, bridge, seed, stream>>
           /\ UNCHANGED <<pending, stamp>> \/ (stamp' = 0 /\ pending' = Unstamped)
  <2>1. Held' = Held
    BY <1>5, QuietFlow
  <2>2. QED
    BY <1>3, <1>5, <2>1, UnstampedType
<1>6. CASE Capture \/ CaptureFails
  <2>1. UNCHANGED <<page, staged, fence, bridge, pending, stamp, stream>> /\ seed.st = "fetching"
    BY <1>6 DEF Capture, CaptureFails, loopVars, paintVars
  <2>2. Held' = Held
    BY <2>1, QuietFlow
  <2>3. QED
    BY <1>3, <1>4, <2>1, <2>2
<1>7. CASE SeedArrives
  <2>1. SeedRest /\ (SeedDropped \/ SeedTaken)
    BY <1>7, SeedCases
  <2>2. seed.st = "answered" /\ stream' = stream /\ stamp' = stamp /\ stamp = 0 /\ pending.seq = 0
    BY <1>4, <2>1 DEF SeedRest
  <2>3. \A x \in Range(page) : x.runtime = stream
    BY <1>3, <2>2
  <2>4. CASE SeedDropped
    <3>1. OnlyMoves /\ pending'.seq = 0
      BY <2>1, <2>4, SeedDroppedMoves, UnstampedType DEF SeedDropped
    <3>2. QED
      BY <1>3, <2>2, <2>3, <3>1 DEF OnlyMoves
  <2>5. CASE SeedTaken
    <3>1. /\ Held' = Held
          /\ \A x \in Range(page') : x \in Range(page) \/ (x.kind # "chunk" /\ x.runtime = seed.runtime)
      BY <2>1, <2>5, SeedTakenAdds
    <3>2. PICK wrote \in BOOLEAN :
          /\ seed' = [seed EXCEPT !.st = "proving", !.wrote = wrote]
          /\ causes' = causes \union Foreign(seed.runtime, stream, seed.seq)
                              \union (IF wrote THEN Overtakes(<<seed>>) ELSE {})
      BY <2>5 DEF SeedTaken
    <3>3. seed'.st = "proving" /\ seed'.runtime = seed.runtime
      BY <3>2, SeedMoves
    <3>4. pending'.seq = seed.seq
      <4>1. pending' = IF seed.seq > 0 THEN [seq |-> seed.seq, name |-> seed.name] ELSE pending
        BY <2>5 DEF SeedTaken
      <4>2. QED
        BY <1>4, <2>2, <4>1
    <3>5. seed.seq > 0 /\ stream # 0 => seed.runtime = stream
      <4>1. Foreign(seed.runtime, stream, seed.seq) = {}
        BY <1>1, <3>2
      <4>2. QED
        BY <4>1 DEF Foreign
    <3>6. QED
      BY <1>3, <2>2, <2>3, <3>1, <3>3, <3>4, <3>5
  <2>6. QED
    BY <2>1, <2>4, <2>5
<1>8. CASE ProofAnswers
  <2>1. ProofRest /\ (ProofCommits \/ ProofPasses) /\ OnlyMoves
    BY <1>8, ProofCases, ProofMoves
  <2>2. seed.st = "proving" /\ seed'.st = "done" /\ seed'.runtime = seed.runtime /\ stream' = stream
    BY <2>1, SeedMoves DEF ProofRest
  <2>3. pending'.seq = 0
    BY <2>1 DEF ProofRest
  <2>4. stamp' > 0 => pending.seq > 0 \/ stamp > 0
    BY <2>1 DEF ProofCommits, ProofPasses
  <2>5. QED
    BY <1>3, <2>1, <2>2, <2>3, <2>4 DEF OnlyMoves
<1>9. CASE FlushDue \/ ReleaseStep
  <2>1. OnlyMoves /\ UNCHANGED <<seed, stream, pending, stamp>>
    BY <1>9, FlushDueMoves, ReleaseMoves DEF FlushDue, ReleaseStep, loopVars
  <2>2. QED
    BY <1>3, <2>1 DEF OnlyMoves
<1>10. CASE Accept
  <2>1. AcceptRest /\ (AcceptHolds \/ AcceptWrites)
    BY <1>10, AcceptCases DEF AcceptPaints, AcceptRetains, AcceptBreaks
  <2>2. Swapped(read.runtime) = {} /\ Foreign(seed.runtime, read.runtime, pending'.seq + stamp') = {}
    BY <1>1, <2>1 DEF AcceptHolds, AcceptWrites, AcceptUnseen
  <2>3. stream = 0 \/ stream = read.runtime
    BY <2>2 DEF Swapped
  <2>4. stream' = read.runtime /\ seed' = seed /\ read.runtime # 0
    BY <2>1 DEF AcceptRest, RunInv, ReadOK
  <2>5. pending'.seq \in Nat /\ stamp' \in Nat
    BY <1>4, <2>1, UnstampedType DEF AcceptRest
  <2>6. (pending'.seq > 0 \/ stamp' > 0) => seed.runtime = read.runtime
    <3>1. (pending'.seq > 0 \/ stamp' > 0) => pending'.seq + stamp' > 0
      BY <2>5
    <3>2. QED
      BY <2>2, <2>4, <3>1 DEF Foreign
  <2>7. \A x \in Item : x.runtime = stream => x.runtime = read.runtime
    BY <2>3, ItemFields
  <2>8. Range(Held) \subseteq Item /\ Range(page) \subseteq Item
    BY HeldFacts, StateType, InRange
  <2>9. \A x \in Range(Data) : x.runtime = read.runtime
    BY <1>10, RoundCounted
  <2>10. /\ Range(Held') \subseteq Range(Held) \cup Range(Data)
         /\ Range(page') \subseteq Range(page) \cup Range(Held) \cup Range(Data)
    BY <1>10, AcceptMoves
  <2>11. QED
    BY <1>3, <2>4, <2>6, <2>7, <2>8, <2>9, <2>10
<1>11. QED
  BY <1>5, <1>6, <1>7, <1>8, <1>9, <1>10
     DEF FenceNext, fenceVars, Output, Replace, IssueRead, Reattach, DiscardRead,
         Remount, Ended, loopVars, paintVars

-----------------------------------------------------------------------------
(* SeenInv                                                                 *)

\* A repaint that does not hide the seed still shows it.
LEMMA StillSeen ==
    ASSUME FenceTypeOK, FenceTypeOK', StampInv, OneRuntimeInv', causes' = {}, Hides(page') \subseteq causes',
           pending.seq > 0 \/ stamp > 0, pending'.seq > 0 \/ stamp' > 0, seed'.runtime = seed.runtime,
           \E x \in Range(page) : Tells(x, seed.runtime, seed.n),
           page # <<>> => page' # <<>>
    PROVE  \E x \in Range(page') : Tells(x, seed.runtime, seed.n)
<1>1. page \in Seq(Item) /\ page' \in Seq(Item) /\ pending.seq \in Nat /\ stamp \in Nat /\ seed.n \in Nat
  <2>1. page \in Seq(Item) /\ page' \in Seq(Item)
    BY StateType, HeldFactsNext
  <2>2. pending.seq \in Nat /\ stamp \in Nat /\ seed.n \in Nat
    BY StateType, ScalarType
  <2>3. QED
    BY <2>1, <2>2
<1>2. page # <<>>
  BY EmptyItems
<1>3. /\ seed.st \in {"proving", "done"} /\ seed.n > 0
  BY <1>1 DEF StampInv
<1>4. page' # <<>> /\ 1 \in 1..Len(page')
  BY <1>1, <1>2
<1>5. Head(page') \in Range(page') /\ Head(page') \in Item
  BY <1>1, <1>4, InRange
<1>6. Head(page').runtime = seed.runtime
  <2>1. /\ Head(page').runtime = stream' \/ Head(page').runtime = seed'.runtime
        /\ stream' # 0 => seed'.runtime = stream'
    BY <1>5 DEF OneRuntimeInv
  <2>2. Head(page').runtime # 0
    BY <1>5, ItemFields
  <2>3. QED
    BY <2>1, <2>2
<1>7. Carries(page, seed.runtime, seed.n)
  BY <1>1, CarriesTells
<1>8. Carries(page', seed.runtime, seed.n)
  BY <1>3, <1>4, <1>6, <1>7 DEF Hides
<1>9. QED
  BY <1>1, <1>8, CarriesTells

\* Every step preserves SeenInv.
LEMMA SeenStep ==
    ASSUME FenceTypeOK, FenceTypeOK', RunInv, ShutInv, StampInv, OneRuntimeInv', SeenInv,
           [FenceNext]_fenceVars
    PROVE  SeenInv'
<1>1. SUFFICES ASSUME causes' = {}, mounted', stamp' > 0 \/ (seed'.wrote /\ pending'.seq > 0)
               PROVE  \E x \in Range(page') : Tells(x, seed'.runtime, seed'.n)
  BY DEF SeenInv, Tells
<1>2. causes = {}
  BY <1>1, CausesGrow
<1>3. /\ pending.seq > 0 => seed.st = "proving"
      /\ stamp > 0 => seed.st = "done"
      /\ pending.seq \in Nat /\ stamp \in Nat /\ seed.seq \in Nat
  BY StateType, ScalarType, SMTT(60) DEF StampInv
<1>4. mounted /\ (stamp > 0 \/ (seed.wrote /\ pending.seq > 0)) =>
         \E x \in Range(page) : Tells(x, seed.runtime, seed.n)
  BY <1>2 DEF SeenInv
<1> DEFINE Zeroed == UNCHANGED <<pending, stamp>> \/ (stamp' = 0 /\ pending' = Unstamped)
<1>5. Zeroed /\ seed' = seed => stamp > 0 \/ (seed.wrote /\ pending.seq > 0)
  BY <1>1, UnstampedType
<1>6. CASE UNCHANGED <<page, seed>> /\ Zeroed /\ mounted
  BY <1>4, <1>5, <1>6
<1>7. ASSUME seed' = seed, Zeroed, mounted, Hides(page') \subseteq causes', page # <<>> => page' # <<>>
      PROVE  \E x \in Range(page') : Tells(x, seed'.runtime, seed'.n)
  <2>1. /\ \E x \in Range(page) : Tells(x, seed.runtime, seed.n)
        /\ pending.seq > 0 \/ stamp > 0
    BY <1>4, <1>5, <1>7
  <2>2. QED
    BY <1>1, <1>7, <2>1, StillSeen
<1>8. CASE Capture \/ CaptureFails
  <2>1. seed.st = "fetching" /\ UNCHANGED <<pending, stamp>>
    BY <1>8 DEF Capture, CaptureFails, loopVars
  <2>2. QED
    BY <1>1, <1>3, <2>1
<1>9. CASE SeedArrives
  <2>1. SeedRest /\ (SeedDropped \/ SeedTaken)
    BY <1>9, SeedCases
  <2>2. stamp' = 0
    BY <1>3, <2>1 DEF SeedRest
  <2>3. CASE SeedDropped
    BY <1>1, <2>2, <2>3, UnstampedType DEF SeedDropped
  <2>4. CASE SeedTaken
    <3> DEFINE t == [kind |-> "text", runtime |-> seed.runtime, n |-> seed.n]
               s == Screen(seed.runtime, seed.n)
    <3>1. PICK wrote \in BOOLEAN :
          /\ page' = IF ~wrote THEN page ELSE IF fence.up THEN <<s>> ELSE Append(page, t)
          /\ seed' = [seed EXCEPT !.st = "proving", !.wrote = wrote]
      BY <2>4 DEF SeedTaken
    <3>2. seed'.wrote = wrote /\ seed'.runtime = seed.runtime /\ seed'.n = seed.n
      BY <3>1, SeedMoves
    <3>3. page' = <<s>> \/ page' = Append(page, t)
      BY <1>1, <2>2, <3>1, <3>2
    <3>4. seed.n \in Nat /\ page \in Seq(Item) /\ t \in Item
      BY StateType, ScalarType, ScreenType
    <3>5. Tells(s, seed.runtime, seed.n) /\ Tells(t, seed.runtime, seed.n)
      BY <3>4 DEF Tells, Screen
    <3> HIDE DEF s, t
    <3>6. s \in Range(<<s>>) /\ t \in Range(Append(page, t))
      <4>1. s \in Range(<<s>>) /\ t \in Range(<<t>>)
        BY DEF Range
      <4>2. Append(page, t) = page \o <<t>> /\ <<t>> \in Seq(Item)
        BY <3>4
      <4>3. QED
        BY <3>4, <4>1, <4>2, RangeConcat
    <3>7. QED
      BY <3>2, <3>3, <3>5, <3>6
  <2>5. QED
    BY <2>1, <2>3, <2>4
<1>10. CASE ProofAnswers
  <2>1. ProofRest /\ (ProofCommits \/ ProofPasses)
    BY <1>10, ProofCases
  <2>2. /\ seed'.runtime = seed.runtime /\ seed'.n = seed.n /\ mounted /\ pending'.seq = 0
    BY <2>1, SeedMoves DEF ProofRest
  <2>3. stamp > 0 \/ (seed.wrote /\ pending.seq > 0)
    BY <1>1, <2>1, <2>2 DEF ProofCommits, ProofPasses
  <2>4. fence.batches \in Seq(Batch) /\ DropSeedCovered(fence.batches, pending.seq) \in Seq(Batch) /\ page \in Seq(Item)
    BY <1>3, StateType, DropType
  <2>5. PICK b \in Seq(Batch) : ProofFlush(b)
    BY <2>1, <2>4 DEF ProofCommits, ProofPasses
  <2>6. PICK e \in FlushEnds(b) : page' = Shows(page \o Painted(b, e)) /\ Hides(page') \subseteq causes'
    BY <2>5 DEF ProofFlush
  <2>7. page # <<>> => page' # <<>>
    BY <2>4, <2>6, FlushType
  <2>8. \E x \in Range(page) : Tells(x, seed.runtime, seed.n)
    BY <1>4, <2>2, <2>3
  <2>9. \E x \in Range(page') : Tells(x, seed.runtime, seed.n)
    BY <1>1, <2>2, <2>3, <2>6, <2>7, <2>8, StillSeen
  <2>10. QED
    BY <2>2, <2>9
<1>11. CASE FlushDue
  <2>1. seed' = seed /\ Zeroed /\ mounted /\ page \in Seq(Item) /\ bridge \in Seq(Item)
    BY <1>11, StateType DEF FlushDue, loopVars
  <2>2. CASE page' = page
    BY <1>6, <2>1, <2>2
  <2>3. CASE page' = Shows(page \o bridge) /\ Hides(page') \subseteq causes'
    <3>1. page # <<>> => page' # <<>>
      BY <2>1, <2>3, PaintType
    <3>2. QED
      BY <1>7, <2>1, <2>3, <3>1
  <2>4. QED
    BY <1>11, <2>2, <2>3 DEF FlushDue
<1>12. CASE ReleaseStep
  <2>1. seed' = seed /\ Zeroed /\ mounted /\ page \in Seq(Item) /\ Hides(page') \subseteq causes'
    BY <1>12, StateType DEF ReleaseStep, loopVars
  <2>2. Head(staged).items \in Seq(Item)
    BY <1>12, StateType, ReleaseThins DEF ReleaseStep
  <2>3. page' = page \/ page' = Shows(page \o Head(staged).items)
    BY <1>12 DEF ReleaseStep
  <2>4. page # <<>> => page' # <<>>
    BY <2>1, <2>2, <2>3, PaintType
  <2>5. QED
    BY <1>7, <2>1, <2>4
<1>13. CASE Accept
  <2>1. AcceptRest /\ (AcceptHolds \/ AcceptPaints \/ AcceptRetains \/ AcceptBreaks)
    BY <1>13, AcceptCases
  <2>2. seed' = seed /\ Zeroed /\ mounted
    BY <2>1 DEF AcceptRest
  <2>3. CASE AcceptHolds \/ AcceptRetains
    BY <1>6, <2>2, <2>3 DEF AcceptHolds, AcceptRetains
  <2>4. /\ Data \in Seq(Item) /\ bridge \in Seq(Item) /\ page \in Seq(Item) /\ fence.batches \in Seq(Batch)
        /\ read.next \in 0..MaxOutput
    BY <2>1, RoundFacts, StateType DEF AcceptRest
  <2>5. CASE AcceptPaints
    <3>1. page' = Shows(page \o (bridge \o Data)) /\ Hides(page') \subseteq causes'
      BY <2>5 DEF AcceptPaints, AcceptWrites
    <3>2. bridge \o Data \in Seq(Item)
      BY <2>4, RangeConcat
    <3>3. page # <<>> => page' # <<>>
      BY <2>4, <3>1, <3>2, PaintType
    <3>4. QED
      BY <1>7, <2>2, <3>1, <3>3
  <2>6. CASE AcceptBreaks
    <3> DEFINE B(k) == fence.batches \o Kept(bridge, Data, k, read.next)
    <3>1. PICK k \in 0..Len(Writes(bridge, Data)) : \E e \in FlushEnds(B(k)) :
               page' = Shows((page \o Painted(B(k), e)) \o Left(bridge, Data, k))
      BY <2>6 DEF AcceptBreaks
    <3>2. PICK e \in FlushEnds(B(k)) :
               page' = Shows((page \o Painted(B(k), e)) \o Left(bridge, Data, k))
      BY <3>1
    <3>3. Cuts(bridge, Data, k, read.next)
      BY <2>4, CutFacts
    <3>4. Kept(bridge, Data, k, read.next) \in Seq(Batch) /\ Left(bridge, Data, k) \in Seq(Item)
      BY <3>3, Zenon DEF Cuts
    <3>5. B(k) \in Seq(Batch)
      BY <2>4, <3>4, ConcatProperties
    <3> HIDE DEF B
    <3> DEFINE p == Painted(B(k), e)
    <3>6. p \in Seq(Item)
      BY <2>4, <3>2, <3>5, FlushType
    <3>7. page' = Shows((page \o p) \o Left(bridge, Data, k))
      BY <3>2
    <3> HIDE DEF p
    <3>8. page # <<>> => page \o p # <<>>
      BY <2>4, <3>6
    <3>9. page \o p \in Seq(Item)
      BY <2>4, <3>6, RangeConcat
    <3>10. page # <<>> => page' # <<>>
      BY <3>4, <3>7, <3>8, <3>9, PaintType
    <3>11. Hides(page') \subseteq causes'
      BY <2>6 DEF AcceptBreaks, AcceptWrites
    <3>12. QED
      BY <1>7, <2>2, <3>10, <3>11
  <2>7. QED
    BY <2>1, <2>3, <2>5, <2>6
<1>14. CASE Output \/ Replace \/ IssueRead \/ Reattach \/ DiscardRead \/ UNCHANGED fenceVars
  <2>1. UNCHANGED <<page, seed, pending, stamp, mounted>>
    BY <1>14 DEF Output, Replace, IssueRead, Reattach, DiscardRead, fenceVars, loopVars, paintVars
  <2>2. QED
    BY <1>1, <1>6, <2>1
<1>15. CASE Remount \/ Ended
  BY <1>1, <1>15 DEF Remount, Ended, fenceVars
<1>16. QED
  BY <1>8, <1>9, <1>10, <1>11, <1>12, <1>13, <1>14, <1>15 DEF FenceNext

-----------------------------------------------------------------------------
(* CoverInv                                                                *)

\* A bound stays one while the stream is of the same runtime.
LEMMA BoundStays ==
    ASSUME FenceTypeOK, RunInv, [FenceNext]_fenceVars, NEW n \in Nat, Bound(n),
           Accept => stream = read.runtime
    PROVE  Bound(n)'
<1>1. /\ cursor \in Nat /\ output \in Nat /\ runtime \in Nat /\ stream \in Nat /\ read.next \in Nat
      /\ read.runtime \in Nat
  BY ReadType
<1>2. /\ cursor > 0 => n <= cursor
      /\ stream = runtime => n <= output
      /\ read.st = "answered" /\ read.runtime = stream => n <= read.next
  BY DEF Bound
<1>3. stream <= runtime
  BY DEF RunInv
<1>4. SUFFICES
           /\ cursor' > 0 => n <= cursor'
           /\ stream' = runtime' => n <= output'
           /\ read'.st = "answered" /\ read'.runtime = stream' => n <= read'.next
  BY DEF Bound
<1>5. CASE UNCHANGED <<runtime, output, cursor, read, stream>>
  BY <1>2, <1>5
<1>6. CASE Output
  <2>1. output' = output + 1 /\ UNCHANGED <<runtime, cursor, read, stream>>
    BY <1>6 DEF Output, loopVars
  <2>2. QED
    BY <1>1, <1>2, <2>1
<1>7. CASE Replace
  <2>1. runtime' = runtime + 1 /\ UNCHANGED <<cursor, read, stream>>
    BY <1>7 DEF Replace, loopVars
  <2>2. QED
    BY <1>1, <1>2, <1>3, <2>1
<1>8. CASE IssueRead
  <2>1. read'.runtime = runtime /\ read'.next = output /\ UNCHANGED <<runtime, output, cursor, stream>>
    BY <1>8 DEF IssueRead, Answer, loopVars
  <2>2. QED
    BY <1>1, <1>2, <2>1
<1>9. CASE Reattach
  <2>1. cursor' = 0 /\ UNCHANGED <<runtime, output, read, stream>>
    BY <1>9 DEF Reattach
  <2>2. QED
    BY <1>1, <1>2, <2>1
<1>10. CASE DiscardRead \/ Remount
  <2>1. read'.st = "none" /\ UNCHANGED <<runtime, output, cursor, stream>>
    BY <1>10 DEF DiscardRead, Remount, NoRead, loopVars
  <2>2. QED
    BY <1>1, <1>2, <2>1
<1>11. CASE Accept
  <2>1. /\ read.st = "answered" /\ stream' = read.runtime /\ cursor' = read.next /\ read'.st = "none"
        /\ UNCHANGED <<runtime, output>>
    BY <1>11 DEF Accept, NoRead
  <2>2. QED
    BY <1>1, <1>2, <1>11, <2>1
<1>12. QED
  BY <1>5, <1>6, <1>7, <1>8, <1>9, <1>10, <1>11
     DEF FenceNext, fenceVars, Capture, CaptureFails, SeedArrives, ProofAnswers, FlushDue, ReleaseStep,
         Ended, loopVars, paintVars

\* The cursor itself is a bound.
LEMMA CursorBound ==
    ASSUME FenceTypeOK, RunInv
    PROVE  Bound(cursor)
<1>1. /\ cursor \in Nat /\ output \in Nat /\ runtime \in Nat /\ stream \in Nat /\ read.next \in Nat
      /\ read.runtime \in Nat
  BY ReadType
<1>2. /\ stream = runtime => cursor <= output
      /\ read.st = "answered" /\ read.runtime = stream => cursor <= read.next
  BY DEF RunInv, ReadOK
<1>3. QED
  BY <1>1, <1>2 DEF Bound

\* The same in the next state.
LEMMA CursorBoundNext ==
    ASSUME FenceTypeOK', RunInv'
    PROVE  Bound(cursor)'
<1>1. cursor' \in Nat
  <2>1. cursor' \in 0..MaxOutput
    BY DEF FenceTypeOK
  <2>2. QED
    BY <2>1, OutputBound
<1>2. /\ stream' = runtime' => cursor' <= output'
      /\ read'.st = "answered" /\ read'.runtime = stream' => cursor' <= read'.next
  BY DEF RunInv, ReadOK
<1>3. QED
  BY <1>1, <1>2 DEF Bound

\* The fields of a batch.
LEMMA CoveredType ==
    ASSUME NEW b \in Seq(Batch)
    PROVE  \A i \in 1..Len(b) : b[i] \in Batch /\ b[i].covered \in Nat /\ b[i].items \in Seq(Item)
<1>1. \A i \in 1..Len(b) : b[i] \in Batch
  BY ElementOfSeq
<1>2. \A x \in Batch : x.covered \in 0..MaxOutput /\ x.items \in Seq(Item)
  BY DEF Batch
<1>3. QED
  BY <1>1, <1>2, OutputBound

\* A round accepted without a cause is what the daemon sent.
LEMMA RoundCauses ==
    ASSUME FenceTypeOK, RunInv, Accept, causes' = {}
    PROVE  /\ Swapped(read.runtime) = {} /\ Data = Round
           /\ IsReplay =>
                /\ cursor = 0 /\ read.items = [i \in 1..read.next |-> Chunk(read.runtime, i)]
                /\ fence.batches = <<>> /\ bridge = <<>>
<1>1. AcceptRest /\ (AcceptHolds \/ AcceptWrites)
  BY AcceptCases DEF AcceptPaints, AcceptRetains, AcceptBreaks
<1>2. Swapped(read.runtime) = {} /\ Shortens = {} /\ Repeats = {} /\ Rewrites(Round, Data) = {}
  BY <1>1 DEF AcceptHolds, AcceptWrites, AcceptUnseen
<1>3. Data = Round
  BY <1>2 DEF Rewrites
<1>4. ASSUME IsReplay
      PROVE  /\ cursor = 0 /\ read.items = [i \in 1..read.next |-> Chunk(read.runtime, i)]
             /\ fence.batches = <<>> /\ bridge = <<>>
  <2>1. read.items = [i \in 1..read.next |-> Chunk(read.runtime, i)]
    BY <1>2, <1>4 DEF Shortens
  <2>2. /\ read.st = "answered" /\ read.from = cursor /\ cursor \in Nat /\ read.next \in Nat /\ read.next > 0
        /\ read.whole
    BY <1>1, <1>4, ReadType DEF AcceptRest, IsReplay
  <2>3. ReplayOK(read)
    BY <1>4, <2>2 DEF IsReplay, RunInv, ReadOK
  <2>4. Chunk(read.runtime, 1) \in Range(read.items)
    <3>1. 1 \in 1..read.next
      BY <2>2
    <3>2. 1 \in DOMAIN read.items /\ read.items[1] = Chunk(read.runtime, 1)
      BY <2>1, <3>1
    <3>3. QED
      BY <3>2 DEF Range
  <2>5. PICK k \in 1..read.next : Chunk(read.runtime, 1) = Chunk(read.runtime, k) /\ (cursor <= read.next => k > cursor)
    BY <2>2, <2>3, <2>4 DEF ReplayOK
  <2>6. k = 1
    BY <2>5 DEF Chunk
  <2>7. cursor = 0 \/ cursor > read.next
    BY <2>2, <2>5, <2>6
  <2>8. stream = 0 \/ stream = read.runtime
    BY <1>2 DEF Swapped
  <2>9. cursor = 0
    BY <2>2, <2>7, <2>8 DEF RunInv, ReadOK
  <2>10. fence.batches = <<>> /\ bridge = <<>>
    BY <1>2, <1>4, <2>2, <2>9 DEF Repeats
  <2>11. QED
    BY <2>1, <2>9, <2>10
<1>5. QED
  BY <1>2, <1>3, <1>4

\* A round from the start of the stream that gets anywhere brings a screen, or all
\* there is with nothing held before it.
LEMMA RoundScreen ==
    ASSUME FenceTypeOK, RunInv, Accept, cursor' > 0, ~HasScreen(Data), causes' = {}
    PROVE  cursor > 0 \/ (fence.batches = <<>> /\ bridge = <<>>)
<1>1. read.st = "answered" /\ read.from = cursor /\ cursor' = read.next
  BY DEF Accept, ReadIsStale
<1>2. CASE read.whole
  <2>1. Data # <<Screen(read.runtime, read.next)>>
    <3>1. HasScreen(<<Screen(read.runtime, read.next)>>)
      BY DEF HasScreen, Screen
    <3>2. QED
      BY <3>1
  <2>2. Round # <<Screen(read.runtime, read.next)>> /\ Round = read.items
    BY <1>1, <1>2, <2>1, RoundCauses, FreshFacts DEF Round, Fresh
  <2>3. IsReplay
    BY <1>1, <1>2, <2>2 DEF IsReplay
  <2>4. QED
    BY <2>3, RoundCauses
<1>3. CASE ~read.whole
  BY <1>1, <1>3, FreshFacts
<1>4. QED
  BY <1>2, <1>3

\* The old batches, whatever is put behind them.
LEMMA OldCovered ==
    ASSUME FenceTypeOK, RunInv, CoverInv, causes = {}, [FenceNext]_fenceVars,
           Accept => stream = read.runtime \/ fence.batches = <<>>
    PROVE  \A n \in Nat : (\E i \in 1..Len(fence.batches) : n = fence.batches[i].covered) => Bound(n)'
<1>1. SUFFICES ASSUME NEW n \in Nat, NEW i \in 1..Len(fence.batches), n = fence.batches[i].covered
               PROVE  Bound(n)'
  OBVIOUS
<1>2. Accept => stream = read.runtime
  BY StateType
<1>3. Bound(n)
  BY <1>1 DEF CoverInv
<1>4. QED
  BY <1>2, <1>3, BoundStays

\* More batches behind the fence's, nothing left on the bridge.
LEMMA CoverGrows ==
    ASSUME FenceTypeOK, FenceTypeOK', RunInv, RunInv', CountInv', OneRuntimeInv', CoverInv, causes = {},
           causes' = {}, [FenceNext]_fenceVars,
           Accept => stream = read.runtime \/ fence.batches = <<>>,
           NEW k \in Seq(Batch), fence'.batches = fence.batches \o k,
           \A i \in 1..Len(k) : k[i].covered = cursor',
           cursor' > 0 /\ ~HasScreen(ItemsOf(k)) /\ ~HasScreen(bridge') =>
                fence.batches = <<>> \/ (cursor > 0 /\ ~HasScreen(bridge))
    PROVE  CoverInv'
<1> DEFINE b == fence.batches
           bb == fence'.batches
<1>1. /\ b \in Seq(Batch) /\ bb \in Seq(Batch) /\ Len(bb) = Len(b) + Len(k) /\ Len(b) \in Nat /\ Len(k) \in Nat
      /\ \A i \in 1..Len(b) : bb[i] = b[i]
      /\ \A i \in 1..Len(k) : bb[Len(b) + i] = k[i]
      /\ \A i \in (Len(b) + 1)..Len(bb) : i - Len(b) \in 1..Len(k) /\ bb[i] = k[i - Len(b)]
  <2>1. b \in Seq(Batch)
    BY StateType
  <2> HIDE DEF b
  <2>2. /\ b \o k \in Seq(Batch) /\ Len(b \o k) = Len(b) + Len(k) /\ Len(b) \in Nat /\ Len(k) \in Nat
        /\ \A i \in 1..Len(b) : (b \o k)[i] = b[i]
        /\ \A i \in 1..Len(k) : (b \o k)[Len(b) + i] = k[i]
    BY <2>1
  <2>3. bb = b \o k
    BY DEF b
  <2> HIDE DEF bb
  <2>4. \A i \in (Len(b) + 1)..Len(bb) : i - Len(b) \in 1..Len(k) /\ Len(b) + (i - Len(b)) = i
    BY <2>2, <2>3
  <2>5. QED
    BY <2>1, <2>2, <2>3, <2>4
<1>2. /\ \A i \in 1..Len(b) : b[i].covered \in Nat /\ b[i].items \in Seq(Item)
      /\ \A i \in 1..Len(k) : k[i].covered \in Nat /\ k[i].items \in Seq(Item)
  BY <1>1, CoveredType
<1>3. cursor' \in Nat /\ Bound(cursor)'
  <2>1. cursor' \in 0..MaxOutput
    BY DEF FenceTypeOK
  <2>2. QED
    BY <2>1, OutputBound, CursorBoundNext
<1>4. \A i \in 1..Len(bb) : i \in 1..Len(b) \/ i \in (Len(b) + 1)..Len(bb)
  BY <1>1
<1>5. ASSUME NEW i \in 1..Len(bb), NEW n, n = bb[i].covered
      PROVE  n \in Nat /\ Bound(n)'
  <2>1. CASE i \in 1..Len(b)
    <3>1. n \in Nat /\ n = b[i].covered
      BY <1>1, <1>2, <1>5, <2>1
    <3>2. QED
      BY <2>1, <3>1, OldCovered
  <2>2. CASE i \in (Len(b) + 1)..Len(bb)
    <3>1. n = cursor'
      BY <1>1, <1>5, <2>2
    <3>2. QED
      BY <1>3, <3>1 DEF Bound
  <2>3. QED
    BY <1>4, <2>1, <2>2
<1>6. ASSUME NEW i \in 1..Len(bb), LastScreenIn(i)', cursor' > 0
      PROVE  /\ \A x \in Range(bb[i].items) : x.n <= bb[i].covered
             /\ \A j \in 1..i : bb[j].covered <= bb[i].covered
  <2>1. ~HasScreen(bridge') /\ \A j \in 1..Len(bb) : j > i => ~HasScreen(bb[j].items)
    BY <1>6 DEF LastScreenIn
  <2>2. CASE i \in (Len(b) + 1)..Len(bb)
    <3>1. bb[i].covered = cursor'
      BY <1>1, <2>2
    <3>2. ASSUME NEW x \in Range(bb[i].items) PROVE x.n <= cursor'
      <4>1. x \in Range(ItemsOf(bb))
        BY <1>1, <3>2, ItemsOfRange
      <4>2. x \in Range(Held') /\ x \in Item
        BY <4>1, HeldFactsNext
      <4>3. Counted(x)' /\ x.runtime = stream'
        BY <4>2 DEF CountInv, OneRuntimeInv
      <4>4. QED
        BY <1>6, <4>3 DEF Counted, Bound
    <3>3. ASSUME NEW j \in 1..i PROVE bb[j].covered <= cursor'
      <4>1. j \in 1..Len(bb)
        BY <1>1
      <4>2. QED
        BY <1>5, <1>6, <4>1 DEF Bound
    <3>4. QED
      BY <3>1, <3>2, <3>3
  <2>3. CASE i \in 1..Len(b)
    <3>1. ~HasScreen(ItemsOf(k))
      <4>1. ASSUME NEW x \in Range(ItemsOf(k)), x.kind = "screen" PROVE FALSE
        <5>1. PICK j \in 1..Len(k) : x \in Range(k[j].items)
          BY <4>1, ItemsOfRange
        <5>2. Len(b) + j \in 1..Len(bb) /\ Len(b) + j > i
          BY <1>1, <2>3
        <5>3. ~HasScreen(k[j].items)
          BY <1>1, <2>1, <5>2
        <5>4. QED
          BY <1>2, <4>1, <5>1, <5>3, HasScreenRange
      <4>2. QED
        BY <4>1, ItemsOfType, HasScreenRange
    <3>2. cursor > 0 /\ ~HasScreen(bridge)
      <4>1. fence.batches # <<>>
        BY <2>3
      <4>2. QED
        BY <1>6, <2>1, <3>1, <4>1
    <3>3. LastScreenIn(i)
      <4>1. ASSUME NEW j \in 1..Len(b), j > i PROVE ~HasScreen(b[j].items)
        <5>1. j \in 1..Len(bb) /\ bb[j] = b[j]
          BY <1>1
        <5>2. QED
          BY <2>1, <4>1, <5>1
      <4>2. QED
        BY <3>2, <4>1 DEF LastScreenIn
    <3>4. /\ \A x \in Range(b[i].items) : x.n <= b[i].covered
          /\ \A j \in 1..i : b[j].covered <= b[i].covered
      BY <2>3, <3>2, <3>3 DEF CoverInv
    <3>5. \A j \in 1..i : j \in 1..Len(b)
      BY <1>1, <2>3
    <3>6. QED
      BY <1>1, <2>3, <3>4, <3>5
  <2>4. QED
    BY <1>4, <2>2, <2>3
<1>7. \A i \in 1..Len(fence'.batches) : Bound(fence.batches[i].covered)'
  <2>1. \A i \in 1..Len(bb) : \A n : n = bb[i].covered => Bound(n)'
    BY <1>5
  <2>2. QED
    BY <2>1 DEF Bound
<1>8. QED
  BY <1>6, <1>7 DEF CoverInv

\* A round accepted without a cause is of the stream's runtime, or the first.
LEMMA StreamSame ==
    ASSUME FenceTypeOK, RunInv, Accept, causes' = {}
    PROVE  /\ stream = 0 \/ stream = read.runtime
           /\ stream = read.runtime \/ fence.batches = <<>>
<1>1. stream = 0 \/ stream = read.runtime
  BY RoundCauses DEF Swapped
<1>2. stream = 0 => fence.batches = <<>>
  BY DEF RunInv
<1>3. QED
  BY <1>1, <1>2

\* Every step preserves CoverInv.
LEMMA CoverStep ==
    ASSUME FenceTypeOK, FenceTypeOK', RunInv, RunInv', CountInv', ShutInv, OneRuntimeInv', CoverInv,
           [FenceNext]_fenceVars
    PROVE  CoverInv'
<1>1. SUFFICES ASSUME causes' = {} PROVE CoverInv'
  BY DEF CoverInv
<1>2. causes = {}
  BY <1>1, CausesGrow
<1>3. ASSUME fence'.batches = <<>> PROVE CoverInv'
  BY <1>3 DEF CoverInv
<1>4. fence.batches \in Seq(Batch) /\ bridge \in Seq(Item) /\ cursor \in 0..MaxOutput
  BY StateType
<1>5. ASSUME fence' = fence, Accept => stream = read.runtime \/ fence.batches = <<>>,
             cursor' > 0 /\ ~HasScreen(bridge') => fence.batches = <<>> \/ (cursor > 0 /\ ~HasScreen(bridge))
      PROVE  CoverInv'
  <2> DEFINE k == <<>>
  <2>1. k \in Seq(Batch) /\ fence'.batches = fence.batches \o k /\ Len(k) = 0
    BY <1>4, <1>5, ConcatEmptySeq
  <2>2. \A i \in 1..Len(k) : k[i].covered = cursor'
    BY <2>1
  <2> HIDE DEF k
  <2>3. QED
    BY <1>1, <1>2, <1>5, <2>1, <2>2, CoverGrows
<1>6. CASE /\ UNCHANGED <<fence, bridge>> /\ (cursor' = cursor \/ cursor' = 0) /\ ~Accept
  BY <1>5, <1>6
<1>7. CASE SeedArrives /\ ~Accept
  <2>1. SeedRest /\ (SeedDropped \/ SeedTaken)
    BY <1>7, SeedCases
  <2>2. CASE SeedDropped
    BY <1>3, <2>2, DownType DEF SeedDropped
  <2>3. CASE SeedTaken
    BY <1>6, <1>7, <2>1, <2>3 DEF SeedRest, SeedTaken
  <2>4. QED
    BY <2>1, <2>2, <2>3
<1>8. CASE ProofAnswers
  BY <1>3, <1>8, ProofCases, DownType DEF ProofRest
<1>9. CASE FlushDue /\ ~Accept
  <2>1. bridge' = <<>> /\ cursor' = cursor
    BY <1>9 DEF FlushDue, loopVars
  <2>2. CASE ~fence.up /\ fence' = fence
    BY <1>3, <2>2 DEF ShutInv
  <2>3. CASE fence' = Down
    BY <1>3, <2>3, DownType
  <2> DEFINE x == [items |-> bridge, covered |-> cursor]
             k == <<x>>
  <2>4. CASE fence' = [fence EXCEPT !.batches = Append(fence.batches, x)]
    <3>1. x \in Batch /\ x.items = bridge /\ x.covered = cursor
      BY <1>4 DEF Batch
    <3> HIDE DEF x
    <3>2. k \in Seq(Batch) /\ Append(fence.batches, x) = fence.batches \o k /\ ItemsOf(k) = bridge
      BY <1>4, <3>1, ItemsOfOne
    <3>3. Len(k) = 1 /\ k[1] = x
      OBVIOUS
    <3>4. fence'.batches = fence.batches \o k
      BY <2>4, <3>2 DEF FenceTypeOK
    <3> HIDE DEF k
    <3>5. \A i \in 1..Len(k) : k[i].covered = cursor'
      BY <2>1, <3>1, <3>3
    <3>6. QED
      BY <1>1, <1>2, <1>9, <2>1, <3>2, <3>4, <3>5, CoverGrows
  <2>5. QED
    BY <1>9, <2>2, <2>3, <2>4 DEF FlushDue
<1>10. CASE ReleaseStep /\ ~Accept
  BY <1>6, <1>10 DEF ReleaseStep, loopVars
<1>11. CASE Accept
  <2>1. AcceptRest /\ (AcceptHolds \/ AcceptPaints \/ AcceptRetains \/ AcceptBreaks)
    BY <1>11, AcceptCases
  <2>2. stream = read.runtime \/ fence.batches = <<>>
    BY <1>1, <1>11, StreamSame
  <2>3. cursor' > 0 /\ ~HasScreen(Data) => cursor > 0 \/ fence.batches = <<>>
    BY <1>1, <1>11, RoundScreen
  <2>4. Data \in Seq(Item) /\ cursor' = read.next /\ read.next \in 0..MaxOutput
    BY <2>1, RoundFacts, StateType DEF AcceptRest
  <2>5. HasScreen(bridge \o Data) <=> HasScreen(bridge) \/ HasScreen(Data)
    BY <1>4, <2>4, RangeConcat
  <2>6. CASE AcceptHolds
    <3>1. fence' = fence /\ bridge' = bridge \o Data
      BY <2>6 DEF AcceptHolds
    <3>2. QED
      BY <1>5, <2>2, <2>3, <2>5, <3>1
  <2>7. CASE AcceptPaints
    BY <1>3, <2>7 DEF AcceptPaints, ShutInv
  <2>8. CASE AcceptBreaks
    BY <1>3, <2>8, DownType DEF AcceptBreaks
  <2>9. CASE AcceptRetains
    <3> DEFINE m == Len(Writes(bridge, Data))
               k == Kept(bridge, Data, m, read.next)
    <3>1. m \in 0..m /\ Cuts(bridge, Data, m, read.next)
      <4>1. m \in Nat /\ \A j \in 0..m : Cuts(bridge, Data, j, read.next)
        BY <1>4, <2>4, CutFacts
      <4> HIDE DEF m
      <4>2. QED
        BY <4>1, UpToItself, Zenon
    <3>2. /\ k \in Seq(Batch) /\ ItemsOf(k) = bridge \o Data
          /\ \A i \in 1..Len(k) : k[i].covered = read.next
      BY <3>1, Zenon DEF Cuts
    <3>3. fence'.batches = fence.batches \o k
      BY <2>9 DEF AcceptRetains, FenceTypeOK
    <3> HIDE DEF k
    <3>4. \A i \in 1..Len(k) : k[i].covered = cursor'
      BY <2>4, <3>2
    <3>5. cursor' > 0 /\ ~HasScreen(ItemsOf(k)) /\ ~HasScreen(bridge') =>
            fence.batches = <<>> \/ (cursor > 0 /\ ~HasScreen(bridge))
      BY <2>3, <2>5, <3>2
    <3>6. QED
      BY <1>1, <1>2, <2>2, <3>2, <3>3, <3>4, <3>5, CoverGrows
  <2>10. QED
    BY <2>1, <2>6, <2>7, <2>8, <2>9
<1>12. QED
  BY <1>6, <1>7, <1>8, <1>9, <1>10, <1>11
     DEF FenceNext, fenceVars, Output, Replace, Capture, CaptureFails, IssueRead, Reattach, DiscardRead,
         Remount, Ended, loopVars, paintVars

-----------------------------------------------------------------------------
(* AccountInv                                                              *)

\* What was reported stays reported.
LEMMA ReportedGrows ==
    ASSUME FenceTypeOK, RunInv, [FenceNext]_fenceVars
    PROVE  reported \subseteq reported'
<1>1. CASE SeedArrives
  <2>1. SeedDropped \/ SeedTaken
    BY <1>1, SeedCases
  <2>2. QED
    BY <2>1 DEF SeedDropped, SeedTaken
<1>2. CASE ProofAnswers
  <2>1. \E b : ProofFlush(b)
    BY <1>2, ProofCases DEF ProofCommits, ProofPasses
  <2>2. QED
    BY <2>1 DEF ProofFlush
<1>3. CASE Accept
  BY <1>3, AcceptCases DEF AcceptHolds, AcceptPaints, AcceptRetains, AcceptBreaks
<1>4. CASE ReleaseStep
  BY <1>4 DEF ReleaseStep
<1>5. CASE UNCHANGED reported
  BY <1>5
<1>6. QED
  BY <1>1, <1>2, <1>3, <1>4, <1>5
     DEF FenceNext, fenceVars, Output, Replace, Capture, CaptureFails, IssueRead, Reattach, DiscardRead,
         Remount, FlushDue, Ended, loopVars, paintVars

\* A commit: what it drops is inside the seed's screen, which then shows.
LEMMA CommitAccount ==
    ASSUME FenceTypeOK, FenceTypeOK', RunInv, ShutInv, StampInv, OneRuntimeInv, CoverInv, AccountInv,
           causes = {}, ProofRest, ProofCommits, reported \subseteq reported', NEW n \in 1..cursor
    PROVE  Accounted(n)'
<1> DEFINE s == Screen(seed.runtime, seed.n)
<1>1. /\ cursor \in Nat /\ stamp \in Nat /\ pending.seq \in Nat /\ seed.n \in Nat /\ n \in Nat /\ n >= 1
      /\ fence.batches \in Seq(Batch)
  <2>1. cursor \in Nat /\ stamp \in Nat
    BY ReadType
  <2>2. pending.seq \in Nat /\ seed.n \in Nat /\ fence.batches \in Seq(Batch)
    BY StateType, ScalarType, SMTT(60)
  <2>3. QED
    BY <2>1, <2>2
<1>2. stamp = 0 /\ pending.seq = seed.n
  BY <1>1 DEF StampInv, ProofRest, ProofCommits
<1>3. cursor > 0 /\ stream # 0
  BY <1>1 DEF RunInv
<1>4. seed.runtime = stream /\ stream' = stream /\ mounted
  BY <1>3 DEF OneRuntimeInv, ProofRest, ProofCommits
<1>5. SUFFICES \E x \in Visible(Pipeline') \cup reported' : Tells(x, stream, n)
  BY <1>4 DEF Accounted, Tells
<1>6. (\E x \in Visible(Pipeline) : Tells(x, stream, n)) \/ (\E x \in reported : Tells(x, stream, n))
  <2>1. Accounted(n)
    BY <1>4 DEF AccountInv
  <2>2. ~(n <= stamp)
    BY <1>1, <1>2
  <2>3. QED
    BY <2>1, <2>2 DEF Accounted
<1>7. /\ \A x \in Visible(Pipeline) :
            \/ x \in Visible(Pipeline') \cup reported'
            \/ DroppedLast(fence.batches, pending.seq, x) /\ ~HasScreen(bridge)
      /\ \A i \in 1..Len(fence.batches) :
            /\ ~HasScreen(bridge)
            /\ \A j \in 1..Len(fence.batches) : j > i => ~HasScreen(fence.batches[j].items)
            /\ \A j \in 1..i : fence.batches[j].covered <= pending.seq
            => s \in Visible(Pipeline') \cup reported'
  BY ProofCommitsThins
<1>8. ASSUME NEW x \in Visible(Pipeline), Tells(x, stream, n),
             DroppedLast(fence.batches, pending.seq, x), ~HasScreen(bridge)
      PROVE  \E y \in Visible(Pipeline') \cup reported' : Tells(y, stream, n)
  <2>1. PICK i \in 1..Len(fence.batches) :
               /\ x \in Range(fence.batches[i].items)
               /\ fence.batches[i].covered <= pending.seq
               /\ \A j \in 1..Len(fence.batches) : j > i => ~HasScreen(fence.batches[j].items)
    BY <1>8 DEF DroppedLast
  <2>2. LastScreenIn(i)
    BY <1>8, <2>1 DEF LastScreenIn
  <2>3. /\ x.n <= fence.batches[i].covered
        /\ \A j \in 1..i : fence.batches[j].covered <= fence.batches[i].covered
    BY <1>3, <2>1, <2>2 DEF CoverInv
  <2>4. \A j \in 1..Len(fence.batches) : fence.batches[j].covered \in Nat /\ fence.batches[j].items \in Seq(Item)
    BY <1>1, CoveredType
  <2>5. x.n \in Nat
    BY <2>1, <2>4, InRange, ItemFields
  <2>6. \A j \in 1..i : j \in 1..Len(fence.batches) /\ fence.batches[j].covered <= pending.seq
    <3>1. \A j \in 1..i : j \in 1..Len(fence.batches)
      BY <1>1
    <3>2. QED
      BY <1>1, <2>1, <2>3, <2>4, <3>1
  <2>7. s \in Visible(Pipeline') \cup reported'
    BY <1>7, <1>8, <2>1, <2>6
  <2>8. n <= x.n
    BY <1>1, <1>8, <2>5 DEF Tells
  <2>9. n <= seed.n
    BY <1>1, <1>2, <2>1, <2>3, <2>4, <2>5, <2>8
  <2>10. Tells(s, stream, n)
    BY <1>1, <1>4, <2>9 DEF Tells, Screen
  <2>11. QED
    BY <2>7, <2>10
<1>9. QED
  BY <1>6, <1>7, <1>8

\* A round: what it passes is in it, or below the stamp.
LEMMA AcceptAccount ==
    ASSUME FenceTypeOK, FenceTypeOK', RunInv, CountInv, ShutInv, AccountInv, Accept,
           causes = {}, causes' = {}, reported \subseteq reported', NEW n \in 1..cursor'
    PROVE  Accounted(n)'
<1>1. /\ cursor \in Nat /\ stamp \in Nat /\ read.next \in Nat /\ read.runtime \in Nat /\ stream \in Nat
  BY ReadType
<1>2. AcceptRest
  BY AcceptCases
<1>3. /\ read.st = "answered" /\ read.from = cursor /\ stream' = read.runtime /\ cursor' = read.next /\ mounted
  BY <1>2 DEF AcceptRest
<1>4. n \in Nat /\ n >= 1 /\ n <= read.next
  BY <1>1, <1>3
<1>5. stream = 0 \/ stream = read.runtime
  BY StreamSame
<1>6. cursor > 0 => stream = read.runtime /\ cursor <= read.next
  BY <1>1, <1>3, <1>5 DEF RunInv, ReadOK
<1>7. stamp' = stamp
  <2>1. ~Rewound
    BY <1>1, <1>6 DEF Rewound
  <2>2. QED
    BY <1>2, <2>1 DEF AcceptRest
<1>8. Pipeline \in Seq(Item) /\ Data \in Seq(Item)
  BY <1>3, HeldFacts, RoundFacts
<1>9. /\ Range(Pipeline \o Data) = Range(Pipeline) \cup Range(Data)
      /\ Visible(Pipeline \o Data) = IF HasScreen(Data) THEN Visible(Data) ELSE Visible(Pipeline) \cup Range(Data)
  BY <1>8, RangeConcat, VisibleConcat
<1>10. /\ Visible(Pipeline \o Data) \subseteq Visible(Pipeline') \cup reported'
       /\ Range(Pipeline') \subseteq Range(Pipeline \o Data)
  BY AcceptThins DEF Thins
<1>11. ASSUME NEW x \in Visible(Pipeline \o Data) \cup reported, Tells(x, read.runtime, n)
       PROVE  Accounted(n)'
  <2>1. x \in Visible(Pipeline') \/ x \in reported'
    BY <1>10
  <2>2. Tells(x, stream', n)
    BY <1>3, <1>11
  <2>3. QED
    BY <2>1, <2>2 DEF Accounted, Tells
<1>12. CASE read.whole /\ ~IsReplay
  <2> DEFINE s == Screen(read.runtime, read.next)
  <2>1. Data = <<s>>
    <3>1. read.items = <<s>> /\ Round = read.items
      BY <1>1, <1>4, <1>12 DEF IsReplay, Round, Fresh
    <3>2. QED
      BY <3>1, RoundCauses
  <2>2. HasScreen(<<s>>) /\ s.kind = "screen" /\ <<s>> \in Seq(Item) /\ Len(<<s>>) = 1 /\ <<s>>[1] = s
    BY <1>8, <2>1 DEF HasScreen, Screen
  <2>3. Tells(s, read.runtime, n)
    BY <1>1, <1>4 DEF Tells, Screen
  <2> HIDE DEF s
  <2>4. Visible(<<s>>) = {s}
    <3>1. Shows(<<s>>) = SubSeq(<<s>>, 1, Len(<<s>>))
      <4>1. 1 \in 1..Len(<<s>>) /\ \A j \in 1..Len(<<s>>) : ~(j > 1)
        BY <2>2
      <4>2. QED
        BY <2>2, <4>1, ShowsFromLast
    <3>2. SubSeq(<<s>>, 1, Len(<<s>>)) = <<s>>
      BY <2>2, SubSeqFull
    <3>3. Range(<<s>>) = {s}
      BY DEF Range
    <3>4. QED
      BY <3>1, <3>2, <3>3 DEF Visible
  <2>5. s \in Visible(Pipeline \o Data)
    BY <1>9, <2>1, <2>2, <2>4
  <2>6. QED
    BY <1>11, <2>3, <2>5
<1>13. CASE ~read.whole
  <2>1. /\ cursor > 0
        /\ \A x \in Range(Data) : \E k \in (cursor + 1)..read.next :
              x = Chunk(read.runtime, k) /\ k > stamp
        /\ \A k \in (cursor + 1)..read.next : k > stamp => Chunk(read.runtime, k) \in Range(Data)
    <3>1. Data = Round
      BY RoundCauses
    <3>2. QED
      BY <1>3, <1>13, <3>1, FreshFacts
  <2>2. stream = read.runtime
    BY <1>6, <2>1
  <2>3. \A x \in Range(Data) : x.kind = "chunk" /\ x.n > stamp
    BY <2>1 DEF Chunk
  <2>4. ~HasScreen(Data)
    BY <1>8, <2>3, HasScreenRange
  <2>5. Visible(Pipeline \o Data) = Visible(Pipeline) \cup Range(Data)
    BY <1>9, <2>4
  <2>6. Chunk(stream, stamp) \notin Range(Data)
    <3>1. Chunk(stream, stamp).n = stamp
      BY DEF Chunk
    <3>2. QED
      BY <1>1, <2>3, <3>1
  <2>7. ASSUME n <= stamp, Chunk(stream, stamp) \notin Range(Pipeline) PROVE Accounted(n)'
    <3>1. Chunk(stream, stamp) \notin Range(Pipeline')
      BY <1>9, <1>10, <2>6, <2>7
    <3>2. Chunk(stream', stamp') = Chunk(stream, stamp)
      BY <1>3, <1>7, <2>2
    <3>3. n <= stamp' /\ Chunk(stream', stamp') \notin Range(Pipeline')
      BY <1>7, <2>7, <3>1, <3>2
    <3>4. QED
      BY <3>3 DEF Accounted, Chunk
  <2>8. CASE n <= cursor
    <3>1. Accounted(n)
      BY <1>3, <1>4, <1>1, <2>8 DEF AccountInv
    <3>2. \/ \E x \in Visible(Pipeline) : Tells(x, stream, n)
          \/ \E x \in reported : Tells(x, stream, n)
          \/ n <= stamp /\ Chunk(stream, stamp) \notin Range(Pipeline)
      BY <3>1 DEF Accounted
    <3>3. QED
      BY <1>11, <2>2, <2>5, <2>7, <3>2
  <2>9. CASE ~(n <= cursor)
    <3>1. n \in (cursor + 1)..read.next
      BY <1>1, <1>4, <2>9
    <3>2. CASE n > stamp
      <4>1. Chunk(read.runtime, n) \in Range(Data)
        BY <2>1, <3>1, <3>2
      <4>2. Tells(Chunk(read.runtime, n), read.runtime, n)
        BY DEF Tells, Chunk
      <4>3. QED
        BY <1>11, <2>5, <4>1, <4>2
    <3>3. CASE ~(n > stamp)
      <4>1. n <= stamp
        BY <1>1, <1>4, <3>3
      <4>2. ASSUME Chunk(stream, stamp) \in Range(Pipeline) PROVE FALSE
        <5> DEFINE x == Chunk(stream, stamp)
        <5>1. x.kind = "chunk" /\ x.runtime = stream /\ x.n = stamp
          BY DEF Chunk
        <5>2. x \in Range(page) \/ x \in Range(Held)
          BY <4>2, HeldFacts
        <5> HIDE DEF x
        <5>3. Counted(x)
          BY <5>1, <5>2 DEF CountInv
        <5>4. stamp <= cursor
          BY <2>1, <5>1, <5>3 DEF Counted, Bound
        <5>5. QED
          BY <1>1, <1>4, <2>9, <4>1, <5>4
      <4>3. QED
        BY <2>7, <4>1, <4>2
    <3>4. QED
      BY <3>2, <3>3
  <2>10. QED
    BY <2>8, <2>9
<1>14. CASE read.whole /\ IsReplay
  <2>1. Data = [i \in 1..read.next |-> Chunk(read.runtime, i)]
    <3>1. Round = read.items
      BY <1>14 DEF Round, Fresh
    <3>2. QED
      BY <1>14, <3>1, RoundCauses
  <2>2. Chunk(read.runtime, n) \in Range(Data)
    <3>1. n \in DOMAIN Data /\ Data[n] = Chunk(read.runtime, n)
      BY <1>1, <1>4, <2>1
    <3>2. QED
      BY <3>1 DEF Range
  <2>3. ~HasScreen(Data)
    BY <2>1 DEF HasScreen, Chunk
  <2>4. Chunk(read.runtime, n) \in Visible(Pipeline \o Data)
    BY <1>9, <2>2, <2>3
  <2>5. Tells(Chunk(read.runtime, n), read.runtime, n)
    BY DEF Tells, Chunk
  <2>6. QED
    BY <1>11, <2>4, <2>5
<1>15. QED
  BY <1>12, <1>13, <1>14

\* Every step preserves AccountInv.
LEMMA AccountStep ==
    ASSUME FenceTypeOK, FenceTypeOK', RunInv, CountInv, ShutInv, StampInv, OneRuntimeInv, CoverInv,
           AccountInv, [FenceNext]_fenceVars
    PROVE  AccountInv'
<1>1. SUFFICES ASSUME causes' = {}, mounted', NEW n \in 1..cursor' PROVE Accounted(n)'
  BY DEF AccountInv
<1>2. causes = {} /\ reported \subseteq reported'
  BY <1>1, CausesGrow, ReportedGrows
<1>3. ASSUME stamp' = stamp, stream' = stream, mounted, n \in 1..cursor,
             Visible(Pipeline) \subseteq Visible(Pipeline') \cup reported',
             \A x \in Range(Pipeline') : x \in Range(Pipeline) \/ x.kind # "chunk"
      PROVE  Accounted(n)'
  <2>1. Accounted(n)
    BY <1>2, <1>3 DEF AccountInv
  <2>2. \/ \E x \in Visible(Pipeline) : Tells(x, stream, n)
        \/ \E x \in reported : Tells(x, stream, n)
        \/ n <= stamp /\ Chunk(stream, stamp) \notin Range(Pipeline)
    BY <2>1 DEF Accounted
  <2>3. Chunk(stream, stamp).kind = "chunk"
    BY DEF Chunk
  <2>4. \/ \E x \in Visible(Pipeline') : Tells(x, stream, n)
        \/ \E x \in reported' : Tells(x, stream, n)
        \/ n <= stamp /\ Chunk(stream, stamp) \notin Range(Pipeline')
    BY <1>2, <1>3, <2>2, <2>3
  <2>5. QED
    BY <1>3, <2>4 DEF Accounted, Tells, Chunk
<1>4. ASSUME Thins(Pipeline, Pipeline', reported'), stamp' = stamp, stream' = stream, mounted,
             cursor' = cursor
      PROVE  Accounted(n)'
  BY <1>3, <1>4 DEF Thins
<1>5. CASE SeedArrives
  <2>1. SeedRest /\ (SeedDropped \/ SeedTaken)
    BY <1>5, SeedCases
  <2>2. stamp' = stamp /\ stream' = stream /\ mounted /\ cursor' = cursor
    BY <2>1 DEF SeedRest
  <2>3. CASE SeedDropped
    BY <1>4, <2>1, <2>2, <2>3, SeedDroppedThins
  <2>4. CASE SeedTaken
    BY <1>3, <2>1, <2>2, <2>4, SeedTakenFlow
  <2>5. QED
    BY <2>1, <2>3, <2>4
<1>6. CASE ProofAnswers
  <2>1. ProofRest /\ (ProofCommits \/ ProofPasses)
    BY <1>6, ProofCases
  <2>2. stream' = stream /\ mounted /\ cursor' = cursor
    BY <2>1 DEF ProofRest
  <2>3. CASE ProofCommits
    BY <1>2, <2>1, <2>2, <2>3, CommitAccount
  <2>4. CASE ProofPasses
    BY <1>4, <2>1, <2>2, <2>4, ProofPassesThins DEF ProofPasses
  <2>5. QED
    BY <2>1, <2>3, <2>4
<1>7. CASE Accept
  BY <1>1, <1>2, <1>7, AcceptAccount
<1>8. CASE FlushDue
  BY <1>1, <1>4, <1>8, FlushDueThins DEF FlushDue, loopVars
<1>9. CASE ReleaseStep
  BY <1>4, <1>9, ReleaseStepThins DEF ReleaseStep, loopVars
<1>10. CASE UNCHANGED <<page, staged, fence, bridge, reported, stamp, stream, cursor, mounted>>
  <2>1. Pipeline' = Pipeline
    BY <1>10, QuietFlow
  <2>2. QED
    BY <1>1, <1>3, <1>10, <2>1
<1>11. CASE Reattach
  BY <1>1, <1>11 DEF Reattach
<1>12. CASE Remount \/ Ended
  BY <1>1, <1>12 DEF Remount, Ended, fenceVars
<1>13. QED
  BY <1>5, <1>6, <1>7, <1>8, <1>9, <1>10, <1>11, <1>12
     DEF FenceNext, fenceVars, Output, Replace, Capture, CaptureFails, IssueRead, DiscardRead,
         loopVars, paintVars

-----------------------------------------------------------------------------
(* The invariant holds                                                     *)

\* The initial states satisfy the invariant.
LEMMA FenceInitInv == FenceInit => FenceInv
<1> SUFFICES ASSUME FenceInit PROVE FenceInv
  OBVIOUS
<1>1. FenceTypeOK
  BY FenceInitType
<1>2. /\ runtime = 1 /\ output = 0 /\ cursor = 0 /\ read.st = "none" /\ stream = 0 /\ stamp = 0 /\ pending.seq = 0
      /\ page = <<>> /\ staged = <<>> /\ bridge = <<>> /\ fence.up = TRUE /\ fence.batches = <<>>
      /\ seed.st = "fetching" /\ seed.seq = 0 /\ seed.wrote = FALSE
  BY DEF FenceInit, NoRead, Unstamped
<1>3. Pipeline = <<>> /\ Range(Held) = {} /\ Range(page) = {} /\ Ordered(Pipeline)
  <2>1. <<>> \in Seq(Item) /\ <<>> \in Seq(Batch)
    BY EmptyItems
  <2>2. Pipeline = <<>>
    BY <1>2, <2>1, UnstagedFlow DEF Pipeline
  <2>3. Range(Held) \subseteq Range(Pipeline)
    BY <1>1, HeldFacts
  <2>4. QED
    BY <1>2, <2>2, <2>3, EmptyItems
<1>4. RunInv
  BY <1>2 DEF RunInv
<1>5. CountInv /\ OneRuntimeInv
  BY <1>2, <1>3 DEF CountInv, OneRuntimeInv
<1>6. ShutInv
  BY <1>2 DEF ShutInv
<1>7. StampInv
  BY <1>2 DEF StampInv
<1>8. SeenInv
  BY <1>2 DEF SeenInv
<1>9. OrderInv
  BY <1>3 DEF OrderInv
<1>10. CoverInv /\ AccountInv
  BY <1>2 DEF CoverInv, AccountInv
<1>11. QED
  BY <1>1, <1>4, <1>5, <1>6, <1>7, <1>8, <1>9, <1>10 DEF FenceInv

\* Every step preserves the invariant.
LEMMA FenceStepInv == FenceInv /\ [FenceNext]_fenceVars => FenceInv'
<1> SUFFICES ASSUME FenceInv, [FenceNext]_fenceVars PROVE FenceInv'
  OBVIOUS
<1>1. /\ FenceTypeOK /\ RunInv /\ CountInv /\ ShutInv /\ StampInv
      /\ OneRuntimeInv /\ SeenInv /\ OrderInv /\ CoverInv /\ AccountInv
  BY DEF FenceInv
<1>2. FenceTypeOK'
  BY <1>1, FenceTypeStep
<1>3. RunInv' /\ CountInv' /\ ShutInv' /\ StampInv'
  BY <1>1, <1>2, RunStep, CountStep, ShutStep, StampStep
<1>4. OneRuntimeInv'
  BY <1>1, <1>2, OneRuntimeStep
<1>5. SeenInv'
  BY <1>1, <1>2, <1>4, SeenStep
<1>6. OrderInv'
  BY <1>1, <1>2, OrderStep
<1>7. CoverInv'
  BY <1>1, <1>2, <1>3, <1>4, CoverStep
<1>8. AccountInv'
  BY <1>1, <1>2, AccountStep
<1>9. QED
  BY <1>2, <1>3, <1>4, <1>5, <1>6, <1>7, <1>8 DEF FenceInv

\* The invariant holds of every reachable state of the mount loop.
THEOREM FenceInvariance == FenceSpec => []FenceInv
BY FenceInitInv, FenceStepInv, PTL DEF FenceSpec

\* Type correctness of the mount loop: whatever the daemon answers and whichever
\* flush fails, its cursor and stamps stay numbers the daemon has given out, and
\* what it holds, paints or reports is output of a runtime.
THEOREM FenceTypeCorrect == FenceSpec => []FenceTypeOK
<1>1. FenceInv => FenceTypeOK
  BY DEF FenceInv
<1>2. QED
  BY <1>1, FenceInvariance, PTL

\* synth_output_fence_stage, the write bridge and the staged release never
\* reorder or repeat a chunk on the page, for any number of runtimes, chunks and
\* re-attaches: unless a live write overtook a staged release, or a re-attach was
\* answered with the retained chunks and no screen.
THEOREM OrderIsKept == FenceSpec => []OrderKept
<1>1. FenceInv => OrderKept
  <2> SUFFICES ASSUME FenceInv, causes \intersect {"overtaken release", "repeated replay"} = {}, NEW i \in DOMAIN page, NEW j \in DOMAIN page,
                      i < j, page[i].kind = "chunk", page[j].kind = "chunk",
                      page[i].runtime = page[j].runtime
               PROVE  page[i].n < page[j].n
    BY DEF OrderKept
  <2>1. Ordered(Pipeline) /\ FenceTypeOK
    BY DEF FenceInv, OrderInv
  <2>2. page \in Seq(Item) /\ Held \in Seq(Item) /\ Pipeline = page \o Held
    BY <2>1, StateType, HeldFacts
  <2>3. Ordered(page)
    BY <2>1, <2>2, OrderedConcat
  <2>4. QED
    BY <2>3 DEF Ordered, Precedes
<1>2. QED
  BY <1>1, FenceInvariance, PTL

\* drop_seed_covered and the post-seed dedupe lose no output, for any number of
\* runtimes, chunks and re-attaches: every chunk the cursor has passed is shown,
\* held or was reported, unless one of the recorded causes happened.
THEOREM NothingIsLost == FenceSpec => []NothingLost
<1>1. FenceInv => NothingLost
  <2> SUFFICES ASSUME FenceInv, causes = {}, mounted, NEW n \in 1..cursor
               PROVE  \/ Carries(page, stream, n)
                      \/ Carries(ItemsOf(fence.batches), stream, n)
                      \/ Carries(bridge, stream, n)
                      \/ Carries(ItemsOf(staged), stream, n)
                      \/ \E i \in reported : Carries(<<i>>, stream, n)
    BY DEF NothingLost, AllAccounted
  <2>1. FenceTypeOK /\ RunInv /\ StampInv /\ OneRuntimeInv /\ SeenInv /\ Accounted(n)
    BY DEF FenceInv, AccountInv
  <2>2. /\ page \in Seq(Item) /\ bridge \in Seq(Item) /\ ItemsOf(fence.batches) \in Seq(Item)
        /\ ItemsOf(staged) \in Seq(Item) /\ Pipeline \in Seq(Item)
    BY <2>1, StateType, ItemsOfType, HeldFacts
  <2>3. Range(Pipeline) = Range(page) \cup Range(ItemsOf(staged)) \cup Range(ItemsOf(fence.batches)) \cup Range(bridge)
    BY <2>1, HeldFacts
  <2>4. CASE \E x \in Visible(Pipeline) : Tells(x, stream, n)
    <3>1. \E x \in Range(Pipeline) : Tells(x, stream, n)
      BY <2>2, <2>4, ShowsType
    <3>2. QED
      BY <2>2, <2>3, <3>1, CarriesTells
  <2>5. CASE \E x \in reported : Tells(x, stream, n)
    <3>1. PICK x \in reported : Tells(x, stream, n)
      BY <2>5
    <3>2. Carries(<<x>>, stream, n)
      BY <3>1 DEF Carries, Tells
    <3>3. QED
      BY <3>2
  <2>6. CASE n <= stamp /\ Chunk(stream, stamp) \notin Range(Pipeline)
    <3>1. cursor \in Nat /\ stamp \in Nat /\ n \in Nat /\ n >= 1 /\ cursor > 0
      <4>1. cursor \in Nat /\ stamp \in Nat
        BY <2>1, ReadType
      <4>2. QED
        BY <4>1
    <3>2. stamp > 0 /\ stamp = seed.n /\ stream # 0
      BY <2>1, <2>6, <3>1 DEF StampInv, RunInv
    <3>3. seed.runtime = stream
      BY <2>1, <3>2 DEF OneRuntimeInv
    <3>4. PICK x \in Range(page) : Tells(x, stream, stamp)
      BY <2>1, <3>2, <3>3 DEF SeenInv
    <3>5. x \in Item /\ x \in Range(Pipeline)
      BY <2>2, <2>3, InRange
    <3>6. x.kind # "chunk"
      <4>1. ASSUME x.kind = "chunk" PROVE x = Chunk(stream, stamp)
        BY <3>4, <3>5, <4>1 DEF Tells, Chunk, Item
      <4>2. QED
        BY <2>6, <3>5, <4>1
    <3>7. x.n \in Nat
      BY <3>5, ItemFields
    <3>8. Tells(x, stream, n)
      BY <2>6, <3>1, <3>4, <3>6, <3>7 DEF Tells
    <3>9. QED
      BY <2>2, <3>8, CarriesTells
  <2>7. QED
    BY <2>1, <2>4, <2>5, <2>6 DEF Accounted
<1>2. QED
  BY <1>1, FenceInvariance, PTL
=============================================================================
