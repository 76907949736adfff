------------------------- MODULE SocketNamesProofs -------------------------
(***************************************************************************)
(* Proofs about SocketNames, for any daemons, versions and bounds.         *)
(***************************************************************************)
EXTENDS SocketNames, TLAPS

-----------------------------------------------------------------------------
(* The inductive invariant.                                                *)

\* The process has taken a lock and has not let it go
HasLock(d) == pc[d] \in {"locked", "unanswered", "unlinked", "bound", "serving", "leaving"}

\* What a process has not started with, it does not have
Started == \A d \in Daemons :
    /\ pc[d] # "off" => version[d] \in Versions
    /\ pc[d] = "opened" => opened[d] # NoDaemon
    /\ pc[d] \in {"off", "opened"} =>
          /\ doomed[d] = 0 /\ todo[d] = {} /\ ~cleared[d]
          /\ bound[d] = Missing /\ ~judged[d] /\ bequest[d] = "none"
          /\ holds[d] = NoDaemon /\ retiredLock[d] = NoDaemon

\* The lock file a daemon will create is none that exists
FreshInodes == \A d \in Daemons : pc[d] = "off" =>
    /\ \A e \in Daemons : opened[e] # d /\ holds[e] # d /\ retiredLock[e] # d
    /\ \A v \in Versions : lock[v] # d

\* No two processes hold the flock of one inode
Exclusive == \A d, e \in Daemons : holds[d] = holds[e] /\ holds[d] # NoDaemon => d = e

\* Whoever has a lock has one
Holding == \A d \in Daemons : HasLock(d) => holds[d] # NoDaemon

\* The inode a daemon holds stands at the lock name of its version, or at
\* its retired name when it has one, unless it was taken from there
LockIsFound == \A d \in Daemons \ lost : HasLock(d) =>
    holds[d] = IF retiredLock[d] = NoDaemon THEN lock[version[d]] ELSE retiredLock[d]

LockInv ==
    /\ FreshInodes
    /\ Exclusive
    /\ Holding
    /\ LockIsFound

IInv == TypeOK /\ Started /\ LockInv

-----------------------------------------------------------------------------
(* Directory entries.                                                      *)

\* The kinds of entries, and that a real file is one of a known socket.
LEMMA EntryFacts ==
    /\ Missing \in Entries
    /\ \A v \in Versions : Link(v) \in Entries
    /\ \A d \in Daemons, n \in 0 .. MaxRebinds : Socket(d, n) \in Sockets
    /\ Socket(NoDaemon, 0) \in Entries
    /\ Sockets \subseteq Entries
    /\ \A e \in Entries : e.kind = "socket" => e \in Sockets
<1>1. Missing \in Entries /\ Sockets \subseteq Entries
  BY DEF Entries
<1>2. \A v \in Versions : Link(v) \in Entries
  BY DEF Entries
<1>3. \A d \in Daemons \cup {NoDaemon}, n \in 0 .. MaxRebinds : Socket(d, n) \in Sockets
  BY DEF Sockets
<1>4. Socket(NoDaemon, 0) \in Sockets
  BY <1>3, RebindBound
<1>5. ASSUME NEW e \in Entries, e.kind = "socket" PROVE e \in Sockets
  <2>1. Missing.kind # "socket"
    BY DEF Missing
  <2>2. \A v \in Versions : Link(v).kind # "socket"
    BY DEF Link
  <2>3. QED
    BY <1>5, <2>1, <2>2 DEF Entries
<1>6. QED
  BY <1>1, <1>2, <1>3, <1>4, <1>5

\* Versions are positive.
LEMMA VersionFacts ==
    /\ Versions \subseteq 0 .. MaxVersion
    /\ 0 \notin Versions
BY VersionsAssumption DEF Versions

-----------------------------------------------------------------------------
(* Types.                                                                  *)

LEMMA InitType == Init => TypeOK
<1> SUFFICES ASSUME Init PROVE TypeOK
  OBVIOUS
<1>1. name \in [Versions -> Entries]
  BY EntryFacts DEF Init
<1>2. sighted \subseteq ({"name", "lock"} \X Versions) \cup ({"owner"} \X Daemons)
  BY InstalledAssumption DEF Init
<1>3. retired \in [Daemons -> Entries]
  BY EntryFacts DEF Init
<1>4. sweep \in [by : Daemons \cup {NoDaemon}, census : SUBSET Versions]
  BY DEF Init
<1>5. 0 \in 0 .. MaxVersion /\ 0 \in 0 .. MaxRebinds
      /\ 0 \in 0 .. MaxBequests /\ 0 \in 0 .. MaxDisturbances
  BY VersionsAssumption, RebindBound, DisturbanceBound
<1>6. QED
  BY <1>1, <1>2, <1>3, <1>4, <1>5 DEF Init, TypeOK

\* A process's end keeps the types of what it resets.
LEMMA EndsType ==
    ASSUME TypeOK, NEW d \in Daemons, Ends(d),
           UNCHANGED <<fileVars, sighted, client, bequests, lost>>,
           disturbances' \in 0 .. MaxDisturbances
    PROVE  TypeOK'
BY VersionsAssumption, RebindBound DEF TypeOK, Ends, fileVars

USE DEF startVars, fileVars, threadVars, aliasVars, sweepVars, historyVars

LEMMA OpenLockType ==
    ASSUME TypeOK, Started, NEW d \in Daemons, NEW v \in Versions, OpenLock(d, v)
    PROVE  TypeOK'
<1>1. lock' \in [Versions -> Daemons \cup {NoDaemon}]
  BY DEF TypeOK, OpenLock
<1>2. opened' \in [Daemons -> Daemons \cup {NoDaemon}]
  BY <1>1 DEF TypeOK, OpenLock
<1>3. QED
  BY <1>1, <1>2, VersionFacts DEF TypeOK, OpenLock

LEMMA FlockLockType ==
    ASSUME TypeOK, Started, NEW d \in Daemons, FlockLock(d) \/ FlockBusy(d)
    PROVE  TypeOK'
<1>1. CASE FlockLock(d)
  BY <1>1 DEF TypeOK, FlockLock
<1>2. CASE FlockBusy(d)
  <2>1. disturbances' \in 0 .. MaxDisturbances
    BY <1>2 DEF FlockBusy, TypeOK
  <2>2. QED
    BY <1>2, <2>1, EndsType DEF FlockBusy
<1>3. QED
  BY <1>1, <1>2

LEMMA PingType ==
    ASSUME TypeOK, Started, NEW d \in Daemons, PingAnswered(d) \/ PingUnanswered(d)
    PROVE  TypeOK'
<1>1. CASE PingAnswered(d)
  <2>1. disturbances' \in 0 .. MaxDisturbances
    BY <1>1 DEF PingAnswered, TypeOK
  <2>2. QED
    BY <1>1, <2>1, EndsType DEF PingAnswered
<1>2. CASE PingUnanswered(d)
  BY <1>2 DEF TypeOK, PingUnanswered
<1>3. QED
  BY <1>1, <1>2

LEMMA BindType ==
    ASSUME TypeOK, Started, NEW d \in Daemons, UnlinkStale(d) \/ Bind(d) \/ BindFails(d)
    PROVE  TypeOK'
<1>1. CASE UnlinkStale(d)
  BY <1>1, EntryFacts DEF TypeOK, UnlinkStale
<1>2. CASE Bind(d)
  <2>1. Socket(d, 0) \in Entries
    BY EntryFacts, RebindBound
  <2>2. version[d] \in Versions
    BY <1>2 DEF Bind, Started
  <2>3. name' \in [Versions -> Entries]
    BY <1>2, <2>1, <2>2 DEF Bind, TypeOK
  <2>4. Listening \cup {version[d]} \subseteq Versions
    <3>1. Listening \subseteq Versions
      BY DEF Listening, Open, Alive, Started
    <3>2. QED
      BY <3>1, <2>2
  <2>5. PICK found \in SUBSET Versions : census' = [census EXCEPT ![d] = found]
    BY <1>2, <2>4 DEF Bind
  <2>6. census' \in [Daemons -> SUBSET Versions]
    BY <2>5 DEF TypeOK
  <2>7. QED
    BY <1>2, <2>3, <2>6 DEF Bind, TypeOK
<1>3. CASE BindFails(d)
  <2>1. disturbances' \in 0 .. MaxDisturbances
    BY <1>3 DEF BindFails, TypeOK
  <2>2. QED
    BY <1>3, <2>1, EndsType DEF BindFails
<1>4. QED
  BY <1>1, <1>2, <1>3

LEMMA AliasType ==
    ASSUME TypeOK, Started, NEW d \in Daemons,
           AliasJudge(d) \/ AliasUnlink(d) \/ AliasRepoint(d)
    PROVE  TypeOK'
<1>1. CASE AliasJudge(d)
  <2>1. PICK v \in todo[d] :
          /\ todo' = [todo EXCEPT ![d] = @ \ {v}]
          /\ \E w \in {0, v} : doomed' = [doomed EXCEPT ![d] = w]
          /\ UNCHANGED <<startVars, fileVars, bequest, threadVars, cleared, census, sweepVars,
                         client, historyVars>>
    BY <1>1 DEF AliasJudge
  <2>2. v \in 0 .. MaxVersion
    BY VersionFacts DEF TypeOK
  <2>3. QED
    BY <2>1, <2>2, VersionFacts, VersionsAssumption DEF TypeOK
<1>2. CASE AliasUnlink(d)
  <2>1. name' \in [Versions -> Entries]
    BY <1>2, EntryFacts DEF AliasUnlink, TypeOK
  <2>2. cleared' \in [Daemons -> BOOLEAN]
    BY <1>2 DEF AliasUnlink, TypeOK
  <2>3. QED
    BY <1>2, <2>1, <2>2 DEF AliasUnlink, TypeOK
<1>3. CASE AliasRepoint(d)
  <2>1. version[d] \in Versions
    BY <1>3 DEF AliasRepoint, Started
  <2>2. Link(version[d]) \in Entries
    BY <2>1, EntryFacts
  <2>3. name' \in [Versions -> Entries]
    BY <1>3, <2>2 DEF AliasRepoint, TypeOK
  <2>4. doomed' \in [Daemons -> 0 .. MaxVersion]
    BY <1>3, VersionsAssumption DEF AliasRepoint, TypeOK
  <2>5. cleared' \in [Daemons -> BOOLEAN]
    BY <1>3 DEF AliasRepoint, TypeOK
  <2>6. QED
    BY <1>3, <2>3, <2>4, <2>5 DEF AliasRepoint, TypeOK
<1>4. QED
  BY <1>1, <1>2, <1>3

LEMMA ServeType ==
    ASSUME TypeOK, Started, NEW d \in Daemons, Serve(d)
    PROVE  TypeOK'
<1>1. name[version[d]] \in Entries
  BY DEF Serve, Started, TypeOK
<1>2. PICK e \in {Missing} \cup Sockets : bound' = [bound EXCEPT ![d] = e]
  BY <1>1, EntryFacts DEF Serve
<1>3. bound' \in [Daemons -> {Missing} \cup Sockets]
  BY <1>2 DEF TypeOK
<1>4. QED
  BY <1>3 DEF Serve, TypeOK

LEMMA LeaveType ==
    ASSUME TypeOK, Started, NEW d \in Daemons, Retire(d) \/ LeaveAlias(d)
    PROVE  TypeOK'
<1>1. CASE Retire(d)
  <2>1. name' \in [Versions -> Entries]
    BY <1>1, EntryFacts DEF Retire, TypeOK
  <2>2. QED
    BY <1>1, <2>1 DEF Retire, TypeOK
<1>2. CASE LeaveAlias(d)
  <2>1. name' \in [Versions -> Entries]
    BY <1>2, EntryFacts DEF LeaveAlias, TypeOK
  <2>2. QED
    BY <1>2, <2>1 DEF LeaveAlias, TypeOK
<1>3. QED
  BY <1>1, <1>2

LEMMA ExitType ==
    ASSUME TypeOK, Started, NEW d \in Daemons, Exit(d) \/ Crash(d)
    PROVE  TypeOK'
<1>1. disturbances' \in 0 .. MaxDisturbances
  BY DisturbanceBound DEF Exit, Crash, Disturbs, TypeOK
<1>2. QED
  BY <1>1, EndsType DEF Exit, Crash

LEMMA BequestType ==
    ASSUME TypeOK, Started, NEW d \in Daemons, Bequest(d)
    PROVE  TypeOK'
<1>0. CASE BequeathJudge(d)
  <2>1. bequests' \in 0 .. MaxBequests
    BY <1>0, DisturbanceBound DEF BequeathJudge, TypeOK
  <2>2. QED
    BY <1>0, <2>1 DEF BequeathJudge, TypeOK
<1>1. CASE BequeathLock(d)
  <2>1. lock[version[d]] \in Daemons \cup {NoDaemon}
    BY <1>1 DEF BequeathLock, TypeOK, Started
  <2>2. /\ lock' \in [Versions -> Daemons \cup {NoDaemon}]
        /\ retiredLock' \in [Daemons -> Daemons \cup {NoDaemon}]
    BY <1>1, <2>1 DEF BequeathLock, TypeOK
  <2>3. /\ bequest' \in [Daemons -> {"none", "judged", "lock", "names", "settled"}]
        /\ lost' \subseteq Daemons
    BY <1>1 DEF BequeathLock, TypeOK
  <2>4. QED
    BY <1>1, <2>2, <2>3 DEF BequeathLock, TypeOK
<1>2. CASE BequeathSocket(d)
  <2>1. name[version[d]] \in Entries
    BY <1>2 DEF BequeathSocket, TypeOK, Started
  <2>2. name' \in [Versions -> Entries] /\ retired' \in [Daemons -> Entries]
    BY <1>2, <2>1, EntryFacts, SMTT(60) DEF BequeathSocket, TypeOK
  <2>3. QED
    BY <1>2, <2>2 DEF BequeathSocket, TypeOK
<1>3. CASE SpawnLands(d)
  BY <1>3 DEF SpawnLands, TypeOK
<1>4. CASE SpawnFails(d)
  <2>1. name' \in [Versions -> Entries] /\ retired' \in [Daemons -> Entries]
    BY <1>4, EntryFacts DEF SpawnFails, TypeOK
  <2>2. lock' \in [Versions -> Daemons \cup {NoDaemon}]
    BY <1>4 DEF SpawnFails, TypeOK
  <2>3. QED
    BY <1>4, <2>1, <2>2 DEF SpawnFails, TypeOK
<1>5. QED
  BY <1>0, <1>1, <1>2, <1>3, <1>4 DEF Bequest

LEMMA ThreadType ==
    ASSUME TypeOK, Started, NEW d \in Daemons, Thread(d)
    PROVE  TypeOK'
<1>1. CASE ReclaimJudge(d)
  BY <1>1 DEF ReclaimJudge, TypeOK
<1>2. CASE ReclaimBind(d)
  <2>1. CASE UNCHANGED <<name, bound, reclaimed>>
    BY <1>2, <2>1 DEF ReclaimBind, TypeOK
  <2>2. CASE ~UNCHANGED <<name, bound, reclaimed>>
    <3>1. PICK n \in Unused(d) :
            /\ name' = [name EXCEPT ![version[d]] = Socket(d, n)]
            /\ bound' = [bound EXCEPT ![d] = Socket(d, n)]
            /\ reclaimed' = [reclaimed EXCEPT ![d] = n]
      BY <1>2, <2>2 DEF ReclaimBind
    <3>2. n \in 0 .. MaxRebinds
      BY RebindBound DEF Unused
    <3>3. Socket(d, n) \in Sockets /\ Socket(d, n) \in Entries
      BY <3>2, EntryFacts
    <3>4. QED
      BY <1>2, <3>1, <3>2, <3>3 DEF ReclaimBind, TypeOK
  <2>3. QED
    BY <2>1, <2>2
<1>3. CASE LingerBind(d)
  BY <1>3 DEF LingerBind, TypeOK
<1>4. CASE AcceptFails(d)
  <2>1. disturbances' \in 0 .. MaxDisturbances
    BY <1>4, DisturbanceBound DEF AcceptFails, Disturbs, TypeOK
  <2>2. reclaimed' = [reclaimed EXCEPT ![d] = 0] \/ reclaimed' = reclaimed
    BY <1>4 DEF AcceptFails
  <2>3. lingering' = [lingering EXCEPT ![d] = FALSE] \/ lingering' = lingering
    BY <1>4 DEF AcceptFails
  <2>4. reclaimed' \in [Daemons -> 0 .. MaxRebinds]
    BY <2>2, RebindBound DEF TypeOK
  <2>5. lingering' \in [Daemons -> BOOLEAN]
    BY <2>3 DEF TypeOK
  <2>6. QED
    BY <1>4, <2>1, <2>4, <2>5 DEF AcceptFails, TypeOK
<1>5. QED
  BY <1>1, <1>2, <1>3, <1>4 DEF Thread

LEMMA SweepBeginType ==
    ASSUME TypeOK, Started, NEW d \in Daemons, SweepBegin(d)
    PROVE  TypeOK'
<1>1. disturbances' \in 0 .. MaxDisturbances
  BY DisturbanceBound DEF SweepBegin, Disturbs, TypeOK
<1>2. Listening \subseteq Versions
  BY DEF Listening, Open, Alive, Started
<1>3. PICK found \in SUBSET Versions : sweep' = [by |-> d, census |-> found]
  BY <1>2 DEF SweepBegin, Gathered
<1>4. sweep' \in [by : Daemons \cup {NoDaemon}, census : SUBSET Versions]
  BY <1>3
<1>5. QED
  BY <1>1, <1>4 DEF SweepBegin, TypeOK

LEMMA SweepApplyType ==
    ASSUME TypeOK, NEW d \in Daemons, SweepApply(d)
    PROVE  TypeOK'
<1> DEFINE dead == {<<"name", v>> : v \in {w \in Versions : DeadName(w)}}
                   \cup {<<"lock", v>> : v \in {w \in Versions : DeadLock(w)}}
                   \cup {<<"owner", e>> : e \in {f \in Daemons : DeadOwner(f)}}
<1>1. PICK old :
        /\ name' = [v \in Versions |-> IF <<"name", v>> \in old THEN Missing ELSE name[v]]
        /\ lock' = [v \in Versions |-> IF <<"lock", v>> \in old THEN NoDaemon ELSE lock[v]]
        /\ retired' = [e \in Daemons |-> IF <<"owner", e>> \in old THEN Missing ELSE retired[e]]
        /\ retiredLock' =
              [e \in Daemons |-> IF <<"owner", e>> \in old THEN NoDaemon ELSE retiredLock[e]]
        /\ linger' = [e \in Daemons |-> linger[e] /\ <<"owner", e>> \notin old]
        /\ sighted' = dead \ old
  BY DEF SweepApply
<1>2. dead \subseteq ({"name", "lock"} \X Versions) \cup ({"owner"} \X Daemons)
  OBVIOUS
<1> HIDE DEF dead
<1>3. /\ sweep' = [by |-> NoDaemon, census |-> {}]
      /\ UNCHANGED <<startVars, bequest, threadVars, aliasVars, client, bequests, disturbances>>
      /\ lost' \subseteq Daemons
  BY DEF SweepApply, TypeOK
<1>4. name' \in [Versions -> Entries] /\ retired' \in [Daemons -> Entries]
  BY <1>1, EntryFacts DEF TypeOK
<1>5. /\ lock' \in [Versions -> Daemons \cup {NoDaemon}]
      /\ retiredLock' \in [Daemons -> Daemons \cup {NoDaemon}]
      /\ linger' \in [Daemons -> BOOLEAN]
  BY <1>1 DEF TypeOK
<1>6. sighted' \subseteq ({"name", "lock"} \X Versions) \cup ({"owner"} \X Daemons)
  BY <1>1, <1>2
<1>7. sweep' \in [by : Daemons \cup {NoDaemon}, census : SUBSET Versions]
  BY <1>3
<1>8. QED
  BY <1>3, <1>4, <1>5, <1>6, <1>7 DEF TypeOK

LEMMA UnlinkerType ==
    ASSUME TypeOK, (\E v \in Versions : ClientJudge(v)) \/ ClientUnlink \/ ClearUnanswered
    PROVE  TypeOK'
<1>1. ASSUME NEW v \in Versions, ClientJudge(v) PROVE TypeOK'
  <2>1. disturbances' \in 0 .. MaxDisturbances /\ v \in 0 .. MaxVersion
    BY <1>1, DisturbanceBound, VersionFacts DEF ClientJudge, Disturbs, TypeOK
  <2>2. QED
    BY <1>1, <2>1 DEF ClientJudge, TypeOK
<1>2. CASE ClientUnlink
  <2>1. name' \in [Versions -> Entries]
    BY <1>2, EntryFacts DEF ClientUnlink, TypeOK
  <2>2. client' \in 0 .. MaxVersion
    BY <1>2, VersionsAssumption DEF ClientUnlink
  <2>3. QED
    BY <1>2, <2>1, <2>2 DEF ClientUnlink, TypeOK
<1>3. CASE ClearUnanswered
  <2>1. disturbances' \in 0 .. MaxDisturbances
    BY <1>3, DisturbanceBound DEF ClearUnanswered, Disturbs, TypeOK
  <2>2. (\E v \in Versions : name' = [name EXCEPT ![v] = Missing]) \/ name' = name
    BY <1>3 DEF ClearUnanswered
  <2>3. (\E d \in Daemons : linger' = [linger EXCEPT ![d] = FALSE]) \/ linger' = linger
    BY <1>3 DEF ClearUnanswered
  <2>4. name' \in [Versions -> Entries]
    BY <2>2, EntryFacts DEF TypeOK
  <2>5. linger' \in [Daemons -> BOOLEAN]
    BY <2>3 DEF TypeOK
  <2>6. QED
    BY <1>3, <2>1, <2>4, <2>5 DEF ClearUnanswered, TypeOK
<1>4. QED
  BY <1>1, <1>2, <1>3

-----------------------------------------------------------------------------
(* What has not started has nothing, and where the lock files are.         *)

\* Steps that leave every lock file and every holder alone, and start no
\* process and take no lock.
LEMMA LocksKept ==
    ASSUME LockInv, UNCHANGED <<version, opened, holds, lock, retiredLock, lost>>,
           \A d \in Daemons : (pc'[d] = "off" => pc[d] = "off") /\ (HasLock(d)' => HasLock(d))
    PROVE  LockInv'
BY DEF LockInv, FreshInodes, Exclusive, Holding, LockIsFound, HasLock

\* The end of a process frees its lock and touches no lock file.
LEMMA EndsLocks ==
    ASSUME TypeOK, Started, LockInv, NEW d \in Daemons, pc[d] # "off", Ends(d),
           UNCHANGED <<fileVars, lost>>
    PROVE  Started' /\ LockInv'
<1>1. /\ pc' = [pc EXCEPT ![d] = "dead"]
      /\ opened' = [opened EXCEPT ![d] = NoDaemon]
      /\ holds' = [holds EXCEPT ![d] = NoDaemon]
      /\ UNCHANGED <<version, lock, retiredLock, lost>>
  BY DEF Ends
<1>2. Started'
  BY <1>1 DEF Started, Ends, TypeOK
<1>3. FreshInodes'
  BY <1>1, NoDaemonAssumption DEF FreshInodes, LockInv, TypeOK
<1>4. Exclusive'
  BY <1>1 DEF Exclusive, LockInv, TypeOK
<1>5. Holding' /\ LockIsFound'
  BY <1>1 DEF Holding, LockIsFound, LockInv, HasLock, TypeOK
<1>6. QED
  BY <1>2, <1>3, <1>4, <1>5 DEF LockInv

\* Opening the lock file: a new inode is the process's own.
LEMMA OpenLockLocks ==
    ASSUME TypeOK, Started, LockInv, NEW d \in Daemons, NEW v \in Versions, OpenLock(d, v)
    PROVE  Started' /\ LockInv'
<1>1. /\ pc[d] = "off"
      /\ pc' = [pc EXCEPT ![d] = "opened"]
      /\ version' = [version EXCEPT ![d] = v]
      /\ lock' = [lock EXCEPT ![v] = IF @ = NoDaemon THEN d ELSE @]
      /\ opened' = [opened EXCEPT ![d] = lock'[v]]
      /\ UNCHANGED <<holds, retiredLock, lost, doomed, cleared, todo, bound, judged,
                     bequest>>
  BY DEF OpenLock
<1>2. lock'[v] # NoDaemon /\ opened'[d] = lock'[v]
  BY <1>1, NoDaemonAssumption DEF TypeOK
<1>3. Started'
  BY <1>1, <1>2 DEF Started, TypeOK
<1>4. FreshInodes'
  BY <1>1, <1>2, NoDaemonAssumption DEF FreshInodes, LockInv, TypeOK
<1>5. Exclusive' /\ Holding'
  BY <1>1 DEF Exclusive, Holding, HasLock, LockInv, TypeOK
<1>6. LockIsFound'
  BY <1>1 DEF LockIsFound, LockInv, Holding, HasLock, Started, TypeOK
<1>7. QED
  BY <1>3, <1>4, <1>5, <1>6 DEF LockInv

\* Taking the flock: nobody held the inode, and it stands at the name still
\* or the daemon is one that lost its lock.
LEMMA FlockLockLocks ==
    ASSUME TypeOK, Started, LockInv, NEW d \in Daemons, FlockLock(d)
    PROVE  Started' /\ LockInv'
<1>1. /\ pc[d] = "opened"
      /\ pc' = [pc EXCEPT ![d] = "locked"]
      /\ holds' = [holds EXCEPT ![d] = opened[d]]
      /\ opened' = [opened EXCEPT ![d] = NoDaemon]
      /\ lost' = IF lock[version[d]] = opened[d] THEN lost ELSE lost \cup {d}
      /\ UNCHANGED <<version, lock, retiredLock, doomed, cleared, todo, bound, judged, bequest>>
  BY DEF FlockLock
<1>2. /\ opened[d] # NoDaemon /\ retiredLock[d] = NoDaemon
      /\ \A e \in Daemons : holds[e] # opened[d]
  BY <1>1 DEF FlockLock, Held, Holds, Started
<1>3. Started'
  BY <1>1 DEF Started, TypeOK
<1>4. FreshInodes'
  BY <1>1, NoDaemonAssumption DEF FreshInodes, LockInv, TypeOK
<1>5. Exclusive' /\ Holding'
  BY <1>1, <1>2 DEF Exclusive, Holding, HasLock, LockInv, TypeOK
<1>6. LockIsFound'
  BY <1>1, <1>2 DEF LockIsFound, LockInv, HasLock, TypeOK
<1>7. QED
  BY <1>3, <1>4, <1>5, <1>6 DEF LockInv

\* The accept loop's end frees the lock.
LEMMA RetireLocks ==
    ASSUME TypeOK, Started, LockInv, NEW d \in Daemons, Retire(d)
    PROVE  Started' /\ LockInv'
<1>1. /\ pc[d] = "serving"
      /\ pc' = [pc EXCEPT ![d] = "retiring"]
      /\ holds' = [holds EXCEPT ![d] = NoDaemon]
      /\ UNCHANGED <<version, opened, lock, retiredLock, bequest, bound, judged, doomed, cleared,
                     todo, lost>>
  BY DEF Retire
<1>2. Started'
  BY <1>1 DEF Started, TypeOK
<1>3. FreshInodes' /\ Exclusive'
  BY <1>1, NoDaemonAssumption DEF FreshInodes, Exclusive, LockInv, TypeOK
<1>4. Holding' /\ LockIsFound'
  BY <1>1 DEF Holding, LockIsFound, LockInv, HasLock, TypeOK
<1>5. QED
  BY <1>2, <1>3, <1>4 DEF LockInv

\* The bequest puts aside the daemon's own lock, or those it takes one from
\* have lost theirs.
LEMMA BequeathLockLocks ==
    ASSUME TypeOK, Started, LockInv, NEW d \in Daemons, BequeathLock(d)
    PROVE  Started' /\ LockInv'
<1> DEFINE v == version[d]
<1>0. CASE lock[v] = NoDaemon
  <2>1. /\ pc[d] \notin {"off", "opened"}
        /\ bequest' = [bequest EXCEPT ![d] = "none"]
        /\ UNCHANGED <<startVars, lock, retiredLock, lost, bound, judged, doomed, cleared, todo>>
    BY <1>0 DEF BequeathLock, Started
  <2>2. Started'
    BY <2>1 DEF Started, TypeOK
  <2>3. QED
    BY <2>1, <2>2, LocksKept DEF HasLock
<1>1. CASE lock[v] # NoDaemon
  <2>1. /\ pc[d] \notin {"off", "opened"} /\ v \in Versions
        /\ retiredLock' = [retiredLock EXCEPT ![d] = lock[v]]
        /\ lock' = [lock EXCEPT ![v] = NoDaemon]
        /\ \A e \in Daemons \ lost' :
              /\ e \notin lost
              /\ e # d => ~Holds(e, lock[v])
              /\ e = d => ~Holds(d, retiredLock[d])
        /\ UNCHANGED <<version, pc, opened, holds, bound, judged, doomed, cleared, todo>>
        /\ bequest' = [bequest EXCEPT ![d] = "lock"]
    BY <1>1 DEF BequeathLock, Started
  <2>2. Started'
    BY <2>1 DEF Started, TypeOK
  <2>3. FreshInodes' /\ Exclusive' /\ Holding'
    BY <2>1, NoDaemonAssumption DEF FreshInodes, Exclusive, Holding, HasLock, LockInv, TypeOK
  <2>4. ASSUME NEW e \in Daemons \ lost', HasLock(e)'
        PROVE  holds'[e] = IF retiredLock'[e] = NoDaemon THEN lock'[version'[e]]
                           ELSE retiredLock'[e]
    <3>1. /\ HasLock(e) /\ version[e] \in Versions /\ holds[e] # NoDaemon
          /\ holds[e] = IF retiredLock[e] = NoDaemon THEN lock[version[e]] ELSE retiredLock[e]
      BY <2>1, <2>4 DEF HasLock, Started, LockInv, Holding, LockIsFound
    <3>2. CASE e = d
      <4>1. retiredLock[d] = NoDaemon /\ holds[d] = lock[v]
        BY <2>1, <3>1, <3>2 DEF Holds
      <4>2. QED
        BY <1>1, <2>1, <3>2, <4>1 DEF TypeOK
    <3>3. CASE e # d
      <4>1. retiredLock[e] = NoDaemon => version[e] # v
        BY <2>1, <3>1, <3>3 DEF Holds
      <4>2. QED
        BY <2>1, <3>1, <3>3, <4>1 DEF TypeOK
    <3>4. QED
      BY <3>2, <3>3
  <2>5. QED
    BY <2>2, <2>3, <2>4 DEF LockInv, LockIsFound
<1>2. QED
  BY <1>0, <1>1

\* The rollback puts the daemon's own lock back, and whoever held what
\* stood there has lost it.
LEMMA SpawnFailsLocks ==
    ASSUME TypeOK, Started, LockInv, NEW d \in Daemons, SpawnFails(d)
    PROVE  Started' /\ LockInv'
<1> DEFINE v == version[d]
<1>1. /\ pc[d] \notin {"off", "opened"} /\ v \in Versions
      /\ lock' = [lock EXCEPT ![v] = IF retiredLock[d] # NoDaemon THEN retiredLock[d] ELSE @]
      /\ retiredLock' = [retiredLock EXCEPT ![d] = NoDaemon]
      /\ \A e \in Daemons \ lost' : e \notin lost /\ (e # d => ~Holds(e, lock[v]))
      /\ UNCHANGED <<version, pc, opened, holds, bound, judged, doomed, cleared, todo>>
      /\ bequest' = [bequest EXCEPT ![d] = "none"]
  BY DEF SpawnFails, Started
<1>2. Started'
  BY <1>1 DEF Started, TypeOK
<1>3. FreshInodes' /\ Exclusive' /\ Holding'
  BY <1>1, NoDaemonAssumption DEF FreshInodes, Exclusive, Holding, HasLock, LockInv, TypeOK
<1>4. ASSUME NEW e \in Daemons \ lost', HasLock(e)'
      PROVE  holds'[e] = IF retiredLock'[e] = NoDaemon THEN lock'[version'[e]]
                         ELSE retiredLock'[e]
  <2>1. /\ HasLock(e) /\ version[e] \in Versions /\ holds[e] # NoDaemon
        /\ holds[e] = IF retiredLock[e] = NoDaemon THEN lock[version[e]] ELSE retiredLock[e]
    BY <1>1, <1>4 DEF HasLock, Started, LockInv, Holding, LockIsFound
  <2>2. CASE e = d
    BY <1>1, <2>1, <2>2 DEF TypeOK
  <2>3. CASE e # d
    <3>1. retiredLock[e] = NoDaemon => version[e] # v
      BY <1>1, <1>4, <2>1, <2>3 DEF Holds
    <3>2. QED
      BY <1>1, <2>1, <2>3, <3>1 DEF TypeOK
  <2>4. QED
    BY <2>2, <2>3
<1>5. QED
  BY <1>2, <1>3, <1>4 DEF LockInv, LockIsFound

\* A sweep takes no retired lock of a live process, and whoever held a lock
\* it takes has lost it.
LEMMA SweepApplyLocks ==
    ASSUME TypeOK, Started, LockInv, NEW d \in Daemons, SweepApply(d)
    PROVE  Started' /\ LockInv'
<1> DEFINE dead == {<<"name", v>> : v \in {w \in Versions : DeadName(w)}}
                   \cup {<<"lock", v>> : v \in {w \in Versions : DeadLock(w)}}
                   \cup {<<"owner", e>> : e \in {f \in Daemons : DeadOwner(f)}}
<1>0. PICK old \in SUBSET (sighted \cap dead) :
        /\ lock' = [v \in Versions |-> IF <<"lock", v>> \in old THEN NoDaemon ELSE lock[v]]
        /\ retiredLock' =
              [e \in Daemons |-> IF <<"owner", e>> \in old THEN NoDaemon ELSE retiredLock[e]]
        /\ lost' = lost \cup {e \in Daemons :
                                \E v \in Versions : <<"lock", v>> \in old /\ Holds(e, lock[v])}
  BY DEF SweepApply
<1>1. \A e \in Daemons : <<"owner", e>> \in old => pc[e] = "dead"
  <2>1. \A e \in Daemons : <<"owner", e>> \in dead => DeadOwner(e)
    OBVIOUS
  <2>2. QED
    BY <1>0, <2>1 DEF DeadOwner
<1> HIDE DEF dead
<1>2. UNCHANGED <<version, pc, opened, holds, bequest, bound, judged, doomed, cleared, todo>>
  BY DEF SweepApply
<1>3. Started'
  BY <1>0, <1>1, <1>2 DEF Started, TypeOK
<1>4. FreshInodes' /\ Exclusive' /\ Holding'
  BY <1>0, <1>1, <1>2, NoDaemonAssumption
     DEF FreshInodes, Exclusive, Holding, HasLock, LockInv, TypeOK
<1>5. ASSUME NEW e \in Daemons \ lost', HasLock(e)'
      PROVE  holds'[e] = IF retiredLock'[e] = NoDaemon THEN lock'[version'[e]]
                         ELSE retiredLock'[e]
  <2>1. e \notin lost /\ \A v \in Versions : <<"lock", v>> \in old => ~Holds(e, lock[v])
    BY <1>0, <1>5
  <2>2. /\ HasLock(e) /\ version[e] \in Versions /\ holds[e] # NoDaemon
        /\ pc[e] # "dead"
        /\ holds[e] = IF retiredLock[e] = NoDaemon THEN lock[version[e]] ELSE retiredLock[e]
    BY <1>2, <1>5, <2>1 DEF HasLock, Started, LockInv, Holding, LockIsFound
  <2>3. retiredLock'[e] = retiredLock[e]
    BY <1>0, <1>1, <2>2
  <2>4. retiredLock[e] = NoDaemon => <<"lock", version[e]>> \notin old
    BY <2>1, <2>2 DEF Holds
  <2>5. QED
    BY <1>0, <1>2, <2>2, <2>3, <2>4
<1>6. QED
  BY <1>3, <1>4, <1>5 DEF LockInv, LockIsFound

-----------------------------------------------------------------------------
(* The steps that keep every lock where it is.                             *)

LEMMA StartLocks ==
    ASSUME TypeOK, Started, LockInv, NEW d \in Daemons,
           PingUnanswered(d) \/ UnlinkStale(d) \/ Bind(d) \/ Serve(d) \/ LeaveAlias(d)
    PROVE  Started' /\ LockInv'
<1>1. /\ UNCHANGED <<version, opened, holds, lock, retiredLock, lost, bequest, judged, doomed,
                     cleared>>
      /\ pc[d] # "off" /\ HasLock(d)
      /\ \E p : p \notin {"off", "opened"} /\ pc' = [pc EXCEPT ![d] = p]
      /\ \A e \in Daemons \ {d} : todo'[e] = todo[e] /\ bound'[e] = bound[e]
  BY DEF PingUnanswered, UnlinkStale, Bind, Serve, LeaveAlias, HasLock, TypeOK
<1>2. \A e \in Daemons : (pc'[e] = "off" => pc[e] = "off") /\ (HasLock(e)' => HasLock(e))
  BY <1>1 DEF HasLock, TypeOK
<1>3. Started'
  BY <1>1 DEF Started, TypeOK
<1>4. QED
  BY <1>1, <1>2, <1>3, LocksKept

LEMMA QuietLocks ==
    ASSUME TypeOK, Started, LockInv, NEW d \in Daemons,
           \/ AliasJudge(d) \/ AliasUnlink(d) \/ AliasRepoint(d)
           \/ BequeathJudge(d) \/ BequeathSocket(d) \/ SpawnLands(d)
           \/ Thread(d) \/ SweepBegin(d)
    PROVE  Started' /\ LockInv'
<1>1. pc[d] \notin {"off", "opened"}
  BY DEF AliasJudge, AliasUnlink, AliasRepoint, BequeathJudge, BequeathSocket, SpawnLands, Thread,
         ReclaimJudge, ReclaimBind, LingerBind, AcceptFails, SweepBegin, Watching, Alive, Started
<1>2. UNCHANGED <<version, pc, opened, holds, lock, retiredLock, lost>>
  BY DEF AliasJudge, AliasUnlink, AliasRepoint, BequeathJudge, BequeathSocket, SpawnLands, Thread,
         ReclaimJudge, ReclaimBind, LingerBind, AcceptFails, SweepBegin
<1>3. \A e \in Daemons \ {d} :
        /\ doomed'[e] = doomed[e] /\ todo'[e] = todo[e] /\ cleared'[e] = cleared[e]
        /\ bound'[e] = bound[e] /\ judged'[e] = judged[e] /\ bequest'[e] = bequest[e]
  BY DEF AliasJudge, AliasUnlink, AliasRepoint, BequeathJudge, BequeathSocket, SpawnLands, Thread,
         ReclaimJudge, ReclaimBind, LingerBind, AcceptFails, SweepBegin, TypeOK
<1>4. Started'
  BY <1>1, <1>2, <1>3 DEF Started
<1>5. LockInv'
  BY <1>2, LocksKept DEF HasLock
<1>6. QED
  BY <1>4, <1>5

LEMMA UnlinkerLocks ==
    ASSUME Started, LockInv,
           \/ (\E v \in Versions : ClientJudge(v)) \/ ClientUnlink \/ ClearUnanswered
           \/ UNCHANGED vars
    PROVE  Started' /\ LockInv'
<1>1. UNCHANGED <<version, pc, opened, holds, lock, retiredLock, lost, doomed, cleared, todo,
                  bound, judged, bequest>>
  BY DEF ClientJudge, ClientUnlink, ClearUnanswered, vars
<1>2. QED
  BY <1>1, LocksKept DEF Started, HasLock

-----------------------------------------------------------------------------
(* The theorems.                                                           *)

LEMMA InitIInv == Init => IInv
<1> SUFFICES ASSUME Init PROVE IInv
  OBVIOUS
<1>1. TypeOK
  BY InitType
<1>2. Started /\ LockInv
  BY NoDaemonAssumption DEF Init, Started, LockInv, FreshInodes, Exclusive, Holding, LockIsFound,
                            HasLock
<1>3. QED
  BY <1>1, <1>2 DEF IInv

LEMMA StepIInv == IInv /\ [Next]_vars => IInv'
<1> SUFFICES ASSUME IInv, [Next]_vars PROVE IInv'
  OBVIOUS
<1> USE DEF IInv
<1>1. ASSUME NEW d \in Daemons, Lifecycle(d) PROVE IInv'
  <2>0. CASE FlockLock(d)
    BY <2>0, FlockLockType, FlockLockLocks
  <2>1. CASE \E v \in Versions : OpenLock(d, v)
    BY <2>1, OpenLockType, OpenLockLocks
  <2>2. CASE PingUnanswered(d)
    BY <2>2, PingType, StartLocks
  <2>3. CASE UnlinkStale(d) \/ Bind(d)
    BY <2>3, BindType, StartLocks
  <2>4. CASE AliasJudge(d) \/ AliasUnlink(d) \/ AliasRepoint(d)
    BY <2>4, AliasType, QuietLocks
  <2>5. CASE Serve(d)
    BY <2>5, ServeType, StartLocks
  <2>6. CASE Retire(d)
    BY <2>6, LeaveType, RetireLocks
  <2>7. CASE LeaveAlias(d)
    BY <2>7, LeaveType, StartLocks
  <2>8. CASE FlockBusy(d) \/ PingAnswered(d) \/ BindFails(d) \/ Exit(d) \/ Crash(d)
    <3>1. Ends(d) /\ pc[d] # "off" /\ UNCHANGED <<fileVars, lost>>
      BY <2>8 DEF FlockBusy, PingAnswered, BindFails, Exit, Crash, Alive
    <3>2. QED
      BY <2>8, <3>1, FlockLockType, PingType, BindType, ExitType, EndsLocks
  <2>9. QED
    BY <1>1, <2>0, <2>1, <2>2, <2>3, <2>4, <2>5, <2>6, <2>7, <2>8 DEF Lifecycle
<1>2. ASSUME NEW d \in Daemons, Bequest(d) PROVE IInv'
  <2>1. TypeOK'
    BY <1>2, BequestType
  <2>2. QED
    BY <1>2, <2>1, BequeathLockLocks, SpawnFailsLocks, QuietLocks DEF Bequest
<1>3. ASSUME NEW d \in Daemons, Thread(d) PROVE IInv'
  BY <1>3, ThreadType, QuietLocks
<1>4. ASSUME NEW d \in Daemons, SweepBegin(d) PROVE IInv'
  BY <1>4, SweepBeginType, QuietLocks
<1>5. ASSUME NEW d \in Daemons, SweepApply(d) PROVE IInv'
  BY <1>5, SweepApplyType, SweepApplyLocks
<1>6. CASE (\E v \in Versions : ClientJudge(v)) \/ ClientUnlink \/ ClearUnanswered
  BY <1>6, UnlinkerType, UnlinkerLocks
<1>7. CASE UNCHANGED vars
  <2>1. TypeOK'
    BY <1>7 DEF TypeOK, vars
  <2>2. QED
    BY <1>7, <2>1, UnlinkerLocks
<1>8. QED
  BY <1>1, <1>2, <1>3, <1>4, <1>5, <1>6, <1>7 DEF Next

LEMMA Invariance == Spec => []IInv
BY InitIInv, StepIInv, PTL DEF Spec

\* Types, for any daemons and versions: in particular the reclaim thread
\* compares its name with a real socket file it once found there.
THEOREM TypeCorrect == Spec => []TypeOK
<1>1. IInv => TypeOK
  BY DEF IInv
<1>2. QED
  BY <1>1, Invariance, PTL

\* The bind-lock law, for any number of daemons, versions and bequests: of
\* all the steps of the system only a late flock, a bequest, a rollback and
\* a sweep take a daemon's lock file from it, and whoever they did not take
\* it from owns the lock that is held at its name.
THEOREM BindLockLawHolds == Spec => []BindLockLaw
<1>1. IInv => BindLockLaw
  <2> SUFFICES ASSUME IInv, NEW d \in Daemons \ lost, pc[d] = "serving",
                      retiredLock[d] = NoDaemon
               PROVE  holds[d] = lock[version[d]]
    BY DEF BindLockLaw, OwnsHeldLock
  <2>1. QED
    BY DEF IInv, LockInv, LockIsFound, HasLock
<1>2. QED
  BY <1>1, Invariance, PTL
=============================================================================
