----------------------------- MODULE SocketNames -----------------------------
(***************************************************************************)
(* The names of the daemons of one home directory                          *)
(* (yggterm-server/src/daemon.rs, socket_sweep.rs, lib.rs).                *)
(*                                                                         *)
(* A daemon is found by name only: server-<version>.sock, which it binds   *)
(* under the flock of server-<version>.sock.lock.  A hand-over to a        *)
(* successor of the same version renames both aside, to .retired-<pid>.    *)
(* A newer daemon points the names of older versions at itself, sweeps     *)
(* and clients unlink names they take for dead, and every daemon runs a    *)
(* thread that binds its own name again, or a name of its own              *)
(* with -linger-<pid> in it, when its name stopped leading to it.          *)
(*                                                                         *)
(* The kernel keeps the path a listener was bound to and the inode behind  *)
(* it whatever becomes of the name: a socket file is a pair of the daemon  *)
(* that bound it and a number, 0 for the listener of its accept loop.  The *)
(* inode of a lock file is named by the daemon that created it.            *)
(***************************************************************************)
EXTENDS Integers, FiniteSets

CONSTANTS
    Daemons,     \* the daemon processes; each runs once
    MaxVersion,  \* versions are 1..MaxVersion, a larger one is newer
    Installed,   \* versions under versions/: a rollback can return to them
    Litter,      \* names earlier daemons left, which a sweep has sighted dead
    MaxRebinds,  \* bound: numbers for the sockets a daemon binds again
    MaxBequests, \* bound: same-version hand-overs
    MaxDisturbances, \* bound: crashes, failed accepts, sweeps and unlinks by others
    NoDaemon     \* model value: no process, no inode

Versions == 1 .. MaxVersion

ASSUME VersionsAssumption == MaxVersion \in Nat \ {0}
ASSUME InstalledAssumption == Installed \subseteq Versions /\ Litter \subseteq Versions
ASSUME RebindBound == MaxRebinds \in Nat
ASSUME DisturbanceBound == MaxBequests \in Nat /\ MaxDisturbances \in Nat
ASSUME NoDaemonAssumption == NoDaemon \notin Daemons

VARIABLES
    version,    \* the version a daemon was built with, 0 before it starts
    pc,         \* where a daemon stands in run_daemon
    opened,     \* the lock inode a daemon has opened and not flocked yet
    holds,      \* the lock inode a daemon has flocked
    name,       \* what stands at server-<version>.sock
    lock,       \* the inode at server-<version>.sock.lock
    retired,    \* what stands at the daemon's *.sock.retired-<pid>
    retiredLock,\* the inode at the daemon's *.sock.lock.retired-<pid>
    linger,     \* does the daemon's linger name exist
    bequest,    \* how far its hand-over to a same-version successor got
    bound,      \* the reclaim thread's record of the daemon's own file
    judged,     \* the thread has decided to bind the name again
    reclaimed,  \* the listener the thread bound at the name, 0 for none
    lingering,  \* the thread has a listener at the linger name
    doomed,     \* the older name an alias refresh is about to re-point
    cleared,    \* it has unlinked that name and not linked it yet
    todo,       \* names the refresh has still to look at
    census,     \* versions the refresh's one kernel read found listening
    sweep,      \* the round under way: who sweeps, with which census
    sighted,    \* the dead-sighting ledger
    client,     \* the name a client is about to unlink as dead
    bequests, disturbances,
    lost        \* history: daemons whose lock file was taken from its name

startVars == <<version, pc, opened, holds>>
fileVars == <<name, lock, retired, retiredLock, linger>>
threadVars == <<bound, judged, reclaimed, lingering>>
aliasVars == <<doomed, cleared, todo, census>>
sweepVars == <<sweep, sighted>>
historyVars == <<bequests, disturbances, lost>>
vars == <<version, pc, opened, holds, name, lock, retired, retiredLock, linger, bequest,
          bound, judged, reclaimed, lingering, doomed, cleared, todo, census, sweep, sighted,
          client, bequests, disturbances, lost>>

-----------------------------------------------------------------------------
(***************************************************************************)
(* Directory entries and the listeners behind them                         *)
(***************************************************************************)
Missing == [kind |-> "missing"]
Link(v) == [kind |-> "link", to |-> v]
Socket(d, n) == [kind |-> "socket", of |-> d, number |-> n]

Sockets == {Socket(d, n) : d \in Daemons \cup {NoDaemon}, n \in 0 .. MaxRebinds}
Entries == {Missing} \cup {Link(v) : v \in Versions} \cup Sockets

\* The process is there to serve, or to be seen by the kernel
Alive(d) == pc[d] \notin {"off", "dead"}

\* Its accept loop's listener is open, from the bind to the end of the loop
Open(d) == pc[d] \in {"bound", "serving", "leaving"}

\* The versioned names the kernel's table lists a listener for
Listening == {version[d] : d \in {e \in Daemons : Open(e) \/ (Alive(e) /\ reclaimed[e] # 0)}}

\* What LiveDaemonCensus::gather may find: an unreadable table keeps every name
Gathered == {Listening, Versions}

\* The name a path ends at, following aliases, which lead to newer versions
FinalName[v \in Versions] ==
    IF name[v].kind = "link" /\ name[v].to > v THEN FinalName[name[v].to] ELSE v

\* The socket file an entry leads to
Leads(e) == IF e.kind = "link" THEN name[FinalName[e.to]] ELSE e

\* A listener is open on the file, so a connect is accepted
Accepts(e) == LET s == Leads(e) IN
    /\ s.kind = "socket" /\ s.of # NoDaemon
    /\ IF s.number = 0 THEN Open(s.of) ELSE Alive(s.of) /\ reclaimed[s.of] = s.number

\* A thread of the daemon takes the connections of that listener
Answers(e) == Accepts(e) /\ (Leads(e).number = 0 => pc[Leads(e).of] # "bound")

\* The daemon can be dialled: by a versioned name, by the retired name the
\* registry hands out, or by the linger name, which the reclaim thread
\* serves only while it holds no listener at the daemon's own name
Dialable(d) ==
    \/ \E e \in {name[v] : v \in Versions} \cup {retired[d]} : Answers(e) /\ Leads(e).of = d
    \/ linger[d] /\ lingering[d] /\ reclaimed[d] = 0 /\ Alive(d)

\* One of the bounded number of things that go wrong
Disturbs ==
    /\ disturbances < MaxDisturbances
    /\ disturbances' = disturbances + 1

\* The inode is flocked by some process
Holds(d, i) == holds[d] = i /\ i # NoDaemon
Held(i) == \E d \in Daemons : Holds(d, i)

-----------------------------------------------------------------------------
Init ==
    /\ name = [v \in Versions |-> IF v \in Litter THEN Socket(NoDaemon, 0) ELSE Missing]
    /\ sighted = {"name"} \X Litter
    /\ version = [d \in Daemons |-> 0]
    /\ pc = [d \in Daemons |-> "off"]
    /\ opened = [d \in Daemons |-> NoDaemon]
    /\ holds = [d \in Daemons |-> NoDaemon]
    /\ lock = [v \in Versions |-> NoDaemon]
    /\ retired = [d \in Daemons |-> Missing]
    /\ retiredLock = [d \in Daemons |-> NoDaemon]
    /\ linger = [d \in Daemons |-> FALSE]
    /\ bequest = [d \in Daemons |-> "none"]
    /\ bound = [d \in Daemons |-> Missing]
    /\ judged = [d \in Daemons |-> FALSE]
    /\ reclaimed = [d \in Daemons |-> 0]
    /\ lingering = [d \in Daemons |-> FALSE]
    /\ doomed = [d \in Daemons |-> 0]
    /\ cleared = [d \in Daemons |-> FALSE]
    /\ todo = [d \in Daemons |-> {}]
    /\ census = [d \in Daemons |-> {}]
    /\ sweep = [by |-> NoDaemon, census |-> {}]
    /\ client = 0
    /\ bequests = 0
    /\ disturbances = 0
    /\ lost = {}

-----------------------------------------------------------------------------
(***************************************************************************)
(* run_daemon: lock, ping, unlink, bind, alias refresh, serve, exit        *)
(***************************************************************************)

\* try_acquire_daemon_socket_lock opens the lock file by its path and
\* creates it where there is none ...
OpenLock(d, v) ==
    /\ pc[d] = "off"
    /\ pc' = [pc EXCEPT ![d] = "opened"]
    /\ version' = [version EXCEPT ![d] = v]
    /\ lock' = [lock EXCEPT ![v] = IF @ = NoDaemon THEN d ELSE @]
    /\ opened' = [opened EXCEPT ![d] = lock'[v]]
    /\ UNCHANGED <<holds, name, retired, retiredLock, linger, bequest, threadVars, aliasVars,
                   sweepVars, client, historyVars>>

\* ... and takes the flock of what it opened, whatever stands at the path by
\* then: where that is another file, the daemon has a lock nobody will find
FlockLock(d) ==
    /\ pc[d] = "opened"
    /\ ~Held(opened[d])
    /\ pc' = [pc EXCEPT ![d] = "locked"]
    /\ holds' = [holds EXCEPT ![d] = opened[d]]
    /\ opened' = [opened EXCEPT ![d] = NoDaemon]
    /\ lost' = IF lock[version[d]] = opened[d] THEN lost ELSE lost \cup {d}
    /\ UNCHANGED <<version, fileVars, bequest, threadVars, aliasVars, sweepVars, client,
                   bequests, disturbances>>

\* A process's end closes its listeners and frees its lock; its files stay
Ends(d) ==
    /\ pc' = [pc EXCEPT ![d] = "dead"]
    /\ opened' = [opened EXCEPT ![d] = NoDaemon]
    /\ holds' = [holds EXCEPT ![d] = NoDaemon]
    /\ bequest' = [bequest EXCEPT ![d] = "none"]
    /\ bound' = [bound EXCEPT ![d] = Missing]
    /\ judged' = [judged EXCEPT ![d] = FALSE]
    /\ reclaimed' = [reclaimed EXCEPT ![d] = 0]
    /\ lingering' = [lingering EXCEPT ![d] = FALSE]
    /\ doomed' = [doomed EXCEPT ![d] = 0]
    /\ cleared' = [cleared EXCEPT ![d] = FALSE]
    /\ todo' = [todo EXCEPT ![d] = {}]
    /\ census' = [census EXCEPT ![d] = {}]
    /\ UNCHANGED version
    /\ sweep' = IF sweep.by = d THEN [by |-> NoDaemon, census |-> {}] ELSE sweep

\* A busy flock ends the process: another daemon holds it, or the probe of a
\* bequest or of a client (canonical_socket_lock_is_held) took the free lock
\* for a moment, which may be any moment
FlockBusy(d) ==
    /\ pc[d] = "opened"
    /\ Ends(d)
    /\ UNCHANGED <<fileVars, sighted, client, historyVars>>

\* The ping before the bind.  An answer means the name is served and ends
\* the process, unless the name is an alias the hand-off registry lets the
\* daemon take.  No answer may also be a daemon too busy to give one.
PingAnswered(d) ==
    /\ pc[d] = "locked"
    /\ Answers(name[version[d]])
    /\ Ends(d)
    /\ UNCHANGED <<fileVars, sighted, client, historyVars>>

PingUnanswered(d) ==
    /\ pc[d] = "locked"
    /\ pc' = [pc EXCEPT ![d] = "unanswered"]
    /\ UNCHANGED <<version, opened, holds, fileVars, bequest, threadVars, aliasVars, sweepVars,
                   client, historyVars>>

UnlinkStale(d) ==
    /\ pc[d] = "unanswered"
    /\ pc' = [pc EXCEPT ![d] = "unlinked"]
    /\ name' = [name EXCEPT ![version[d]] = Missing]
    /\ UNCHANGED <<version, opened, holds, lock, retired, retiredLock, linger, bequest, threadVars,
                   aliasVars, sweepVars, client, historyVars>>

\* The bind, which fails where something stands at the name.  The alias
\* refresh that follows reads the kernel's table once, for every older name.
Bind(d) == LET v == version[d] IN
    /\ pc[d] = "unlinked"
    /\ name[v] = Missing
    /\ pc' = [pc EXCEPT ![d] = "bound"]
    /\ name' = [name EXCEPT ![v] = Socket(d, 0)]
    /\ \E found \in {Listening \cup {v}, Versions} : census' = [census EXCEPT ![d] = found]
    /\ todo' = [todo EXCEPT ![d] = {w \in Versions : w < v}]
    /\ UNCHANGED <<version, opened, holds, lock, retired, retiredLock, linger, bequest, threadVars,
                   doomed, cleared, sweepVars, client, historyVars>>

BindFails(d) ==
    /\ pc[d] = "unlinked"
    /\ name[version[d]] # Missing
    /\ Ends(d)
    /\ UNCHANGED <<fileVars, sighted, client, historyVars>>

\* refresh_legacy_server_socket_aliases, one older name: it is spared when
\* it leads here already, when the census lists it, or when it is a real
\* file somebody may be listening on
AliasJudge(d) == \E v \in todo[d] :
    /\ doomed[d] = 0
    /\ \A w \in todo[d] : w >= v
    /\ todo' = [todo EXCEPT ![d] = @ \ {v}]
    /\ LET spared == \/ Leads(name[v]) # Missing /\ FinalName[v] = FinalName[version[d]]
                     \/ v \in census[d]
                     \/ name[v].kind = "socket" /\ Accepts(name[v])
       IN doomed' = [doomed EXCEPT ![d] = IF spared THEN 0 ELSE v]
    /\ UNCHANGED <<startVars, fileVars, bequest, threadVars, cleared, census, sweepVars, client,
                   historyVars>>

\* ... it is unlinked otherwise ...
AliasUnlink(d) ==
    /\ doomed[d] # 0 /\ ~cleared[d]
    /\ name' = [name EXCEPT ![doomed[d]] = Missing]
    /\ cleared' = [cleared EXCEPT ![d] = TRUE]
    /\ UNCHANGED <<startVars, lock, retired, retiredLock, linger, bequest, threadVars, doomed,
                   todo, census, sweepVars, client, historyVars>>

\* ... and linked here, which fails where somebody has bound it meanwhile
AliasRepoint(d) == LET v == doomed[d] IN
    /\ cleared[d]
    /\ name' = IF name[v] = Missing THEN [name EXCEPT ![v] = Link(version[d])] ELSE name
    /\ doomed' = [doomed EXCEPT ![d] = 0]
    /\ cleared' = [cleared EXCEPT ![d] = FALSE]
    /\ UNCHANGED <<startVars, lock, retired, retiredLock, linger, bequest, threadVars, todo,
                   census, sweepVars, client, historyVars>>

\* Mutant: the thread records whatever stands at the name
ServeRecordsAnything(d) ==
    /\ pc[d] = "bound"
    /\ todo[d] = {} /\ doomed[d] = 0
    /\ pc' = [pc EXCEPT ![d] = "serving"]
    /\ census' = [census EXCEPT ![d] = {}]
    /\ bound' = [bound EXCEPT ![d] = name[version[d]]]
    /\ UNCHANGED <<version, opened, holds, fileVars, bequest, judged, reclaimed, lingering, doomed,
                   cleared, todo, sweepVars, client, historyVars>>

\* The reclaim thread starts with the file that stands at the name; where
\* that is no real file it gives up.  The accept loop then answers.
Serve(d) ==
    /\ pc[d] = "bound"
    /\ todo[d] = {} /\ doomed[d] = 0
    /\ pc' = [pc EXCEPT ![d] = "serving"]
    /\ census' = [census EXCEPT ![d] = {}]
    /\ bound' = [bound EXCEPT ![d] =
                    LET e == name[version[d]] IN IF e.kind = "socket" THEN e ELSE Missing]
    /\ UNCHANGED <<version, opened, holds, fileVars, bequest, judged, reclaimed, lingering, doomed,
                   cleared, todo, sweepVars, client, historyVars>>

\* The accept loop breaks: retiring is set, the listener is dropped, a hot
\* restart unlinks the path for the daemon it will spawn, and the lock goes
Retire(d) ==
    /\ pc[d] = "serving"
    /\ pc' = [pc EXCEPT ![d] = "retiring"]
    /\ holds' = [holds EXCEPT ![d] = NoDaemon]
    /\ \E restart \in BOOLEAN :
          name' = IF restart THEN [name EXCEPT ![version[d]] = Missing] ELSE name
    /\ UNCHANGED <<version, opened, lock, retired, retiredLock, linger, bequest, threadVars,
                   aliasVars, sweepVars, client, historyVars>>

\* A whole hand-off has settled: alias_own_socket_to_successor points the
\* name at a newer daemon that answers, where there is one and the registry
\* has this daemon at its versioned name, and the process ends soon after.
\* The accept loop still runs and retiring is not set.
LeaveAlias(d) == LET v == version[d] IN
    /\ pc[d] = "serving"
    /\ pc' = [pc EXCEPT ![d] = "leaving"]
    /\ \/ UNCHANGED name
       \/ \E w \in Versions :
            /\ w > v /\ Answers(name[w]) /\ version[Leads(name[w]).of] > v
            /\ bequest[d] = "none"
            /\ Leads(name[v]) # Missing /\ FinalName[v] # FinalName[w]
            /\ name' = [name EXCEPT ![v] = Link(w)]
    /\ UNCHANGED <<version, opened, holds, lock, retired, retiredLock, linger, bequest, threadVars,
                   aliasVars, sweepVars, client, historyVars>>

Exit(d) ==
    /\ pc[d] \in {"retiring", "leaving"}
    /\ Ends(d)
    /\ UNCHANGED <<fileVars, sighted, client, historyVars>>

Crash(d) ==
    /\ Alive(d)
    /\ Ends(d)
    /\ Disturbs
    /\ UNCHANGED <<fileVars, sighted, client, bequests, lost>>

-----------------------------------------------------------------------------
(***************************************************************************)
(* The same-version bequest                                                *)
(***************************************************************************)

\* Refused while the lock at the canonical name is held and a retired lock
\* of this daemon exists: it is then the successor's
BequeathJudge(d) ==
    /\ pc[d] = "serving"
    /\ bequest[d] \in {"none", "settled"}
    /\ bequests < MaxBequests /\ bequests' = bequests + 1
    /\ ~(Held(lock[version[d]]) /\ retiredLock[d] # NoDaemon)
    /\ bequest' = [bequest EXCEPT ![d] = "judged"]
    /\ UNCHANGED <<startVars, fileVars, threadVars, aliasVars, sweepVars, client, disturbances,
                   lost>>

\* The lock goes first, whatever stands at its name by then and over the one
\* put aside before; a rename that finds nothing fails the bequest
BequeathLock(d) == LET v == version[d] IN
    /\ bequest[d] = "judged"
    /\ IF lock[v] = NoDaemon
       THEN /\ bequest' = [bequest EXCEPT ![d] = "none"]
            /\ UNCHANGED <<lock, retiredLock, lost>>
       ELSE /\ bequest' = [bequest EXCEPT ![d] = "lock"]
            /\ retiredLock' = [retiredLock EXCEPT ![d] = lock[v]]
            /\ lock' = [lock EXCEPT ![v] = NoDaemon]
            /\ lost' = lost \cup {e \in Daemons :
                                    Holds(e, IF e = d THEN retiredLock[d] ELSE lock[v])}
    /\ UNCHANGED <<startVars, name, retired, linger, threadVars, aliasVars, sweepVars,
                   client, bequests, disturbances>>

\* ... and the socket's name, whatever stands there; a rename that finds
\* nothing fails the bequest and leaves the lock aside
BequeathSocket(d) == LET v == version[d] IN
    /\ bequest[d] = "lock"
    /\ IF name[v] = Missing
       THEN /\ bequest' = [bequest EXCEPT ![d] = "none"]
            /\ UNCHANGED <<name, retired>>
       ELSE /\ bequest' = [bequest EXCEPT ![d] = "names"]
            /\ retired' = [retired EXCEPT ![d] = name[v]]
            /\ name' = [name EXCEPT ![v] = Missing]
    /\ UNCHANGED <<startVars, lock, retiredLock, linger, threadVars, aliasVars, sweepVars,
                   client, historyVars>>

\* The successor was spawned: it starts like any other daemon
SpawnLands(d) ==
    /\ bequest[d] = "names"
    /\ bequest' = [bequest EXCEPT ![d] = "settled"]
    /\ UNCHANGED <<startVars, fileVars, threadVars, aliasVars, sweepVars, client,
                   historyVars>>

\* Mutant: the rollback discards the lock it had put aside
RollbackDropsLock(d) == LET v == version[d] IN
    /\ bequest[d] = "names"
    /\ bequest' = [bequest EXCEPT ![d] = "none"]
    /\ name' = [name EXCEPT ![v] = IF retired[d] # Missing THEN retired[d] ELSE @]
    /\ retiredLock' = [retiredLock EXCEPT ![d] = NoDaemon]
    /\ retired' = [retired EXCEPT ![d] = Missing]
    /\ lost' = lost \cup {e \in Daemons \ {d} : Holds(e, lock[v])}
    /\ UNCHANGED <<startVars, lock, linger, threadVars, aliasVars, sweepVars, client,
                   bequests, disturbances>>

\* The spawn failed: bequeath_rollback renames both back, over whatever
\* stands at the canonical names
SpawnFails(d) == LET v == version[d] IN
    /\ bequest[d] = "names"
    /\ bequest' = [bequest EXCEPT ![d] = "none"]
    /\ lock' = [lock EXCEPT ![v] = IF retiredLock[d] # NoDaemon THEN retiredLock[d] ELSE @]
    /\ name' = [name EXCEPT ![v] = IF retired[d] # Missing THEN retired[d] ELSE @]
    /\ retiredLock' = [retiredLock EXCEPT ![d] = NoDaemon]
    /\ retired' = [retired EXCEPT ![d] = Missing]
    /\ lost' = lost \cup {e \in Daemons \ {d} : Holds(e, lock[v])}
    /\ UNCHANGED <<startVars, linger, threadVars, aliasVars, sweepVars, client, bequests,
                   disturbances>>

-----------------------------------------------------------------------------
(***************************************************************************)
(* The reclaim thread (spawn_versioned_socket_name_reclaim)                *)
(***************************************************************************)

\* The thread runs, from the start of serving to the end of the process
Watching(d) == bound[d] # Missing /\ Alive(d)

\* classify_own_socket_name
Verdict(d) == LET e == name[version[d]] IN
    CASE e.kind = "missing" -> "absent"
      [] e.kind = "link" -> "taken"
      [] e = bound[d] -> "still_ours"
      [] OTHER -> "held_by_another"

\* Mutant: only a name that was re-pointed is taken back
ReclaimsLinksOnly(d) ==
    /\ pc[d] # "retiring"
    /\ Verdict(d) = "taken"

\* may_reclaim_own_socket_name
MayReclaim(d) ==
    /\ pc[d] # "retiring"
    /\ \/ Verdict(d) = "taken"
       \/ Verdict(d) = "absent" /\ version[d] \in Listening

ReclaimJudge(d) ==
    /\ Watching(d) /\ ~judged[d]
    /\ MayReclaim(d)
    /\ judged' = [judged EXCEPT ![d] = TRUE]
    /\ UNCHANGED <<startVars, fileVars, bequest, bound, reclaimed, lingering, aliasVars,
                   sweepVars, client, historyVars>>

\* Numbers no file and no listener of the daemon bears
Unused(d) == {n \in 1 .. MaxRebinds :
    /\ reclaimed[d] # n
    /\ Socket(d, n) \notin {name[v] : v \in Versions} \cup {retired[e] : e \in Daemons}}

\* rebind_taken_socket_name looks again: a symlink is removed, a real file
\* refuses.  The listener it binds replaces the thread's earlier one.
ReclaimBind(d) == LET v == version[d] IN
    /\ judged[d]
    /\ judged' = [judged EXCEPT ![d] = FALSE]
    /\ IF name[v].kind = "socket"
       THEN UNCHANGED <<name, bound, reclaimed>>
       ELSE \E n \in Unused(d) :
              /\ \A m \in Unused(d) : n <= m
              /\ name' = [name EXCEPT ![v] = Socket(d, n)]
              /\ bound' = [bound EXCEPT ![d] = Socket(d, n)]
              /\ reclaimed' = [reclaimed EXCEPT ![d] = n]
    /\ UNCHANGED <<startVars, lock, retired, retiredLock, linger, bequest, lingering,
                   aliasVars, sweepVars, client, historyVars>>

\* Another's real file stands at the name: a name of its own, once
LingerBind(d) ==
    /\ Watching(d) /\ ~judged[d]
    /\ pc[d] # "retiring"
    /\ Verdict(d) = "held_by_another"
    /\ ~lingering[d] /\ ~linger[d]
    /\ linger' = [linger EXCEPT ![d] = TRUE]
    /\ lingering' = [lingering EXCEPT ![d] = TRUE]
    /\ UNCHANGED <<startVars, name, lock, retired, retiredLock, bequest, bound, judged,
                   reclaimed, aliasVars, sweepVars, client, historyVars>>

\* An accept that fails drops the listener the thread serves
AcceptFails(d) ==
    /\ Watching(d) /\ ~judged[d]
    /\ reclaimed[d] # 0 \/ lingering[d]
    /\ IF reclaimed[d] # 0
       THEN reclaimed' = [reclaimed EXCEPT ![d] = 0] /\ UNCHANGED lingering
       ELSE lingering' = [lingering EXCEPT ![d] = FALSE] /\ UNCHANGED reclaimed
    /\ Disturbs
    /\ UNCHANGED <<startVars, fileVars, bequest, bound, judged, aliasVars, sweepVars,
                   client, bequests, lost>>

-----------------------------------------------------------------------------
(***************************************************************************)
(* Those who unlink names: the sweep and the clients                       *)
(***************************************************************************)
SweepBegin(d) ==
    /\ pc[d] = "serving"
    /\ sweep.by = NoDaemon
    /\ \E found \in Gathered : sweep' = [by |-> d, census |-> found]
    /\ Disturbs
    /\ UNCHANGED <<startVars, fileVars, bequest, threadVars, aliasVars, sighted, client,
                   bequests, lost>>

\* classify_socket_entry: the versioned names it finds dead
Canonical(v) == IF Leads(name[v]) = Missing THEN v ELSE FinalName[v]

DeadName(v) == LET own == Canonical(version[sweep.by]) IN
    /\ name[v] # Missing
    /\ v # own /\ ~(Leads(name[v]) # Missing /\ FinalName[v] = own)
    /\ v \notin sweep.census
    /\ Leads(name[v]) # Missing /\ FinalName[v] \in sweep.census => v \notin Installed

\* ... the lock files, and the names that carry the pid of a dead process
DeadLock(v) == lock[v] # NoDaemon /\ v \notin sweep.census \cup Installed

DeadOwner(d) ==
    /\ pc[d] = "dead"
    /\ retired[d] # Missing \/ retiredLock[d] # NoDaemon \/ linger[d]

\* run_socket_sweep over the directory as it is now: what was sighted dead
\* a day ago and is dead still goes, the ledger keeps the rest of the dead
SweepApply(d) ==
    /\ sweep.by = d
    /\ LET dead == {<<"name", v>> : v \in {w \in Versions : DeadName(w)}}
                   \cup {<<"lock", v>> : v \in {w \in Versions : DeadLock(w)}}
                   \cup {<<"owner", e>> : e \in {f \in Daemons : DeadOwner(f)}}
       IN \E old \in SUBSET (sighted \cap dead) :
            /\ name' = [v \in Versions |-> IF <<"name", v>> \in old THEN Missing ELSE name[v]]
            /\ lock' = [v \in Versions |-> IF <<"lock", v>> \in old THEN NoDaemon ELSE lock[v]]
            /\ retired' = [e \in Daemons |-> IF <<"owner", e>> \in old THEN Missing ELSE retired[e]]
            /\ retiredLock' =
                  [e \in Daemons |-> IF <<"owner", e>> \in old THEN NoDaemon ELSE retiredLock[e]]
            /\ linger' = [e \in Daemons |-> linger[e] /\ <<"owner", e>> \notin old]
            /\ sighted' = dead \ old
            /\ lost' = lost \cup {e \in Daemons :
                                    \E v \in Versions : <<"lock", v>> \in old /\ Holds(e, lock[v])}
    /\ sweep' = [by |-> NoDaemon, census |-> {}]
    /\ UNCHANGED <<startVars, bequest, threadVars, aliasVars, client, bequests,
                   disturbances>>

\* A client of a version takes its name for dead: a dangling alias, an alias
\* answered by another version, a file the kernel lists no listener for
ClientJudge(v) ==
    /\ client = 0
    /\ \/ name[v].kind = "link" /\ (Leads(name[v]) = Missing \/ Answers(name[v]))
       \/ Leads(name[v]) # Missing /\ v \notin Listening
    /\ client' = v
    /\ Disturbs
    /\ UNCHANGED <<startVars, fileVars, bequest, threadVars, aliasVars, sweepVars, bequests,
                   lost>>

ClientUnlink ==
    /\ client # 0
    /\ name' = [name EXCEPT ![client] = Missing]
    /\ client' = 0
    /\ UNCHANGED <<startVars, lock, retired, retiredLock, linger, bequest, threadVars,
                   aliasVars, sweepVars, historyVars>>

\* retire_stale_daemons and cleanup_legacy_unix_daemons unlink every other
\* name, linger names too, whose daemon did not answer, whatever the reason
ClearUnanswered ==
    /\ \/ \E v \in Versions :
            /\ name[v] # Missing
            /\ name' = [name EXCEPT ![v] = Missing]
            /\ UNCHANGED linger
       \/ \E d \in Daemons :
            /\ linger[d]
            /\ linger' = [linger EXCEPT ![d] = FALSE]
            /\ UNCHANGED name
    /\ Disturbs
    /\ UNCHANGED <<startVars, lock, retired, retiredLock, bequest, threadVars, aliasVars,
                   sweepVars, client, bequests, lost>>

-----------------------------------------------------------------------------
Lifecycle(d) ==
    \/ (\E v \in Versions : OpenLock(d, v)) \/ FlockLock(d) \/ FlockBusy(d)
    \/ PingAnswered(d) \/ PingUnanswered(d) \/ UnlinkStale(d) \/ Bind(d) \/ BindFails(d)
    \/ AliasJudge(d) \/ AliasUnlink(d) \/ AliasRepoint(d) \/ Serve(d)
    \/ Retire(d) \/ LeaveAlias(d) \/ Exit(d) \/ Crash(d)

Bequest(d) ==
    \/ BequeathJudge(d) \/ BequeathLock(d) \/ BequeathSocket(d)
    \/ SpawnLands(d) \/ SpawnFails(d)

Thread(d) == ReclaimJudge(d) \/ ReclaimBind(d) \/ LingerBind(d) \/ AcceptFails(d)

Next ==
    \/ \E d \in Daemons : Lifecycle(d) \/ Bequest(d) \/ Thread(d) \/ SweepBegin(d) \/ SweepApply(d)
    \/ \E v \in Versions : ClientJudge(v)
    \/ ClientUnlink
    \/ ClearUnanswered

Spec == Init /\ [][Next]_vars

\* The reclaim thread comes round to its check every 15 seconds for as long
\* as the process runs, and the bequest's second rename is the next statement
\* of the handler that made the first.  Nothing else is promised a turn.
FairSpec ==
    /\ Spec
    /\ \A d \in Daemons : WF_vars(ReclaimJudge(d)) /\ WF_vars(ReclaimBind(d))
                          /\ WF_vars(LingerBind(d)) /\ WF_vars(BequeathSocket(d))

-----------------------------------------------------------------------------
\* Types: in particular the reclaim thread's record is of a real file, never
\* of a link, so that classify_own_socket_name compares inodes of sockets.
TypeOK ==
    /\ version \in [Daemons -> 0 .. MaxVersion]
    /\ pc \in [Daemons -> {"off", "opened", "locked", "unanswered", "unlinked", "bound", "serving",
                           "retiring", "leaving", "dead"}]
    /\ opened \in [Daemons -> Daemons \cup {NoDaemon}]
    /\ holds \in [Daemons -> Daemons \cup {NoDaemon}]
    /\ name \in [Versions -> Entries]
    /\ lock \in [Versions -> Daemons \cup {NoDaemon}]
    /\ retired \in [Daemons -> Entries]
    /\ retiredLock \in [Daemons -> Daemons \cup {NoDaemon}]
    /\ linger \in [Daemons -> BOOLEAN]
    /\ bequest \in [Daemons -> {"none", "judged", "lock", "names", "settled"}]
    /\ bound \in [Daemons -> {Missing} \cup Sockets]
    /\ judged \in [Daemons -> BOOLEAN]
    /\ reclaimed \in [Daemons -> 0 .. MaxRebinds]
    /\ lingering \in [Daemons -> BOOLEAN]
    /\ doomed \in [Daemons -> 0 .. MaxVersion]
    /\ cleared \in [Daemons -> BOOLEAN]
    /\ todo \in [Daemons -> SUBSET Versions]
    /\ census \in [Daemons -> SUBSET Versions]
    /\ sweep \in [by : Daemons \cup {NoDaemon}, census : SUBSET Versions]
    /\ sighted \subseteq ({"name", "lock"} \X Versions) \cup ({"owner"} \X Daemons)
    /\ client \in 0 .. MaxVersion
    /\ bequests \in 0 .. MaxBequests
    /\ disturbances \in 0 .. MaxDisturbances
    /\ lost \subseteq Daemons

\* While the daemon has no retired lock, a lock that is held at its name is
\* its own
OwnsHeldLock(d) == LET i == lock[version[d]] IN
    pc[d] = "serving" /\ retiredLock[d] = NoDaemon /\ Held(i) => holds[d] = i

\* The bequest's reading of the lock (27776-27779 of daemon.rs), for every
\* daemon: false of the code.
HeldLockIsOurs == \A d \in Daemons : OwnsHeldLock(d)

\* The bequest tells its own lock from a successor's by this, and it holds of
\* every daemon whose own lock file was not taken from it.  Four steps take
\* one: a flock of a file that left its name after it was opened, a bequest
\* that renames over a lock or renames one taken since it looked, a rollback
\* over a fresh lock, and a sweep.  No other step of any daemon does, and a
\* daemon that lost its lock costs another one its own only by one of them.
BindLockLaw == \A d \in Daemons \ lost : OwnsHeldLock(d)

\* A daemon that serves and cannot be reached by any name
Stranded(d) == pc[d] = "serving" /\ ~Dialable(d)

\* The reclaim thread returned at its start, having found no real file at the
\* name: it was unlinked or re-pointed between the bind and that look
GaveUp(d) == ~Watching(d)

\* The reclaim thread finds nothing to do: the file it bound last stands at
\* the name though its listener is gone, or the linger name is taken, or its
\* listener is left unserved beside one at the daemon's own name
Satisfied(d) ==
    \/ Verdict(d) = "still_ours"
    \/ Verdict(d) = "held_by_another" /\ (reclaimed[d] # 0 \/ lingering[d] # linger[d])

\* Whatever unlinked, re-pointed or replaced the name of a serving daemon
\* whose reclaim thread runs, the daemon can be dialled again, stops serving,
\* or comes into one of the states in which the thread is satisfied with what
\* it sees.  Nobody rescues one whose thread gave up.
StrandedIsRescued ==
    \A d \in Daemons : Stranded(d) ~> ~Stranded(d) \/ Satisfied(d) \/ GaveUp(d)

\* The comments' promise (967-979 and 1145-1146 of daemon.rs), without those
\* escapes: false, since the thread may have given up, and since a listener
\* dropped after a failed accept leaves its file.
StrandedIsAlwaysRescued == \A d \in Daemons : Stranded(d) ~> ~Stranded(d)

\* The reclaim never binds a name that is between two owners (868-874 of
\* daemon.rs): the one this daemon has renamed aside for a successor, or one
\* that a starting daemon has unlinked and is about to bind.
ReclaimSparesBindWindow == [][\A d \in Daemons :
    reclaimed'[d] \notin {0, reclaimed[d]} =>
        /\ bequest[d] # "names"
        /\ \A e \in Daemons \ {d} : ~(pc[e] = "unlinked" /\ version[e] = version[d])]_vars

\* A daemon that ends leaves a name its successor serves (1068-1070 of
\* daemon.rs: taking it would strand whoever bound it).
RetireSparesSuccessor == [][\A d \in Daemons :
    LET e == name[version[d]] IN
        /\ pc[d] = "serving" /\ pc'[d] = "retiring"
        /\ e.kind = "socket" /\ e.of # d /\ Answers(e)
        => name'[version[d]] = e]_vars
=============================================================================
