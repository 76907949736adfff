----------------------------- MODULE PtyHandoff -----------------------------
(***************************************************************************)
(* A daemon that is being replaced hands every terminal it owns to its     *)
(* successor: the PTY master descriptor crosses a Unix socket              *)
(* (SCM_RIGHTS), the predecessor's reader is parked, and the predecessor   *)
(* exits once the successor has survived a settle window.                  *)
(*                                                                         *)
(* Three threads of the predecessor interleave: the sweep                  *)
(* (hand_off_all_runtimes, which holds the runtime lock), the settle       *)
(* watches (which do not) and the request handlers (which need the lock).  *)
(* The successor's listener serves one connection at a time.  Either       *)
(* process may die between any two steps.                                  *)
(*                                                                         *)
(* Time is abstracted: a timeout may fire whenever what it waits for has   *)
(* not happened yet.  The reader's own poll/park race is module            *)
(* ReaderGate.                                                             *)
(***************************************************************************)
EXTENDS Naturals, FiniteSets

CONSTANTS
    Key,                  \* runtime keys
    NoKey,                \* "no key"
    AgentKeys,            \* keys of agent sessions, which another daemon can resume
    RemoteKeys,           \* keys of remote agent sessions, whose launch may be refused
    SameVersion,          \* TRUE: the successor is a rebuild of the same version
    MaxSweeps,            \* bound: hand-off sweeps the predecessor starts
    MaxIncarnations,      \* bound: successor processes spawned
    SelfDialRetries,      \* SELF_DIAL_RETRY_ATTEMPTS
    BootRetries           \* bound: pauses that fit in BOOT_REFUSAL_RETRY_BUDGET

ASSUME NoKeyAssumption == NoKey \notin Key
ASSUME KindsAssumption == AgentKeys \subseteq Key /\ RemoteKeys \subseteq AgentKeys
ASSUME SameVersionAssumption == SameVersion \in BOOLEAN
ASSUME BoundsAssumption ==
    /\ MaxSweeps \in Nat /\ MaxIncarnations \in Nat
    /\ SelfDialRetries \in Nat /\ BootRetries \in Nat \ {0}

VARIABLES
    \* the predecessor process
    pstate,     \* "up", "exited" or "crashed"
    runtime,    \* keys whose PTY runtime (and master fd) the predecessor has
    parked,     \* keys whose reader is parked
    \* its sweep thread
    pc,         \* "idle", "next", "verdict" or "ack"
    sweep,      \* the locals of hand_off_all_runtimes
    cur,        \* the key being sent
    sweeps,     \* sweeps started
    \* its settle watches
    watches,
    \* the connection the sweep has open
    conn,
    \* the successor process
    sstate,     \* "absent", "spawned", "booting", "ready" or "dead"
    inc,        \* which process of that version it is: its (pid, start_time)
    bound,      \* who the hand-off socket path points at: "none", "self", "succ"
    seat,       \* what the successor holds under each key
    late,       \* key of a served connection its sender has abandoned
    \* the children, and what has happened to them
    child,      \* "unborn", "alive", "killed" or "exited"
    unacked,    \* history: committed with no acknowledgement since
    raced,      \* history: resumed by a watch of an earlier sweep
    ackedBy,    \* history: the incarnation that last acknowledged the key
    typed       \* history: keys whose successor-born child was typed into

predVars  == <<pstate, runtime, parked>>
sweepVars == <<pc, sweep, cur, sweeps>>
succVars  == <<sstate, inc, bound, seat, late>>
histVars  == <<unacked, raced, ackedBy, typed>>
vars == <<predVars, sweepVars, watches, conn, succVars, child, histVars>>

-----------------------------------------------------------------------------
(* Data                                                                    *)

Verdicts == {"none", "proceed", "conflict", "boot", "self"}
Acks     == {"none", "adopted", "refused", "closed"}
Supports == {"unknown", "speaks", "one_silence", "silent"}
Seats    == {"none", "orig", "standin", "driven"}

\* all: every key the sweep started with; todo: keys not tried yet
SweepState == [all: SUBSET Key, todo: SUBSET Key, moved: SUBSET Key,
               dropped: SUBSET Key, failed: BOOLEAN, support: Supports,
               identity: Nat, selfTries: Nat, bootTries: Nat]

NoSweep == [all |-> {}, todo |-> {}, moved |-> {}, dropped |-> {},
            failed |-> FALSE, support |-> "unknown", identity |-> 0,
            selfTries |-> 0, bootTries |-> 0]

\* swept is history: the keys of the sweep this watch belongs to
Watch == [held: SUBSET Key, allMoved: BOOLEAN, identity: Nat, leaving: BOOLEAN,
          swept: SUBSET Key]

\* peer: the process connected to.  What it wrote before it died stays readable.
Connection == [st: {"none", "open", "broken"}, to: {"self", "succ"},
               peer: 0..MaxIncarnations,
               verdict: Verdicts, fd: BOOLEAN, ack: Acks]

NoConn == [st |-> "none", to |-> "succ", peer |-> 0, verdict |-> "none",
           fd |-> FALSE, ack |-> "none"]

\* Mutant: a partial sweep classified as a complete one.
AllMovedIfAny(s) == s.moved # {}

\* classify_handoff_sweep: AllMoved needs no failure and every key drained.
AllMoved(s) == ~s.failed /\ s.moved \cup s.dropped = s.all

\* PrecommitSupport::saw_silence
SawSilence(support) ==
    CASE support = "speaks"  -> "speaks"
      [] support = "unknown" -> "one_silence"
      [] OTHER               -> "silent"

\* Mutant: every live child under the key is somebody else's.
SeatedConflicts(k) ==
    CASE seat[k] = "none"    -> "Vacant"
      [] seat[k] = "orig"    -> IF child[k] = "alive" THEN "Conflict" ELSE "Vacant"
      [] seat[k] = "standin" -> "PlaceholderYields"
      [] seat[k] = "driven"  -> "Conflict"

\* TerminalManager::seat_verdict, as the successor answers it for key k
SeatVerdict(k) ==
    CASE seat[k] = "none"    -> "Vacant"
      [] seat[k] = "orig"    -> IF child[k] = "alive" THEN "AlreadySeated" ELSE "Vacant"
      [] seat[k] = "standin" -> "PlaceholderYields"
      [] seat[k] = "driven"  -> "Conflict"

\* Mutant: the adoption trusts the verdict given before the descriptor crossed.
AdoptOnEarlierVerdict(k) == IF child[k] = "alive" THEN "orig" ELSE "none"

\* Mutant: a child that died in transit is adopted all the same.
AdoptDeadToo(k) == IF SeatVerdict(k) = "Conflict" THEN "driven" ELSE "orig"

\* adopt_session, run under the successor's lock: the verdict is taken again,
\* a stand-in is torn down first, and a child that died in transit is refused.
AdoptResult(k) ==
    IF SeatVerdict(k) = "Conflict" THEN "driven"
    ELSE IF child[k] = "alive" THEN "orig" ELSE "none"

SuccUp == sstate \in {"booting", "ready"}

PredReads(k) == pstate = "up" /\ k \in runtime /\ k \notin parked
SuccReads(k) == seat[k] = "orig" /\ child[k] = "alive"

-----------------------------------------------------------------------------
Init ==
    /\ pstate = "up"
    /\ runtime \in SUBSET Key
    /\ parked = {}
    /\ pc = "idle" /\ sweep = NoSweep /\ cur = NoKey /\ sweeps = 0
    /\ watches = {}
    /\ conn = NoConn
    /\ sstate = "absent" /\ inc = 0
    /\ bound = IF SameVersion THEN "self" ELSE "none"
    /\ seat = [k \in Key |-> "none"]
    /\ late = NoKey
    /\ child = [k \in Key |-> IF k \in runtime THEN "alive" ELSE "unborn"]
    /\ unacked = {} /\ raced = {} /\ ackedBy = [k \in Key |-> 0] /\ typed = {}

-----------------------------------------------------------------------------
(* The sweep (hand_off_all_runtimes)                                       *)

\* The lock is taken, every reader is asked to stand down.  Both callers (the
\* HotRestart handler and the superseded-retire poll) need a hand-off socket.
StartSweep ==
    /\ pstate = "up" /\ pc = "idle"
    /\ sstate # "absent" /\ bound # "none"
    /\ runtime # {}
    /\ sweeps < MaxSweeps
    /\ sweeps' = sweeps + 1
    /\ parked' = parked \cup runtime
    /\ raced' = raced \ runtime
    /\ pc' = "next"
    /\ sweep' = [NoSweep EXCEPT !.all = runtime, !.todo = runtime]
    /\ UNCHANGED <<pstate, runtime, cur, watches, conn, succVars, child,
                   unacked, ackedBy, typed>>

\* The descriptor is sent: the commit point.
CommitFd(c) == [c EXCEPT !.fd = TRUE]

\* What the loop over the keys books for a key it is done with.
Moved(s, k, id) == [s EXCEPT !.todo = @ \ {k}, !.selfTries = 0,
                             !.moved = @ \cup {k}, !.identity = id]
Dropped(s, k) == [s EXCEPT !.todo = @ \ {k}, !.selfTries = 0, !.dropped = @ \cup {k}]
Failed(s, k) == [s EXCEPT !.todo = @ \ {k}, !.selfTries = 0, !.failed = TRUE]

\* The successor answered before the commit point.
Heard(s) == [s EXCEPT !.support = "speaks"]

\* The loop is about to try k: a new key, or the one being retried.
Trying(k) ==
    /\ pc = "next" /\ k \in sweep.todo
    /\ \/ cur = k
       \/ cur = NoKey /\ child[k] = "alive"

\* handoff_takeout finds no live process behind the key.
TakeoutFails(k) ==
    /\ pstate = "up" /\ pc = "next" /\ cur = NoKey /\ k \in sweep.todo
    /\ child[k] # "alive"
    /\ sweep' = Failed(sweep, k)
    /\ UNCHANGED <<predVars, pc, cur, sweeps, watches, conn, succVars, child, histVars>>

\* Nobody listens behind the socket path: the key fails uncommitted.
ConnectFails(k) ==
    /\ pstate = "up" /\ Trying(k)
    /\ bound = "succ" /\ ~SuccUp
    /\ sweep' = Failed(sweep, k)
    /\ cur' = NoKey
    /\ UNCHANGED <<predVars, pc, sweeps, watches, conn, succVars, child, histVars>>

\* Connect and write the metadata line.  A successor already known to be
\* silent is not waited for: the descriptor follows at once.
Dial(k) ==
    /\ pstate = "up" /\ Trying(k)
    /\ bound = "self" \/ SuccUp
    /\ cur' = k
    /\ conn' = [NoConn EXCEPT !.st = "open", !.to = bound, !.peer = inc,
                              !.fd = (sweep.support = "silent")]
    /\ pc' = IF sweep.support = "silent" THEN "ack" ELSE "verdict"
    /\ UNCHANGED <<predVars, sweep, sweeps, watches, succVars, child, histVars>>

\* No verdict within PRECOMMIT_VERDICT_TIMEOUT: remember it and send blind.
VerdictTimeout ==
    /\ pstate = "up" /\ pc = "verdict"
    /\ conn.st = "open" /\ conn.verdict = "none"
    /\ sweep' = [sweep EXCEPT !.support = SawSilence(@)]
    /\ conn' = CommitFd(conn)
    /\ pc' = "ack"
    /\ UNCHANGED <<predVars, cur, sweeps, watches, succVars, child, histVars>>

\* The successor can seat the session: send the descriptor.
VerdictProceed ==
    /\ pstate = "up" /\ pc = "verdict"
    /\ conn.st = "open" /\ conn.verdict = "proceed"
    /\ sweep' = Heard(sweep)
    /\ conn' = CommitFd(conn)
    /\ pc' = "ack"
    /\ UNCHANGED <<predVars, cur, sweeps, watches, succVars, child, histVars>>

\* Mutants: one retry too many; a retry that does not use up the budget.
MayRetryBootOnceMore(tries) == tries <= BootRetries
ForgetBootRetry(tries) == tries

MayRetrySelf(tries) == tries < SelfDialRetries
MayRetryBoot(tries) == tries < BootRetries
CountBootRetry(tries) == tries + 1
RetriedSelf(s) == [s EXCEPT !.selfTries = @ + 1]
RetriedBoot(s) == [s EXCEPT !.bootTries = CountBootRetry(@)]
BudgetSpent(s) == [s EXCEPT !.bootTries = BootRetries]

\* A refusal that can clear by itself: the self-dial is retried a fixed number
\* of times per key, the boot refusal within one budget for the whole sweep.
RetryRefused ==
    /\ pstate = "up" /\ pc = "verdict"
    /\ \/ /\ conn.verdict = "self" /\ MayRetrySelf(sweep.selfTries)
          /\ sweep' = Heard(RetriedSelf(sweep))
       \/ /\ conn.verdict = "boot" /\ MayRetryBoot(sweep.bootTries)
          /\ sweep' = Heard(RetriedBoot(sweep))
    /\ conn' = NoConn
    /\ pc' = "next"
    /\ UNCHANGED <<predVars, cur, sweeps, watches, succVars, child, histVars>>

\* The attempts are used up, or the boot budget has run out (it may at any
\* pause, and then stays spent for every later key).
GiveUpRefused ==
    /\ pstate = "up" /\ pc = "verdict"
    /\ \/ /\ conn.verdict = "self" /\ ~MayRetrySelf(sweep.selfTries)
          /\ sweep' = Heard(Failed(sweep, cur))
       \/ /\ conn.verdict = "boot" /\ sweep.bootTries > 0
          /\ sweep' = Heard(Failed(BudgetSpent(sweep), cur))
    /\ conn' = NoConn /\ cur' = NoKey
    /\ pc' = "next"
    /\ UNCHANGED <<predVars, sweeps, watches, succVars, child, histVars>>

\* Mutant: any refusal taken for a seat conflict.
AnyRefusal(verdict) == verdict \in {"conflict", "boot"}

\* message_is_seat_conflict
IsSeatConflict(verdict) == verdict = "conflict"

\* A pre-commit seat conflict: the successor holds a different live child, so
\* the predecessor's copy is a duplicate.  Wake its reader, tear it down.  If
\* remove_session reports an error the runtime is gone all the same, but the
\* key counts as failed.
DropDuplicate ==
    /\ pstate = "up" /\ pc = "verdict" /\ IsSeatConflict(conn.verdict)
    /\ \/ sweep' = Heard(Dropped(sweep, cur))
       \/ sweep' = Heard(Failed(sweep, cur))
    /\ runtime' = runtime \ {cur}
    /\ parked' = parked \ {cur}
    /\ child' = [child EXCEPT ![cur] = IF @ = "alive" THEN "killed" ELSE @]
    /\ conn' = NoConn /\ cur' = NoKey
    /\ pc' = "next"
    /\ UNCHANGED <<pstate, sweeps, watches, succVars, histVars>>

\* The connection broke before the descriptor was sent: uncommitted.
VerdictLost ==
    /\ pstate = "up" /\ pc = "verdict"
    /\ conn.st = "broken" /\ conn.verdict \in {"none", "proceed"}
    /\ sweep' = Failed(sweep, cur)
    /\ conn' = NoConn /\ cur' = NoKey
    /\ pc' = "next"
    /\ UNCHANGED <<predVars, sweeps, watches, succVars, child, histVars>>

\* The acknowledgement names the adopting process.
AckAdopted ==
    /\ pstate = "up" /\ pc = "ack" /\ conn.ack = "adopted"
    /\ sweep' = Moved(sweep, cur, conn.peer)
    /\ ackedBy' = [ackedBy EXCEPT ![cur] = conn.peer]
    /\ unacked' = unacked \ {cur}
    /\ conn' = NoConn /\ cur' = NoKey
    /\ pc' = "next"
    /\ UNCHANGED <<predVars, sweeps, watches, succVars, child, raced, typed>>

\* Everything after the commit point that is not an adoption: refused, closed,
\* broken, or silent for ACK_TIMEOUT.  A connection that was already told to
\* proceed is still served by the successor after its sender has gone.
AckFails ==
    /\ pstate = "up" /\ pc = "ack" /\ conn.ack # "adopted"
    /\ sweep' = Failed(sweep, cur)
    /\ unacked' = unacked \cup {cur}
    /\ late' = IF conn.st = "open" /\ conn.to = "succ" /\ conn.verdict = "proceed"
                    /\ conn.ack = "none" THEN cur ELSE late
    /\ conn' = NoConn /\ cur' = NoKey
    /\ pc' = "next"
    /\ UNCHANGED <<predVars, sweeps, watches, sstate, inc, bound, seat, child,
                   raced, ackedBy, typed>>

\* Mutant: every reader wakes, as it does when nothing moved.
ResumeAll(s) == s.all \ s.dropped

\* The readers that wake at the end of a sweep.
Resumed(s) == s.all \ (s.moved \cup s.dropped)

\* The parks split: what moved stays parked under a settle watch, the rest
\* resumes.  A sweep that moved nothing needs no watch.
FinishSweep ==
    /\ pstate = "up" /\ pc = "next" /\ sweep.todo = {}
    /\ parked' = parked \ Resumed(sweep)
    /\ watches' = IF sweep.moved = {} THEN watches
                  ELSE watches \cup {[held |-> sweep.moved,
                                      allMoved |-> AllMoved(sweep),
                                      identity |-> sweep.identity,
                                      leaving |-> FALSE,
                                      swept |-> sweep.all]}
    /\ pc' = "idle" /\ sweep' = NoSweep
    /\ UNCHANGED <<pstate, runtime, cur, sweeps, conn, succVars, child, histVars>>

-----------------------------------------------------------------------------
(* The settle watch (spawn_handoff_settle_watch)                           *)

\* successor_still_holding: the process the acknowledgement named is alive.
SuccessorStillHolding(id) == inc = id /\ sstate \in {"spawned", "booting", "ready"}

\* The successor died inside the window: wake every reader this watch holds.
WatchSuccessorDied(w) ==
    /\ pstate = "up" /\ w \in watches /\ ~w.leaving
    /\ ~SuccessorStillHolding(w.identity)
    /\ parked' = parked \ w.held
    /\ raced' = raced \cup {k \in w.held : pc # "idle" \/ seat[k] = "orig"}
    /\ watches' = watches \ {w}
    /\ UNCHANGED <<pstate, runtime, sweepVars, conn, succVars, child,
                   unacked, ackedBy, typed>>

\* The window ended with the last poll seeing the successor.  After a partial
\* sweep the watch just ends; otherwise it aliases the socket and leaves.
WatchWindowEnds(w) ==
    /\ pstate = "up" /\ w \in watches /\ ~w.leaving
    /\ SuccessorStillHolding(w.identity)
    /\ watches' = IF w.allMoved THEN (watches \ {w}) \cup {[w EXCEPT !.leaving = TRUE]}
                  ELSE watches \ {w}
    /\ UNCHANGED <<predVars, sweepVars, conn, succVars, child, histVars>>

\* What the end of the predecessor's process does to its open connection.
Hangup ==
    /\ conn' = NoConn /\ pc' = "idle" /\ sweep' = NoSweep /\ cur' = NoKey
    /\ late' = IF conn.st = "open" /\ conn.to = "succ" /\ conn.verdict = "proceed"
                    /\ conn.fd /\ conn.ack = "none" THEN cur ELSE late

\* process::exit(0): every master descriptor of this process closes.
Exit(w) ==
    /\ pstate = "up" /\ w \in watches /\ w.leaving
    /\ pstate' = "exited"
    /\ runtime' = {} /\ watches' = {}
    /\ Hangup
    /\ UNCHANGED <<parked, sweeps, sstate, inc, bound, seat, child, histVars>>

\* The process ends in any other way: killed, retired, or replaced by exec.
PredCrash ==
    /\ pstate = "up"
    /\ pstate' = "crashed"
    /\ runtime' = {} /\ watches' = {}
    /\ Hangup
    /\ UNCHANGED <<parked, sweeps, sstate, inc, bound, seat, child, histVars>>

-----------------------------------------------------------------------------
(* The successor                                                           *)

SpawnSuccessor ==
    /\ sstate \in {"absent", "dead"} /\ inc < MaxIncarnations
    /\ sstate' = "spawned" /\ inc' = inc + 1
    /\ UNCHANGED <<predVars, sweepVars, watches, conn, bound, seat, late, child, histVars>>

\* The listener unlinks whatever is at the path and binds it.
BindListener ==
    /\ sstate = "spawned"
    /\ sstate' = "booting" /\ bound' = "succ"
    /\ UNCHANGED <<predVars, sweepVars, watches, conn, inc, seat, late, child, histVars>>

\* DAEMON_READY_TO_SEAT
BecomeReady ==
    /\ sstate = "booting"
    /\ sstate' = "ready"
    /\ UNCHANGED <<predVars, sweepVars, watches, conn, inc, bound, seat, late, child, histVars>>

\* serve_handoff up to the verdict.  A refusal is followed by a refused ack on
\* the same connection and the descriptor is never received.  The boot answer
\* does not take the lock.
ServeVerdict ==
    /\ conn.st = "open" /\ conn.to = "succ" /\ conn.verdict = "none"
    /\ SuccUp /\ late = NoKey
    /\ \/ /\ sstate = "booting"
          /\ conn' = [conn EXCEPT !.verdict = "boot", !.ack = "refused"]
       \/ /\ sstate = "ready" /\ SeatVerdict(cur) = "Conflict"
          /\ conn' = [conn EXCEPT !.verdict = "conflict", !.ack = "refused"]
       \/ /\ sstate = "ready" /\ SeatVerdict(cur) # "Conflict"
          /\ conn' = [conn EXCEPT !.verdict = "proceed"]
    /\ UNCHANGED <<predVars, sweepVars, watches, succVars, child, histVars>>

\* The predecessor's own listener recognises its own pid, refuses without the
\* lock and drops the connection.
RefuseSelfDial ==
    /\ pstate = "up"
    /\ conn.st = "open" /\ conn.to = "self" /\ conn.verdict = "none"
    /\ conn' = [conn EXCEPT !.verdict = "self", !.ack = "closed"]
    /\ UNCHANGED <<predVars, sweepVars, watches, succVars, child, histVars>>

\* serve_handoff after the descriptor arrived: adopt, then acknowledge.
ServeAdopt ==
    /\ conn.st = "open" /\ conn.to = "succ"
    /\ conn.verdict = "proceed" /\ conn.fd /\ conn.ack = "none"
    /\ sstate = "ready" /\ late = NoKey
    /\ seat' = [seat EXCEPT ![cur] = AdoptResult(cur)]
    /\ conn' = [conn EXCEPT !.ack = IF AdoptResult(cur) = "orig" THEN "adopted" ELSE "refused"]
    /\ UNCHANGED <<predVars, sweepVars, watches, sstate, inc, bound, late, child, histVars>>

\* The same after the sender has gone: nobody reads the acknowledgement.
ServeLateAdopt ==
    /\ late # NoKey /\ sstate = "ready"
    /\ seat' = [seat EXCEPT ![late] = AdoptResult(late)]
    /\ late' = NoKey
    /\ UNCHANGED <<predVars, sweepVars, watches, conn, sstate, inc, bound, child, histVars>>

\* A client of the successor opens the row before the hand-off reaches it.
OpenStandIn(k) ==
    /\ SuccUp /\ seat[k] = "none"
    /\ seat' = [seat EXCEPT ![k] = "standin"]
    /\ UNCHANGED <<predVars, sweepVars, watches, conn, sstate, inc, bound, late, child, histVars>>

\* Client input: from now on that child is somebody's session.
TypeIntoStandIn(k) ==
    /\ SuccUp /\ seat[k] = "standin"
    /\ seat' = [seat EXCEPT ![k] = "driven"]
    /\ typed' = typed \cup {k}
    /\ UNCHANGED <<predVars, sweepVars, watches, conn, sstate, inc, bound, late, child,
                   unacked, raced, ackedBy>>

\* The user closes the row in the successor.
CloseAtSuccessor(k) ==
    /\ SuccUp /\ seat[k] # "none"
    /\ seat' = [seat EXCEPT ![k] = "none"]
    /\ child' = IF seat[k] = "orig" /\ child[k] = "alive"
                THEN [child EXCEPT ![k] = "killed"] ELSE child
    /\ UNCHANGED <<predVars, sweepVars, watches, conn, sstate, inc, bound, late, histVars>>

SuccCrash ==
    /\ sstate \in {"spawned", "booting", "ready"}
    /\ sstate' = "dead"
    /\ seat' = [k \in Key |-> "none"]
    /\ late' = NoKey
    /\ conn' = IF conn.st = "open" /\ conn.to = "succ" THEN [conn EXCEPT !.st = "broken"]
               ELSE conn
    /\ UNCHANGED <<predVars, sweepVars, watches, inc, bound, child, histVars>>

-----------------------------------------------------------------------------
(* Requests and background work of the predecessor; all take the lock.     *)

CreateSession(k) ==
    /\ pstate = "up" /\ pc = "idle" /\ k \notin runtime /\ child[k] = "unborn"
    /\ runtime' = runtime \cup {k}
    /\ child' = [child EXCEPT ![k] = "alive"]
    /\ UNCHANGED <<pstate, parked, sweepVars, watches, conn, succVars, histVars>>

\* One tick of the progressive drain: with an adopter reachable, an idle agent
\* runtime is torn down here so that the adopter resumes the session.
DrainRelease(k) ==
    /\ pstate = "up" /\ pc = "idle" /\ sstate = "ready"
    /\ k \in runtime \cap AgentKeys
    /\ runtime' = runtime \ {k}
    /\ parked' = parked \ {k}
    /\ child' = [child EXCEPT ![k] = IF @ = "alive" THEN "killed" ELSE @]
    /\ UNCHANGED <<pstate, sweepVars, watches, conn, succVars, histVars>>

\* teardown_refused_remote_runtime asks park_reader whether the reader is
\* parked; park_reader parks it before it answers, so the early return is
\* always taken.
TeardownRefused(k) ==
    /\ pstate = "up" /\ pc = "idle" /\ k \in runtime \cap RemoteKeys
    /\ parked' = parked \cup {k}
    /\ UNCHANGED <<pstate, runtime, sweepVars, watches, conn, succVars, child, histVars>>

\* session_keys: the runtimes whose child runs, parked ones included.
RunningKeys == {k \in runtime : child[k] = "alive"}

\* The Shutdown request.  While any runtime runs it writes the preserving
\* hand-off, starts the drain and lingers, which changes nothing here; with none
\* there is nothing left to stop and the process ends.
Shutdown ==
    /\ pstate = "up" /\ pc = "idle"
    /\ RunningKeys = {}
    /\ pstate' = "exited"
    /\ runtime' = {} /\ watches' = {}
    /\ UNCHANGED <<parked, sweepVars, conn, succVars, child, histVars>>

\* The shell ends by itself; its runtime stays until somebody replaces it.
ChildExits(k) ==
    /\ child[k] = "alive"
    /\ child' = [child EXCEPT ![k] = "exited"]
    /\ UNCHANGED <<predVars, sweepVars, watches, conn, succVars, histVars>>

-----------------------------------------------------------------------------
SweepStep ==
    \/ \E k \in Key : TakeoutFails(k) \/ ConnectFails(k) \/ Dial(k)
    \/ VerdictTimeout \/ VerdictProceed \/ RetryRefused \/ GiveUpRefused
    \/ DropDuplicate \/ VerdictLost \/ AckAdopted \/ AckFails \/ FinishSweep

WatchStep ==
    \E w \in watches : WatchSuccessorDied(w) \/ WatchWindowEnds(w) \/ Exit(w)

ServeStep == ServeVerdict \/ ServeAdopt \/ ServeLateAdopt \/ RefuseSelfDial

Environment ==
    \/ StartSweep \/ PredCrash \/ Shutdown
    \/ SpawnSuccessor \/ BindListener \/ BecomeReady \/ SuccCrash
    \/ \E k \in Key : \/ OpenStandIn(k) \/ TypeIntoStandIn(k) \/ CloseAtSuccessor(k)
                      \/ CreateSession(k) \/ DrainRelease(k) \/ TeardownRefused(k)
                      \/ ChildExits(k)

Next == SweepStep \/ WatchStep \/ ServeStep \/ Environment

Spec == Init /\ [][Next]_vars

\* The sweep is straight-line code with a timeout on every wait; nothing else
\* is assumed to make progress.
FairSpec == Spec /\ WF_vars(SweepStep)

-----------------------------------------------------------------------------
TypeOK ==
    /\ pstate \in {"up", "exited", "crashed"}
    /\ runtime \subseteq Key /\ parked \subseteq Key
    /\ pc \in {"idle", "next", "verdict", "ack"}
    /\ sweep \in SweepState
    /\ sweep.selfTries \in 0..SelfDialRetries /\ sweep.bootTries \in 0..BootRetries
    /\ cur \in Key \cup {NoKey}
    /\ sweeps \in 0..MaxSweeps
    /\ watches \subseteq Watch
    /\ conn \in Connection
    /\ sstate \in {"absent", "spawned", "booting", "ready", "dead"}
    /\ inc \in 0..MaxIncarnations
    /\ bound \in {"none", "self", "succ"}
    /\ seat \in [Key -> Seats]
    /\ late \in Key \cup {NoKey}
    /\ child \in [Key -> {"unborn", "alive", "killed", "exited"}]
    /\ unacked \subseteq Key /\ raced \subseteq Key /\ typed \subseteq Key
    /\ ackedBy \in [Key -> 0..MaxIncarnations]

\* ReaderPark exists so that two daemons never consume the same PTY (each
\* would get a random part of the output).  The predecessor reads a PTY its
\* successor has seated only if the descriptor was committed without an
\* acknowledgement, or a watch of an earlier sweep woke the reader.
OneReader ==
    \A k \in Key : PredReads(k) /\ SuccReads(k) => k \in unacked \cup raced

\* A conflict tells the predecessor to destroy its copy.  A session sent again,
\* after an acknowledgement was lost or a settle watch woke its reader, is seated
\* at the successor already: the child a sweep drops as a duplicate is never one
\* the successor serves.
DropSparesSeated == [][DropDuplicate => ~SuccReads(cur)]_vars

\* The settle watch may end the process only when the sweep moved everything:
\* a session of that sweep that is still alive is seated in the process that
\* acknowledged it, as long as that process lives.
ExitStrandsNothing ==
    [][\A w \in watches : Exit(w) =>
          \A k \in w.swept \cap runtime :
             \/ child[k] # "alive"
             \/ SuccReads(k)
             \/ ackedBy[k] # 0 /\ ~SuccessorStillHolding(ackedBy[k])]_vars

\* The seat verdict is taken before the descriptor crosses and again at the
\* adoption: a child the successor's user has typed into in between is never
\* replaced by the one that arrives.
TypedChildSurvives ==
    [][\A k \in Key : seat[k] = "driven" => seat'[k] # "orig"]_vars

\* Only a seat conflict makes the sweep tear its own copy down: whatever it
\* dropped, a user had typed into the successor's child of that key.  A boot or
\* self-dial refusal never costs a session.
DropsOnlyDuplicates == sweep.dropped \subseteq typed

\* Every wait in a sweep is bounded, so the runtime lock is given back, however
\* slow, silent or dead the successor is.
SweepEnds == pc # "idle" ~> pc = "idle"

Ownership == INSTANCE SessionOwnership
    WITH Session <- Key, life <- child,
         oldHolds <- runtime,
         newHolds <- {k \in Key : seat[k] = "orig"},
         oldReads <- {k \in Key : PredReads(k) /\ child[k] = "alive"},
         newReads <- {k \in Key : SuccReads(k)},
         disputed <- unacked \cup raced

\* The daemons implement the abstract ownership of sessions: through every sweep,
\* watch, crash and late adoption a session is taken over only from a silent
\* reader, resumes only where nobody else reads, is killed only by a holder that
\* lets it go, and a dispute about it ends only with the old reader silent.
ImplementsOwnership == Ownership!Spec

-----------------------------------------------------------------------------
(* Statements of the code's own comments that the code does not keep.      *)

\* HandoffError.committed: "the fd is gone and the session is the successor's;
\* the caller must NOT keep driving it".
CommittedIsNotDriven ==
    \A k \in unacked : ~(PredReads(k) /\ SuccReads(k))

\* "a park nobody watches is a session that has silently stopped painting":
\* a session that was moved and that no live successor serves is watched.
ParkedIsWatched ==
    \A k \in parked \cap runtime :
       /\ pstate = "up" /\ pc = "idle" /\ child[k] = "alive"
       /\ ackedBy[k] # 0 /\ sstate = "dead"
       => \E w \in watches : k \in w.held

\* teardown_refused_remote_runtime: "a parked reader means another daemon is
\* serving this pty".
ParkedMeansHandedOver ==
    pc = "idle" /\ pstate = "up" => \A k \in parked \cap runtime : ackedBy[k] # 0

\* shutdown_all: stopping a handed-over runtime "would kill a shell that a live
\* daemon is currently painting for the user".  No step of the predecessor
\* kills a child whose reader it has parked for the successor.
ParkedChildIsNotKilled ==
    [][\A k \in parked : SuccReads(k) /\ seat'[k] = "orig"
          => ~(child[k] = "alive" /\ child'[k] = "killed")]_vars

\* "MUST NOT exit, because exiting would close their masters": the settle
\* watch leaves no live session without a daemon that holds it.
ExitKeepsEverySession ==
    [][\A w \in watches : Exit(w) =>
          \A k \in runtime : child[k] = "alive" /\ SuccUp => SuccReads(k)]_vars

\* "nothing was ever dropped - only silenced": when the settle watch leaves and
\* the successor it watched is alive, that process holds every session whose
\* park the watch was given.
HeldSessionsSurviveExit ==
    [][\A w \in watches : Exit(w) /\ SuccessorStillHolding(w.identity) =>
          \A k \in w.held \cap runtime : child[k] = "alive" => SuccReads(k)]_vars
=============================================================================
