-------------------------- MODULE HotRestartQueue --------------------------
(***************************************************************************)
(* The swap a host owes: the single-slot file hot-restart-queue.json       *)
(* (hot_restart_queue.rs) and the lane of each daemon's 20 s retire poll   *)
(* that fills, retries and clears it (hot_restart_swap_step).  The file is *)
(* shared by every daemon of the host and by the relay-boundary verb, each *)
(* of which loads it, decides, and renames a new one into place.           *)
(*                                                                         *)
(* A version triple is a natural number; 0 stands for an absent version,   *)
(* time or entry.  The entry's clock, its attempt count and its texts are  *)
(* left out.                                                               *)
(***************************************************************************)
EXTENDS Naturals

CONSTANTS
    Daemon,         \* the daemon processes
    VersionOf,      \* the version of each
    MaxVersion,     \* bound of the versions deployed
    MaxTime,        \* bound of the clock
    Interval,       \* HOT_RESTART_SWAP_RETRY_INTERVAL_MS
    MaxBoundaries   \* bound of the relay boundaries declared

ASSUME ConstantsAssumption ==
    /\ MaxVersion \in Nat \ {0}
    /\ VersionOf \in [Daemon -> 1..MaxVersion]
    /\ MaxTime \in Nat \ {0}
    /\ Interval \in Nat \ {0}
    /\ MaxBoundaries \in Nat

Entry == [target: 0..MaxVersion, last: 0..MaxTime, boundary: 0..MaxTime]
NoEntry == [target |-> 0, last |-> 0, boundary |-> 0]

(***************************************************************************)
(* The locals of one poll: the entry it loaded, the entry it is about to   *)
(* save, its now_ms; and, as history, how many boundaries were declared    *)
(* when it took its now_ms and when it loaded the entry.                   *)
(***************************************************************************)
Frame == [queued: Entry, copy: Entry, at: 0..MaxTime, seen: Nat, read: Nat]
NoFrame == [queued |-> NoEntry, copy |-> NoEntry, at |-> 0, seen |-> 0, read |-> 0]

Pc == {"off", "idle", "clearself", "step", "load", "probe", "converge", "record",
       "recordsave", "attempt", "enqueue", "enqsave", "cold", "gate", "dead"}

VARIABLES
    entry,      \* hot-restart-queue.json; NoEntry when there is no file
    pc,         \* where each daemon's poll is
    frame,      \* its locals
    last,       \* HOT_RESTART_SWAP_LAST_ATTEMPT_MS
    local,      \* HOT_RESTART_SWAP_LOCAL_TARGET
    settled,    \* HOT_RESTART_SWAP_LANE_SETTLED
    relay,      \* the entry that a relay-boundary verb is about to save
    disk,       \* the version of the binary on disk
    now,        \* the clock
    handed,     \* history: daemons whose handoff was accepted
    owing,      \* history: those whose target was ahead of them
    asked,      \* history: how often each has asked for a swap
    declared,   \* history: how many boundaries were declared
    used,       \* history: seen, when it last asked
    spent       \* history: read, when it last asked

statics == <<last, local, settled>>
hostVars == <<relay, disk, now>>
historyVars == <<handed, owing, asked, declared, used, spent>>
vars == <<entry, pc, frame, statics, hostVars, historyVars>>

Init ==
    /\ entry = NoEntry
    /\ pc = [d \in Daemon |-> "off"]
    /\ frame = [d \in Daemon |-> NoFrame]
    /\ last = [d \in Daemon |-> 0]
    /\ local = [d \in Daemon |-> 0]
    /\ settled = {}
    /\ relay = NoEntry
    /\ disk \in 1..MaxVersion
    /\ now = 1
    /\ handed = {}
    /\ owing = {}
    /\ asked = [d \in Daemon |-> 0]
    /\ declared = 0
    /\ used = [d \in Daemon |-> 0]
    /\ spent = [d \in Daemon |-> 0]

Exists(e) == e.target # 0
Runs(d) == pc[d] \notin {"off", "dead"}

Goto(d, p) == pc' = [pc EXCEPT ![d] = p]
Leave(d, p) == Goto(d, p) /\ frame' = [frame EXCEPT ![d] = NoFrame]

-----------------------------------------------------------------------------
(* The rules of hot_restart_queue.rs.                                      *)

SatisfiedBy(target, live) == target # 0 /\ live # 0 /\ live >= target

Writes(existing, incoming) == incoming.target > existing.target

Unspent(e) == e.boundary > e.last

AttemptIsDue(e, t) == Unspent(e) \/ e.last = 0 \/ t >= e.last + Interval

-----------------------------------------------------------------------------
(* The host: builds are deployed, daemons come up and go.                  *)

Deploy ==
    /\ disk < MaxVersion
    /\ disk' = disk + 1
    /\ UNCHANGED <<entry, pc, frame, statics, relay, now, historyVars>>

Tick ==
    /\ now < MaxTime
    /\ now' = now + 1
    /\ UNCHANGED <<entry, pc, frame, statics, relay, disk, historyVars>>

Boot(d) ==
    /\ pc[d] = "off"
    /\ VersionOf[d] <= disk
    /\ Goto(d, "idle")
    /\ UNCHANGED <<entry, frame, statics, hostVars, historyVars>>

Die(d) ==
    /\ Runs(d)
    /\ Leave(d, "dead")
    /\ UNCHANGED <<entry, statics, hostVars, historyVars>>

-----------------------------------------------------------------------------
(* A relay hand-off declares its boundary, the time at which the verb      *)
(* started, on the entry.                                                  *)

DeclareLoad ==
    /\ declared < MaxBoundaries
    /\ ~Exists(relay)
    /\ Exists(entry)
    /\ \E t \in 1..now : relay' = [entry EXCEPT !.boundary = t]
    /\ declared' = declared + 1
    /\ UNCHANGED <<entry, pc, frame, statics, disk, now, handed, owing, asked, used, spent>>

DeclareSave ==
    /\ Exists(relay)
    /\ entry' = relay
    /\ relay' = NoEntry
    /\ UNCHANGED <<pc, frame, statics, disk, now, historyVars>>

-----------------------------------------------------------------------------
(* The retire poll of daemon d.                                            *)

(***************************************************************************)
(* "Am I the successor?"                                                   *)
(***************************************************************************)
Poll(d) ==
    /\ pc[d] = "idle"
    /\ Goto(d, IF SatisfiedBy(entry.target, VersionOf[d]) THEN "clearself" ELSE "step")
    /\ UNCHANGED <<entry, frame, statics, hostVars, historyVars>>

ClearSelf(d) ==
    /\ pc[d] = "clearself"
    /\ entry' = NoEntry
    /\ Goto(d, "step")
    /\ UNCHANGED <<frame, statics, hostVars, historyVars>>

(***************************************************************************)
(* No other bytes on disk, or the same version within its cooldown; or the *)
(* lane has settled.                                                       *)
(***************************************************************************)
SkipLane(d) ==
    /\ pc[d] = "step"
    /\ disk = VersionOf[d] \/ d \in settled
    /\ Goto(d, "idle")
    /\ UNCHANGED <<entry, frame, statics, hostVars, historyVars>>

(***************************************************************************)
(* A newer daemon is live and the daemon's own binary was not replaced: it *)
(* goes to the cold-shutdown gate without the lane.  (A daemon with no     *)
(* session left goes there too, and through it: Die.)                      *)
(***************************************************************************)
BypassLane(d) ==
    /\ pc[d] = "step"
    /\ \E e \in Daemon : Runs(e) /\ VersionOf[e] > VersionOf[d]
    /\ Goto(d, "gate")
    /\ UNCHANGED <<entry, frame, statics, hostVars, historyVars>>

(***************************************************************************)
(* The lane takes its now_ms, and then loads the entry.  The bytes on disk *)
(* may differ at the same version too.                                     *)
(***************************************************************************)
StartLane(d) ==
    /\ pc[d] = "step"
    /\ d \notin settled
    /\ frame' = [frame EXCEPT ![d] = [@ EXCEPT !.at = now, !.seen = declared]]
    /\ Goto(d, "load")
    /\ UNCHANGED <<entry, statics, hostVars, historyVars>>

LoadQueue(d) ==
    /\ pc[d] = "load"
    /\ frame' = [frame EXCEPT ![d] = [@ EXCEPT !.queued = entry, !.read = declared]]
    /\ Goto(d, "probe")
    /\ UNCHANGED <<entry, statics, hostVars, historyVars>>

Queued(d) == frame[d].queued
At(d) == frame[d].at

ConvergenceTarget(d) == IF Exists(Queued(d)) THEN Queued(d).target ELSE local[d]

(***************************************************************************)
(* What live_newer_daemon_version may answer: a probe of a running daemon  *)
(* may fail, and then the next one answers, or none.                       *)
(***************************************************************************)
LiveNewer(d) ==
    {0} \cup {VersionOf[e] : e \in {x \in Daemon : Runs(x) /\ VersionOf[x] > VersionOf[d]}}

SeesSuccessor(d) ==
    /\ pc[d] = "probe"
    /\ \E live \in LiveNewer(d) : SatisfiedBy(ConvergenceTarget(d), live)
    /\ Goto(d, "converge")
    /\ UNCHANGED <<entry, frame, statics, hostVars, historyVars>>

Converge(d) ==
    /\ pc[d] = "converge"
    /\ entry' = NoEntry
    /\ settled' = settled \cup {d}
    /\ Leave(d, "idle")
    /\ UNCHANGED <<last, local, hostVars, historyVars>>

NotSatisfied(d) ==
    /\ pc[d] = "probe"
    /\ \E live \in LiveNewer(d) : ~SatisfiedBy(ConvergenceTarget(d), live)

BoundaryReleases(d) == Exists(Queued(d)) /\ Queued(d).boundary > last[d]

\* Mutant: the process keeps no floor of its own.
NoLocalFloor(d) == TRUE

LocalFloorIsOver(d) ==
    BoundaryReleases(d) \/ last[d] = 0 \/ At(d) >= last[d] + Interval

MayAttempt(d) ==
    /\ Exists(Queued(d)) => AttemptIsDue(Queued(d), At(d))
    /\ LocalFloorIsOver(d)

Wait(d) ==
    /\ NotSatisfied(d)
    /\ ~MayAttempt(d)
    /\ Leave(d, "idle")
    /\ UNCHANGED <<entry, statics, hostVars, historyVars>>

BeginAttempt(d) ==
    /\ NotSatisfied(d)
    /\ MayAttempt(d)
    /\ last' = [last EXCEPT ![d] = At(d)]
    /\ asked' = [asked EXCEPT ![d] = @ + 1]
    /\ used' = [used EXCEPT ![d] = frame[d].seen]
    /\ spent' = [spent EXCEPT ![d] = frame[d].read]
    /\ Goto(d, IF Exists(Queued(d)) THEN "record" ELSE "attempt")
    /\ UNCHANGED <<entry, frame, local, settled, hostVars, handed, owing, declared>>

(***************************************************************************)
(* record_attempt, which finds the entry as it is by now.                  *)
(***************************************************************************)
RecordLoad(d) ==
    /\ pc[d] = "record"
    /\ \/ /\ ~Exists(entry)
          /\ Goto(d, "attempt")
          /\ UNCHANGED frame
       \/ /\ Exists(entry)
          /\ frame' = [frame EXCEPT ![d].copy = [entry EXCEPT !.last = At(d)]]
          /\ Goto(d, "recordsave")
    /\ UNCHANGED <<entry, statics, hostVars, historyVars>>

RecordSave(d) ==
    /\ pc[d] = "recordsave"
    /\ entry' = frame[d].copy
    /\ Goto(d, "attempt")
    /\ UNCHANGED <<frame, statics, hostVars, historyVars>>

\* Mutant: the remembered target is added to, not raised.
SummedTarget(d, target) == target + local[d]

HigherTarget(d, target) == IF target >= local[d] THEN target ELSE local[d]

(***************************************************************************)
(* The handoff is accepted.  A target that is not ahead, or that the       *)
(* binary would not report, is neither remembered nor queued.              *)
(***************************************************************************)
Accepted(d, target) ==
    /\ pc[d] = "attempt"
    /\ target \in {0, disk}
    /\ handed' = handed \cup {d}
    /\ \/ /\ target > VersionOf[d]
          /\ owing' = owing \cup {d}
          /\ local' = [local EXCEPT ![d] = HigherTarget(d, target)]
          /\ frame' = [frame EXCEPT ![d].copy =
                          [target |-> target, last |-> At(d), boundary |-> 0]]
          /\ Goto(d, "enqueue")
       \/ /\ target <= VersionOf[d]
          /\ Leave(d, "idle")
          /\ UNCHANGED <<owing, local>>
    /\ UNCHANGED <<entry, last, settled, hostVars, asked, declared, used, spent>>

\* Mutant: only the shared file says that a swap is owed.
LingersByFile(d) == Exists(Queued(d))

LingersOnFailure(d) == Exists(Queued(d)) \/ local[d] # 0

(***************************************************************************)
(* The handoff fails: SwapStep::Failed goes on to the cold-shutdown gate.  *)
(***************************************************************************)
Refused(d) ==
    /\ pc[d] = "attempt"
    /\ Leave(d, IF LingersOnFailure(d) THEN "idle" ELSE "cold")
    /\ UNCHANGED <<entry, statics, hostVars, historyVars>>

(***************************************************************************)
(* The cold-shutdown gate defers; or it does not, and the daemon dies.     *)
(***************************************************************************)
ColdDeferred(d) ==
    /\ pc[d] \in {"cold", "gate"}
    /\ Goto(d, "idle")
    /\ UNCHANGED <<entry, frame, statics, hostVars, historyVars>>

EnqueueLoad(d) ==
    /\ pc[d] = "enqueue"
    /\ \/ /\ Writes(entry, frame[d].copy)
          /\ Goto(d, "enqsave")
          /\ UNCHANGED frame
       \/ /\ ~Writes(entry, frame[d].copy)
          /\ Leave(d, "idle")
    /\ UNCHANGED <<entry, statics, hostVars, historyVars>>

EnqueueSave(d) ==
    /\ pc[d] = "enqsave"
    /\ entry' = frame[d].copy
    /\ Leave(d, "idle")
    /\ UNCHANGED <<statics, hostVars, historyVars>>

-----------------------------------------------------------------------------
Next ==
    \/ Deploy
    \/ Tick
    \/ DeclareLoad
    \/ DeclareSave
    \/ \E d \in Daemon : \/ Boot(d)
                         \/ Die(d)
                         \/ Poll(d)
                         \/ ClearSelf(d)
                         \/ SkipLane(d)
                         \/ BypassLane(d)
                         \/ StartLane(d)
                         \/ LoadQueue(d)
                         \/ SeesSuccessor(d)
                         \/ Converge(d)
                         \/ Wait(d)
                         \/ BeginAttempt(d)
                         \/ RecordLoad(d)
                         \/ RecordSave(d)
                         \/ \E target \in 0..MaxVersion : Accepted(d, target)
                         \/ Refused(d)
                         \/ ColdDeferred(d)
                         \/ EnqueueLoad(d)
                         \/ EnqueueSave(d)

Spec == Init /\ [][Next]_vars

(***************************************************************************)
(* The retire poll is a loop with a sleep: a running daemon's steps go on. *)
(***************************************************************************)
PollStep(d) ==
    \/ Poll(d) \/ ClearSelf(d) \/ SkipLane(d) \/ StartLane(d) \/ LoadQueue(d)
    \/ SeesSuccessor(d) \/ Converge(d) \/ Wait(d) \/ BeginAttempt(d)
    \/ RecordLoad(d) \/ RecordSave(d) \/ EnqueueLoad(d) \/ EnqueueSave(d)
    \/ Refused(d) \/ ColdDeferred(d)

FairSpec == Spec /\ \A d \in Daemon : WF_vars(PollStep(d))

-----------------------------------------------------------------------------
(* The types of the file, the copies of it, and the lanes.                 *)
TypeOK ==
    /\ entry \in Entry
    /\ pc \in [Daemon -> Pc]
    /\ frame \in [Daemon -> Frame]
    /\ last \in [Daemon -> 0..MaxTime]
    /\ local \in [Daemon -> 0..MaxVersion]
    /\ settled \subseteq Daemon
    /\ relay \in Entry
    /\ disk \in 1..MaxVersion
    /\ now \in 1..MaxTime
    /\ handed \subseteq Daemon
    /\ owing \subseteq Daemon
    /\ asked \in [Daemon -> Nat]
    /\ declared \in Nat
    /\ used \in [Daemon -> Nat]
    /\ spent \in [Daemon -> Nat]

(***************************************************************************)
(* The fork-bomb guard: whatever its peers write to the file or delete     *)
(* from it, a daemon asks for a successor at most once, once more per      *)
(* retry interval, and twice more per declared boundary: a boundary        *)
(* declared between the now_ms of a lane and its load releases that        *)
(* attempt and, being later than it, the next (hot_restart_swap_step).     *)
(***************************************************************************)
AskingIsBudgeted ==
    \A d \in Daemon :
        asked[d] > 1 + 2 * declared => (asked[d] - 1 - 2 * declared) * Interval < now

(***************************************************************************)
(* "ONE boundary buys exactly ONE attempt" (relay_boundary_is_unspent).    *)
(***************************************************************************)
BoundaryBuysOneAttempt ==
    \A d \in Daemon :
        asked[d] > 1 + declared => (asked[d] - 1 - declared) * Interval < now

(***************************************************************************)
(* A daemon that has handed off to a newer build never reaches the cold-   *)
(* shutdown gate through a later failed retry, also when a peer has        *)
(* cleared the entry (SwapStep, hot_restart_swap_step).                    *)
(***************************************************************************)
OwingDaemonStaysWarm == \A d \in Daemon : pc[d] = "cold" => d \notin owing

(***************************************************************************)
(* "A daemon that has ALREADY handed off is a preserved PTY owner": no     *)
(* later failed retry drops it into the cold path (SwapStep).              *)
(***************************************************************************)
HandedOffStaysWarm == \A d \in Daemon : pc[d] = "cold" => d \notin handed

(***************************************************************************)
(* "It is never lost": a daemon about to clear the entry clears a swap     *)
(* that a running daemon satisfies (hot_restart_queue.rs, clear).          *)
(***************************************************************************)
ClearsOnlySatisfied ==
    \A d \in Daemon :
        pc[d] = "clearself" /\ Exists(entry) => SatisfiedBy(entry.target, VersionOf[d])

(***************************************************************************)
(* "A request that cannot run now runs at the next boundary, and it is     *)
(* never lost": a daemon that a newer build on disk should replace, and    *)
(* that no newer daemon can replace, does not stay out of its swap lane    *)
(* for ever (HOT_RESTART_SWAP_LANE_SETTLED).                               *)
(***************************************************************************)
Stranded(d) ==
    /\ Runs(d)
    /\ disk > VersionOf[d]
    /\ \A e \in Daemon : VersionOf[e] > VersionOf[d] => ~Runs(e)

SettledLaneReopens == \A d \in Daemon : []<>~(d \in settled /\ Stranded(d))
=============================================================================
