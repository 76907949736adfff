-------------------------- MODULE OwnershipLedger --------------------------
(***************************************************************************)
(* The handoff-witnessed ownership ledger (ownership_ledger.rs): one JSON  *)
(* file that several daemons write and several resume wrappers read, prune *)
(* and clear.  Every write is a load, a filter and a rename, with no lock  *)
(* between the load and the rename.                                        *)
(*                                                                         *)
(* A Session stands for a (kind, session_id) pair.  A Daemon is one        *)
(* process, and two Daemons may get the same pid one after the other.  The *)
(* file is a bag of records: the order of the vector matters only between  *)
(* two records of the same millisecond, where lookup's choice is left open.*)
(***************************************************************************)
EXTENDS Naturals

CONSTANTS
    Daemon,      \* the daemon processes
    Wrapper,     \* the resume wrappers
    Session,     \* the agent rows
    None,        \* no daemon; no record
    PidOf,       \* the pid of each daemon
    MaxTime,     \* bound of the clock
    AdoptedTtl,  \* ADOPTED_RECORD_TTL_MS
    DiedTtl,     \* DIED_WITH_ME_TTL_MS
    Faults       \* may a load read nothing, and a save fail?

Process == Daemon \cup Wrapper

DaemonPc == {"unborn", "serving", "saving", "leaving", "exiting", "dead"}
WrapperPc == {"idle", "prune", "pruning", "clear", "clearing", "launch"}

(***************************************************************************)
(* by is the adopter of an Adopted record and None in a DiedWithMe one.    *)
(***************************************************************************)
Record == [writer: Daemon, session: Session, by: Daemon \cup {None}, at: 0..MaxTime]

ASSUME ConstantsAssumption ==
    /\ None \notin Daemon
    /\ None \notin Record
    /\ Daemon \cap Wrapper = {}
    /\ MaxTime \in Nat
    /\ AdoptedTtl \in Nat
    /\ DiedTtl \in Nat
    /\ Faults \in BOOLEAN

VARIABLES
    pc,      \* where each process is
    ledger,  \* ownership-ledger.json
    file,    \* what a process that has loaded is about to rename into place
    holder,  \* the daemon that holds each row's PTY
    moved,   \* adopted_identities of a daemon's sweep under way
    now,     \* now_ms()
    want,    \* the session a wrapper resumes
    answer,  \* the record that served it
    stale    \* the stale keys of its lookup

vars == <<pc, ledger, file, holder, moved, now, want, answer, stale>>

(***************************************************************************)
(* A file is a bag: its domain is the records that it holds.               *)
(***************************************************************************)
Empty == [r \in {} |-> 1]
In(f) == DOMAIN f
Only(f, S) == [r \in S |-> f[r]]
With(f, S) == [r \in In(f) \cup S |->
                  IF r \notin In(f) THEN 1 ELSE IF r \in S THEN f[r] + 1 ELSE f[r]]

Runs(d) == pc[d] \notin {"unborn", "dead"}
NotSweeping(d) == \A s \in Session : moved[d][s] = None
Held(d) == {s \in Session : holder[s] = d}

(***************************************************************************)
(* process_is_alive probes the pid alone.                                  *)
(***************************************************************************)
PidIsAlive(d) == \E e \in Daemon : PidOf[e] = PidOf[d] /\ Runs(e)

StillTrue(r) ==
    /\ now <= r.at + (IF r.by = None THEN DiedTtl ELSE AdoptedTtl)
    /\ r.by # None => PidIsAlive(r.by)

(***************************************************************************)
(* A file that is oversize, unreadable or does not parse loads as empty.   *)
(***************************************************************************)
Loads == IF Faults THEN {ledger, Empty} ELSE {ledger}
Saves(p) == IF Faults THEN {file[p], ledger} ELSE {file[p]}

Load(p, next, f) ==
    /\ pc' = [pc EXCEPT ![p] = next]
    /\ file' = [file EXCEPT ![p] = f]

Save(p, next) ==
    /\ pc' = [pc EXCEPT ![p] = next]
    /\ file' = [file EXCEPT ![p] = Empty]
    /\ ledger' \in Saves(p)

Init ==
    \E d \in Daemon :
        /\ pc = [p \in Process |-> IF p \in Wrapper THEN "idle"
                                   ELSE IF p = d THEN "serving" ELSE "unborn"]
        /\ ledger = Empty
        /\ file = [p \in Process |-> Empty]
        /\ holder = [s \in Session |-> d]
        /\ moved = [e \in Daemon |-> [s \in Session |-> None]]
        /\ now = 0
        /\ want \in [Wrapper -> Session]
        /\ answer = [w \in Wrapper |-> None]
        /\ stale = [w \in Wrapper |-> {}]

-----------------------------------------------------------------------------
(* The daemons.                                                            *)

Boot(d) ==
    /\ pc[d] = "unborn"
    /\ ~PidIsAlive(d)
    /\ pc' = [pc EXCEPT ![d] = "serving"]
    /\ UNCHANGED <<ledger, file, holder, moved, now, want, answer, stale>>

(***************************************************************************)
(* A sweep moves one row to its successor, which acked it seated.  A sweep *)
(* holds its daemon's runtime lock, so that daemon seats no row meanwhile. *)
(* An ack that names no adopter leaves no witness.                         *)
(***************************************************************************)
Move(d, b, s) ==
    /\ pc[d] = "serving" /\ pc[b] = "serving" /\ b # d
    /\ \A x \in Session : moved[d][x] \in {None, b}
    /\ NotSweeping(b)
    /\ holder[s] = d
    /\ holder' = [holder EXCEPT ![s] = b]
    /\ moved' \in {moved, [moved EXCEPT ![d][s] = b]}
    /\ UNCHANGED <<pc, ledger, file, now, want, answer, stale>>

\* Mutant: stamped past the clock.
WitnessAhead(d, s, by) == [writer |-> d, session |-> s, by |-> by, at |-> now + 1]

Witness(d, s, by) == [writer |-> d, session |-> s, by |-> by, at |-> now]

\* Mutant: rows the sweep left behind are recorded as died.
AlsoUnmovedRows(d) ==
    {Witness(d, s, moved[d][s]) : s \in {x \in Session : moved[d][x] # None \/ holder[x] = d}}

HandoffRecords(d) ==
    {Witness(d, s, moved[d][s]) : s \in {x \in Session : moved[d][x] # None}}

WriteRecords(d, f) ==
    With(Only(f, {r \in In(f) : PidOf[r.writer] # PidOf[d]}), HandoffRecords(d))

(***************************************************************************)
(* The end of a sweep, also of one that moved nothing: write_records loads *)
(* and then renames.                                                       *)
(***************************************************************************)
EndSweep(d) ==
    /\ pc[d] = "serving"
    /\ \E f \in Loads : Load(d, "saving", WriteRecords(d, f))
    /\ moved' = [moved EXCEPT ![d] = [s \in Session |-> None]]
    /\ UNCHANGED <<ledger, holder, now, want, answer, stale>>

SaveHandoff(d) ==
    /\ pc[d] = "saving"
    /\ Save(d, "serving")
    /\ UNCHANGED <<holder, moved, now, want, answer, stale>>

DyingRecords(d) == {Witness(d, s, None) : s \in Held(d)}

Superseded(d, r) == PidOf[r.writer] = PidOf[d] /\ r.session \in Held(d)

\* Mutant: other writers' records are kept, and carried forward once more.
MergedThenRecorded(d, f) ==
    With(With(Only(f, {r \in In(f) : PidOf[r.writer] # PidOf[d]}),
              {r \in In(f) : ~Superseded(d, r)}),
         DyingRecords(d))

ExitMerged(d, f) ==
    With(Only(f, {r \in In(f) : ~Superseded(d, r)}), DyingRecords(d))

(***************************************************************************)
(* The serve loop has ended: the rows still held die with the daemon.      *)
(* Without such rows nothing is written.                                   *)
(***************************************************************************)
Shutdown(d) ==
    /\ pc[d] = "serving"
    /\ NotSweeping(d)
    /\ \/ /\ Held(d) = {}
          /\ pc' = [pc EXCEPT ![d] = "exiting"]
          /\ UNCHANGED file
       \/ /\ Held(d) # {}
          /\ \E f \in Loads : Load(d, "leaving", ExitMerged(d, f))
    /\ UNCHANGED <<ledger, holder, moved, now, want, answer, stale>>

SaveExit(d) ==
    /\ pc[d] = "leaving"
    /\ Save(d, "exiting")
    /\ UNCHANGED <<holder, moved, now, want, answer, stale>>

(***************************************************************************)
(* The process ends, or crashes at any earlier point; its rows go with it. *)
(***************************************************************************)
Die(d) ==
    /\ Runs(d)
    /\ pc' = [pc EXCEPT ![d] = "dead"]
    /\ file' = [file EXCEPT ![d] = Empty]
    /\ holder' = [s \in Session |-> IF holder[s] = d THEN None ELSE holder[s]]
    /\ moved' = [moved EXCEPT ![d] = [s \in Session |-> None]]
    /\ UNCHANGED <<ledger, now, want, answer, stale>>

-----------------------------------------------------------------------------
(* The resume wrappers.                                                    *)

AfterLookup(r) == IF r # None /\ r.by = None THEN "clear" ELSE "launch"

TrueRecords(f) == {r \in In(f) : StillTrue(r)}

(***************************************************************************)
(* The newest true record of session s; None is NoAnswer.                  *)
(***************************************************************************)
Answers(f, s) ==
    LET mine == {r \in TrueRecords(f) : r.session = s}
    IN  IF mine = {} THEN {None} ELSE {r \in mine : \A q \in mine : q.at <= r.at}

Lookup(w, s) ==
    /\ pc[w] = "idle"
    /\ want' = [want EXCEPT ![w] = s]
    /\ \E f \in Loads : \E r \in Answers(f, s) :
           LET old == In(f) \ TrueRecords(f)
           IN  /\ answer' = [answer EXCEPT ![w] = r]
               /\ stale' = [stale EXCEPT ![w] = {q.session : q \in old}]
               /\ pc' = [pc EXCEPT ![w] = IF old # {} THEN "prune" ELSE AfterLookup(r)]
    /\ UNCHANGED <<ledger, file, holder, moved, now>>

(***************************************************************************)
(* prune reloads, and drops every record of a stale record's session.      *)
(***************************************************************************)
PruneLoad(w) ==
    /\ pc[w] = "prune"
    /\ \E f \in Loads :
           Load(w, "pruning", Only(f, {r \in In(f) : r.session \notin stale[w]}))
    /\ UNCHANGED <<ledger, holder, moved, now, want, answer, stale>>

PruneSave(w) ==
    /\ pc[w] = "pruning"
    /\ Save(w, AfterLookup(answer[w]))
    /\ stale' = [stale EXCEPT ![w] = {}]
    /\ UNCHANGED <<holder, moved, now, want, answer>>

ClearLoad(w) ==
    /\ pc[w] = "clear"
    /\ \E f \in Loads :
           Load(w, "clearing", Only(f, {r \in In(f) : r.session # want[w]}))
    /\ UNCHANGED <<ledger, holder, moved, now, want, answer, stale>>

ClearSave(w) ==
    /\ pc[w] = "clearing"
    /\ Save(w, "launch")
    /\ UNCHANGED <<holder, moved, now, want, answer, stale>>

(***************************************************************************)
(* The wrapper goes on: a serving daemon opens the row if nobody holds it; *)
(* otherwise the wrapper binds to its holder, or gives up.                 *)
(***************************************************************************)
Launch(w) ==
    /\ pc[w] = "launch"
    /\ \/ UNCHANGED holder
       \/ /\ holder[want[w]] = None
          /\ \E d \in Daemon : /\ pc[d] = "serving" /\ NotSweeping(d)
                               /\ holder' = [holder EXCEPT ![want[w]] = d]
    /\ pc' = [pc EXCEPT ![w] = "idle"]
    /\ answer' = [answer EXCEPT ![w] = None]
    /\ UNCHANGED <<ledger, file, moved, now, want, stale>>

-----------------------------------------------------------------------------
Tick ==
    /\ now < MaxTime
    /\ now' = now + 1
    /\ UNCHANGED <<pc, ledger, file, holder, moved, want, answer, stale>>

Next ==
    \/ \E d \in Daemon : \/ Boot(d)
                         \/ \E b \in Daemon, s \in Session : Move(d, b, s)
                         \/ EndSweep(d)
                         \/ SaveHandoff(d)
                         \/ Shutdown(d)
                         \/ SaveExit(d)
                         \/ Die(d)
    \/ \E w \in Wrapper : \/ \E s \in Session : Lookup(w, s)
                          \/ PruneLoad(w)
                          \/ PruneSave(w)
                          \/ ClearLoad(w)
                          \/ ClearSave(w)
                          \/ Launch(w)
    \/ Tick

Spec == Init /\ [][Next]_vars

-----------------------------------------------------------------------------
IsFile(f) == In(f) \subseteq Record /\ \A r \in In(f) : f[r] \in Nat \ {0}

(* The types of the file, the snapshots and the bookkeeping.               *)
TypeOK ==
    /\ pc \in [Process -> DaemonPc \cup WrapperPc]
    /\ IsFile(ledger)
    /\ DOMAIN file = Process
    /\ \A p \in Process : IsFile(file[p])
    /\ holder \in [Session -> Daemon \cup {None}]
    /\ moved \in [Daemon -> [Session -> Daemon \cup {None}]]
    /\ now \in 0..MaxTime
    /\ want \in [Wrapper -> Session]
    /\ answer \in [Wrapper -> Record \cup {None}]
    /\ stale \in [Wrapper -> SUBSET Session]

SoleWitness(f) ==
    /\ \A r \in In(f) : f[r] = 1
    /\ \A q, r \in In(f) :
           PidOf[q.writer] = PidOf[r.writer] /\ q.session = r.session => q = r

(***************************************************************************)
(* The file never grows past one record per pid and row, however loads and *)
(* renames interleave: the defect of a ledger that doubled on every cold   *)
(* exit (save_exit_merge) cannot come back.                                *)
(***************************************************************************)
OneWitnessPerRow == SoleWitness(ledger)

DeathIsCommitted(f) ==
    \A r \in In(f) : r.by = None => pc[r.writer] \in {"leaving", "exiting", "dead"}

(***************************************************************************)
(* A died_with_me record is never in the file for a row its writer still   *)
(* serves: the writer has left its serve loop, even when the record is an  *)
(* old one that a slower writer has renamed back into place.               *)
(***************************************************************************)
DiedIsNotServed == DeathIsCommitted(ledger)

(***************************************************************************)
(* "An invalid record is pruned": what a pending prune is about to remove  *)
(* is no longer true (lookup, prune).                                      *)
(***************************************************************************)
PruneTakesOnlyStale ==
    \A w \in Wrapper : pc[w] = "prune" =>
        \A r \in In(ledger) : r.session \in stale[w] => ~StillTrue(r)

(***************************************************************************)
(* "The consumer that is served by a record clears it": a wrapper that has *)
(* cleared the record that served it goes on without it in the file        *)
(* (clear_satisfied).                                                      *)
(***************************************************************************)
SatisfiedStaysCleared ==
    \A w \in Wrapper :
        pc[w] = "launch" /\ answer[w] # None /\ answer[w].by = None =>
            answer[w] \notin In(ledger)

(***************************************************************************)
(* "An adopted record is only as true as its adopter's liveness": a record *)
(* that lookup takes for true names a daemon that is running               *)
(* (record_is_still_true).                                                 *)
(***************************************************************************)
AdoptedOutlivesNoAdopter ==
    \A r \in In(ledger) : StillTrue(r) /\ r.by # None => Runs(r.by)

(***************************************************************************)
(* "They must not lose their witness": a daemon's new statement keeps a    *)
(* witness for each row that it moved earlier and that its adopter still   *)
(* holds (write_records).                                                  *)
(***************************************************************************)
MovedRowKeepsWitness ==
    \A d \in Daemon : pc[d] = "saving" =>
        \A r \in In(ledger) :
            r.writer = d /\ r.by # None /\ holder[r.session] = r.by /\ StillTrue(r) =>
                \E q \in In(file[d]) : q.writer = d /\ q.session = r.session
=============================================================================
