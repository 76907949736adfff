--------------------------- MODULE RowTombstones ---------------------------
(***************************************************************************)
(* The memory that makes a user's close of a live row stick                *)
(* (live_row_tombstones.rs) and the daemons that share it (daemon.rs and   *)
(* lib.rs of yggterm-server).                                              *)
(*                                                                         *)
(* Every daemon of one home reads and writes removed-rows.json.  A write   *)
(* is a read-modify-write of the shared file under a lock that is given up *)
(* on after a wait budget (mutate_shared, TombstoneFileLock::acquire); the *)
(* file is read again at every door that could bring a closed row back.  A *)
(* row that ENTERED a daemon's live order since its last persist lifts its *)
(* own close; one that expired is dropped.                                 *)
(*                                                                         *)
(* Ages instead of clock readings: file[r] is how many ticks ago the close *)
(* of r was recorded, at most TTL, and NotRecorded when there is none.  A  *)
(* tick is a fraction of the three-day TTL, so no operation spans one.     *)
(* Left out: the departures log of the same file, the folding of row keys  *)
(* to identities, and recoverability of a row (Import may refuse any).     *)
(***************************************************************************)
EXTENDS Integers, FiniteSets

CONSTANTS
    Daemon,         \* the daemons of one home
    Row,            \* row identities
    NoDaemon,       \* the lock file is not locked
    TTL,            \* ticks after which a close is forgotten
    MaxTombstones   \* cap on remembered closes

ASSUME NoDaemonAssumption == NoDaemon \notin Daemon
ASSUME TTLAssumption == TTL \in Nat /\ TTL >= 2
ASSUME CapAssumption == MaxTombstones \in Nat
ASSUME RowAssumption == IsFiniteSet(Row)

RenewalAge == TTL \div 2

VARIABLES
    file,       \* removed-rows.json: the age of each remembered close
    holder,     \* who holds the flock on the lock file
    state,      \* the rows of the shared server-state.json
    live,       \* per daemon: its live order, as a set
    seen,       \* per daemon: live_row_identities_seen
    muted,      \* per daemon: routine persists are muted
    pc,         \* per daemon: the step its runtime lock is held for
    copy,       \* per daemon: what mutate_shared read and is about to change
    cache,      \* per daemon: the set its import walk refreshed
    rows,       \* per daemon: the rows of the operation under way
    door,       \* per daemon: which door's offers it is deciding on
    due,        \* per daemon: the takeover thread of its start has not run
    \* History, read by no action.
    closed,     \* closes recorded and since neither lifted, expired, evicted nor
                \* overwritten
    arrived,    \* per daemon: rows that entered since its last reconcile, or that a
                \* close could not remove
    reopened,   \* per daemon: rows the user opened there, not closed or overwritten
                \* since, and no persist of theirs failed to read or write the file
    recent,     \* per daemon: closes its door has not read: recorded since it read the
                \* file, or all of them when the file could not be read
    outdated,   \* per daemon: the file has closes its copy lacks: another write landed
                \* since it was read, or the read failed
    quiet       \* per row: ticks since the close was recorded or last re-armed

mem  == <<live, seen, muted>>
ops  == <<pc, copy, cache, rows, door, due>>
hist == <<closed, arrived, reopened, recent, outdated, quiet>>
vars == <<file, holder, state, mem, ops, hist>>

NotRecorded == -1
Age == NotRecorded .. TTL
Entries == [Row -> Age]

Doors == {"none", "boot", "adopt", "takeover", "sweep"}
\* The steps at which a daemon has read the file and not yet published.
Writing == {"record", "reconcile", "touch"}
Steps == Writing \cup {"down", "boot", "start", "adopt", "idle", "persist", "ask", "rearm", "import"}

Empty == [r \in Row |-> NotRecorded]
Recorded(f) == {r \in Row : f[r] # NotRecorded}
Expired(a) == a >= TTL
Blocks(f, r) == f[r] # NotRecorded /\ ~Expired(f[r])
Blocked(f) == {r \in Row : Blocks(f, r)}

\* Oldest close first.  One record at a time is added, so one eviction is enough;
\* among equally old closes the order of identities decides.
EvictOverCap(f) ==
    IF Cardinality(Recorded(f)) <= MaxTombstones THEN f
    ELSE LET oldest == CHOOSE r \in Recorded(f) : \A q \in Recorded(f) : f[q] <= f[r]
         IN  [f EXCEPT ![oldest] = NotRecorded]

\* The closes a write of f over g dropped to keep the cap.
Evicted(g, f) == {r \in Recorded(g) : f[r] = NotRecorded}

Clear(f, S) == [r \in Row |-> IF r \in S THEN NotRecorded ELSE f[r]]

Gc(f) == EvictOverCap(Clear(f, {r \in Row : Expired(f[r])}))

\* LiveRowTombstones::record: a close already in the set keeps its age.
Record(f, r) == IF f[r] # NotRecorded THEN f ELSE EvictOverCap([f EXCEPT ![r] = 0])

\* Mutant: the half-life is passed one tick too late.
TouchLate(f, S) ==
    [r \in Row |-> IF r \notin S \/ f[r] = NotRecorded THEN f[r]
                   ELSE IF Expired(f[r]) THEN NotRecorded
                   ELSE IF f[r] > RenewalAge THEN 0 ELSE f[r]]

\* LiveRowTombstones::touch_close for every row of S.
Touch(f, S) ==
    [r \in Row |-> IF r \notin S \/ f[r] = NotRecorded THEN f[r]
                   ELSE IF Expired(f[r]) THEN NotRecorded
                   ELSE IF f[r] >= RenewalAge THEN 0 ELSE f[r]]

\* d is between a read of the remembered closes and the landing of rows it admits.
Walking(d) == pc[d] = "boot" \/ door[d] \in {"adopt", "takeover"}

\* LiveRowTombstones::load and refresh.
Load == Gc(file)

\* What reading the file can give: what it holds, or nothing at all when it cannot
\* be read or parsed ("every remembered close is being dropped").
Readings(f) == {f, Empty}

\* A door of d asked the file, which gave f.
Asked(d, f) == recent' = [recent EXCEPT ![d] = IF f = Load THEN {} ELSE closed]

\* EnteredLiveRows::since.
Entered(d) == live[d] \ seen[d]

TypeOK ==
    /\ file \in Entries
    /\ holder \in Daemon \cup {NoDaemon}
    /\ state \in SUBSET Row
    /\ live \in [Daemon -> SUBSET Row]
    /\ seen \in [Daemon -> SUBSET Row]
    /\ muted \in [Daemon -> BOOLEAN]
    /\ pc \in [Daemon -> Steps]
    /\ copy \in [Daemon -> Entries]
    /\ cache \in [Daemon -> Entries]
    /\ rows \in [Daemon -> SUBSET Row]
    /\ door \in [Daemon -> Doors]
    /\ due \in [Daemon -> BOOLEAN]
    /\ closed \in SUBSET Row
    /\ arrived \in [Daemon -> SUBSET Row]
    /\ reopened \in [Daemon -> SUBSET Row]
    /\ recent \in [Daemon -> SUBSET Row]
    /\ outdated \in [Daemon -> BOOLEAN]
    /\ quiet \in [Row -> 0 .. TTL]

Init ==
    /\ file = Empty
    /\ holder = NoDaemon
    /\ state \in SUBSET Row
    /\ live = [d \in Daemon |-> {}]
    /\ seen = [d \in Daemon |-> {}]
    /\ muted = [d \in Daemon |-> FALSE]
    /\ pc = [d \in Daemon |-> "down"]
    /\ copy = [d \in Daemon |-> Empty]
    /\ cache = [d \in Daemon |-> Empty]
    /\ rows = [d \in Daemon |-> {}]
    /\ door = [d \in Daemon |-> "none"]
    /\ due = [d \in Daemon |-> FALSE]
    /\ closed = {}
    /\ arrived = [d \in Daemon |-> {}]
    /\ reopened = [d \in Daemon |-> {}]
    /\ recent = [d \in Daemon |-> {}]
    /\ outdated = [d \in Daemon |-> FALSE]
    /\ quiet = [r \in Row |-> 0]

-----------------------------------------------------------------------------
(* The read-modify-write of the shared file.                               *)

\* TombstoneFileLock::acquire: the lock when it is free; without it when the
\* budget is spent or the lock file cannot be opened.  Then read_shared.
ReadShared(d) ==
    /\ \/ holder = NoDaemon /\ holder' = d
       \/ UNCHANGED holder
    /\ \E f \in Readings(file) :
          /\ copy' = [copy EXCEPT ![d] = f]
          /\ outdated' = [outdated EXCEPT ![d] = f # file]

Release(d) == holder' = IF holder = d THEN NoDaemon ELSE holder

\* save: what d computed from its copy replaces the file.
Publish(d, f) ==
    /\ file' = f
    /\ copy' = [copy EXCEPT ![d] = Empty]
    /\ Release(d)
    /\ outdated' = [e \in Daemon |-> e # d /\ (outdated[e] \/ (pc[e] \in Writing /\ f # file))]

\* Nothing to save, or save failed: the file stays as it was.
Withdraw(d) ==
    /\ copy' = [copy EXCEPT ![d] = Empty]
    /\ outdated' = [outdated EXCEPT ![d] = FALSE]
    /\ Release(d)
    /\ UNCHANGED file

\* The rows whose close a write of d changed without having read it: d went without
\* the lock and another daemon wrote since, or the file could not be read or parsed.
Overwritten(d) == IF outdated[d] THEN {r \in Row : file'[r] # file[r]} ELSE {}

\* mutate_shared saves only what it changed.
Mutate(d, f) == IF f = copy[d] THEN Withdraw(d) ELSE Publish(d, f)

\* The rows in R arrive in d's live order.
Land(d, R) ==
    /\ live' = [live EXCEPT ![d] = @ \cup R]
    /\ arrived' = [arrived EXCEPT ![d] = @ \cup (R \ live[d])]

-----------------------------------------------------------------------------
(* Closing, opening and persisting.                                        *)

\* The user opens a row: a deliberate entry is asked about at no door.
Open(d, r) ==
    /\ pc[d] = "idle"
    /\ r \notin live[d]
    /\ Land(d, {r})
    /\ pc' = [pc EXCEPT ![d] = "persist"]
    /\ closed' = closed \ {r}
    /\ reopened' = [reopened EXCEPT ![d] = @ \cup {r}]
    /\ UNCHANGED <<file, holder, state, seen, muted, copy, cache, rows, door, due,
                   recent, outdated, quiet>>

\* Mutant: the closed row stays in the baseline.
CloseKeepsBaseline(d, r) ==
    /\ pc[d] = "idle"
    /\ r \in live[d]
    /\ ReadShared(d)
    /\ pc' = [pc EXCEPT ![d] = "record"]
    /\ rows' = [rows EXCEPT ![d] = {r}]
    /\ UNCHANGED <<file, state, live, seen, muted, cache, door, due,
                   closed, arrived, reopened, recent, quiet>>

\* close_live_session_row, tombstone_live_row_as: the row leaves the baseline
\* and its close is about to be recorded.
Close(d, r) ==
    /\ pc[d] = "idle"
    /\ r \in live[d]
    /\ seen' = [seen EXCEPT ![d] = @ \ {r}]
    /\ ReadShared(d)
    /\ pc' = [pc EXCEPT ![d] = "record"]
    /\ rows' = [rows EXCEPT ![d] = {r}]
    /\ UNCHANGED <<file, state, live, muted, cache, door, due,
                   closed, arrived, reopened, recent, quiet>>

\* What happens to the row whether or not its close could be written.  When the
\* runtime or the row cannot be removed the close ends there: the row stays live,
\* out of the baseline, so that the next persist takes it for one that entered.
RemoveRow(d) ==
    /\ \/ /\ live' = [live EXCEPT ![d] = @ \ rows[d]]
          /\ arrived' = [arrived EXCEPT ![d] = @ \ rows[d]]
          /\ pc' = [pc EXCEPT ![d] = "persist"]
       \/ /\ arrived' = [arrived EXCEPT ![d] = @ \cup rows[d]]
          /\ pc' = [pc EXCEPT ![d] = "idle"]
          /\ UNCHANGED live
    /\ reopened' = [e \in Daemon |-> reopened[e] \ (rows[d] \cup Overwritten(d))]
    /\ rows' = [rows EXCEPT ![d] = {}]
    /\ UNCHANGED <<state, seen, muted, cache, door, due>>

\* record_departure and record_close publish (the departure alone is a change);
\* the runtime and the row are removed.
RecordClose(d) ==
    /\ pc[d] = "record"
    /\ \E r \in rows[d] :
          LET f == Record(copy[d], r) IN
          /\ Publish(d, f)
          /\ closed' = ((closed \ Overwritten(d)) \cup ({r} \cap Blocked(f))) \ Evicted(copy[d], f)
          /\ recent' = [e \in Daemon |-> IF Walking(e) THEN recent[e] \cup {r} ELSE recent[e]]
          /\ quiet' = [q \in Row |-> IF q = r /\ copy[d][r] = NotRecorded THEN 0
                                     ELSE IF q \in Overwritten(d) THEN TTL ELSE quiet[q]]
    /\ RemoveRow(d)

\* The close could not be written: reported, and the row goes all the same.
RecordFails(d) ==
    /\ pc[d] = "record"
    /\ Withdraw(d)
    /\ RemoveRow(d)
    /\ UNCHANGED <<closed, recent, quiet>>

\* persist: nothing while muted; else the arrivals are taken as entered, the
\* baseline moves up and the shared set is read.  A set that could not be read
\* has nothing to lift, and the baseline has moved up all the same.
Persist(d) ==
    /\ pc[d] \in {"idle", "persist"}
    /\ ~muted[d]
    /\ rows' = [rows EXCEPT ![d] = Entered(d)]
    /\ seen' = [seen EXCEPT ![d] = live[d]]
    /\ ReadShared(d)
    /\ recent' = [recent EXCEPT ![d] = {}]
    /\ reopened' = [reopened EXCEPT ![d] = IF copy'[d] = file THEN @ ELSE @ \ Entered(d)]
    /\ pc' = [pc EXCEPT ![d] = "reconcile"]
    /\ UNCHANGED <<file, state, live, muted, cache, door, due,
                   closed, arrived, quiet>>

PersistMuted(d) ==
    /\ pc[d] = "persist"
    /\ muted[d]
    /\ pc' = [pc EXCEPT ![d] = "idle"]
    /\ UNCHANGED <<file, holder, state, mem, copy, cache, rows, door, due, hist>>

\* The end of persist: the state file gets this daemon's rows.
WriteState(d) ==
    /\ state' = live[d]
    /\ pc' = [pc EXCEPT ![d] = "idle"]
    /\ rows' = [rows EXCEPT ![d] = {}]
    /\ arrived' = [arrived EXCEPT ![d] = {}]
    /\ UNCHANGED <<mem, cache, door, due, recent>>

\* Mutant: the rows that entered do not lift their closes.
ReconciledExpiredOnly(d) == Gc(copy[d])

\* Mutant: a row that is present lifts its close, not only one that entered.
ReconciledPresent(d) == Clear(Gc(copy[d]), live[d])

Reconciled(d) == Clear(Gc(copy[d]), rows[d])

\* reconcile: expired closes go, and the closes of the rows that entered.
Reconcile(d) ==
    /\ pc[d] = "reconcile"
    /\ Mutate(d, Reconciled(d))
    /\ closed' = closed \ (arrived[d] \cup Overwritten(d))
    /\ reopened' = [e \in Daemon |-> reopened[e] \ Overwritten(d)]
    /\ quiet' = [r \in Row |-> IF r \in Overwritten(d) THEN TTL ELSE quiet[r]]
    /\ WriteState(d)

\* The write failed: reported.  The baseline has moved up already, so the closes
\* of the rows that entered are not lifted by a later persist either.
ReconcileFails(d) ==
    /\ pc[d] = "reconcile"
    /\ Reconciled(d) # copy[d]
    /\ Withdraw(d)
    /\ WriteState(d)
    /\ reopened' = [reopened EXCEPT ![d] = @ \ rows[d]]
    /\ UNCHANGED <<closed, quiet>>

-----------------------------------------------------------------------------
(* The doors a row can come back through without the user.                 *)

\* A daemon starts by loading the remembered closes.
BootLoad(d) ==
    /\ pc[d] = "down"
    /\ \E f \in Readings(Load) : cache' = [cache EXCEPT ![d] = f]
    /\ pc' = [pc EXCEPT ![d] = "boot"]
    /\ UNCHANGED <<file, holder, state, mem, copy, rows, door, due, hist>>

\* Then the state file is read: all of it or, when a living peer owns runtimes,
\* none of its live rows.  drop_tombstoned_live_rows asks the loaded set, the
\* restore asks the file again and re-arms what only it refused.
BootRestore(d, all, f) ==
    /\ pc[d] = "boot"
    /\ ~all => \E p \in Daemon \ {d} : pc[p] # "down"
    /\ LET offered == {r \in (IF all THEN state ELSE {}) : ~Blocks(cache[d], r)}
           refused == offered \cap Blocked(f)
           restored == offered \ refused
       IN  /\ live' = [live EXCEPT ![d] = restored]
           /\ seen' = [seen EXCEPT ![d] = restored]
           /\ rows' = [rows EXCEPT ![d] = refused]
           /\ IF refused = {}
              THEN /\ pc' = [pc EXCEPT ![d] = "start"]
                   /\ UNCHANGED door
              ELSE /\ pc' = [pc EXCEPT ![d] = "rearm"]
                   /\ door' = [door EXCEPT ![d] = "boot"]
    /\ due' = [due EXCEPT ![d] = TRUE]
    /\ cache' = [cache EXCEPT ![d] = Empty]
    /\ Asked(d, f)
    /\ UNCHANGED <<file, holder, state, muted, copy,
                   closed, arrived, reopened, outdated, quiet>>

Answering(P) == \A p \in P : pc[p] \notin {"down", "boot"}

\* Mutant: the snapshot of a preserved owner is restored unasked.
RestorePreservedUnasked(d, P, f) ==
    /\ pc[d] = "start"
    /\ Answering(P)
    /\ Asked(d, f)
    /\ Land(d, UNION {live[p] : p \in P})
    /\ pc' = [pc EXCEPT ![d] = "adopt"]
    /\ UNCHANGED <<file, holder, state, seen, muted, copy, cache, rows, door, due,
                   closed, reopened, outdated, quiet>>

\* restore_missing_ and recover_missing_preserved_owner_live_sessions: what the
\* owners' snapshots hold and no close blocks.  The refusals are not re-armed.
RestorePreserved(d, P, f) ==
    /\ pc[d] = "start"
    /\ Answering(P)
    /\ Asked(d, f)
    /\ Land(d, (UNION {live[p] : p \in P}) \ Blocked(f))
    /\ pc' = [pc EXCEPT ![d] = "adopt"]
    /\ UNCHANGED <<file, holder, state, seen, muted, copy, cache, rows, door, due,
                   closed, reopened, outdated, quiet>>

\* adopt_missing_live_session_rows_from_reachable_daemons, once at the start, and
\* takeover_superseded_daemon_state, once and in a thread of its own, begin by
\* refreshing the set their admission predicate will ask.
WalkBegin(d) ==
    /\ \/ pc[d] = "adopt" /\ door' = [door EXCEPT ![d] = "adopt"] /\ UNCHANGED due
       \/ /\ pc[d] = "idle" /\ due[d]
          /\ door' = [door EXCEPT ![d] = "takeover"]
          /\ due' = [due EXCEPT ![d] = FALSE]
    /\ \E f \in Readings(Load) :
          /\ cache' = [cache EXCEPT ![d] = f]
          /\ Asked(d, f)
    /\ pc' = [pc EXCEPT ![d] = "ask"]
    /\ UNCHANGED <<file, holder, state, mem, copy, rows, closed, arrived, reopened,
                   outdated, quiet>>

AfterOffer(R) == IF R = {} THEN "import" ELSE "rearm"

\* The rows the peers that answered advertise.
AskPeers(d, P) ==
    /\ pc[d] = "ask" /\ door[d] = "adopt"
    /\ Answering(P)
    /\ rows' = [rows EXCEPT ![d] = UNION {live[p] : p \in P}]
    /\ pc' = [pc EXCEPT ![d] = AfterOffer(rows'[d])]
    /\ UNCHANGED <<file, holder, state, mem, copy, cache, door, due, hist>>

\* PrepareUpdateRestart makes an older peer write its rows and mute itself; the
\* state file is then the offer.
PreparePeer(d, p) ==
    /\ pc[d] = "ask" /\ door[d] = "takeover"
    /\ p # d /\ pc[p] = "idle"
    /\ state' = live[p]
    /\ muted' = [muted EXCEPT ![p] = TRUE]
    /\ rows' = [rows EXCEPT ![d] = live[p]]
    /\ pc' = [pc EXCEPT ![d] = AfterOffer(live[p])]
    /\ UNCHANGED <<file, holder, live, seen, copy, cache, door, due, hist>>

\* No older peer answers.
NothingToTakeOver(d) ==
    /\ pc[d] = "ask" /\ door[d] = "takeover"
    /\ pc' = [pc EXCEPT ![d] = "idle"]
    /\ door' = [door EXCEPT ![d] = "none"]
    /\ cache' = [cache EXCEPT ![d] = Empty]
    /\ recent' = [recent EXCEPT ![d] = {}]
    /\ UNCHANGED <<file, holder, state, mem, copy, rows, due,
                   closed, arrived, reopened, outdated, quiet>>

\* rearm_live_row_closes_among, for the rows offered or refused.
Rearm(d) ==
    /\ pc[d] = "rearm"
    /\ ReadShared(d)
    /\ pc' = [pc EXCEPT ![d] = "touch"]
    /\ UNCHANGED <<file, state, mem, cache, rows, door, due,
                   closed, arrived, reopened, recent, quiet>>

\* A walk goes on to its import, a boot to its start; a sweep is done.
AfterRearm(d) ==
    /\ IF door[d] \in {"boot", "sweep"}
       THEN /\ pc' = [pc EXCEPT ![d] = IF door[d] = "boot" THEN "start" ELSE "idle"]
            /\ rows' = [rows EXCEPT ![d] = {}]
            /\ door' = [door EXCEPT ![d] = "none"]
       ELSE /\ pc' = [pc EXCEPT ![d] = "import"]
            /\ UNCHANGED <<rows, door>>
    /\ UNCHANGED <<state, mem, cache, due, arrived, recent>>

TouchClose(d) ==
    /\ pc[d] = "touch"
    /\ Mutate(d, Touch(copy[d], rows[d]))
    /\ closed' = closed \ Overwritten(d)
    /\ reopened' = [e \in Daemon |-> reopened[e] \ Overwritten(d)]
    /\ quiet' = [r \in Row |-> IF r \in Overwritten(d) THEN TTL
                               ELSE IF r \in rows[d] /\ Blocks(copy[d], r) /\ ~outdated[d] THEN 0
                               ELSE quiet[r]]
    /\ AfterRearm(d)

\* `let _ = touch_close(..)`: a re-arm that cannot be written is not retried.
TouchFails(d) ==
    /\ pc[d] = "touch"
    /\ Touch(copy[d], rows[d]) # copy[d]
    /\ Withdraw(d)
    /\ UNCHANGED <<closed, reopened, quiet>>
    /\ AfterRearm(d)

\* peer_live_row_is_adoptable asks the set as the walk refreshed it.
Adoptable(d) == {r \in rows[d] \ live[d] : cache[d][r] = NotRecorded}

\* import_peer_live_rows_in_order; a takeover that imported persists, and so does
\* either walk when it restored the remembered order.
Import(d, R) ==
    /\ pc[d] = "import"
    /\ R \subseteq Adoptable(d)
    /\ Land(d, R)
    /\ \/ pc' = [pc EXCEPT ![d] = "persist"]
       \/ /\ ~(door[d] = "takeover" /\ R # {})
          /\ pc' = [pc EXCEPT ![d] = "idle"]
    /\ rows' = [rows EXCEPT ![d] = {}]
    /\ door' = [door EXCEPT ![d] = "none"]
    /\ cache' = [cache EXCEPT ![d] = Empty]
    /\ recent' = [recent EXCEPT ![d] = {}]
    /\ UNCHANGED <<file, holder, state, seen, muted, copy, due,
                   closed, reopened, outdated, quiet>>

\* The recovery sweep and the opencode mirror: a runtime of r is there and no row
\* is.  A remembered close refuses it and is re-armed; else the row is born.
Sweep(d, r, f) ==
    /\ pc[d] = "idle"
    /\ r \notin live[d]
    /\ Asked(d, f)
    /\ IF Blocks(f, r)
       THEN /\ pc' = [pc EXCEPT ![d] = "rearm"]
            /\ rows' = [rows EXCEPT ![d] = {r}]
            /\ door' = [door EXCEPT ![d] = "sweep"]
            /\ UNCHANGED <<live, arrived>>
       ELSE /\ Land(d, {r})
            /\ UNCHANGED <<pc, rows, door>>
    /\ UNCHANGED <<file, holder, state, seen, muted, copy, cache, due,
                   closed, reopened, outdated, quiet>>

-----------------------------------------------------------------------------
(* Death, mute and time.                                                   *)

\* A daemon dies at any step; the kernel drops its flock.
Die(d) ==
    /\ pc[d] # "down"
    /\ pc' = [pc EXCEPT ![d] = "down"]
    /\ Release(d)
    /\ live' = [live EXCEPT ![d] = {}]
    /\ seen' = [seen EXCEPT ![d] = {}]
    /\ muted' = [muted EXCEPT ![d] = FALSE]
    /\ copy' = [copy EXCEPT ![d] = Empty]
    /\ cache' = [cache EXCEPT ![d] = Empty]
    /\ rows' = [rows EXCEPT ![d] = {}]
    /\ door' = [door EXCEPT ![d] = "none"]
    /\ due' = [due EXCEPT ![d] = FALSE]
    /\ arrived' = [arrived EXCEPT ![d] = {}]
    /\ reopened' = [reopened EXCEPT ![d] = {}]
    /\ recent' = [recent EXCEPT ![d] = {}]
    /\ outdated' = [outdated EXCEPT ![d] = FALSE]
    /\ UNCHANGED <<file, state, closed, quiet>>

\* Gate #8 mutes a superseded daemon, and lifts the mute when the newer is gone;
\* the update-restart mute lapses by itself.
SetMuted(d, b) ==
    /\ pc[d] = "idle"
    /\ muted[d] = ~b
    /\ muted' = [muted EXCEPT ![d] = b]
    /\ UNCHANGED <<file, holder, state, live, seen, ops, hist>>

\* Mutant: the age of a close is not saturated.
TickUnbounded ==
    /\ \A d \in Daemon : pc[d] \in {"down", "idle"}
    /\ file' = [r \in Row |-> IF file[r] = NotRecorded THEN file[r] ELSE file[r] + 1]
    /\ closed' = closed \cap Blocked(file')
    /\ quiet' = [r \in Row |-> IF quiet[r] = TTL THEN TTL ELSE quiet[r] + 1]
    /\ UNCHANGED <<holder, state, mem, ops, arrived, reopened, recent, outdated>>

Tick ==
    /\ \A d \in Daemon : pc[d] \in {"down", "idle"}
    /\ file' = [r \in Row |-> IF file[r] \in {NotRecorded, TTL} THEN file[r] ELSE file[r] + 1]
    /\ closed' = closed \cap Blocked(file')
    /\ quiet' = [r \in Row |-> IF quiet[r] = TTL THEN TTL ELSE quiet[r] + 1]
    /\ UNCHANGED <<holder, state, mem, ops, arrived, reopened, recent, outdated>>

\* The doors that ask the file as they admit, which gave f.
Door(d, f) ==
    \/ \E r \in Row : Sweep(d, r, f)
    \/ \E all \in BOOLEAN : BootRestore(d, all, f)
    \/ \E P \in SUBSET (Daemon \ {d}) : RestorePreserved(d, P, f)

DaemonStep(d) ==
    \/ \E r \in Row : Open(d, r) \/ Close(d, r)
    \/ RecordClose(d) \/ RecordFails(d)
    \/ Persist(d) \/ PersistMuted(d) \/ Reconcile(d) \/ ReconcileFails(d)
    \/ BootLoad(d)
    \/ \E f \in Readings(Load) : Door(d, f)
    \/ \E P \in SUBSET (Daemon \ {d}) : AskPeers(d, P)
    \/ WalkBegin(d) \/ NothingToTakeOver(d)
    \/ \E p \in Daemon : PreparePeer(d, p)
    \/ Rearm(d) \/ TouchClose(d) \/ TouchFails(d)
    \/ \E R \in SUBSET Row : Import(d, R)
    \/ Die(d)
    \/ \E b \in BOOLEAN : SetMuted(d, b)

Next == Tick \/ \E d \in Daemon : DaemonStep(d)

Spec == Init /\ [][Next]_vars

-----------------------------------------------------------------------------
(* Properties.                                                             *)

\* A recorded close stays in the shared file, in force, until the row arrives at
\* a daemon that then persists, it expires, or the cap evicts it.  No daemon's
\* stale copy, no peer that has held the row all along and no death in the middle
\* of a write takes it away (mutate_shared, reconcile, EnteredLiveRows), unless that
\* write changed it without having read it (Overwritten): the daemon went without
\* the lock, or the file could not be read or parsed (read_shared).
CloseIsKept == closed \subseteq Blocked(file)

\* What a persist will report as entered is what arrived since the last one: not
\* the rows restored at boot, and a row closed and opened again in between too
\* (live_row_identities_seen at boot, in tombstone_live_row_as and in persist).
EnteredIsArrived ==
    \A d \in Daemon :
       CASE pc[d] = "record"    -> arrived[d] \ rows[d] = Entered(d) \ rows[d]
         [] pc[d] = "reconcile" -> arrived[d] = rows[d]
         [] OTHER               -> arrived[d] = Entered(d)

\* Once a daemon has persisted a row the user opened there, no remembered close
\* blocks it, unless it was closed again or a daemon that had not read the file put
\* the close back: a re-open lifts its own veto.
ReopenedIsNotVetoed ==
    \A d \in Daemon : reopened[d] \cap (seen[d] \ arrived[d]) \cap Blocked(file) = {}

\* A close that an automatic door refused and re-armed cannot expire before it has
\* been left alone for half its time to live (touch_close at the half-life).
ContestedCloseStands == \A r \in closed : file[r] < RenewalAge + quiet[r]

\* A closed row enters a live order only because the user opened it, through an
\* import walk that had read the remembered closes before this one was recorded,
\* or where the file could not be read or parsed (read_shared): never at a boot, a
\* recovery sweep or a preserved owner's restore that read it.
NoResurrection ==
    [][\A d \in Daemon : \A r \in closed :
          r \in live'[d] \ live[d] =>
             \/ r \in reopened'[d]
             \/ r \in (IF pc[d] = "import" THEN recent[d] ELSE recent'[d])]_vars


\* What the comment at reconcile_live_row_tombstones says: a row with a remembered
\* close does not enter the live order through an import.
ImportRefusesClosed ==
    [][\A d \in Daemon, R \in SUBSET Row : Import(d, R) => R \cap Blocked(file) = {}]_vars

\* What read_shared's comment says, "A file we cannot parse is NOT silently an empty
\* deny-list": a door that cannot read the closes admits none of the closed rows.
UnreadableIsNotEmpty ==
    [][\A d \in Daemon, r \in closed : Sweep(d, r, Empty) => live' = live]_vars

\* What record_close's comment says: once it has written, the close is remembered.
RecordedCloseBlocks ==
    [][\A d \in Daemon : RecordClose(d) =>
          \A r \in rows[d] : file'[r] # NotRecorded => Blocks(file', r)]_vars

\* What the module's header says of re-arming: it is wired at every door that
\* refuses a row, the restore of the state file at boot included.
RefusalIsRearmed ==
    [][\A d \in Daemon : BootRestore(d, TRUE, Load) => state \cap Blocked(file) \subseteq rows'[d]]_vars
=============================================================================
