----------------------------- MODULE ReaderGate -----------------------------
(***************************************************************************)
(* The switch between holding a PTY and serving it.  A session's reader    *)
(* thread blocks in poll over the PTY and a wake eventfd (ReaderGate::     *)
(* wait); the hand-off sweep and the settle watch of another thread park   *)
(* and unpark it through two atomics and that eventfd (ReaderPark).        *)
(*                                                                         *)
(* One session, at the grain of the single atomic load, store and system   *)
(* call.  PtyHandoff takes a park for one step; this module is about what  *)
(* happens inside it: what the reader may still consume, and whether the   *)
(* screen the sweep sends as the seed has everything it consumed.          *)
(***************************************************************************)
EXTENDS Naturals

CONSTANTS
    MaxChunks,      \* bound: chunks the shell writes
    MaxSweeps       \* bound: sweeps that park this reader

ASSUME BoundsAssumption == MaxChunks \in Nat /\ MaxSweeps \in Nat

VARIABLES
    \* ReaderPark
    parked, stoodDown,
    wake,           \* the eventfd's counter is not zero
    stolen,         \* stolen_after_park, in chunks
    \* the reader thread
    rpc,            \* its next step
    seen,           \* `parked` as wait() last loaded it
    hand,           \* the chunk in its buffer, 0 if none
    gate,           \* the reader has its two descriptors to poll
    tail,           \* chunks with bytes of an incomplete character in pending_utf8
    query,          \* chunks with bytes of an unterminated colour query in protocol_filter
    screen,         \* chunks whose every byte is on the vt100 screen, or was answered
    \* the PTY: the kernel has chunks head+1..produced
    produced, head, hungUp,
    \* the sweep thread, and the seed it sent
    spc, sweeps, seed,
    sawDown,        \* the sweep saw the reader stood down, and nobody unparked it since
    \* the settle watches that hold this park, those that have cleared the flag
    \* and not written the eventfd yet, and the successor's reader on the PTY
    watching, waking, adopted,
    mine,           \* history: chunks this daemon's reader has taken
    theft           \* history: chunks taken since the reader was last parked

parkVars   == <<parked, stoodDown, wake, stolen>>
textVars   == <<tail, query, screen>>
readerVars == <<gate, rpc, seen, hand, textVars>>
ptyVars    == <<produced, head, hungUp>>
sweepVars  == <<spc, sweeps, seed, sawDown>>
watchVars  == <<watching, waking, adopted>>
histVars   == <<mine, theft>>
vars == <<parkVars, readerVars, ptyVars, sweepVars, watchVars, histVars>>

Chunk == 1..MaxChunks

Init ==
    /\ parked = FALSE /\ stoodDown = FALSE /\ wake = FALSE /\ stolen = 0
    /\ rpc = "load" /\ seen = FALSE /\ hand = 0
    /\ gate \in BOOLEAN /\ tail = {} /\ query = {} /\ screen = {}
    /\ produced = 0 /\ head = 0 /\ hungUp = FALSE
    /\ spc = "idle" /\ sweeps = 0 /\ seed = {} /\ sawDown = FALSE
    /\ watching = 0 /\ waking = 0 /\ adopted = FALSE
    /\ mine = {} /\ theft = 0

\* Mutant: the flag changes and nobody is told.
ForgetWake(w) == w

\* ReaderPark::wake: the eventfd is level-triggered, so a wake written before
\* the reader reaches poll is not lost.
Woken(w) == TRUE

-----------------------------------------------------------------------------
(* The reader thread                                                       *)

\* Mutant: a hangup taken for bytes.
BytesOrHangup == head < produced \/ hungUp

\* The kernel has output for whoever reads first.
HasBytes == head < produced

\* poll reports the PTY: bytes, or a hangup.
Readable == HasBytes \/ hungUp

Load ==
    /\ rpc = "load"
    /\ seen' = parked
    /\ rpc' = "store"
    /\ UNCHANGED <<parkVars, gate, hand, textVars, ptyVars, sweepVars, watchVars, histVars>>

Store ==
    /\ rpc = "store"
    /\ stoodDown' = seen
    /\ rpc' = "poll"
    /\ UNCHANGED <<parked, wake, stolen, gate, seen, hand, textVars, ptyVars, sweepVars,
                   watchVars, histVars>>

\* Mutant: a readable PTY is looked at before the wake.
PtyFirst(w, s) == IF ~s /\ Readable THEN "read" ELSE "drain"

\* What wait() does with the descriptors poll returned: the wake comes first,
\* and a parked reader has not asked about the PTY at all.
AfterPoll(w, s) == IF w THEN "drain" ELSE "read"

Poll ==
    /\ rpc = "poll" /\ gate
    /\ wake \/ (~seen /\ Readable)
    /\ rpc' = AfterPoll(wake, seen)
    /\ UNCHANGED <<parkVars, gate, seen, hand, textVars, ptyVars, sweepVars, watchVars, histVars>>

\* "No gate on this session" (the eventfd or the dup failed): the reader goes on
\* to the blocking read, parked or not, and has said that it stands down.
NoGate ==
    /\ rpc = "poll" /\ ~gate
    /\ rpc' = "read"
    /\ UNCHANGED <<parkVars, gate, seen, hand, textVars, ptyVars, sweepVars, watchVars, histVars>>

\* EINTR goes round the loop; any other failure ends the thread.
PollFails ==
    /\ rpc = "poll" /\ gate
    /\ rpc' \in {"load", "gone"}
    /\ UNCHANGED <<parkVars, gate, seen, hand, textVars, ptyVars, sweepVars, watchVars, histVars>>

Drain ==
    /\ rpc = "drain"
    /\ wake' = FALSE
    /\ rpc' = "load"
    /\ UNCHANGED <<parked, stoodDown, stolen, gate, seen, hand, textVars, ptyVars, sweepVars,
                   watchVars, histVars>>

\* The blocking read.  If somebody else took the bytes that poll reported, it
\* waits for the next ones.
Read ==
    /\ rpc = "read" /\ HasBytes
    /\ head' = head + 1
    /\ hand' = head + 1
    /\ mine' = mine \cup {head + 1}
    /\ theft' = IF parked THEN theft + 1 ELSE theft
    /\ rpc' = "count"
    /\ UNCHANGED <<parkVars, gate, seen, textVars, produced, hungUp, sweepVars, watchVars>>

\* End of file: the incomplete character is flushed through the filter, an
\* unterminated query is discarded (discard_pending), and the thread ends.
ReadEof ==
    /\ rpc = "read" /\ head = produced /\ hungUp
    /\ screen' = IF query = {} THEN screen \cup tail ELSE screen
    /\ tail' = {} /\ query' = {}
    /\ rpc' = "gone"
    /\ UNCHANGED <<parkVars, gate, seen, hand, ptyVars, sweepVars, watchVars, histVars>>

\* stolen_after_park: is_parked() is asked once the read has returned.
Count ==
    /\ rpc = "count"
    /\ stolen' = IF parked THEN stolen + 1 ELSE stolen
    /\ rpc' = "apply"
    /\ UNCHANGED <<parked, stoodDown, wake, gate, seen, hand, textVars, ptyVars, sweepVars,
                   watchVars, histVars>>

\* Mutant: read on until the kernel buffer is empty, without the gate.
ReadOn == "read"

\* Where the reader goes once a chunk is applied: back through the gate.
AfterApply == "load"

\* process_with_cursor: what the filter holds back once this chunk's text is in:
\* nothing, a query this text begins, or more of the one it held.
Pending == {{}, {hand}} \cup (IF query = {} THEN {} ELSE {query \cup tail \cup {hand}})

\* decode_terminal_utf8_chunk, the protocol filter, then the screen.  A chunk
\* that completes no character goes no further; any other completes the one left
\* open, and may leave one open itself.
Apply ==
    /\ rpc = "apply"
    /\ \/ tail' = tail \cup {hand} /\ query' = query
       \/ tail' \in {{}, {hand}} /\ query' \in Pending
    /\ screen' = screen \cup ((tail \cup query \cup {hand}) \ (tail' \cup query'))
    /\ hand' = 0
    /\ rpc' = AfterApply
    /\ UNCHANGED <<parkVars, gate, seen, ptyVars, sweepVars, watchVars, histVars>>

ReaderStep ==
    \/ Load \/ Store \/ Poll \/ NoGate \/ Drain \/ Read \/ ReadEof \/ Count \/ Apply

-----------------------------------------------------------------------------
(* The sweep (hand_off_all_runtimes), as far as this reader is concerned   *)

ParkStore ==
    /\ spc = "idle" /\ sweeps < MaxSweeps
    /\ sweeps' = sweeps + 1
    /\ parked' = TRUE
    /\ sawDown' = FALSE
    /\ spc' = "park_wake"
    /\ UNCHANGED <<stoodDown, wake, stolen, readerVars, ptyVars, seed, watchVars, histVars>>

ParkWake ==
    /\ spc = "park_wake"
    /\ wake' = Woken(wake)
    /\ spc' = "quiesce"
    /\ UNCHANGED <<parked, stoodDown, stolen, readerVars, ptyVars, sweeps, seed, sawDown,
                   watchVars, histVars>>

\* Mutant: wait for the request, not for the reader that acts on it.
Requested == parked

\* ReaderPark::has_stood_down
HasStoodDown == stoodDown

\* wait_for_parked_readers: every reader has stood down, or the allowance
\* (READER_PARK_QUIESCE_MS) is used up.  The watch may have unparked it since.
Quiesce ==
    /\ spc = "quiesce"
    /\ \/ HasStoodDown /\ sawDown' = parked
       \/ sawDown' = FALSE
    /\ spc' = "takeout"
    /\ UNCHANGED <<parkVars, readerVars, ptyVars, sweeps, seed, watchVars, histVars>>

\* handoff_takeout snapshots the screen.
TakeSeed ==
    /\ spc = "takeout"
    /\ seed' = screen
    /\ spc' = "sent"
    /\ UNCHANGED <<parkVars, readerVars, ptyVars, sweeps, sawDown, watchVars, histVars>>

\* The successor acknowledges: its reader starts, ours stays parked, watched.
Handed ==
    /\ spc = "sent"
    /\ adopted' = TRUE
    /\ watching' = watching + 1
    /\ spc' = "idle"
    /\ UNCHANGED <<parkVars, readerVars, ptyVars, sweeps, seed, sawDown, waking, histVars>>

\* The hand-off of this session failed: the sweep ends by unparking it.
UnparkStore ==
    /\ spc = "sent"
    /\ parked' = FALSE
    /\ sawDown' = FALSE /\ theft' = 0
    /\ spc' = "unpark_wake"
    /\ UNCHANGED <<stoodDown, wake, stolen, readerVars, ptyVars, sweeps, seed, watchVars, mine>>

UnparkWake ==
    /\ spc = "unpark_wake"
    /\ wake' = Woken(wake)
    /\ spc' = "idle"
    /\ UNCHANGED <<parked, stoodDown, stolen, readerVars, ptyVars, sweeps, seed, sawDown,
                   watchVars, histVars>>

-----------------------------------------------------------------------------
(* The settle watch, the successor's reader and the shell                  *)

SuccessorDies ==
    /\ adopted
    /\ adopted' = FALSE
    /\ UNCHANGED <<parkVars, readerVars, ptyVars, sweepVars, watching, waking, histVars>>

\* A watch whose successor died.  It holds no lock: a later sweep may be parking
\* the same reader right now, or have handed it to the next successor.
WatchUnparkStore ==
    /\ watching > 0
    /\ adopted => watching > 1
    /\ parked' = FALSE
    /\ sawDown' = FALSE /\ theft' = 0
    /\ watching' = watching - 1 /\ waking' = waking + 1
    /\ UNCHANGED <<stoodDown, wake, stolen, readerVars, ptyVars, spc, sweeps, seed, adopted, mine>>

WatchUnparkWake ==
    /\ waking > 0
    /\ wake' = Woken(wake)
    /\ waking' = waking - 1
    /\ UNCHANGED <<parked, stoodDown, stolen, readerVars, ptyVars, sweepVars, watching, adopted,
                   histVars>>

SuccessorReads ==
    /\ adopted /\ HasBytes
    /\ head' = head + 1
    /\ UNCHANGED <<parkVars, readerVars, produced, hungUp, sweepVars, watchVars, histVars>>

ShellWrites ==
    /\ ~hungUp /\ produced < MaxChunks
    /\ produced' = produced + 1
    /\ UNCHANGED <<parkVars, readerVars, head, hungUp, sweepVars, watchVars, histVars>>

ShellExits ==
    /\ ~hungUp
    /\ hungUp' = TRUE
    /\ UNCHANGED <<parkVars, readerVars, produced, head, sweepVars, watchVars, histVars>>

-----------------------------------------------------------------------------
\* The second half of a park or an unpark.
FinishCall == ParkWake \/ UnparkWake \/ WatchUnparkWake

Next ==
    \/ ReaderStep \/ PollFails
    \/ FinishCall
    \/ ParkStore \/ Quiesce \/ TakeSeed \/ Handed \/ UnparkStore
    \/ SuccessorDies \/ WatchUnparkStore \/ SuccessorReads \/ ShellWrites \/ ShellExits

Spec == Init /\ [][Next]_vars

\* The reader thread runs whenever it is not blocked, and a thread that has
\* stored the flag goes on to write the eventfd.  Signals do not interrupt every
\* poll for ever.
FairSpec == Spec /\ WF_vars(ReaderStep) /\ SF_vars(Poll) /\ WF_vars(FinishCall)

-----------------------------------------------------------------------------
TypeOK ==
    /\ parked \in BOOLEAN /\ stoodDown \in BOOLEAN /\ wake \in BOOLEAN
    /\ stolen \in 0..MaxChunks
    /\ rpc \in {"load", "store", "poll", "drain", "read", "count", "apply", "gone"}
    /\ seen \in BOOLEAN
    /\ hand \in 0..MaxChunks /\ gate \in BOOLEAN
    /\ tail \subseteq Chunk /\ query \subseteq Chunk /\ screen \subseteq Chunk
    /\ produced \in 0..MaxChunks /\ head \in 0..produced /\ hungUp \in BOOLEAN
    /\ spc \in {"idle", "park_wake", "quiesce", "takeout", "sent", "unpark_wake"}
    /\ sweeps \in 0..MaxSweeps
    /\ seed \subseteq Chunk /\ sawDown \in BOOLEAN
    /\ watching \in Nat /\ waking \in Nat /\ adopted \in BOOLEAN
    /\ mine \subseteq Chunk /\ theft \in Nat

\* ReaderPark.stood_down: "The park is a REQUEST until this says the reader
\* acted on it."  Once the sweep has seen it, a reader with a gate takes nothing
\* from the PTY until somebody unparks it, although what the sweep saw may have
\* been left over from an earlier park.
StoodDownMeansSilent == [][gate /\ sawDown => mine' = mine]_vars

\* hand_off_all_runtimes snapshots the seed after the park: when a reader with a
\* gate stood down in time, every chunk this daemon consumed is in the seed it
\* sent, except for what the two decoders hold back, the bytes of an incomplete
\* character and of a colour query without its terminator.
SeedCoversConsumed ==
    gate /\ sawDown /\ spc # "takeout" => mine \subseteq seed \cup tail \cup query

\* The reader loop on the poll/park race: "Bounded to one chunk".  Even when
\* the allowance runs out, and whatever the successor reads meanwhile.
TheftIsBounded == gate => theft <= 1

\* ReaderPark::park: the reader stands down even if the PTY stays silent.  Only
\* a reader that poll has already sent into its read, and whose bytes another
\* process took, is not reached.
ParkTakesEffect == parked ~> (~parked \/ stoodDown \/ rpc \in {"read", "gone"})

\* ReaderPark::unpark, "Resume serving": output that waits in the kernel is
\* read again once the reader is unparked.
UnparkResumes ==
    (~parked /\ head < produced) ~> (parked \/ head = produced \/ rpc = "gone")

-----------------------------------------------------------------------------
(* What the comment in hand_off_all_runtimes says and the code does not.   *)

\* "The screen each session carries as its seed is snapshotted after the park,
\* so everything this daemon ever consumed travels with it."  What was read before
\* the park, so that stolen_after_park does not count it, is in the seed.
SeedCarriesConsumed ==
    [][TakeSeed /\ theft = 0 => mine \ (tail \cup query) \subseteq seed']_vars

\* The same statement about a reader that did stand down in time: the first
\* bytes of a character are in pending_utf8 and are not sent,
SeedCarriesLastCharacter == [][TakeSeed /\ sawDown => mine \ query \subseteq seed']_vars

\* and neither are those of a query the protocol filter has not seen the end of.
SeedCarriesOpenQuery == [][TakeSeed /\ sawDown => mine \ tail \subseteq seed']_vars

\* ReaderGate::wait: "Never returns while parked, and never touches the pty while
\* parked - that is the whole contract."  A reader without a gate stores that it
\* has stood down, and reads on.
SilentWithoutGate == [][sawDown => mine' = mine]_vars
=============================================================================
