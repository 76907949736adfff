----------------------------- MODULE OutputRing -----------------------------
(***************************************************************************)
(* What a terminal's output goes through between the PTY and a client: the *)
(* reader thread puts each chunk on the vt100 screen and into a ring of    *)
(* numbered chunks; a client attaches with the screen and then follows the *)
(* ring by cursor (PtySessionRuntime::read); a snapshot answer carries the *)
(* screen with the chunk number it stands for, its stamp                   *)
(* (screen_snapshot_stamped).                                              *)
(*                                                                         *)
(* The chunks lock is held by the reader from the screen update to the     *)
(* ring, and by read; a snapshot does not take it.  The daemon also        *)
(* authors lines of its own that enter the ring and never the screen.      *)
(*                                                                         *)
(* PTY output is a count: the n-th chunk of text the PTY produced.  Chunk  *)
(* number s of the ring stands for upTo[s] of them.                        *)
(***************************************************************************)
EXTENDS Integers

CONSTANTS
    MaxSeq,         \* bound: chunk numbers minted
    RingSize,       \* MAX_CHUNKS; stands for MAX_BUFFER_BYTES too
    IdleSize        \* IDLE_TRIM_MAX_CHUNKS, IDLE_TRIM_MAX_BYTES

ASSUME BoundsAssumption ==
    MaxSeq \in Nat /\ RingSize \in Nat \ {0} /\ IdleSize \in 1..RingSize

VARIABLES
    \* the reader thread
    rpc,            \* "idle", "screened", "minted", "stopping" or "gone"
    screen,         \* PTY chunks on the vt100 screen
    blank,          \* that screen shows no text
    seq,            \* the last chunk number minted
    floor,          \* injected_ring_floor
    oldest, newest, \* the ring holds oldest..newest
    upTo,           \* PTY chunks among the first s numbers
    stopLine,       \* the number of the "reader stopped" line, 0 if none
    \* the snapshot call in progress, its memo, and the last answer
    npc, nkey, nstamp, memo, snap,
    \* a client
    cursor,
    prefers,        \* terminal_key_prefers_initial_screen_snapshot: a remote agent's key
    applied,        \* PTY chunks on the client's screen
    short,          \* history: it was last given retained chunks where a screen was due
    missed          \* history: chunk numbers its cursor passed undelivered

readerVars == <<rpc, screen, blank, seq, floor, oldest, newest, upTo, stopLine>>
snapVars   == <<npc, nkey, nstamp, memo, snap>>
clientVars == <<cursor, prefers, applied, short, missed>>
vars == <<readerVars, snapVars, clientVars>>

\* A spawned runtime starts empty; an adopted one has its predecessor's screen
\* as chunk 1.
Init ==
    /\ rpc = "idle" /\ floor = 0 /\ stopLine = 0 /\ oldest = 1
    /\ \E seed \in {0, 1} : /\ seed <= MaxSeq
                           /\ screen = seed /\ seq = seed /\ newest = seed
                           /\ blank \in {TRUE, seed = 0}
                           /\ upTo = [s \in 0..MaxSeq |-> IF s = 1 THEN seed ELSE 0]
    /\ npc = "idle" /\ nkey = 0 /\ nstamp = 0 /\ memo = {} /\ snap = [text |-> 0, stamp |-> 0]
    /\ cursor = 0 /\ prefers \in BOOLEAN /\ applied = 0 /\ short = FALSE /\ missed = {}

\* Mutant: the lock is taken for the ring only.
LockedForRing == rpc = "minted"

\* The reader holds the chunks lock.
Locked == rpc \in {"screened", "minted"}

\* Mutant: the ring is trimmed when it is over the limit by more than one.
TrimmedLate(last, size) == IF last - oldest > size THEN last - size ELSE oldest

\* trim_chunk_buffer: the oldest chunk kept.
Trimmed(last, size) == IF last - oldest + 1 > size THEN last - size + 1 ELSE oldest

-----------------------------------------------------------------------------
(* The reader thread                                                       *)

\* Lock the chunks, put the data on the screen.
Process ==
    /\ rpc = "idle" /\ seq < MaxSeq
    /\ screen' = screen + 1 /\ blank' \in BOOLEAN
    /\ rpc' = "screened"
    /\ UNCHANGED <<seq, floor, oldest, newest, upTo, stopLine, snapVars, clientVars>>

\* The chunk matched an agent error: mint a number for the contract line ...
MintContract ==
    /\ rpc = "screened" /\ seq + 1 < MaxSeq
    /\ seq' = seq + 1
    /\ upTo' = [upTo EXCEPT ![seq + 1] = upTo[seq]]
    /\ rpc' = "minted"
    /\ UNCHANGED <<screen, blank, floor, oldest, newest, stopLine, snapVars, clientVars>>

\* ... and then cap the floor (cap_injected_ring_floor) and push the line.
PushContract ==
    /\ rpc = "minted"
    /\ floor' = IF floor = 0 \/ seq < floor THEN seq ELSE floor
    /\ newest' = seq /\ oldest' = Trimmed(seq, RingSize)
    /\ rpc' = "screened"
    /\ UNCHANGED <<screen, blank, seq, upTo, stopLine, snapVars, clientVars>>

\* Mint the data's own number, push it, unlock.
Commit ==
    /\ rpc = "screened"
    /\ seq' = seq + 1
    /\ upTo' = [upTo EXCEPT ![seq + 1] = screen]
    /\ newest' = seq + 1 /\ oldest' = Trimmed(seq + 1, RingSize)
    /\ rpc' = "idle"
    /\ UNCHANGED <<screen, blank, floor, stopLine, snapVars, clientVars>>

\* End of file.  Text still pending takes the same steps as a chunk first.
Eof ==
    /\ rpc = "idle"
    /\ rpc' = "gone"
    /\ UNCHANGED <<screen, blank, seq, floor, oldest, newest, upTo, stopLine, snapVars, clientVars>>

\* A read error: the number of the "reader stopped" line is minted before the
\* lock is taken, and the floor is not capped.
ReadError ==
    /\ rpc = "idle" /\ seq < MaxSeq
    /\ seq' = seq + 1
    /\ upTo' = [upTo EXCEPT ![seq + 1] = upTo[seq]]
    /\ stopLine' = seq + 1
    /\ rpc' = "stopping"
    /\ UNCHANGED <<screen, blank, floor, oldest, newest, snapVars, clientVars>>

PushStopLine ==
    /\ rpc = "stopping"
    /\ newest' = seq /\ oldest' = Trimmed(seq, RingSize)
    /\ rpc' = "gone"
    /\ UNCHANGED <<screen, blank, seq, floor, upTo, stopLine, snapVars, clientVars>>

\* trim_idle_buffer, the chore's trim of a session with no recent activity.
TrimIdle ==
    /\ ~Locked
    /\ oldest' = Trimmed(newest, IdleSize)
    /\ UNCHANGED <<rpc, screen, blank, seq, floor, newest, upTo, stopLine, snapVars, clientVars>>

-----------------------------------------------------------------------------
(* screen_snapshot_stamped, called under the daemon's runtime lock         *)

SnapKey ==
    /\ npc = "idle"
    /\ nkey' = seq
    /\ npc' = "floor"
    /\ UNCHANGED <<readerVars, nstamp, memo, snap, clientVars>>

\* capped_seed_stamp
CappedSeedStamp(key, f) == IF f > 0 /\ f - 1 < key THEN f - 1 ELSE key

SnapFloor ==
    /\ npc = "floor"
    /\ nstamp' = CappedSeedStamp(nkey, floor)
    /\ npc' = "render"
    /\ UNCHANGED <<readerVars, nkey, memo, snap, clientVars>>

\* Mutant: a memo answers for any later key.
AnyMemo(m, key) == m.key <= key

MemoFits(m, key) == m.key = key

\* The memo answers if its key is the one just computed; else render and keep it.
SnapRender ==
    /\ npc = "render"
    /\ \/ \E m \in memo : /\ MemoFits(m, nkey)
                          /\ snap' = [text |-> m.text, stamp |-> nstamp]
                          /\ memo' = memo
       \/ /\ \A m \in memo : ~MemoFits(m, nkey)
          /\ snap' = [text |-> screen, stamp |-> nstamp]
          /\ memo' = {[key |-> nkey, text |-> screen]}
    /\ npc' = "idle"
    /\ UNCHANGED <<readerVars, nkey, nstamp, clientVars>>

-----------------------------------------------------------------------------
(* PtySessionRuntime::read                                                 *)

\* read(0), the first one or a remount's, and the number it stands for.  It ends
\* at the daemon's screen (a snapshot, or the viewport reconcile after the
\* retained chunks), unless the key is a remote agent's, which gets no reconcile,
\* or the screen has no text to paint: then it may be a selection of the retained
\* chunks, within the attach budgets, and nothing else.
Attach ==
    /\ ~Locked
    /\ \/ applied' = screen /\ short' = FALSE
       \/ /\ prefers \/ blank
          /\ applied' \in 0..(upTo[newest] - upTo[oldest - 1])
          /\ short' = TRUE
    /\ cursor' = seq
    /\ UNCHANGED <<readerVars, snapVars, prefers, missed>>

\* The ring has trimmed chunks the client has not seen.
ResyncRequired(c) == oldest <= newest /\ oldest > c + 1

\* The PTY chunks the ring has past a cursor.
RingPast(c) ==
    LET first == IF oldest > c THEN oldest ELSE c + 1 IN
      IF first <= newest THEN upTo[newest] - upTo[first - 1] ELSE 0

\* read(cursor): the chunks past the cursor; after a gap the viewport reconcile
\* is appended, which brings the client to the daemon's screen, if that screen
\* has any text (viewport_reconcile_replay).
Follow ==
    /\ ~Locked /\ cursor > 0
    /\ IF ResyncRequired(cursor) /\ ~blank
       THEN applied' = screen /\ short' = FALSE
       ELSE applied' = applied + RingPast(cursor) /\ short' = (short \/ ResyncRequired(cursor))
    /\ missed' = missed \cup {s \in 1..MaxSeq : cursor < s /\ s <= seq /\ s > newest}
    /\ cursor' = seq
    /\ UNCHANGED <<readerVars, snapVars, prefers>>

-----------------------------------------------------------------------------
Next ==
    \/ Process \/ MintContract \/ PushContract \/ Commit
    \/ Eof \/ ReadError \/ PushStopLine \/ TrimIdle
    \/ SnapKey \/ SnapFloor \/ SnapRender
    \/ Attach \/ Follow

Spec == Init /\ [][Next]_vars

-----------------------------------------------------------------------------
TypeOK ==
    /\ rpc \in {"idle", "screened", "minted", "stopping", "gone"}
    /\ screen \in Nat /\ blank \in BOOLEAN
    /\ seq \in 0..MaxSeq /\ floor \in 0..MaxSeq /\ stopLine \in 0..MaxSeq
    /\ newest \in 0..MaxSeq /\ oldest \in 1..MaxSeq + 1
    /\ newest - oldest < RingSize
    /\ upTo \in [0..MaxSeq -> Nat]
    /\ npc \in {"idle", "floor", "render"}
    /\ nkey \in 0..MaxSeq /\ nstamp \in 0..MaxSeq
    /\ memo \subseteq [key: 0..MaxSeq, text: Nat]
    /\ snap \in [text: Nat, stamp: 0..MaxSeq]
    /\ cursor \in 0..MaxSeq /\ applied \in Nat /\ prefers \in BOOLEAN /\ short \in BOOLEAN
    /\ missed \subseteq 1..MaxSeq

\* screen_snapshot_stamped: "screen reflects chunks 1..=stamp" for real PTY chunks,
\* although the key, the floor, the memo and the screen are read one after the
\* other while the reader runs.  A client that drops the chunks up to the stamp
\* loses no output.
StampUnderclaims == upTo[snap.stamp] <= snap.text

\* The reader loop keeps "screen state == chunks 1..=seq" whenever the chunks
\* lock is free, so a client that was given the screen and follows the ring has
\* every PTY chunk once, whatever the ring trimmed since.  One that was given no
\* screen (Attach, Follow) lacks chunks until a later read gives it one; it has
\* none twice.
ClientIsExact ==
    cursor > 0 => /\ applied <= upTo[cursor]
                  /\ ~short => applied = upTo[cursor]

-----------------------------------------------------------------------------
(* Statements of the comments that the code does not keep.                 *)

\* "the injected-ring floor keeps it true for the rare daemon-authored contract
\* line ... a key/render race can only make the stamp UNDERclaim": no stamp
\* covers a contract line, which the screen never parsed.
StampExcludesContractLine ==
    \A s \in 1..snap.stamp : s # stopLine => upTo[s] # upTo[s - 1]

\* The same for the line that says the reader stopped.
StampExcludesStopLine == stopLine > 0 => snap.stamp < stopLine

\* "Hold the chunks lock across the vt100 update AND the seq+ring commit": a
\* client's cursor passes no chunk that was not in the ring it read.
CursorPassesOnlyPushed == missed = {}

\* "the final clear+repaint pins viewport+cursor to daemon truth": a read that
\* finds a gap leaves the client at the daemon's screen.
GapEndsAtScreen == [][Follow /\ ResyncRequired(cursor) => applied' = screen]_vars
=============================================================================
