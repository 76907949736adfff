------------------------------ MODULE SeedFence ------------------------------
(***************************************************************************)
(* The output fence of a synthesized terminal mount                        *)
(* (yggterm-shell/src/shell/viewport.rs).                                  *)
(*                                                                         *)
(* A warm mount whose channel to the page is dead is seeded with a         *)
(* snapshot of the daemon's screen, fetched beside the ordinary reads of   *)
(* the output stream.  Until the page has proved that it painted the seed, *)
(* what the reads deliver is retained behind a fence; the proof then       *)
(* commits the number the snapshot stands for, retained batches at or      *)
(* below it are dropped, the rest is painted, and later reads drop the     *)
(* chunks the seed already shows.  The loop that does this is one task;    *)
(* the daemon, the two answers on their way to it, the page and the frame  *)
(* timer of the write bridge move between its branches.                    *)
(*                                                                         *)
(* Output is abstracted to items: a chunk of a runtime with its number, or *)
(* the screen of a runtime after so many chunks.  A screen item clears     *)
(* what was painted before it; the "text" of an unfenced seed does not.    *)
(* What the content filters leave of an item they rewrite is a "scrap".    *)
(***************************************************************************)
EXTENDS Integers, Sequences, FiniteSets, SequencesExt

CONSTANTS
    MaxRuntimes,     \* bound: runtimes the daemon serves the session with
    MaxOutput,       \* bound: chunks the first runtime emits
    MaxLaterOutput,  \* bound: chunks a replacement emits
    MaxDisturbances  \* bound: replacements, re-attaches and rounds cut

ASSUME RuntimeBound == MaxRuntimes \in Nat \ {0}
ASSUME OutputBound == MaxOutput \in Nat /\ MaxLaterOutput \in 0..MaxOutput
ASSUME DisturbanceBound == MaxDisturbances \in Nat

VARIABLES
    runtime,     \* the runtime the daemon now serves the session with
    output,      \* chunks it has emitted
    named,       \* runtimes whose daemon sends the runtime's id
    frozen,      \* page_frozen_runtime: the name the page was rendered with
    known,       \* known_runtime_spawn_id: the name of the last read answer
    cursor,      \* the loop's position in the stream
    read,        \* the outstanding read
    seed,        \* the snapshot fetch and the proof of its painting
    pending,     \* [seq, name]: the provisional stamp of an arrived seed
    stamp,       \* synth_seed_stamp: the committed one
    fence,       \* "down" or the batches retained
    bridge,      \* items the write bridge holds for the next frame
    staged,      \* batches of a staged release, the one that broke it last
    page,        \* what the terminal shows, oldest item first
    mounted,     \* FALSE once the loop broke off for a remount
    disturbances, \* re-attaches, and rounds the filters cut
    stream,      \* history: the runtime the read stream belongs to
    reported,    \* history: items reported undelivered
    causes       \* history: what went wrong that the loop does not notice

loopVars == <<frozen, known, cursor, pending, stamp, mounted>>
paintVars == <<fence, bridge, staged, page, reported>>
fenceVars == <<runtime, output, named, frozen, known, cursor, read, seed, pending, stamp, fence,
               bridge, staged, page, mounted, disturbances, stream, reported, causes>>

-----------------------------------------------------------------------------
(***************************************************************************)
(* Items and the page                                                      *)
(***************************************************************************)
Runtimes == 1..MaxRuntimes

Name(r) == IF r \in named THEN r ELSE 0

Item == [kind: {"chunk", "screen", "text", "scrap"}, runtime: Runtimes, n: 0..MaxOutput]

Chunk(r, n) == [kind |-> "chunk", runtime |-> r, n |-> n]
Screen(r, n) == [kind |-> "screen", runtime |-> r, n |-> n]
Scrap(r) == [kind |-> "scrap", runtime |-> r, n |-> 0]

\* What the terminal shows after these items: a screen starts it afresh.
Shows(items) ==
    LET clears == {i \in DOMAIN items : items[i].kind = "screen"}
    IN  IF clears = {} THEN items ELSE SubSeq(items, Max(clears), Len(items))

\* The items show chunk n of runtime r, by itself or inside a screen.
Carries(items, r, n) ==
    \E i \in DOMAIN items :
        /\ items[i].runtime = r
        /\ items[i].kind # "scrap"
        /\ IF items[i].kind = "chunk" THEN items[i].n = n ELSE items[i].n >= n

Batch == [items: Seq(Item), covered: 0..MaxOutput]
ItemsOf(batches) == FlattenSeq([i \in DOMAIN batches |-> batches[i].items])

-----------------------------------------------------------------------------
(***************************************************************************)
(* The synthesized ready has just armed the fence and the fetch.           *)
(***************************************************************************)
NoRead == [st |-> "none", from |-> 0, runtime |-> 0, name |-> 0, next |-> 0, whole |-> FALSE,
           items |-> <<>>, lost |-> {}]
Down == [up |-> FALSE, batches |-> <<>>]
Unstamped == [seq |-> 0, name |-> 0]

FenceInit ==
    /\ runtime = 1
    /\ output = 0
    /\ named \in SUBSET {1}
    /\ frozen \in {0} \union named
    /\ known = 0
    /\ cursor = 0
    /\ read = NoRead
    /\ seed = [st |-> "fetching", runtime |-> 1, n |-> 0, seq |-> 0, name |-> 0, wrote |-> FALSE]
    /\ pending = Unstamped
    /\ stamp = 0
    /\ fence = [up |-> TRUE, batches |-> <<>>]
    /\ bridge = <<>>
    /\ staged = <<>>
    /\ page = <<>>
    /\ mounted = TRUE
    /\ disturbances = 0
    /\ stream = 0
    /\ reported = {}
    /\ causes = {}

-----------------------------------------------------------------------------
(***************************************************************************)
(* The daemon                                                              *)
(***************************************************************************)
Undisturbed == (runtime - 1) + disturbances < MaxDisturbances

Output ==
    /\ mounted
    /\ output < IF runtime = 1 THEN MaxOutput ELSE MaxLaterOutput
    /\ output' = output + 1
    /\ UNCHANGED <<runtime, named, read, seed, loopVars, paintVars, disturbances, stream, causes>>

\* The session's runtime is replaced; the new one numbers its output from 1.
Replace ==
    /\ mounted
    /\ runtime < MaxRuntimes
    /\ Undisturbed
    /\ runtime' = runtime + 1
    /\ output' = 0
    /\ named' \in {named, named \union {runtime + 1}}
    /\ UNCHANGED <<read, seed, loopVars, paintVars, disturbances, stream, causes>>

\* The snapshot: the screen, the number it stands for and the runtime's id.
\* An old daemon leaves the number out as well as the id.
Capture ==
    /\ mounted
    /\ seed.st = "fetching"
    /\ \E seq \in IF runtime \in named THEN {output} ELSE {0, output} :
          seed' = [st |-> "answered", runtime |-> runtime, n |-> output, seq |-> seq,
                   name |-> Name(runtime), wrote |-> FALSE]
    /\ UNCHANGED <<runtime, output, named, read, loopVars, paintVars, disturbances, stream, causes>>

\* A failed fetch is answered with nothing.
CaptureFails ==
    /\ mounted
    /\ seed.st = "fetching"
    /\ seed' = [st |-> "answered", runtime |-> runtime, n |-> 0, seq |-> 0, name |-> 0,
                wrote |-> FALSE]
    /\ UNCHANGED <<runtime, output, named, read, loopVars, paintVars, disturbances, stream, causes>>

\* TerminalSession::read: a read from 0, or from beyond the end, is answered
\* with the screen; one that has fallen out of the ring (gap) with the tail and
\* then the screen; any other with the chunks after its cursor.
Whole(from, gap) == from = 0 \/ from > output \/ gap

Chunks(from) == [i \in 1..(output - from) |-> Chunk(runtime, from + i)]

\* No screen is sent when it is blank, nor, from 0, for the sessions whose agent
\* repaints by itself: then the answer is what was selected of the ring, its
\* last chunks, and possibly an older one in front of them.
Selections(from, gap) ==
    {s \in [head: 0..output, kept: 0..output] :
        /\ s.head + s.kept <= output
        /\ IF gap THEN s.head = 0 /\ from + s.kept < output ELSE s.kept > 0}

Retained(s) ==
    (IF s.head = 0 THEN <<>> ELSE <<Chunk(runtime, s.head)>>) \o Chunks(output - s.kept)

Sent(from, gap) ==
    IF ~Whole(from, gap) THEN {Chunks(from)}
    ELSE IF output = 0 THEN {<<>>}
    ELSE {<<Screen(runtime, output)>>} \union {Retained(s) : s \in Selections(from, gap)}

\* `lost` are the positions the loop's filters will find something to cut at,
\* which the content decides.
Answer(from, gap, items, lost) ==
    [st |-> "answered", from |-> from, runtime |-> runtime, name |-> Name(runtime), next |-> output,
     whole |-> Whole(from, gap), items |-> items, lost |-> lost]

-----------------------------------------------------------------------------
(***************************************************************************)
(* Writing batches: retain, release, or write at once                      *)
(***************************************************************************)
\* flush_synth_output_fence_live: batch by batch, each awaiting the page's
\* acknowledgement.  The first failure ends it and the rest is reported; the
\* batch it failed on may have been painted all the same.
FlushEnds(batches) ==
    {e \in [acked: 0..Len(batches), painted: 0..Len(batches)] : e.painted \in e.acked..e.acked + 1}

Painted(batches, e) == ItemsOf(SubSeq(batches, 1, e.painted))
Undelivered(batches, e) == Range(ItemsOf(SubSeq(batches, e.acked + 1, Len(batches))))

\* synth_output_fence_stage for the writes of one round, in order: the first
\* `kept` of them are retained; if that is not all of them the deadline or the
\* byte bound released the fence, whose batches are flushed ahead of the rest.
StageWrites(writes, covered) ==
    IF ~fence.up
    THEN /\ page' = Shows(page \o FlattenSeq(writes))
         /\ UNCHANGED <<fence, reported>>
    ELSE \E kept \in 0..Len(writes) :
            LET batches == fence.batches
                           \o [i \in 1..kept |-> [items |-> writes[i], covered |-> covered]]
            IN  IF kept = Len(writes)
                THEN /\ fence' = [fence EXCEPT !.batches = batches]
                     /\ UNCHANGED <<page, reported>>
                ELSE \E e \in FlushEnds(batches) :
                        /\ page' = Shows(page \o Painted(batches, e)
                                         \o FlattenSeq(SubSeq(writes, kept + 1, Len(writes))))
                        /\ reported' = reported \union Undelivered(batches, e)
                        /\ fence' = Down

-----------------------------------------------------------------------------
(***************************************************************************)
(* History: the ways in which the loop's bookkeeping is overtaken by what  *)
(* it does not look at.                                                    *)
(***************************************************************************)
\* A write goes out live while a released fence is still being flushed.
Overtakes(items) ==
    IF staged # <<>> /\ ~fence.up /\ items # <<>> THEN {"overtaken release"} ELSE {}

\* The page showed the seed and now shows an older screen of the same runtime.
Hides(shown) ==
    IF /\ seed.st \in {"proving", "done"}
       /\ seed.n > 0
       /\ Carries(page, seed.runtime, seed.n)
       /\ shown # <<>>
       /\ Head(shown).runtime = seed.runtime
       /\ ~Carries(shown, seed.runtime, seed.n)
    THEN {"hidden seed"}
    ELSE {}

\* A stamp of runtime a is held against a stream of runtime b.
Foreign(a, b, seq) == IF seq > 0 /\ b # 0 /\ a # b THEN {"foreign seed"} ELSE {}

\* The stream goes on with another runtime, one of the two being unnamed.
Swapped(b) == IF stream \notin {0, b} THEN {"swapped runtime"} ELSE {}

\* A whole answer that is not the screen.
IsReplay == read.whole /\ read.next > 0 /\ read.items # <<Screen(read.runtime, read.next)>>

\* It does not hold all the runtime emitted.
Shortens ==
    IF IsReplay /\ read.items # [i \in 1..read.next |-> Chunk(read.runtime, i)]
    THEN {"short replay"}
    ELSE {}

\* It starts over behind chunks of its runtime, painted or still held.
Repeats ==
    IF /\ IsReplay
       /\ read.from = 0
       /\ \/ fence.batches # <<>> \/ staged # <<>> \/ bridge # <<>>
          \/ \E i \in DOMAIN page : page[i].kind = "chunk" /\ page[i].runtime = read.runtime
    THEN {"repeated replay"}
    ELSE {}

\* The filters changed what the round holds.
Rewrites(items, data) == IF data # items THEN {"rewritten"} ELSE {}

-----------------------------------------------------------------------------
(***************************************************************************)
(* The seed                                                                *)
(***************************************************************************)
\* Mutant: a seed of a replaced runtime is discarded and the fence left up.
SeedDiscardKeepsFence ==
    /\ mounted
    /\ seed.st = "answered"
    /\ seed.name # 0 /\ known # 0 /\ seed.name # known
    /\ seed' = [seed EXCEPT !.st = "discarded"]
    /\ pending' = Unstamped
    /\ UNCHANGED <<runtime, output, named, read, frozen, known, cursor, stamp, mounted,
                   paintVars, disturbances, stream, causes>>

\* A seed of a runtime other than the one the reads name is discarded and the
\* fence flushed.  Any other leaves its provisional stamp and is written: as a
\* repaint while the fence is up, else appended unless the terminal reads
\* painted (writes not yet parsed, and a cursor parked on the home cell, read
\* as unpainted).  A failed fetch and a session without output write nothing,
\* and so does a missing host.
SeedArrives ==
    /\ mounted
    /\ seed.st = "answered"
    /\ UNCHANGED <<runtime, output, named, read, frozen, known, cursor, stamp, mounted,
                   bridge, staged, disturbances, stream>>
    /\ IF seed.name # 0 /\ known # 0 /\ seed.name # known
       THEN /\ seed' = [seed EXCEPT !.st = "discarded"]
            /\ pending' = Unstamped
            /\ fence' = Down
            /\ \E e \in FlushEnds(fence.batches) :
                  /\ page' = Shows(page \o Painted(fence.batches, e))
                  /\ reported' = reported \union Undelivered(fence.batches, e)
            /\ UNCHANGED causes
       ELSE /\ pending' = IF seed.seq > 0 THEN [seq |-> seed.seq, name |-> seed.name] ELSE pending
            /\ \E wrote \in {w \in BOOLEAN : w => seed.n > 0} :
                  /\ page' = IF ~wrote THEN page
                             ELSE IF fence.up THEN <<Screen(seed.runtime, seed.n)>>
                             ELSE Append(page, [kind |-> "text", runtime |-> seed.runtime, n |-> seed.n])
                  /\ seed' = [seed EXCEPT !.st = "proving", !.wrote = wrote]
                  /\ causes' = causes \union Foreign(seed.runtime, stream, seed.seq)
                                      \union (IF wrote THEN Overtakes(<<seed>>) ELSE {})
            /\ UNCHANGED <<fence, reported>>

\* A batch that is dropped: nothing of it is left to paint or to lose.
Emptied(batch) == [batch EXCEPT !.items = <<>>]

\* Mutant: the batch right after the seed is taken for covered.
DropOneMore(batches, seq) ==
    [i \in DOMAIN batches |->
        IF batches[i].covered <= seq + 1 THEN Emptied(batches[i]) ELSE batches[i]]

\* drop_seed_covered: a batch goes if the cursor its round had reached is at or
\* below the seed's number.
DropSeedCovered(batches, seq) ==
    [i \in DOMAIN batches |->
        IF batches[i].covered <= seq THEN Emptied(batches[i]) ELSE batches[i]]

\* The page's proof.  It is an application ack only when the seed was written
\* and the page published the receipt (an entry replaced or superseded meanwhile
\* publishes none); then, if the seed named its runtime, the stamp commits and
\* covered batches are dropped.  Either way the fence is flushed.  A proof that
\* cannot be read commits nothing either.
ProofAnswers ==
    /\ mounted
    /\ seed.st = "proving"
    /\ seed' = [seed EXCEPT !.st = "done"]
    /\ \E proof \in {"applied", "unapplied", "unreadable"} :
          LET commits == proof = "applied" /\ pending.seq > 0 /\ pending.name # 0
              batches == IF commits THEN DropSeedCovered(fence.batches, pending.seq)
                         ELSE fence.batches
          IN  /\ proof = "applied" => seed.wrote
              /\ stamp' = IF commits THEN pending.seq ELSE stamp
              /\ pending' = IF proof = "unreadable" THEN [pending EXCEPT !.seq = 0] ELSE Unstamped
              /\ \E e \in FlushEnds(batches) :
                    /\ page' = Shows(page \o Painted(batches, e))
                    /\ reported' = reported \union Undelivered(batches, e)
                    /\ causes' = causes \union Hides(page')
    /\ fence' = Down
    /\ UNCHANGED <<runtime, output, named, read, frozen, known, cursor, mounted, bridge, staged,
                   disturbances, stream>>

-----------------------------------------------------------------------------
(***************************************************************************)
(* The reads                                                               *)
(***************************************************************************)
\* A read and the daemon's answer, which is then on its way to the loop.  Also
\* the re-issue of an overdue read: the late answer of the old one bears a
\* generation that is no longer current and is dropped whole.
IssueRead ==
    /\ mounted
    /\ \E gap \in BOOLEAN :
          /\ gap => cursor > 0 /\ cursor < output
          /\ \E items \in Sent(cursor, gap), lost \in SUBSET (1..MaxOutput) :
                /\ lost \subseteq DOMAIN items
                /\ lost # {} => Undisturbed
                /\ read' = Answer(cursor, gap, items, lost)
                /\ disturbances' = IF lost = {} THEN disturbances ELSE disturbances + 1
    /\ UNCHANGED <<runtime, output, named, seed, loopVars, paintVars, stream, causes>>

\* Mutant: a re-attach steps back instead of starting over.
ReattachStepsBack ==
    /\ mounted
    /\ Undisturbed
    /\ disturbances' = disturbances + 1
    /\ cursor' = cursor - 1
    /\ UNCHANGED <<runtime, output, named, read, seed, frozen, known, pending, stamp, mounted,
                   paintVars, stream, causes>>

\* A re-attach: the next read starts over, whatever is outstanding.
Reattach ==
    /\ mounted
    /\ Undisturbed
    /\ disturbances' = disturbances + 1
    /\ cursor' = 0
    /\ UNCHANGED <<runtime, output, named, read, seed, frozen, known, pending, stamp, mounted,
                   paintVars, stream, causes>>

\* An answer to a read issued before the cursor moved.
ReadIsStale == read.from # cursor

DiscardRead ==
    /\ mounted
    /\ read.st = "answered"
    /\ ReadIsStale
    /\ read' = NoRead
    /\ UNCHANGED <<runtime, output, named, seed, loopVars, paintVars, disturbances, stream, causes>>

\* runtime_name_requires_remount
RequiresRemount(name) ==
    \/ known # 0 /\ name # 0 /\ name # known
    \/ frozen # 0 /\ name # 0 /\ name # frozen

\* The stamp is void, and the loop breaks off: a fresh mount starts over.
Remount ==
    /\ mounted
    /\ read.st = "answered"
    /\ ~ReadIsStale
    /\ RequiresRemount(read.name)
    /\ mounted' = FALSE
    /\ read' = NoRead
    /\ IF known # 0 /\ read.name # known
       THEN stamp' = 0 /\ pending' = Unstamped
       ELSE UNCHANGED <<stamp, pending>>
    /\ UNCHANGED <<runtime, output, named, seed, frozen, known, cursor, paintVars, disturbances,
                   stream, causes>>

\* terminal_read_cursor_rewound
Rewound == cursor > 0 /\ read.next < cursor

\* The post-seed dedupe, on mid-stream rounds only: chunks numbered at or below
\* the stamp go, which are the first ones of the round.
Fresh(items) ==
    IF stamp > read.from /\ read.from > 0 /\ ~read.whole /\ ~Rewound
    THEN SubSeq(items, stamp - read.from + 1, Len(items))
    ELSE items

\* batch_terminal_chunks and the checks after it, once the cursor has advanced:
\* transport phrases and low-signal lines are cut out of the round, held frames
\* and suppressed surfaces drop it.  A round of which nothing is left is not
\* written.
Forwarded(items) ==
    IF DOMAIN items \subseteq read.lost THEN <<>>
    ELSE [i \in DOMAIN items |->
            IF i \in read.lost THEN Scrap(items[i].runtime) ELSE items[i]]

Accept ==
    /\ mounted
    /\ read.st = "answered"
    /\ ~ReadIsStale
    /\ ~RequiresRemount(read.name)
    /\ read' = NoRead
    /\ known' = read.name
    /\ stream' = read.runtime
    /\ cursor' = read.next
    /\ IF Rewound
       THEN stamp' = 0 /\ pending' = Unstamped
       ELSE UNCHANGED <<stamp, pending>>
    /\ LET fresh == Fresh(read.items)
           data == Forwarded(fresh)
           writes == IF bridge = <<>> THEN <<data>> ELSE <<bridge, data>>
           unseen == Swapped(read.runtime)
                     \union Foreign(seed.runtime, read.runtime, pending'.seq + stamp')
                     \union Shortens \union Repeats \union Rewrites(fresh, data)
       IN  \/ /\ data # <<>>           \* stage_or_immediate writes what it held, and this
              /\ bridge' = <<>>
              /\ StageWrites(writes, read.next)
              /\ causes' = causes \union unseen \union Overtakes(writes) \union Hides(page')
           \/ /\ bridge' = bridge \o data   \* or holds it for the frame
              /\ causes' = causes \union unseen
              /\ UNCHANGED <<fence, page, reported>>
    /\ UNCHANGED <<runtime, output, named, seed, frozen, staged, mounted, disturbances>>

-----------------------------------------------------------------------------
\* Mutant: the frame is written and the bridge keeps it.
FlushKeepsPending ==
    /\ mounted
    /\ bridge # <<>>
    /\ ~fence.up
    /\ page' = Shows(page \o bridge)
    /\ causes' = causes \union Overtakes(bridge) \union Hides(page')
    /\ UNCHANGED <<runtime, output, named, read, seed, loopVars, fence, bridge, staged,
                   disturbances, stream, reported>>

\* flush_due: the frame is due.  This site may not wait for the page: when the
\* fence releases here its flush is staged, and the loop goes on.
FlushDue ==
    /\ mounted
    /\ bridge # <<>>
    /\ bridge' = <<>>
    /\ \/ /\ fence.up
          /\ fence' = [fence EXCEPT !.batches = Append(@, [items |-> bridge, covered |-> cursor])]
          /\ UNCHANGED <<page, staged, causes>>
       \/ /\ fence.up
          /\ staged' = Append(fence.batches, [items |-> bridge, covered |-> cursor])
          /\ fence' = Down
          /\ UNCHANGED <<page, causes>>
       \/ /\ ~fence.up
          /\ page' = Shows(page \o bridge)
          /\ causes' = causes \union Overtakes(bridge) \union Hides(page')
          /\ UNCHANGED <<fence, staged>>
    /\ UNCHANGED <<runtime, output, named, read, seed, loopVars, disturbances, stream, reported>>

\* The staged flush, one batch at a time; the batch that broke the fence is
\* written last, without waiting, also when the flush failed.
ReleaseStep ==
    /\ mounted
    /\ staged # <<>>
    /\ \/ /\ page' = Shows(page \o Head(staged).items)
          /\ staged' = Tail(staged)
          /\ UNCHANGED reported
       \/ /\ Len(staged) > 1
          /\ \E painted \in BOOLEAN :
                page' = IF painted THEN Shows(page \o Head(staged).items) ELSE page
          /\ reported' = reported \union Range(ItemsOf(Front(staged)))
          /\ staged' = <<Last(staged)>>
    /\ causes' = causes \union Hides(page')
    /\ UNCHANGED <<runtime, output, named, read, seed, loopVars, fence, bridge, disturbances, stream>>

Ended ==
    /\ ~mounted
    /\ UNCHANGED fenceVars

FenceNext ==
    \/ Output \/ Replace \/ Capture \/ CaptureFails
    \/ SeedArrives \/ ProofAnswers
    \/ IssueRead \/ Reattach \/ DiscardRead \/ Remount \/ Accept
    \/ FlushDue \/ ReleaseStep \/ Ended

FenceSpec == FenceInit /\ [][FenceNext]_fenceVars

\* Both RPCs are bounded by timeouts and their failures are sent on, a flush
\* waits for each acknowledgement a bounded time, and the loop polls every
\* branch that is armed.  The page's answer to the proof is awaited without a
\* bound: it may never come.
FairSpec ==
    /\ FenceSpec
    /\ WF_fenceVars(Capture \/ CaptureFails)
    /\ WF_fenceVars(SeedArrives)
    /\ WF_fenceVars(ReleaseStep)

-----------------------------------------------------------------------------
(***************************************************************************)
(* Properties                                                              *)
(***************************************************************************)
Names == 0..MaxRuntimes

\* The loop's positions stay within what the daemon numbered, and everything
\* held or painted is output of one of its runtimes.
FenceTypeOK ==
    /\ runtime \in Runtimes
    /\ output \in 0..MaxOutput
    /\ named \subseteq Runtimes
    /\ frozen \in Names
    /\ known \in Names
    /\ cursor \in 0..MaxOutput
    /\ read \in [st: {"none", "answered"}, from: 0..MaxOutput, runtime: Names, name: Names,
                 next: 0..MaxOutput, whole: BOOLEAN, items: Seq(Item),
                 lost: SUBSET (1..MaxOutput)]
    /\ seed \in [st: {"fetching", "answered", "proving", "done", "discarded"}, runtime: Runtimes,
                 n: 0..MaxOutput, seq: 0..MaxOutput, name: Names, wrote: BOOLEAN]
    /\ pending \in [seq: 0..MaxOutput, name: Names]
    /\ stamp \in 0..MaxOutput
    /\ fence \in [up: BOOLEAN, batches: Seq(Batch)]
    /\ staged \in Seq(Batch)
    /\ bridge \in Seq(Item)
    /\ page \in Seq(Item)
    /\ reported \subseteq Item
    /\ mounted \in BOOLEAN
    /\ disturbances \in 0..MaxDisturbances
    /\ stream \in Names
    /\ causes \subseteq {"overtaken release", "hidden seed", "foreign seed", "swapped runtime",
                         "short replay", "repeated replay", "rewritten"}

\* Every chunk the loop's cursor has passed is on the page, held on its way
\* there, or was reported undelivered.
AllAccounted ==
    mounted => \A n \in 1..cursor :
        \/ Carries(page, stream, n)
        \/ Carries(ItemsOf(fence.batches), stream, n)
        \/ Carries(bridge, stream, n)
        \/ Carries(ItemsOf(staged), stream, n)
        \/ \E i \in reported : Carries(<<i>>, stream, n)

\* Whatever order the seed, its proof, the reads, the frame timer and the
\* deadline come in, and whichever of the flushes fails, dropping covered
\* batches and filtering later rounds loses no output: unless an older screen
\* hid the seed, a live write overtook a staged release, the runtime changed
\* without the loop being able to see it, a replay without a screen was short or
\* came on top of earlier output, or the content filters cut into a round.
NothingLost == causes = {} => AllAccounted

\* A chunk is painted once, and after the chunks before it: retaining, releasing
\* and the two holding places never reorder the stream, and a discarded read
\* never delivers twice.  Only a live write that overtakes a staged release and
\* a replay from the start, sent without a screen over what is painted, do.
OrderKept ==
    causes \intersect {"overtaken release", "repeated replay"} = {} =>
        \A i, j \in DOMAIN page :
            i < j /\ page[i].kind = "chunk" /\ page[j].kind = "chunk"
                  /\ page[i].runtime = page[j].runtime
            => page[i].n < page[j].n

\* A staged release drains, and all the fence may wait for for ever is the page's
\* answer to the proof: no other path of the seed, a failed fetch and a seed of
\* another runtime included, leaves output behind it, though the deadline is
\* looked at only when more output arrives.
NothingStranded ==
    <>[](mounted => staged = <<>> /\ (fence.up => seed.st = "proving"))

(***************************************************************************)
(* What the comments promise and the code does not keep                    *)
(***************************************************************************)
\* "a dead bridge must never wedge the loop": the flush's waits are bounded, the
\* wait for the proof is not, and with no more output the fence stays up.
FenceComesDown == <>[](mounted => ~fence.up)

\* "chunks at or below it are inside the seeded screen forever on this mount":
\* a cursor-0 answer older than the seed, arriving after the proof, repaints an
\* older screen, and the filter then drops the chunks between the two.
SeededStaysShown == causes \subseteq {"hidden seed"} => AllAccounted

\* "AFTER flushing everything it held, in order, ahead of this batch": the
\* release that the frame timer breaks is only staged, and rounds written
\* meanwhile go ahead of it; a screen it still holds then erases them.
ReleasedGoFirst == causes \subseteq {"overtaken release"} => AllAccounted

\* "a new runtime mints seqs from 0 - the old stamp would drop FRESH chunks":
\* the stamp is voided when two known names differ, and a seed that arrives
\* before the first read answer is held against no name.
CoverageIsOfThisRuntime == causes \subseteq {"foreign seed"} => AllAccounted

\* "keeps the fence (and every later live write) free of seed-covered bytes":
\* a batch whose round reached past the seed, and what the bridge still holds
\* when the proof answers, are painted on top of the screen that has them.
CoveredIsNotRepainted ==
    causes = {} =>
        \A i, j \in DOMAIN page :
            i < j /\ page[i].kind # "chunk" /\ page[i].runtime = page[j].runtime
                  /\ stamp > 0 /\ page[i].n = stamp /\ page[j].kind = "chunk"
            => page[j].n > stamp
=============================================================================
