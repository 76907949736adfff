-------------------------- MODULE SessionOwnership --------------------------
(***************************************************************************)
(* What two daemons promise of a terminal session while the old one is     *)
(* replaced by the new one, without the sweep, the socket, the watches and *)
(* the crashes by which they do it (PtyHandoff implements this).           *)
(*                                                                         *)
(* A daemon holds a session when it has its PTY master, and reads it when  *)
(* it consumes its output.  The old daemon falls silent before the new one *)
(* takes over, and reads again only where the new one does not; otherwise  *)
(* the session is disputed, and it stays so until the old daemon is silent *)
(* again.  Sessions move independently: one step may move many of them.    *)
(***************************************************************************)
CONSTANT Session

VARIABLES
    life,       \* per session: "unborn", "alive", "exited" or "killed"
    oldHolds,   \* the sessions the old daemon holds
    newHolds,   \* the sessions the new daemon holds
    oldReads,   \* the living sessions the old daemon reads
    newReads,   \* the living sessions the new daemon reads
    disputed    \* sessions that both daemons may believe to be theirs

vars == <<life, oldHolds, newHolds, oldReads, newReads, disputed>>

Alive(s) == life[s] = "alive"

\* What may stay as it was in a step of s.
SameLife(s)    == life'[s] = life[s]
SameHolders(s) == (s \in oldHolds' <=> s \in oldHolds) /\ (s \in newHolds' <=> s \in newHolds)
SameNew(s)     == s \in newReads' <=> s \in newReads
SameOld(s)     == s \in oldReads' <=> s \in oldReads
Unread(s)      == s \notin oldReads' /\ s \notin newReads'

\* Some daemon that held s holds it no more, and none holds it anew.
Released(s) ==
    /\ s \in oldHolds' => s \in oldHolds
    /\ s \in newHolds' => s \in newHolds
    /\ ~SameHolders(s)

Init ==
    /\ life \in [Session -> {"unborn", "alive"}]
    /\ oldHolds = {s \in Session : Alive(s)}
    /\ oldReads = oldHolds
    /\ newHolds = {} /\ newReads = {}
    /\ disputed = {}

Same(s) == SameLife(s) /\ SameHolders(s) /\ SameOld(s) /\ SameNew(s)

\* A session is born in the old daemon, which reads it.
Start(s) ==
    /\ life[s] = "unborn" /\ life'[s] = "alive"
    /\ s \in oldHolds' \ newHolds'
    /\ s \in oldReads' \ newReads'

\* The old daemon's reader stands down; it still has the master.
Quiet(s) ==
    /\ SameLife(s) /\ SameHolders(s) /\ SameNew(s)
    /\ s \notin oldReads'

\* It reads again: never together with the new daemon, unless disputed.
Resume(s) ==
    /\ Alive(s) /\ s \in oldHolds
    /\ s \in newReads => s \in disputed'
    /\ SameLife(s) /\ SameHolders(s) /\ SameNew(s)
    /\ s \in oldReads'

\* The new daemon takes a living session whose old reader is silent.
TakeOver(s) ==
    /\ Alive(s) /\ s \notin newHolds
    /\ s \in oldReads => s \in disputed
    /\ s \in newHolds' /\ s \in newReads'
    /\ SameLife(s) /\ (s \in oldHolds' <=> s \in oldHolds) /\ SameOld(s)

\* The shell ends by itself; who holds it goes on holding it.
Finish(s) ==
    /\ Alive(s) /\ life'[s] = "exited"
    /\ SameHolders(s) /\ Unread(s)

\* A holder ends the session, and lets it go in the same step.
Kill(s) ==
    /\ Alive(s) /\ life'[s] = "killed"
    /\ Released(s) /\ Unread(s)

\* A holder lets the session go: it closed a dead one, it left, or it died.
LetGo(s) ==
    /\ SameLife(s) /\ Released(s)
    /\ s \in oldReads' <=> (s \in oldReads /\ s \in oldHolds')
    /\ s \in newReads' <=> (s \in newReads /\ s \in newHolds')

\* A dispute ends only with the old daemon silent.
Settled(s) == s \in disputed /\ s \notin disputed' => s \notin oldReads'

Next ==
    \A s \in Session :
       /\ Settled(s)
       /\ \/ Same(s) \/ Start(s) \/ Quiet(s) \/ Resume(s) \/ TakeOver(s)
          \/ Finish(s) \/ Kill(s) \/ LetGo(s)

Spec == Init /\ [][Next]_vars
=============================================================================
