---------------------------- MODULE ProfileLock ----------------------------
(***************************************************************************)
(* The write lock over one web profile: the daemon's table                 *)
(* (profile_write_lock.rs), and the clients that open WebContexts on the   *)
(* profile's jar (the web surface reconciler of yggterm-shell).  A client  *)
(* is one process; a restarted one is another member of Client.  Client    *)
(* and pid are the same thing until the process has died and its pid is    *)
(* given to a stranger.  Locks of different profiles are independent.      *)
(***************************************************************************)
EXTENDS Naturals

CONSTANTS
    Active,     \* clients of the user: ClientRole::Active
    Shadow,     \* view clients of agents: ClientRole::Shadow
    None

ASSUME ClientAssumption == Active \cap Shadow = {} /\ None \notin Active \cup Shadow

Client == Active \cup Shadow

VARIABLES
    up, dead,   \* client processes
    squat,      \* dead clients whose pid a stranger now has
    holder,     \* the daemon's entry for the profile
    \* per client: the reconciler's locals
    held,       \* held_profile_write_locks has the profile
    ask,        \* the verdict on the surface being opened
    jar,        \* has a surface on the profile's jar
    jarless,    \* has a surface on the profile, opened without the jar
    verb,       \* passed the preempt gate, has not injected yet
    \* history
    granted,    \* the daemon has said yes to this process
    preempted,  \* lost the lock to an Active client since
    restarted, erred

daemonVars  == <<holder>>
clientVars  == <<held, ask, jar, jarless, verb>>
historyVars == <<granted, preempted, restarted, erred>>
vars == <<up, dead, squat, daemonVars, clientVars, historyVars>>

Init ==
    /\ up = {} /\ dead = {} /\ squat = {}
    /\ holder = None
    /\ held = {} /\ ask = [c \in Client |-> "no"] /\ jar = {} /\ jarless = {} /\ verb = {}
    /\ granted = {} /\ preempted = {} /\ restarted = FALSE /\ erred = FALSE

-----------------------------------------------------------------------------
(* The daemon's table                                                      *)

\* SystemLiveness: does /proc/<pid> exist.
IsAlive(c) == c \in up \cup squat

\* Mutant: any client of the user preempts.
PreemptsAnyone(c, h) == c \in Active

\* Active-priority preemption.
MayPreempt(c, h) == c \in Active /\ h \in Shadow

\* AcquireOutcome::is_writable
Writable(c) ==
    \/ holder \in {None, c}
    \/ ~IsAlive(holder)
    \/ MayPreempt(c, holder)

\* ProfileWriteLockTable::acquire
Acquired(c) == IF Writable(c) THEN c ELSE holder

\* History: the acquire displaced a live Shadow, or gave the lock back to c.
Displaced(c) ==
    IF ~Writable(c) THEN preempted
    ELSE (preempted \ {c}) \cup (IF holder \in {None, c} THEN {} ELSE {holder} \cap up)

\* ProfileWriteLockTable::release
Released(c) == IF holder = c THEN None ELSE holder

\* ProfileWriteLockTable::reap_dead
Reaped == IF holder # None /\ ~IsAlive(holder) THEN None ELSE holder

\* The table is not persisted: a new daemon starts with an empty one.
DaemonRestart ==
    /\ holder' = None
    /\ restarted' = TRUE
    /\ UNCHANGED <<up, dead, squat, clientVars, granted, preempted, erred>>

-----------------------------------------------------------------------------
(* Client processes                                                        *)

Start(c) ==
    /\ c \notin up \cup dead
    /\ up' = up \cup {c}
    /\ UNCHANGED <<dead, squat, daemonVars, clientVars, historyVars>>

\* Crash or exit: nothing is released.
Die(c) ==
    /\ c \in up
    /\ up' = up \ {c} /\ dead' = dead \cup {c}
    /\ held' = held \ {c} /\ jar' = jar \ {c} /\ jarless' = jarless \ {c} /\ verb' = verb \ {c}
    /\ ask' = [ask EXCEPT ![c] = "no"]
    /\ UNCHANGED <<squat, daemonVars, historyVars>>

ReusePid(c) ==
    /\ c \in dead \ squat
    /\ squat' = squat \cup {c}
    /\ UNCHANGED <<up, dead, daemonVars, clientVars, historyVars>>

FreePid(c) ==
    /\ c \in squat
    /\ squat' = squat \ {c}
    /\ UNCHANGED <<up, dead, daemonVars, clientVars, historyVars>>

-----------------------------------------------------------------------------
(* The reconciler opens and closes surfaces                                *)

\* held_profile_write_locks has the profile: no round trip.
AskCached(c) ==
    /\ c \in up /\ ask[c] = "no" /\ c \in held
    /\ ask' = [ask EXCEPT ![c] = "writable"]
    /\ UNCHANGED <<up, dead, squat, daemonVars, held, jar, jarless, verb, historyVars>>

Ask(c) ==
    /\ c \in up /\ ask[c] = "no" /\ c \notin held
    /\ ask' = [ask EXCEPT ![c] = IF Writable(c) THEN "writable" ELSE "refused"]
    /\ holder' = Acquired(c)
    /\ granted' = IF Writable(c) THEN granted \cup {c} ELSE granted
    /\ preempted' = Displaced(c)
    /\ UNCHANGED <<up, dead, squat, held, jar, jarless, verb, restarted, erred>>

\* Mutant: everyone falls back to the jar.
AlwaysOpen(c) == TRUE

\* The request or its answer is lost: fall back by role.
WritableOnError(c) == c \in Active

AskErrs(c) ==
    /\ c \in up /\ ask[c] = "no" /\ c \notin held
    /\ ask' = [ask EXCEPT ![c] = IF WritableOnError(c) THEN "writable" ELSE "refused"]
    /\ \/ UNCHANGED <<holder, preempted>>
       \/ holder' = Acquired(c) /\ preempted' = Displaced(c)
    /\ erred' = TRUE
    /\ UNCHANGED <<up, dead, squat, held, jar, jarless, verb, granted, restarted>>

Open(c) ==
    /\ ask[c] # "no"
    /\ ask' = [ask EXCEPT ![c] = "no"]
    /\ IF ask[c] = "writable"
       THEN held' = held \cup {c} /\ jar' = jar \cup {c} /\ jarless' = jarless
       ELSE held' = held /\ jar' = jar /\ jarless' = jarless \cup {c}
    /\ UNCHANGED <<up, dead, squat, daemonVars, verb, historyVars>>

\* Mutant: closing any surface releases the lock.
AnyClose(c) == TRUE

\* web_profile_write_locks_to_release: no surface of the profile is left.
NothingInUse(c) == c \notin jar' \cup jarless'

\* The release at the end of the tick, whose outcome is ignored.
EndTick(c, h) ==
    IF c \in h /\ NothingInUse(c)
    THEN /\ held' = h \ {c}
         /\ \/ holder' = Released(c) /\ erred' = erred
            \/ holder' = holder /\ erred' = TRUE
    ELSE held' = h /\ holder' = holder /\ erred' = erred

\* The webview cannot be made.
CreateFails(c) ==
    /\ ask[c] # "no"
    /\ ask' = [ask EXCEPT ![c] = "no"]
    /\ UNCHANGED <<jar, jarless>>
    /\ EndTick(c, IF ask[c] = "writable" THEN held \cup {c} ELSE held)
    /\ UNCHANGED <<up, dead, squat, verb, granted, preempted, restarted>>

\* Mutant: a verb outlives its surface.
VerbGoesOn(c) == verb

\* A verb is planned against one incarnation of a surface and dies with it.
VerbAfterClose(c) == IF c \in jar' THEN verb ELSE verb \ {c}

\* The client's surfaces of one kind close.
Close(c) ==
    /\ ask[c] = "no"
    /\ \/ c \in jar /\ jar' = jar \ {c} /\ jarless' = jarless
       \/ c \in jarless /\ jarless' = jarless \ {c} /\ jar' = jar
    /\ EndTick(c, held)
    /\ verb' = VerbAfterClose(c)
    /\ UNCHANGED <<up, dead, squat, ask, granted, preempted, restarted>>

-----------------------------------------------------------------------------
(* An agent's verb on a Shadow's surface                                   *)

\* web_do_open_lane: ask for the report, which reaps; no answer refuses the verb.
Check(c) ==
    /\ c \in Shadow \cap jar /\ c \notin verb
    /\ holder' = Reaped
    /\ verb' = IF Reaped = c THEN verb \cup {c} ELSE verb
    /\ UNCHANGED <<up, dead, squat, held, ask, jar, jarless, historyVars>>

\* web_do_execute_one, after an await.
Inject(c) ==
    /\ c \in verb
    /\ verb' = verb \ {c}
    /\ UNCHANGED <<up, dead, squat, daemonVars, held, ask, jar, jarless, historyVars>>

-----------------------------------------------------------------------------
Next ==
    \/ DaemonRestart
    \/ \E c \in Client :
        \/ Start(c) \/ Die(c) \/ ReusePid(c) \/ FreePid(c)
        \/ AskCached(c) \/ Ask(c) \/ AskErrs(c)
        \/ Open(c) \/ CreateFails(c) \/ Close(c)
        \/ Check(c) \/ Inject(c)

Spec == Init /\ [][Next]_vars

-----------------------------------------------------------------------------
TypeOK ==
    /\ up \subseteq Client /\ dead \subseteq Client /\ up \cap dead = {}
    /\ squat \subseteq dead
    /\ holder \in Client \cup {None}
    /\ held \subseteq up /\ jar \subseteq up /\ jarless \subseteq up
    /\ verb \subseteq jar
    /\ ask \in [Client -> {"no", "writable", "refused"}]
    /\ granted \subseteq Client /\ preempted \subseteq Client
    /\ restarted \in BOOLEAN /\ erred \in BOOLEAN

\* "never granting two live writers": while one daemon answers every request, a
\* client with the jar open is the daemon's holder, whatever died, whatever pid
\* was reused and whatever was released in between; the only other writers are
\* Shadows whose lock an Active client has taken.
SoleWriter ==
    ~restarted /\ ~erred => \A c \in jar : holder = c \/ c \in Shadow \cap preempted

\* "A Shadow FAILS CLOSED": with requests lost and daemons restarted, a Shadow
\* never opens the jar unless some daemon gave it the lock.
ShadowJarWasGranted == Shadow \cap jar \subseteq granted

\* "equal-or-higher standing is never displaced": a live holder loses the lock
\* only to nobody, or as a Shadow to an Active client.
LiveHolderYieldsOnlyToActive ==
    [][\A c \in up : holder = c => \/ holder' \in {c, None}
                                   \/ c \in Shadow /\ holder' \in Active]_vars

-----------------------------------------------------------------------------
(* Statements of the docs and comments that the code does not keep.        *)

Writers == {c \in jar : c \in Active}

\* "a crash / restart recovers to a single writer, never two."
RestartKeepsOneWriter == ~erred => \A c, d \in Writers : c = d

\* An acquire that errs opens the jar, "so there is no second writer to fear".
ErrorMakesNoSecondWriter == ~restarted => \A c, d \in Writers : c = d

\* "when another live client ... already holds the lock this surface opens with
\* NO JAR instead of as a second writer."
OpensJarOnlyUnderLock ==
    [][~restarted' /\ ~erred' =>
        \A c \in Client : ask[c] = "no" /\ ask'[c] = "writable" => holder' = c]_vars

\* "once the user's Active GUI preempts it, the shadow's still-open jar-backed
\* WebContext must stop taking agent-driven writes."
PreemptedShadowStops ==
    [][\A c \in verb : c \notin verb' /\ c \in jar' => holder \notin Active]_vars
=============================================================================
