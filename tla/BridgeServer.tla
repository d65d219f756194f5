---------------------------- MODULE BridgeServer ----------------------------
(***************************************************************************)
(* The bridge's server (adapters/bridge_server.py): start and stop, called *)
(* on NVDA's main thread by the plugin and its dialog; the accept loop, on *)
(* a server thread of its own; and the status events that keep the dialog  *)
(* (views/bridge_dialog.py) current.                                       *)
(*                                                                         *)
(* One lock guards the state, the live session, the thread handle and the  *)
(* stop flag; a step of this module is one critical section or one call    *)
(* made outside it. A session is what module Session models in full: here  *)
(* it runs until it ends by itself or honours a request to end.            *)
(***************************************************************************)
EXTENDS Naturals

CONSTANT MaxStarts  \* bound: how many server threads are ever started

ASSUME StartsAssumption == MaxStarts \in Nat

NoThread == 0
Threads == 1 .. MaxStarts

ServerStates == {"stopped", "listening", "session-active"}

MainPlaces == {"idle", "started", "ask", "close", "join", "reset", "stopped"}
ThreadPlaces == {"unborn", "check", "accept", "build", "register", "admitted",
                 "warn", "run", "over", "released", "leave", "shut", "abandon",
                 "abandoned", "dead"}

VARIABLES
    state,      \* self._state
    active,     \* self._active_session, named by the thread that runs it
    thread,     \* self._thread
    stopping,   \* self._stopping
    listening,  \* the listener is open
    main,       \* where NVDA's main thread is in start or stop
    victim,     \* the session and the thread stop() has read
    place,      \* where each server thread is
    asked,      \* each thread's session has been asked to end
    forewarned, \* what each thread read of the stop flag when it registered
    queued,     \* a status event waits for the main thread
    shown       \* the state the dialog shows

lockVars == <<state, active, thread, stopping>>
dialog == <<queued, shown>>
vars == <<lockVars, listening, main, victim, place, asked, forewarned, dialog>>

TypeOK ==
    /\ state \in ServerStates
    /\ active \in Threads \cup {NoThread}
    /\ thread \in Threads \cup {NoThread}
    /\ stopping \in BOOLEAN
    /\ listening \in BOOLEAN
    /\ main \in MainPlaces
    /\ victim \in [session : Threads \cup {NoThread}, thread : Threads \cup {NoThread}]
    /\ place \in [Threads -> ThreadPlaces]
    /\ asked \in [Threads -> BOOLEAN]
    /\ forewarned \in [Threads -> BOOLEAN]
    /\ queued \in BOOLEAN
    /\ shown \in ServerStates

Nobody == [session |-> NoThread, thread |-> NoThread]

Init ==
    /\ state = "stopped"
    /\ active = NoThread
    /\ thread = NoThread
    /\ stopping = FALSE
    /\ listening = FALSE
    /\ main = "idle"
    /\ victim = Nobody
    /\ place = [t \in Threads |-> "unborn"]
    /\ asked = [t \in Threads |-> FALSE]
    /\ forewarned = [t \in Threads |-> FALSE]
    /\ queued = FALSE
    /\ shown = "stopped"

Goto(t, there) == place' = [place EXCEPT ![t] = there]

\* _notify: the event carries the dialog's refresh to the main thread.
Notify == queued' = TRUE /\ UNCHANGED shown

-----------------------------------------------------------------------------
(***************************************************************************)
(* start() and stop(), on NVDA's main thread.                              *)
(***************************************************************************)

\* start: bind, listen and spawn in one critical section. Started already, it
\* does nothing; a bind that fails leaves everything as it was.
Start(t) ==
    /\ main = "idle"
    /\ state = "stopped"
    /\ place[t] = "unborn"
    /\ listening' = TRUE
    /\ state' = "listening"
    /\ stopping' = FALSE
    /\ thread' = t
    /\ Goto(t, "check")
    /\ main' = "started"
    /\ UNCHANGED <<active, victim, asked, forewarned, dialog>>

StartNotify ==
    /\ main = "started"
    /\ main' = "idle"
    /\ Notify
    /\ UNCHANGED <<lockVars, listening, victim, place, asked, forewarned>>

\* stop's first critical section. The plugin may call stop at any time.
Stop ==
    /\ main = "idle"
    /\ victim' = [session |-> active, thread |-> thread]
    /\ stopping' = TRUE
    /\ main' = "ask"
    /\ UNCHANGED <<state, active, thread, listening, place, asked, forewarned, dialog>>

\* Seeded fault: stop() leaves the live session to end by itself.
AskNobody ==
    /\ main = "ask"
    /\ main' = "close"
    /\ UNCHANGED <<lockVars, listening, victim, place, asked, forewarned, dialog>>

StopAsk ==
    /\ main = "ask"
    /\ asked' = [t \in Threads |-> asked[t] \/ t = victim.session]
    /\ main' = "close"
    /\ UNCHANGED <<lockVars, listening, victim, place, forewarned, dialog>>

StopClose ==
    /\ main = "close"
    /\ listening' = FALSE
    /\ main' = "join"
    /\ UNCHANGED <<lockVars, victim, place, asked, forewarned, dialog>>

\* Seeded fault: stop() does not wait for the server thread.
StopUnjoined ==
    /\ main = "join"
    /\ main' = "reset"
    /\ UNCHANGED <<lockVars, listening, victim, place, asked, forewarned, dialog>>

StopJoin ==
    /\ main = "join"
    /\ victim.thread # NoThread => place[victim.thread] = "dead"
    /\ main' = "reset"
    /\ UNCHANGED <<lockVars, listening, victim, place, asked, forewarned, dialog>>

StopReset ==
    /\ main = "reset"
    /\ state' = "stopped"
    /\ active' = NoThread
    /\ thread' = NoThread
    /\ stopping' = FALSE
    /\ victim' = Nobody
    /\ main' = "stopped"
    /\ UNCHANGED <<listening, place, asked, forewarned, dialog>>

StopNotify ==
    /\ main = "stopped"
    /\ main' = "idle"
    /\ Notify
    /\ UNCHANGED <<lockVars, listening, victim, place, asked, forewarned>>

\* The main thread gets to the dialog's handler, which reads the state anew.
Refresh ==
    /\ main = "idle"
    /\ queued
    /\ queued' = FALSE
    /\ shown' = state
    /\ UNCHANGED <<lockVars, listening, main, victim, place, asked, forewarned>>

-----------------------------------------------------------------------------
(***************************************************************************)
(* _serve, on a server thread.                                             *)
(***************************************************************************)
Move(t, here, there) == place[t] = here /\ Goto(t, there)

ServeCheck(t) ==
    /\ Move(t, "check", IF stopping THEN "leave" ELSE "accept")
    /\ UNCHANGED <<lockVars, listening, main, victim, asked, forewarned, dialog>>

\* accept() times out, says the listener is closed, fails, or has a client.
AcceptTimeout(t) ==
    /\ listening
    /\ Move(t, "accept", "check")
    /\ UNCHANGED <<lockVars, listening, main, victim, asked, forewarned, dialog>>

AcceptFails(t) ==
    /\ Move(t, "accept", "leave")
    /\ UNCHANGED <<lockVars, listening, main, victim, asked, forewarned, dialog>>

Accept(t) ==
    /\ listening
    /\ Move(t, "accept", "build")
    /\ UNCHANGED <<lockVars, listening, main, victim, asked, forewarned, dialog>>

\* The session factory opens files: it may raise, which the loop survives.
BuildFails(t) ==
    /\ Move(t, "build", "check")
    /\ UNCHANGED <<lockVars, listening, main, victim, asked, forewarned, dialog>>

Build(t) ==
    /\ Move(t, "build", "register")
    /\ asked' = [asked EXCEPT ![t] = FALSE]
    /\ UNCHANGED <<lockVars, listening, main, victim, forewarned, dialog>>

\* The critical section that registers the session and reads the stop flag.
Register(t) ==
    /\ Move(t, "register", "admitted")
    /\ active' = t
    /\ state' = "session-active"
    /\ forewarned' = [forewarned EXCEPT ![t] = stopping]
    /\ UNCHANGED <<thread, stopping, listening, main, victim, asked, dialog>>

AdmitNotify(t) ==
    /\ Move(t, "admitted", "warn")
    /\ Notify
    /\ UNCHANGED <<lockVars, listening, main, victim, asked, forewarned>>

\* Seeded fault: a session registered during a stop() is not asked to end.
ForewarnNot(t) ==
    /\ Move(t, "warn", "run")
    /\ UNCHANGED <<lockVars, listening, main, victim, asked, forewarned, dialog>>

\* A stop() that came before the registration saw no session to end.
Forewarn(t) ==
    /\ Move(t, "warn", "run")
    /\ asked' = [asked EXCEPT ![t] = @ \/ forewarned[t]]
    /\ UNCHANGED <<lockVars, listening, main, victim, forewarned, dialog>>

\* session.run() returns: because it was asked to, or for a reason of its own.
SessionObeys(t) ==
    /\ asked[t]
    /\ Move(t, "run", "over")
    /\ UNCHANGED <<lockVars, listening, main, victim, asked, forewarned, dialog>>

SessionEnds(t) ==
    /\ Move(t, "run", "over")
    /\ UNCHANGED <<lockVars, listening, main, victim, asked, forewarned, dialog>>

\* Seeded fault: the session stays the live one after it has ended.
UnregisterStateOnly(t) ==
    /\ Move(t, "over", "released")
    /\ state' = IF stopping THEN state ELSE "listening"
    /\ UNCHANGED <<active, thread, stopping, listening, main, victim, asked, forewarned, dialog>>

Unregister(t) ==
    /\ Move(t, "over", "released")
    /\ active' = NoThread
    /\ state' = IF stopping THEN state ELSE "listening"
    /\ UNCHANGED <<thread, stopping, listening, main, victim, asked, forewarned, dialog>>

\* Seeded fault: the end of a session is not announced.
ReleaseSilently(t) ==
    /\ Move(t, "released", "check")
    /\ UNCHANGED <<lockVars, listening, main, victim, asked, forewarned, dialog>>

ReleaseNotify(t) ==
    /\ Move(t, "released", "check")
    /\ IF stopping THEN UNCHANGED dialog ELSE Notify
    /\ UNCHANGED <<lockVars, listening, main, victim, asked, forewarned>>

\* The finally of _serve: a loop that ended by itself cleans up after itself.
Leave(t) ==
    /\ Move(t, "leave", IF stopping THEN "dead" ELSE "shut")
    /\ UNCHANGED <<lockVars, listening, main, victim, asked, forewarned, dialog>>

LeaveClose(t) ==
    /\ Move(t, "shut", "abandon")
    /\ listening' = FALSE
    /\ UNCHANGED <<lockVars, main, victim, asked, forewarned, dialog>>

LeaveStopped(t) ==
    /\ Move(t, "abandon", "abandoned")
    /\ state' = "stopped"
    /\ active' = NoThread
    /\ UNCHANGED <<thread, stopping, listening, main, victim, asked, forewarned, dialog>>

LeaveNotify(t) ==
    /\ Move(t, "abandoned", "dead")
    /\ Notify
    /\ UNCHANGED <<lockVars, listening, main, victim, asked, forewarned>>

-----------------------------------------------------------------------------
\* What the main thread does once it is in start or stop, or has an event.
MainGoesOn ==
    \/ StartNotify \/ StopAsk \/ StopClose \/ StopJoin \/ StopReset \/ StopNotify
    \/ Refresh

\* What a server thread does without anything happening from outside.
Serve(t) ==
    \/ ServeCheck(t) \/ AcceptTimeout(t) \/ (~listening /\ AcceptFails(t))
    \/ BuildFails(t) \/ Build(t) \/ Register(t) \/ AdmitNotify(t) \/ Forewarn(t)
    \/ SessionObeys(t) \/ Unregister(t) \/ ReleaseNotify(t)
    \/ Leave(t) \/ LeaveClose(t) \/ LeaveStopped(t) \/ LeaveNotify(t)

\* A client dials, a session ends by itself, the listener breaks.
World(t) == Accept(t) \/ SessionEnds(t) \/ (listening /\ AcceptFails(t))

Next ==
    \/ \E t \in Threads : Start(t)
    \/ Stop
    \/ MainGoesOn
    \/ \E t \in Threads : Serve(t) \/ World(t)

Spec == Init /\ [][Next]_vars

\* Both threads run. A session that was asked to end does (Session shows it
\* ends), an accept polls, and nobody has to dial, start or stop.
FairSpec ==
    /\ Spec
    /\ WF_vars(MainGoesOn)
    /\ \A t \in Threads : WF_vars(Serve(t))

-----------------------------------------------------------------------------
(***************************************************************************)
(* Safety.                                                                 *)
(***************************************************************************)
Serving(t) == place[t] \in {"admitted", "warn", "run", "over"}

\* The thread may still touch the server's state or its listener.
Working(t) == place[t] \notin {"unborn", "abandoned", "dead"}

\* A status of "stopped" is the truth: the listener is closed, and no thread
\* that was ever started runs a session or can still admit one.
StoppedIsStopped ==
    state = "stopped" => ~listening /\ \A t \in Threads : ~Working(t)

\* One session at a time, and it is the one the server knows and can end.
OneSession == \A t \in Threads : Serving(t) => active = t

\* A session that is admitted while the server is being stopped has been, or is
\* about to be, asked to end: no interleaving of stop() with an accept misses it.
Doomed(t) ==
    \/ asked[t]
    \/ place[t] # "run" /\ forewarned[t]
    \/ main = "ask" /\ victim.session = t
NoSessionMissed ==
    \A t \in Threads :
        stopping /\ place[t] \in {"admitted", "warn", "run"} => Doomed(t)

\* No change of state goes unannounced: once the main thread is idle with no
\* event waiting, and no thread is about to send one, the dialog shows the
\* state the server is in.
Announcing == {"admitted", "released", "abandoned"}
DialogCurrent ==
    main = "idle" /\ ~queued /\ (\A t \in Threads : place[t] \notin Announcing) =>
        shown = state

-----------------------------------------------------------------------------
(***************************************************************************)
(* The inductive invariant: the safety properties above follow from it.    *)
(***************************************************************************)

\* The stop flag is up exactly while stop() runs, and stop() joins the thread
\* the server has: nobody else writes the handle meanwhile.
InStop == main \in {"ask", "close", "join", "reset"}
StopOwnsThread ==
    /\ stopping <=> InStop
    /\ InStop => victim.thread = thread

\* Only the thread the server has a handle for is still at work, so a join of
\* it is a join of everything.
OneWorker == \A t \in Threads : Working(t) => thread = t

\* The listener is closed before the join, and before a loop gives up.
ClosedFirst ==
    /\ main \in {"join", "reset"} => ~listening
    /\ \A t \in Threads : place[t] = "abandon" => ~listening

JoinedAll == main = "reset" => \A t \in Threads : ~Working(t)

\* The live session is one a thread serves, and it is what the state reports. A
\* loop that is between two sessions reports that it listens, unless stop()
\* means to report the end of it.
StateIsTrue ==
    /\ active # NoThread => Serving(active) /\ state = "session-active"
    /\ \A t \in Threads : Working(t) => state # "stopped"
    /\ \A t \in Threads :
          place[t] \in {"accept", "build", "register"} => state = "listening"
    /\ \A t \in Threads :
          place[t] \in {"check", "released"} => stopping \/ state = "listening"

\* What the lock and the order of stop()'s steps keep true of the server.
Inv ==
    /\ TypeOK
    /\ StopOwnsThread
    /\ OneWorker
    /\ ClosedFirst
    /\ JoinedAll
    /\ StateIsTrue
    /\ StoppedIsStopped
    /\ OneSession
    /\ NoSessionMissed

-----------------------------------------------------------------------------
(***************************************************************************)
(* The abstract specification, and liveness.                               *)
(***************************************************************************)
Service == INSTANCE BridgeService WITH mode <- state, live <- active # NoThread

ImplementsService == Service!Spec

\* stop() returns: it never waits for ever for a thread or a session, whenever
\* it is called.
StopReturns == main = "ask" ~> main = "idle"

=============================================================================
