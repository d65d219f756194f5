------------------------- MODULE BridgeServerProofs -------------------------
(***************************************************************************)
(* Proofs about BridgeServer, for any number of starts: its inductive      *)
(* invariant, the safety properties that follow from it, and that the      *)
(* server implements BridgeService.                                        *)
(***************************************************************************)
EXTENDS BridgeServer, TLAPS

USE DEF Threads, NoThread

\* Every step keeps the types.
LEMMA TypeStep == TypeOK /\ [Next]_vars => TypeOK'
<1> SUFFICES ASSUME TypeOK, [Next]_vars PROVE TypeOK'
    OBVIOUS
<1> USE StartsAssumption DEF TypeOK, lockVars, dialog, Goto, Notify, Move,
        ServerStates, MainPlaces, ThreadPlaces, Nobody
<1>1. CASE \E t \in Threads : Start(t)
    BY <1>1 DEF Start
<1>2. CASE Stop
    BY <1>2 DEF Stop
<1>3. CASE MainGoesOn
    <2>1. CASE StartNotify \/ StopNotify \/ Refresh
        BY <2>1 DEF StartNotify, StopNotify, Refresh
    <2>2. CASE StopAsk
        BY <2>2 DEF StopAsk
    <2>3. CASE StopClose \/ StopJoin
        BY <2>3 DEF StopClose, StopJoin
    <2>4. CASE StopReset
        BY <2>4 DEF StopReset
    <2> QED
        BY <1>3, <2>1, <2>2, <2>3, <2>4 DEF MainGoesOn
<1>4. ASSUME NEW t \in Threads, Serve(t) PROVE TypeOK'
    <2>1. CASE ServeCheck(t) \/ Leave(t)
        BY <2>1 DEF ServeCheck, Leave
    <2>2. CASE AcceptTimeout(t) \/ AcceptFails(t) \/ BuildFails(t) \/ SessionObeys(t)
        BY <2>2 DEF AcceptTimeout, AcceptFails, BuildFails, SessionObeys
    <2>3. CASE Build(t)
        BY <2>3 DEF Build
    <2>4. CASE Register(t)
        BY <2>4 DEF Register
    <2>5. CASE AdmitNotify(t)
        BY <2>5 DEF AdmitNotify
    <2>6. CASE Forewarn(t)
        BY <2>6 DEF Forewarn
    <2>7. CASE Unregister(t)
        BY <2>7 DEF Unregister
    <2>8. CASE ReleaseNotify(t)
        <3>1. queued' \in BOOLEAN /\ shown' \in ServerStates
            <4>1. CASE stopping
                BY <2>8, <4>1 DEF ReleaseNotify
            <4>2. CASE ~stopping
                BY <2>8, <4>2 DEF ReleaseNotify
            <4> QED
                BY <4>1, <4>2
        <3>2. place' \in [Threads -> ThreadPlaces]
            BY <2>8 DEF ReleaseNotify
        <3> QED
            BY <2>8, <3>1, <3>2, ZenonT(60) DEF ReleaseNotify
    <2>9. CASE LeaveClose(t)
        BY <2>9 DEF LeaveClose
    <2>10. CASE LeaveStopped(t)
        BY <2>10 DEF LeaveStopped
    <2>11. CASE LeaveNotify(t)
        BY <2>11 DEF LeaveNotify
    <2> QED
        BY <1>4, <2>1, <2>2, <2>3, <2>4, <2>5, <2>6, <2>7, <2>8, <2>9, <2>10, <2>11 DEF Serve
<1>5. ASSUME NEW t \in Threads, World(t) PROVE TypeOK'
    BY <1>5 DEF World, Accept, SessionEnds, AcceptFails
<1>6. CASE UNCHANGED vars
    BY <1>6 DEF vars
<1> QED
    BY <1>1, <1>2, <1>3, <1>4, <1>5, <1>6 DEF Next

-----------------------------------------------------------------------------
(***************************************************************************)
(* The inductive step, for the steps of the main thread and for those of a *)
(* server thread.                                                          *)
(***************************************************************************)
LEMMA StartKeepsInv ==
    ASSUME Inv, TypeOK', NEW t \in Threads, Start(t) PROVE Inv'
<1> USE DEF Inv, TypeOK, lockVars, dialog, Goto, Start
<1>1. StopOwnsThread' BY DEF StopOwnsThread, InStop
<1>2. OneWorker' BY DEF OneWorker, StoppedIsStopped, Working
<1>3. ClosedFirst' BY DEF ClosedFirst, StoppedIsStopped, Working
<1>4. JoinedAll' BY DEF JoinedAll
<1>5. StateIsTrue' BY DEF StateIsTrue, StoppedIsStopped, Working, Serving
<1>6. StoppedIsStopped' BY DEF StoppedIsStopped
<1>7. OneSession' BY DEF OneSession, Serving, StoppedIsStopped, Working
<1>8. NoSessionMissed' BY DEF NoSessionMissed
<1> QED BY <1>1, <1>2, <1>3, <1>4, <1>5, <1>6, <1>7, <1>8

LEMMA MainKeepsInv ==
    ASSUME Inv, TypeOK', Stop \/ MainGoesOn PROVE Inv'
<1> USE DEF Inv, TypeOK, lockVars, dialog, Notify
<1>1. CASE Stop
    <2> USE <1>1 DEF Stop
    <2>1. StopOwnsThread' BY DEF StopOwnsThread, InStop
    <2>2. OneWorker' BY DEF OneWorker, Working
    <2>3. ClosedFirst' BY DEF ClosedFirst
    <2>4. JoinedAll' BY DEF JoinedAll
    <2>5. StateIsTrue' BY DEF StateIsTrue, Working, Serving
    <2>6. StoppedIsStopped' BY DEF StoppedIsStopped, Working
    <2>7. OneSession' BY DEF OneSession, Serving
    <2>8. NoSessionMissed' BY DEF NoSessionMissed, Doomed, OneSession, Serving
    <2> QED BY <2>1, <2>2, <2>3, <2>4, <2>5, <2>6, <2>7, <2>8
<1>2. CASE StopAsk
    <2> USE <1>2 DEF StopAsk
    <2>1. StopOwnsThread' BY DEF StopOwnsThread, InStop
    <2>2. OneWorker' BY DEF OneWorker, Working
    <2>3. ClosedFirst' BY DEF ClosedFirst
    <2>4. JoinedAll' BY DEF JoinedAll
    <2>5. StateIsTrue' BY DEF StateIsTrue, Working, Serving
    <2>6. StoppedIsStopped' BY DEF StoppedIsStopped, Working
    <2>7. OneSession' BY DEF OneSession, Serving
    <2>8. NoSessionMissed' BY DEF NoSessionMissed, Doomed
    <2> QED BY <2>1, <2>2, <2>3, <2>4, <2>5, <2>6, <2>7, <2>8
<1>3. CASE StopClose \/ StopJoin
    <2> USE <1>3 DEF StopClose, StopJoin
    <2>1. StopOwnsThread' BY DEF StopOwnsThread, InStop
    <2>2. OneWorker' BY DEF OneWorker, Working
    <2>3. ClosedFirst' BY DEF ClosedFirst
    <2>4. JoinedAll'
        BY DEF JoinedAll, StopOwnsThread, InStop, OneWorker, Working
    <2>5. StateIsTrue' BY DEF StateIsTrue, Working, Serving
    <2>6. StoppedIsStopped' BY DEF StoppedIsStopped, Working
    <2>7. OneSession' BY DEF OneSession, Serving
    <2>8. NoSessionMissed' BY DEF NoSessionMissed, Doomed
    <2> QED BY <2>1, <2>2, <2>3, <2>4, <2>5, <2>6, <2>7, <2>8
<1>4. CASE StopReset
    <2> USE <1>4 DEF StopReset
    <2>1. StopOwnsThread' BY DEF StopOwnsThread, InStop
    <2>2. OneWorker' BY DEF OneWorker, JoinedAll, Working
    <2>3. ClosedFirst' BY DEF ClosedFirst
    <2>4. JoinedAll' BY DEF JoinedAll
    <2>5. StateIsTrue' BY DEF StateIsTrue, JoinedAll, Working
    <2>6. StoppedIsStopped' BY DEF StoppedIsStopped, JoinedAll, ClosedFirst, Working
    <2>7. OneSession' BY DEF OneSession, Serving, JoinedAll, Working
    <2>8. NoSessionMissed' BY DEF NoSessionMissed
    <2> QED BY <2>1, <2>2, <2>3, <2>4, <2>5, <2>6, <2>7, <2>8
<1>5. CASE StartNotify \/ StopNotify \/ Refresh
    <2> USE <1>5 DEF StartNotify, StopNotify, Refresh
    <2>1. StopOwnsThread' BY DEF StopOwnsThread, InStop
    <2>2. OneWorker' BY DEF OneWorker, Working
    <2>3. ClosedFirst' BY DEF ClosedFirst
    <2>4. JoinedAll' BY DEF JoinedAll
    <2>5. StateIsTrue' BY DEF StateIsTrue, Working, Serving
    <2>6. StoppedIsStopped' BY DEF StoppedIsStopped, Working
    <2>7. OneSession' BY DEF OneSession, Serving
    <2>8. NoSessionMissed' BY DEF NoSessionMissed, Doomed, StopOwnsThread, InStop
    <2> QED BY <2>1, <2>2, <2>3, <2>4, <2>5, <2>6, <2>7, <2>8
<1> QED
    BY <1>1, <1>2, <1>3, <1>4, <1>5 DEF MainGoesOn

\* A server thread's steps, one group to a part of the loop.
LEMMA AcceptKeepsInv ==
    ASSUME Inv, TypeOK', NEW t \in Threads,
           \/ ServeCheck(t) \/ AcceptTimeout(t) \/ AcceptFails(t) \/ Accept(t)
           \/ BuildFails(t) \/ Build(t)
    PROVE  Inv'
<1> USE DEF Inv, TypeOK, lockVars, dialog, Goto, Move,
        ServeCheck, AcceptTimeout, AcceptFails, Accept, BuildFails, Build
<1>1. StopOwnsThread' BY DEF StopOwnsThread, InStop
<1>2. OneWorker' BY DEF OneWorker, Working
<1>3. ClosedFirst' BY DEF ClosedFirst
<1>4. JoinedAll' BY DEF JoinedAll, Working
<1>5. StateIsTrue' BY DEF StateIsTrue, Working, Serving
<1>6. StoppedIsStopped' BY DEF StoppedIsStopped, Working
<1>7. OneSession' BY DEF OneSession, Serving
<1>8. NoSessionMissed' BY ZenonT(60) DEF NoSessionMissed, Doomed
<1> QED BY <1>1, <1>2, <1>3, <1>4, <1>5, <1>6, <1>7, <1>8

LEMMA AdmitKeepsInv ==
    ASSUME Inv, TypeOK', NEW t \in Threads,
           Register(t) \/ AdmitNotify(t) \/ Forewarn(t)
    PROVE  Inv'
<1> USE DEF Inv, TypeOK, lockVars, dialog, Notify, Goto, Move,
        Register, AdmitNotify, Forewarn
<1>1. StopOwnsThread' BY DEF StopOwnsThread, InStop
<1>2. OneWorker' BY DEF OneWorker, Working
<1>3. ClosedFirst' BY DEF ClosedFirst
<1>4. JoinedAll' BY DEF JoinedAll, Working
<1>5. StateIsTrue' BY DEF StateIsTrue, OneWorker, Working, Serving
<1>6. StoppedIsStopped' BY DEF StoppedIsStopped, Working
<1>7. OneSession' BY DEF OneSession, OneWorker, Serving, Working
<1>8. NoSessionMissed' BY ZenonT(60) DEF NoSessionMissed, Doomed
<1> QED BY <1>1, <1>2, <1>3, <1>4, <1>5, <1>6, <1>7, <1>8

LEMMA ReleaseKeepsInv ==
    ASSUME Inv, TypeOK', NEW t \in Threads,
           SessionObeys(t) \/ SessionEnds(t) \/ Unregister(t) \/ ReleaseNotify(t)
    PROVE  Inv'
<1> USE DEF Inv, TypeOK, lockVars, dialog, Notify, Goto, Move,
        SessionObeys, SessionEnds, Unregister, ReleaseNotify
<1>1. StopOwnsThread' BY DEF StopOwnsThread, InStop
<1>2. OneWorker' BY DEF OneWorker, Working
<1>3. ClosedFirst' BY DEF ClosedFirst
<1>4. JoinedAll' BY DEF JoinedAll, Working
<1>5. StateIsTrue' BY DEF StateIsTrue, OneWorker, Working, Serving
<1>6. StoppedIsStopped' BY DEF StoppedIsStopped, Working
<1>7. OneSession' BY DEF OneSession, OneWorker, Serving, Working
<1>8. NoSessionMissed' BY ZenonT(60) DEF NoSessionMissed, Doomed
<1> QED BY <1>1, <1>2, <1>3, <1>4, <1>5, <1>6, <1>7, <1>8

LEMMA LeaveKeepsInv ==
    ASSUME Inv, TypeOK', NEW t \in Threads,
           Leave(t) \/ LeaveClose(t) \/ LeaveStopped(t) \/ LeaveNotify(t)
    PROVE  Inv'
<1> USE DEF Inv, TypeOK, lockVars, dialog, Notify, Goto, Move,
        Leave, LeaveClose, LeaveStopped, LeaveNotify
<1>1. StopOwnsThread' BY DEF StopOwnsThread, InStop
<1>2. OneWorker' BY DEF OneWorker, Working
<1>3. ClosedFirst' BY DEF ClosedFirst
<1>4. JoinedAll' BY DEF JoinedAll, Working
<1>5. StateIsTrue' BY DEF StateIsTrue, OneWorker, Working, Serving
<1>6. StoppedIsStopped' BY DEF StoppedIsStopped, ClosedFirst, OneWorker, Working
<1>7. OneSession' BY DEF OneSession, OneWorker, Serving, Working
<1>8. NoSessionMissed' BY ZenonT(60) DEF NoSessionMissed, Doomed
<1> QED BY <1>1, <1>2, <1>3, <1>4, <1>5, <1>6, <1>7, <1>8

LEMMA InitInv == Init => Inv
<1> SUFFICES ASSUME Init PROVE Inv
    OBVIOUS
<1> USE DEF Init
<1>1. TypeOK
    BY StartsAssumption DEF TypeOK, ServerStates, MainPlaces, ThreadPlaces, Nobody
<1>2. \A t \in Threads : ~Working(t) /\ ~Serving(t)
    BY DEF Working, Serving
<1>3. StopOwnsThread /\ OneWorker /\ ClosedFirst /\ JoinedAll
    BY <1>2 DEF StopOwnsThread, InStop, OneWorker, ClosedFirst, JoinedAll
<1>4. StateIsTrue
    BY <1>2 DEF StateIsTrue
<1>5. StoppedIsStopped /\ OneSession /\ NoSessionMissed
    BY <1>2 DEF StoppedIsStopped, OneSession, NoSessionMissed
<1> QED
    BY <1>1, <1>3, <1>4, <1>5 DEF Inv

LEMMA InvStep == Inv /\ [Next]_vars => Inv'
<1> SUFFICES ASSUME Inv, [Next]_vars PROVE Inv'
    OBVIOUS
<1>1. TypeOK'
    BY TypeStep DEF Inv
<1>2. CASE \E t \in Threads : Start(t)
    BY <1>1, <1>2, StartKeepsInv
<1>3. CASE Stop \/ MainGoesOn
    BY <1>1, <1>3, MainKeepsInv
<1>4. ASSUME NEW t \in Threads, Serve(t) \/ World(t) PROVE Inv'
    BY <1>1, <1>4, AcceptKeepsInv, AdmitKeepsInv, ReleaseKeepsInv, LeaveKeepsInv
    DEF Serve, World
<1>5. CASE UNCHANGED vars
    BY <1>5 DEF vars, lockVars, dialog, Inv, TypeOK, StopOwnsThread, InStop, OneWorker,
        ClosedFirst, JoinedAll, StateIsTrue, StoppedIsStopped, OneSession,
        NoSessionMissed, Doomed, Working, Serving
<1> QED
    BY <1>2, <1>3, <1>4, <1>5 DEF Next

-----------------------------------------------------------------------------
\* Whatever the main thread and the server threads do in whatever order, the
\* inductive invariant holds.
THEOREM Invariance == Spec => []Inv
<1> QED
    BY InitInv, InvStep, PTL DEF Spec

\* A server that reports "stopped" has closed its listener and has no thread
\* left that could admit a session (BridgeServer.stop joins before it resets).
THEOREM StoppedIsStoppedHolds == Spec => []StoppedIsStopped
<1>1. Inv => StoppedIsStopped
    BY DEF Inv
<1> QED
    BY <1>1, Invariance, PTL

\* There is one session at a time, and the server can always reach it to end it.
THEOREM OneSessionHolds == Spec => []OneSession
<1>1. Inv => OneSession
    BY DEF Inv
<1> QED
    BY <1>1, Invariance, PTL

\* No interleaving of stop() with an accept leaves a session running that nobody
\* has asked to end.
THEOREM NoSessionMissedHolds == Spec => []NoSessionMissed
<1>1. Inv => NoSessionMissed
    BY DEF Inv
<1> QED
    BY <1>1, Invariance, PTL

-----------------------------------------------------------------------------
(***************************************************************************)
(* What the dialog shows.                                                  *)
(***************************************************************************)

\* A server thread that changes the state goes to a place from which it has an
\* announcement to make, and leaves that place by making it, except while stop()
\* runs, which makes its own.
LEMMA ThreadAnnounces ==
    ASSUME Inv, NEW t \in Threads, Serve(t) \/ World(t), ~stopping
    PROVE  /\ \A u \in Threads \ {t} : place'[u] = place[u]
           /\ main' = main
           /\ \/ queued'
              \/ place'[t] \in Announcing
              \/ place[t] \notin Announcing /\ UNCHANGED <<state, queued, shown>>
<1> USE DEF Inv, TypeOK, lockVars, dialog, Notify, Goto, Move, Announcing
<1>1. CASE \/ ServeCheck(t) \/ AcceptTimeout(t) \/ AcceptFails(t) \/ Accept(t)
           \/ BuildFails(t) \/ Build(t)
    BY <1>1 DEF ServeCheck, AcceptTimeout, AcceptFails, Accept, BuildFails, Build
<1>2. CASE Register(t) \/ AdmitNotify(t) \/ Forewarn(t)
    BY <1>2 DEF Register, AdmitNotify, Forewarn
<1>3. CASE SessionObeys(t) \/ SessionEnds(t) \/ Unregister(t) \/ ReleaseNotify(t)
    BY <1>3 DEF SessionObeys, SessionEnds, Unregister, ReleaseNotify
<1>4. CASE Leave(t) \/ LeaveClose(t) \/ LeaveStopped(t) \/ LeaveNotify(t)
    BY <1>4 DEF Leave, LeaveClose, LeaveStopped, LeaveNotify
<1> QED
    BY <1>1, <1>2, <1>3, <1>4 DEF Serve, World

\* The main thread is idle again only with an announcement made, or having shown
\* the state.
LEMMA MainAnnounces ==
    ASSUME (\E t \in Threads : Start(t)) \/ Stop \/ MainGoesOn
    PROVE  \/ main' # "idle" \/ queued' \/ shown' = state'
BY DEF Start, Stop, MainGoesOn, StartNotify, StopAsk, StopClose, StopJoin, StopReset,
       StopNotify, Refresh, Notify, lockVars

LEMMA DialogStep == Inv /\ DialogCurrent /\ [Next]_vars => DialogCurrent'
<1> SUFFICES ASSUME Inv, DialogCurrent, [Next]_vars,
                    main' = "idle", ~queued', \A t \in Threads : place'[t] \notin Announcing
             PROVE  shown' = state'
    BY DEF DialogCurrent, Announcing
<1>1. CASE (\E t \in Threads : Start(t)) \/ Stop \/ MainGoesOn
    BY <1>1, MainAnnounces
<1>2. ASSUME NEW t \in Threads, Serve(t) \/ World(t) PROVE shown' = state'
    <2>1. main = "idle"
        BY <1>2 DEF Serve, World, ServeCheck, AcceptTimeout, AcceptFails, Accept, BuildFails,
            Build, Register, AdmitNotify, Forewarn, SessionObeys, SessionEnds, Unregister,
            ReleaseNotify, Leave, LeaveClose, LeaveStopped, LeaveNotify, Move
    <2>2. ~stopping
        BY <2>1 DEF Inv, StopOwnsThread, InStop
    <2>3. /\ \A u \in Threads \ {t} : place'[u] = place[u]
          /\ place[t] \notin Announcing /\ UNCHANGED <<state, queued, shown>>
        BY <1>2, <2>2, ThreadAnnounces
    <2>4. \A u \in Threads : place[u] \notin Announcing
        BY <2>3
    <2> QED
        BY <2>1, <2>3, <2>4 DEF DialogCurrent
<1>3. CASE UNCHANGED vars
    BY <1>3 DEF vars, lockVars, dialog, DialogCurrent
<1> QED
    BY <1>1, <1>2, <1>3 DEF Next

\* No interleaving of the server thread with start(), stop() and the dialog's own
\* refresh leaves the dialog showing a state the server is not in, once nobody has
\* an announcement left to make (bridge_dialog.py reads the state anew, since the
\* one in the event may be old).
THEOREM DialogCurrentHolds == Spec => []DialogCurrent
<1>1. Init => DialogCurrent
    BY DEF Init, DialogCurrent
<1> QED
    BY <1>1, DialogStep, Invariance, PTL DEF Spec

-----------------------------------------------------------------------------
(***************************************************************************)
(* The server implements BridgeService: mode is the state it reports, and  *)
(* live says that a session is registered.                                 *)
(***************************************************************************)
LEMMA ServiceInit == Init => Service!Init
BY DEF Init, Service!Init

\* A step of the server is a step of the service, or leaves it as it is.
LEMMA ServiceStep ==
    Inv /\ Inv' /\ [Next]_vars => [Service!Next]_<<state, active # NoThread>>
<1> SUFFICES ASSUME Inv, Inv', [Next]_vars
             PROVE  Service!Next \/ UNCHANGED <<state, active # NoThread>>
    OBVIOUS
<1> USE DEF Service!Next, Inv, lockVars
<1>1. ASSUME NEW t \in Threads, Start(t) PROVE Service!Next
    BY <1>1 DEF Start, Service!Start
<1>2. CASE StopReset
    BY <1>2 DEF StopReset, Service!Stop, StateIsTrue, JoinedAll, Serving, Working, TypeOK
<1>3. CASE Stop \/ StartNotify \/ StopAsk \/ StopClose \/ StopJoin \/ StopNotify \/ Refresh
    BY <1>3 DEF Stop, StartNotify, StopAsk, StopClose, StopJoin, StopNotify, Refresh
<1>4. ASSUME NEW t \in Threads, Register(t) PROVE Service!Next
    BY <1>4 DEF Register, Move, Service!Admit, StateIsTrue, OneWorker, Serving, Working, TypeOK
<1>5. ASSUME NEW t \in Threads, Unregister(t) PROVE Service!Next
    BY <1>5 DEF Unregister, Move, Service!Release, OneSession, Serving
<1>6. ASSUME NEW t \in Threads, LeaveStopped(t) PROVE Service!Next
    BY <1>6 DEF LeaveStopped, Move, Service!Stop, StateIsTrue, OneWorker, Serving, Working, TypeOK
<1>7. ASSUME NEW t \in Threads,
             \/ ServeCheck(t) \/ AcceptTimeout(t) \/ AcceptFails(t) \/ Accept(t)
             \/ BuildFails(t) \/ Build(t) \/ AdmitNotify(t) \/ Forewarn(t)
             \/ SessionObeys(t) \/ SessionEnds(t) \/ ReleaseNotify(t)
             \/ Leave(t) \/ LeaveClose(t) \/ LeaveNotify(t)
      PROVE  UNCHANGED <<state, active # NoThread>>
    BY <1>7 DEF ServeCheck, AcceptTimeout, AcceptFails, Accept, BuildFails, Build,
        AdmitNotify, Forewarn, SessionObeys, SessionEnds, ReleaseNotify, Leave,
        LeaveClose, LeaveNotify
<1>8. CASE UNCHANGED vars
    BY <1>8 DEF vars
<1> QED
    BY <1>1, <1>2, <1>3, <1>4, <1>5, <1>6, <1>7, <1>8
    DEF Next, MainGoesOn, Serve, World

\* Seen through its status and its live session, the server is a BridgeService:
\* stopped, listening or serving one session, which it admits only from
\* listening, and it stops only without one.
THEOREM ServerImplementsService == Spec => ImplementsService
<1>1. Inv /\ Inv' /\ [Next]_vars => [Service!Next]_<<state, active # NoThread>>
    BY ServiceStep
<1> QED
    BY <1>1, ServiceInit, Invariance, PTL DEF Spec, ImplementsService, Service!Spec

=============================================================================
