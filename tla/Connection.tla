----------------------------- MODULE Connection -----------------------------
(***************************************************************************)
(* The server's one connection (server/domain/controllers/connection.go)   *)
(* and everything that reaches it at the same time: the tool calls of an   *)
(* MCP host, dispatched by tools/dispatcher.go, each on a goroutine of its *)
(* own; the heartbeat goroutine; and the main goroutine, which closes the  *)
(* connection when the host closes stdin (wiring/wiring.go).               *)
(*                                                                         *)
(* The controller's mutex guards single reads and writes of its fields. It *)
(* is never held across a dial, a round trip, a close or a publication, so *)
(* a step of this module is one critical section, or one call made outside *)
(* the mutex.                                                              *)
(***************************************************************************)
EXTENDS Naturals, ToolCatalog

CONSTANTS
    Agents,         \* the tool calls that can be in progress at once
    Heartbeats,     \* the heartbeat goroutine: one, or none to leave it out
    Main,           \* the main goroutine
    Announcements,  \* the sets of capabilities a `hello` can announce
    MaxSessions     \* bound: how many dials may succeed in one behaviour

ASSUME ProcessAssumption ==
    /\ Agents \cap Heartbeats = {}
    /\ Main \notin Agents \cup Heartbeats

ASSUME SessionAssumption ==
    /\ MaxSessions \in Nat
    /\ Announcements \subseteq SUBSET Capabilities

Procs == Agents \cup Heartbeats \cup {Main}

\* A ReaderConnection is named by the dial that made it; None is a nil one.
None == 0
Sessions == 1 .. MaxSessions
SessionOrNone == Sessions \cup {None}

States == {"disconnected", "connecting", "connected", "incompatible"}
Failures == {"disconnected", "incompatible"}
Labels == {"idle", "dial", "record", "install", "publish", "bye", "close",
           "verify", "ping", "lose", "drop", "clear", "retract",
           "reply", "roundtrip", "done"}

\* What a goroutine keeps in local variables while it serves one call.
Locals == [task : {"none", "connect", "disconnect", "status", "use", "beat", "exit"},
           held : SessionOrNone,            \* the ReaderConnection it read or dialed
           names : SUBSET Tools,            \* the names to publish or to retract
           failure : Failures,              \* the state a failed dial will record
           live : {"absent", "yes", "no"},  \* the `live` of a status answer
           proved : SessionOrNone,          \* history: whose ping was answered
           lost : SessionOrNone]            \* history: whose wire its ping found gone

Fresh == [task |-> "none", held |-> None, names |-> {},
          failure |-> "disconnected", live |-> "absent", proved |-> None, lost |-> None]

\* What one goroutine can do to another, since nothing is held between its
\* critical sections: record a failed dial where there is a session, install a
\* session over another one, publish for a session that is not the connection
\* any more, retract under one that is, or drop one it did not close.
Crossings == {"late failure", "replaced", "late publish", "late retract", "cleared another"}

VARIABLES
    status,      \* c.status.State
    connection,  \* c.connection
    published,   \* c.published
    advertised,  \* the gated tools registered with the MCP SDK's server
    wire,        \* what became of each session's client and of its peer
    announced,   \* the capabilities each session's `hello` announced
    dialed,      \* how many dials have succeeded
    serving,     \* the host has not closed stdin
    crossed,     \* history: the crossings that have happened
    pc,          \* where each goroutine is
    local        \* its local variables

controller == <<status, connection, published>>
outside == <<wire, announced, dialed>>
vars == <<controller, advertised, outside, serving, crossed, pc, local>>

TypeOK ==
    /\ status \in States
    /\ connection \in SessionOrNone
    /\ published \in SUBSET Tools
    /\ advertised \in SUBSET Tools
    /\ wire \in [Sessions -> {"unopened", "up", "dead", "ended", "closed"}]
    /\ announced \in [Sessions -> SUBSET Capabilities]
    /\ dialed \in 0 .. MaxSessions
    /\ serving \in BOOLEAN
    /\ crossed \in SUBSET Crossings
    /\ pc \in [Procs -> Labels]
    /\ local \in [Procs -> Locals]

Init ==
    /\ status = "disconnected"
    /\ connection = None
    /\ published = {}
    /\ advertised = {}
    /\ wire = [s \in Sessions |-> "unopened"]
    /\ announced = [s \in Sessions |-> {}]
    /\ dialed = 0
    /\ serving = TRUE
    /\ crossed = {}
    /\ pc = [p \in Procs |-> "idle"]
    /\ local = [p \in Procs |-> Fresh]

-----------------------------------------------------------------------------
(***************************************************************************)
(* Control flow.                                                           *)
(***************************************************************************)
Running == pc[Main] # "done"

At(p, label) == Running /\ pc[p] = label
Goto(p, label) == pc' = [pc EXCEPT ![p] = label]

\* A call starts with nothing in its locals but its task and what it reads.
Begin(p, t, s) == local' = [local EXCEPT ![p] = [Fresh EXCEPT !.task = t, !.held = s]]

\* A call is over and its locals are gone.
Finish(p) == Goto(p, "idle") /\ local' = [local EXCEPT ![p] = Fresh]

\* A method of the controller returns to its caller. Only a status call has
\* anything left to do; the main goroutine ends the process.
Return(p, live, proved) ==
    CASE local[p].task = "status" ->
            /\ Goto(p, "reply")
            /\ local' = [local EXCEPT ![p].live = live, ![p].proved = proved]
      [] local[p].task = "exit" -> Goto(p, "done") /\ UNCHANGED local
      [] OTHER                  -> Finish(p)

\* A critical section notes the crossing it makes, if it makes one.
Cross(kind, happens) == crossed' = IF happens THEN crossed \cup {kind} ELSE crossed

\* Seeded fault: calls start although stdin is closed.
CanCallLate(p) == p \in Agents /\ At(p, "idle")

\* A tool call can start: the host still talks to the server, and this
\* goroutine is free.
CanCall(p) == p \in Agents /\ serving /\ At(p, "idle")

-----------------------------------------------------------------------------
(***************************************************************************)
(* Connect.                                                                *)
(***************************************************************************)

\* The critical section that opens Connect. With a session live the call is
\* refused, which changes nothing and is no step; otherwise the state becomes
\* connecting, and nothing is reserved.
ConnectCheck(p) ==
    /\ CanCall(p)
    /\ connection = None
    /\ status' = "connecting"
    /\ Begin(p, "connect", None)
    /\ Goto(p, "dial")
    /\ UNCHANGED <<connection, published, advertised, outside, serving, crossed>>

\* The dial succeeds and `hello` announces some capabilities; the gate turns
\* them into names.
DialSucceeds(p) ==
    /\ At(p, "dial")
    /\ dialed < MaxSessions
    /\ \E caps \in Announcements :
          /\ announced' = [announced EXCEPT ![dialed + 1] = caps]
          /\ local' = [local EXCEPT ![p].held = dialed + 1,
                                    ![p].names = Allowed(caps)]
    /\ dialed' = dialed + 1
    /\ wire' = [wire EXCEPT ![dialed + 1] = "up"]
    /\ Goto(p, "install")
    /\ UNCHANGED <<controller, advertised, serving, crossed>>

\* Nothing answered, or something answered in another protocol version.
DialFails(p) ==
    /\ At(p, "dial")
    /\ \E verdict \in Failures : local' = [local EXCEPT ![p].failure = verdict]
    /\ Goto(p, "record")
    /\ UNCHANGED <<controller, advertised, outside, serving, crossed>>

\* recordFailure writes the state whatever the connection is by now. When a
\* `hello` was lost on the way, and no bridge answered in another version, the
\* error says so, and the dispatcher verifies the connection before the call ends.
RecordFailure(p) ==
    /\ At(p, "record")
    /\ status' = local[p].failure
    /\ Cross("late failure", connection # None)
    /\ \/ Finish(p)
       \/ local[p].failure = "disconnected" /\ Goto(p, "verify") /\ UNCHANGED local
    /\ UNCHANGED <<connection, published, advertised, outside, serving>>

\* The critical section that makes the new session the connection, whatever
\* the connection is by now.
Install(p) ==
    /\ At(p, "install")
    /\ connection' = local[p].held
    /\ published' = local[p].names
    /\ status' = "connected"
    /\ Cross("replaced", connection # None)
    /\ Goto(p, "publish")
    /\ UNCHANGED <<advertised, outside, serving, local>>

\* publisher.Publish, after the mutex is released.
Publish(p) ==
    /\ At(p, "publish")
    /\ advertised' = advertised \cup local[p].names
    /\ Cross("late publish", connection # local[p].held)
    /\ Finish(p)
    /\ UNCHANGED <<controller, outside, serving>>

-----------------------------------------------------------------------------
(***************************************************************************)
(* Disconnect, and the clear it shares with lose.                          *)
(***************************************************************************)

\* Disconnect reads the connection; with none it returns at once, which for a
\* tool call is no step.
DisconnectCall(p) ==
    /\ CanCall(p)
    /\ connection # None
    /\ Begin(p, "disconnect", connection)
    /\ Goto(p, "bye")
    /\ UNCHANGED <<controller, advertised, outside, serving, crossed>>

\* Bye: acknowledged by a peer that is up, which then ends the session on its
\* side; refused or unanswered; or sent to a peer that is gone already, which
\* counts as success.
Bye(p) ==
    /\ At(p, "bye")
    /\ \/ /\ wire[local[p].held] = "up"
          /\ wire' = [wire EXCEPT ![local[p].held] = "ended"]
       \/ UNCHANGED wire
    /\ Goto(p, "close")
    /\ UNCHANGED <<controller, advertised, announced, dialed, serving, crossed, local>>

\* Seeded fault: the session is let go without being closed.
ForgetSession(p) == UNCHANGED wire

\* The session this call holds is closed.
CloseSession(p) == wire' = [wire EXCEPT ![local[p].held] = "closed"]

CloseAfterBye(p) ==
    /\ At(p, "close")
    /\ CloseSession(p)
    /\ Goto(p, "clear")
    /\ UNCHANGED <<controller, advertised, announced, dialed, serving, crossed, local>>

\* Seeded faults: the published names, or the state, outlive the connection.
DropKeepingNames == connection' = None /\ status' = "disconnected" /\ UNCHANGED published
DropKeepingState == connection' = None /\ published' = {} /\ UNCHANGED status

\* What clear writes.
Drop == connection' = None /\ published' = {} /\ status' = "disconnected"

\* clear's critical section: it drops whatever the connection is by now, and
\* takes the names published for it. With no names there is nothing to retract.
Clear(p) ==
    /\ At(p, "clear")
    /\ Drop
    /\ Cross("cleared another", connection \notin {None, local[p].held})
    /\ IF published # {}
       THEN Goto(p, "retract") /\ local' = [local EXCEPT ![p].names = published]
       ELSE Return(p, local[p].live, local[p].proved)
    /\ UNCHANGED <<advertised, outside, serving>>

\* A session is the connection, and its tools have been published.
Offered == connection # None /\ ~\E q \in Procs : pc[q] = "publish" /\ local[q].held = connection

\* Seeded fault: the names to retract are read after clear has emptied them.
RetractPublished(p) ==
    /\ At(p, "retract")
    /\ advertised' = advertised \ published
    /\ Cross("late retract", Offered)
    /\ Return(p, local[p].live, local[p].proved)
    /\ UNCHANGED <<controller, outside, serving>>

\* publisher.Retract, after the mutex is released.
Retract(p) ==
    /\ At(p, "retract")
    /\ advertised' = advertised \ local[p].names
    /\ Cross("late retract", Offered)
    /\ Return(p, local[p].live, local[p].proved)
    /\ UNCHANGED <<controller, outside, serving>>

-----------------------------------------------------------------------------
(***************************************************************************)
(* Verify, and the lose it ends in when the wire is gone.                  *)
(***************************************************************************)

\* Verify reads the connection. With none, there is nothing to verify and its
\* answer is the nil error, which status reports as live.
VerifyRead(p) ==
    /\ At(p, "verify")
    /\ IF connection # None
       THEN Goto(p, "ping") /\ local' = [local EXCEPT ![p].held = connection]
       ELSE Return(p, "yes", None)
    /\ UNCHANGED <<controller, advertised, outside, serving, crossed>>

PingAnswered(p) ==
    /\ At(p, "ping")
    /\ wire[local[p].held] = "up"
    /\ Return(p, "yes", local[p].held)
    /\ UNCHANGED <<controller, advertised, outside, serving, crossed>>

\* Seeded fault: a refusal taken for a loss.
RefusalIsLoss(p) ==
    /\ At(p, "ping")
    /\ wire[local[p].held] = "up"
    /\ local' = [local EXCEPT ![p].live = "no", ![p].lost = local[p].held]
    /\ Goto(p, "lose")
    /\ UNCHANGED <<controller, advertised, outside, serving, crossed>>

\* Seeded fault: a refusal taken for proof of life.
RefusalIsLife(p) ==
    /\ At(p, "ping")
    /\ wire[local[p].held] = "up"
    /\ Return(p, "yes", None)
    /\ UNCHANGED <<controller, advertised, outside, serving, crossed>>

\* A refusal, or no answer in time, from a wire that is still up: reported,
\* and nothing is torn down.
PingRefused(p) ==
    /\ At(p, "ping")
    /\ wire[local[p].held] = "up"
    /\ Return(p, "no", None)
    /\ UNCHANGED <<controller, advertised, outside, serving, crossed>>

\* Seeded fault: a loss is reported and the connection kept.
LossReported(p) ==
    /\ At(p, "ping")
    /\ wire[local[p].held] # "up"
    /\ Return(p, "no", None)
    /\ UNCHANGED <<controller, advertised, outside, serving, crossed>>

\* The wire is gone.
PingLost(p) ==
    /\ At(p, "ping")
    /\ wire[local[p].held] # "up"
    /\ local' = [local EXCEPT ![p].live = "no", ![p].lost = local[p].held]
    /\ Goto(p, "lose")
    /\ UNCHANGED <<controller, advertised, outside, serving, crossed>>

\* lose reads the connection again: the session it closes need not be the one
\* whose ping failed.
LoseRead(p) ==
    /\ At(p, "lose")
    /\ IF connection # None
       THEN Goto(p, "drop") /\ local' = [local EXCEPT ![p].held = connection]
       ELSE Return(p, local[p].live, local[p].proved)
    /\ UNCHANGED <<controller, advertised, outside, serving, crossed>>

LoseClose(p) ==
    /\ At(p, "drop")
    /\ CloseSession(p)
    /\ Goto(p, "clear")
    /\ UNCHANGED <<controller, advertised, announced, dialed, serving, crossed, local>>

-----------------------------------------------------------------------------
(***************************************************************************)
(* The tools that go through a connection: status, and every gated tool.   *)
(***************************************************************************)

\* The dispatcher builds the context from Current(), which the call holds;
\* status verifies only if that found a session, and otherwise just replies,
\* which is no step.
StatusCall(p) ==
    /\ CanCall(p)
    /\ connection # None
    /\ Begin(p, "status", connection)
    /\ Goto(p, "verify")
    /\ UNCHANGED <<controller, advertised, outside, serving, crossed>>

\* The reply, with `live` as it was found and the state and session of now.
StatusReply(p) ==
    /\ At(p, "reply")
    /\ Finish(p)
    /\ UNCHANGED <<controller, advertised, outside, serving, crossed>>

\* A gated tool takes its port from the context. Without a connection, or
\* without the capability, the call is a CapabilityError and changes nothing,
\* so only the calls that reach the wire are steps.
UseCall(p) ==
    /\ CanCall(p)
    /\ connection # None
    /\ \E t \in Tools : CapabilityOf[t] \in announced[connection]
    /\ Begin(p, "use", connection)
    /\ Goto(p, "roundtrip")
    /\ UNCHANGED <<controller, advertised, outside, serving, crossed>>

\* Seeded fault: a round trip on a lost connection is tried again.
UseRetries(p) ==
    /\ At(p, "roundtrip")
    /\ IF wire[local[p].held] = "up" THEN Finish(p)
                                     ELSE Goto(p, "roundtrip") /\ UNCHANGED local
    /\ UNCHANGED <<controller, advertised, outside, serving, crossed>>

\* An answer, a refusal or a timeout on a wire that is up ends the call; a
\* lost connection makes the dispatcher verify it.
UseReturns(p) ==
    /\ At(p, "roundtrip")
    /\ IF wire[local[p].held] = "up" THEN Finish(p)
                                     ELSE Goto(p, "verify") /\ UNCHANGED local
    /\ UNCHANGED <<controller, advertised, outside, serving, crossed>>

-----------------------------------------------------------------------------
(***************************************************************************)
(* The heartbeat, the end of the process, and the world outside.           *)
(***************************************************************************)

\* One period of the heartbeat that finds a session: it woke before the stop
\* channel was closed.
Beat(p) ==
    /\ p \in Heartbeats
    /\ At(p, "idle")
    /\ pc[Main] = "idle"
    /\ connection # None
    /\ Begin(p, "beat", connection)
    /\ Goto(p, "ping")
    /\ UNCHANGED <<controller, advertised, outside, serving, crossed>>

\* The host closes stdin.
HostCloses ==
    /\ serving
    /\ serving' = FALSE
    /\ UNCHANGED <<controller, advertised, outside, crossed, pc, local>>

\* Seeded fault: the process exits without closing the connection.
ExitAtOnce ==
    /\ ~serving
    /\ At(Main, "idle")
    /\ \A p \in Agents : pc[p] = "idle"
    /\ Begin(Main, "exit", connection)
    /\ Goto(Main, "done")
    /\ UNCHANGED <<controller, advertised, outside, serving, crossed>>

\* The SDK's Run has returned, which it does when no call is in progress: the
\* heartbeat is told to stop and the connection is closed.
Exit ==
    /\ ~serving
    /\ At(Main, "idle")
    /\ \A p \in Agents : pc[p] = "idle"
    /\ Begin(Main, "exit", connection)
    /\ Goto(Main, IF connection # None THEN "bye" ELSE "done")
    /\ UNCHANGED <<controller, advertised, outside, serving, crossed>>

\* A bridge dies or ends its session (a watchdog, a panic gesture, its add-on
\* unloaded). The client learns of it at its next round trip.
PeerGone(s) ==
    /\ Running
    /\ wire[s] = "up"
    /\ wire' = [wire EXCEPT ![s] = "dead"]
    /\ UNCHANGED <<controller, advertised, announced, dialed, serving, crossed, pc, local>>

\* The process has exited.
Exited == ~Running /\ UNCHANGED vars

-----------------------------------------------------------------------------
Connect(p) ==
    \/ ConnectCheck(p) \/ DialSucceeds(p) \/ DialFails(p)
    \/ RecordFailure(p) \/ Install(p) \/ Publish(p)

Disconnect(p) ==
    \/ DisconnectCall(p) \/ Bye(p) \/ CloseAfterBye(p) \/ Clear(p) \/ Retract(p)

Verify(p) ==
    \/ VerifyRead(p) \/ PingAnswered(p) \/ PingRefused(p) \/ PingLost(p)
    \/ LoseRead(p) \/ LoseClose(p)

Dispatch(p) == StatusCall(p) \/ StatusReply(p) \/ UseCall(p) \/ UseReturns(p)

Next ==
    \/ \E p \in Procs : Connect(p) \/ Disconnect(p) \/ Verify(p) \/ Dispatch(p) \/ Beat(p)
    \/ HostCloses
    \/ Exit
    \/ \E s \in Sessions : PeerGone(s)
    \/ Exited

Spec == Init /\ [][Next]_vars

-----------------------------------------------------------------------------
(***************************************************************************)
(* Fairness.  A call that has begun goes on: every dial, round trip and    *)
(* close it makes is bounded by a deadline, and the mutex is never held    *)
(* across one.  The heartbeat sleeps for a bounded time.  Nothing makes an *)
(* agent call, a host close stdin, or a peer stay.                         *)
(***************************************************************************)
Continue(p) ==
    \/ DialSucceeds(p) \/ DialFails(p) \/ RecordFailure(p) \/ Install(p) \/ Publish(p)
    \/ Bye(p) \/ CloseAfterBye(p) \/ Clear(p) \/ Retract(p)
    \/ Verify(p) \/ StatusReply(p) \/ UseReturns(p)

Fairness ==
    /\ \A p \in Procs : WF_vars(Continue(p))
    /\ \A p \in Heartbeats : WF_vars(Beat(p))
    /\ WF_vars(Exit)

FairSpec == Spec /\ Fairness

-----------------------------------------------------------------------------
(***************************************************************************)
(* Safety.                                                                 *)
(***************************************************************************)

\* The names a later clear will retract are the ones the gate allowed for the
\* session that is live, whoever installed it: published and connection never
\* belong to different sessions.
PublishedIsAllowed ==
    published = IF connection = None THEN {} ELSE Allowed(announced[connection])

\* The recorded state says "connected" exactly while there is a connection, so
\* `status` never reports a session that is not there, or none when there is.
StatusMatches == status = "connected" <=> connection # None

\* However many calls are in progress, only a dial that failed beside one that
\* succeeded makes the recorded state disagree with the connection.
StatusMatchesUnlessLate == "late failure" \notin crossed => StatusMatches

\* With no call in progress the agent is offered the tools of the live session
\* and no others: they appear on connect and are retracted on disconnect and on
\* an observed loss.
Quiescent == \A p \in Procs : pc[p] \in {"idle", "done"}
ToolsMatch == Quiescent => advertised = published

\* However many calls are in progress, the tools on offer go wrong only by a
\* session replaced, or a publication or a retraction that comes too late.
ToolsUncrossed == crossed \cap {"replaced", "late publish", "late retract"} = {}
ToolsMatchUnlessCrossed == ToolsUncrossed => ToolsMatch

\* A session whose client is still open is the connection, or a dial has just
\* returned it to a call that will make it the connection: no session is
\* dropped without being closed, to hold the bridge's one slot until a watchdog
\* of the bridge ends it.
NoneAbandoned ==
    \A s \in Sessions :
        wire[s] \in {"up", "dead", "ended"} =>
            s = connection \/ \E p \in Procs : pc[p] = "install" /\ local[p].held = s

\* However many calls are in progress, a session is abandoned only by a connect
\* that installs another one over it, or by a clear meant for another one.
SessionsUncrossed == crossed \cap {"replaced", "cleared another"} = {}
NoneAbandonedUnlessCrossed == SessionsUncrossed => NoneAbandoned

\* A `status` that answers live: true without a ping of its own answered found
\* the session it was called beside gone in between: however many calls are in
\* progress, that session has been ended and closed, unless one was abandoned.
LiveIsProofUnlessEnded ==
    SessionsUncrossed =>
        \A p \in Procs :
            local[p].live = "yes" /\ local[p].proved = None =>
                local[p].held # None /\ wire[local[p].held] = "closed"

\* When the process exits it leaves no session that is still up: a live one was
\* ended on the way out.
ExitEndsSession == pc[Main] = "done" => \A s \in Sessions : wire[s] # "up"

\* However many calls were in progress before stdin closed, and whatever the
\* heartbeat does beside the exit, only an abandoned session outlives the process.
ExitEndsSessionUnlessCrossed == SessionsUncrossed => ExitEndsSession

-----------------------------------------------------------------------------
(***************************************************************************)
(* The inductive invariant, for any number of calls in progress.           *)
(***************************************************************************)

\* A session is named only after the dial that made it, which opened its wire.
DialedOnly ==
    /\ connection <= dialed
    /\ \A p \in Procs : local[p].held <= dialed /\ local[p].lost <= dialed
    /\ \A s \in Sessions : wire[s] = "unopened" <=> s > dialed

\* Where a call works on a session it read or dialed, it holds one. The session
\* it is about to install or to publish for comes with its own names; one that
\* it is about to clear is closed.
Holding == {"ping", "roundtrip", "bye", "close", "drop", "clear", "install", "publish"}
HeldAllowed ==
    \A p \in Procs :
        /\ pc[p] \in Holding => local[p].held # None
        /\ pc[p] \in {"install", "publish"} =>
              local[p].names = Allowed(announced[local[p].held])
        /\ pc[p] = "clear" => wire[local[p].held] = "closed"

\* A loss is torn down only after a ping that found some wire gone.
LossesAreLost ==
    \A p \in Procs :
        pc[p] \in {"lose", "drop"} => local[p].lost # None /\ wire[local[p].lost] # "up"

\* Only agents connect. The main goroutine closes the connection after every
\* agent has returned, so what it has cleared stays cleared.
ExitOrder ==
    /\ \A p \in Procs : pc[p] \in {"dial", "record", "install", "publish"} => p \in Agents
    /\ \A p \in Procs : local[p].task = "exit" => p = Main
    /\ \A p \in Procs : pc[p] = "done" => p = Main
    /\ pc[Main] \in {"idle", "bye", "close", "clear", "retract", "done"}
    /\ pc[Main] \notin {"idle", "done"} => local[Main].task = "exit"
    /\ pc[Main] # "idle" => ~serving /\ \A a \in Agents : pc[a] = "idle"
    /\ pc[Main] \in {"retract", "done"} => connection = None

\* While nothing has crossed, what is on offer beyond the published tools is
\* about to be retracted, and what is missing is about to be published.
ToolsAccounted ==
    ToolsUncrossed =>
        /\ \A t \in advertised \ published :
              \E p \in Procs : pc[p] = "retract" /\ t \in local[p].names
        /\ Offered => published \subseteq advertised

Inv ==
    /\ TypeOK
    /\ DialedOnly
    /\ HeldAllowed
    /\ LossesAreLost
    /\ ExitOrder
    /\ ToolsAccounted
    /\ PublishedIsAllowed
    /\ StatusMatchesUnlessLate
    /\ NoneAbandonedUnlessCrossed

\* With one agent the check that opens a connect still holds when it ends: no
\* other goroutine installs a session.
ConnectHolds ==
    \A p \in Procs :
        pc[p] \in {"dial", "record", "install"} => p \in Agents /\ connection = None

\* What holds while an agent makes one call at a time, whatever the heartbeat
\* and the exit do.
SoleInv ==
    /\ Inv
    /\ ConnectHolds
    /\ crossed \cap {"late failure", "replaced"} = {}

-----------------------------------------------------------------------------
(***************************************************************************)
(* Action properties.                                                      *)
(***************************************************************************)

\* One session at a time: a live connection is never replaced by another one,
\* only dropped.
NeverSwitched ==
    [][connection # None => connection' \in {connection, None}]_connection

\* A session that is up is closed by a disconnect, or the exit, that was asked
\* for that session; or it was installed while a call was tearing down another
\* session, which is lost. A refusal, or a timeout, of its own never closes it.
HealthyKept ==
    [][\A s \in Sessions :
          wire[s] = "up" /\ wire'[s] = "closed" =>
              \E p \in Procs :
                  /\ local[p].held = s
                  /\ \/ pc[p] = "close"
                     \/ /\ pc[p] = "drop"
                        /\ local[p].lost \in Sessions \ {s}
                        /\ wire[local[p].lost] # "up"]_wire

-----------------------------------------------------------------------------
(***************************************************************************)
(* Liveness.                                                               *)
(***************************************************************************)

\* A connection whose wire is gone does not stay the connection: the heartbeat,
\* if nobody else, observes the loss.
LossNoticed ==
    \A s \in Sessions :
        connection = s /\ wire[s] # "up" ~> connection # s \/ ~Running

\* Once the host has closed stdin the process exits.
ExitFollows == ~serving ~> ~Running

=============================================================================
