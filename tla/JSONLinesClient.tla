-------------------------- MODULE JSONLinesClient --------------------------
(***************************************************************************)
(* The server's client of one bridge connection                            *)
(* (server/adapters/bridge/json_lines_client.go): concurrent callers whose *)
(* whole round trips one mutex serialises, ids that correlate answers with *)
(* requests, and local deadlines.                                          *)
(*                                                                         *)
(* The peer is a bridge that speaks the contract: it answers every request *)
(* once, in order, with the request's id, after the time the request takes.*)
(* It is slow, or goes away, but it never answers what was not asked.      *)
(***************************************************************************)
EXTENDS Naturals, Sequences, FiniteSets

CONSTANTS
    Callers,     \* the goroutines that use the connection
    Budget,      \* DefaultCallTimeout, in ticks
    WaitSlack,   \* waitSlack, in ticks
    PlainTimes,  \* how long the bridge may take over an ordinary command
    WaitTimes,   \* the timeouts a waiting command may carry
    MaxCalls     \* bound: how many requests are written

ASSUME TimesAssumption ==
    /\ Budget \in Nat /\ WaitSlack \in Nat /\ MaxCalls \in Nat
    /\ PlainTimes \subseteq Nat /\ WaitTimes \subseteq Nat

Nobody == "nobody"
ASSUME CallerAssumption == Nobody \notin Callers

\* A request: its id, the time the bridge will take over it, and whether it is
\* a waiting command, which the bridge answers when its own timeout fires.
IDs == Nat \ {0}
Requests == [id : IDs, takes : PlainTimes \cup WaitTimes, waits : BOOLEAN]
NoRequest == [id |-> 0, takes |-> 0, waits |-> FALSE]

Outcomes == {"none", "answered", "timeout", "lost", "fault"}

VARIABLES
    holder,    \* who holds c.mu
    nextID,    \* c.nextID
    lost,      \* c.lost
    calling,   \* the request each caller is waiting to write or to see answered
    place,     \* where each caller is in call()
    deadline,  \* when each caller's budget runs out
    outcome,   \* how each caller's last call ended
    outbox,    \* requests written and not yet read by the bridge
    inbox,     \* response ids on their way to the client
    serving,   \* the request the bridge is at work on
    until,     \* when it will have done it
    alive,     \* the bridge's end of the connection is open
    clock,
    timeouts   \* history: how many calls have timed out

client == <<holder, nextID, lost>>
callers == <<calling, place, deadline, outcome>>
bridge == <<serving, until, alive>>
vars == <<client, callers, outbox, inbox, bridge, clock, timeouts>>

TypeOK ==
    /\ holder \in Callers \cup {Nobody}
    /\ nextID \in IDs
    /\ lost \in BOOLEAN
    /\ calling \in [Callers -> Requests \cup {NoRequest}]
    /\ place \in [Callers -> {"idle", "lock", "read"}]
    /\ deadline \in [Callers -> Nat]
    /\ outcome \in [Callers -> Outcomes]
    /\ outbox \in Seq(Requests)
    /\ inbox \in Seq(IDs)
    /\ serving \in Requests \cup {NoRequest}
    /\ until \in Nat
    /\ alive \in BOOLEAN
    /\ clock \in Nat
    /\ timeouts \in Nat

Init ==
    /\ holder = Nobody
    /\ nextID = 1
    /\ lost = FALSE
    /\ calling = [c \in Callers |-> NoRequest]
    /\ place = [c \in Callers |-> "idle"]
    /\ deadline = [c \in Callers |-> 0]
    /\ outcome = [c \in Callers |-> "none"]
    /\ outbox = <<>>
    /\ inbox = <<>>
    /\ serving = NoRequest
    /\ until = 0
    /\ alive = TRUE
    /\ clock = 0
    /\ timeouts = 0

-----------------------------------------------------------------------------
(***************************************************************************)
(* call(): everything from the lock to the unlock.                         *)
(***************************************************************************)

\* Seeded faults: no mutex, one that is never released, and a waiting command
\* without slack.
NoMutex == TRUE
NeverUnlock == UNCHANGED holder
BudgetExact(request) == IF request.waits THEN request.takes ELSE Budget

\* c.mu is free, and is released.
Free == holder = Nobody
Unlock == holder' = Nobody

\* waitBudget: a waiting command is given its own timeout and some slack.
BudgetOf(request) == IF request.waits THEN request.takes + WaitSlack ELSE Budget

Goto(c, there) == place' = [place EXCEPT ![c] = there]

\* The call returns and the mutex is released.
Return(c, how) ==
    /\ outcome' = [outcome EXCEPT ![c] = how]
    /\ calling' = [calling EXCEPT ![c] = NoRequest]
    /\ deadline' = [deadline EXCEPT ![c] = 0]
    /\ Goto(c, "idle")
    /\ Unlock

\* A goroutine calls, and waits for the mutex.
Waiting == {c \in Callers : place[c] = "lock"}
Call(c) ==
    /\ place[c] = "idle"
    /\ nextID + Cardinality(Waiting) <= MaxCalls
    /\ Goto(c, "lock")
    /\ outcome' = [outcome EXCEPT ![c] = "none"]
    /\ UNCHANGED <<client, calling, deadline, outbox, inbox, bridge, clock, timeouts>>

\* A connection known to be lost fails every call at once.
CallLost(c) ==
    /\ place[c] = "lock" /\ Free
    /\ lost
    /\ Return(c, "lost")
    /\ UNCHANGED <<nextID, lost, outbox, inbox, bridge, clock, timeouts>>

\* The next id is taken and the request is written.
Write(c) ==
    /\ place[c] = "lock" /\ Free
    /\ ~lost
    /\ \E request \in [id : {nextID}, takes : PlainTimes, waits : {FALSE}]
                 \cup [id : {nextID}, takes : WaitTimes, waits : {TRUE}] :
          /\ calling' = [calling EXCEPT ![c] = request]
          /\ outbox' = Append(outbox, request)
          /\ deadline' = [deadline EXCEPT ![c] = clock + BudgetOf(request)]
    /\ nextID' = nextID + 1
    /\ holder' = c
    /\ Goto(c, "read")
    /\ UNCHANGED <<lost, outcome, inbox, bridge, clock, timeouts>>

\* Writing to a bridge that is gone may fail, which loses the connection.
WriteFails(c) ==
    /\ place[c] = "lock" /\ Free
    /\ ~lost /\ ~alive
    /\ nextID' = nextID + 1
    /\ lost' = TRUE
    /\ Return(c, "lost")
    /\ UNCHANGED <<outbox, inbox, bridge, clock, timeouts>>

\* Seeded fault: a frame that answers another request is passed over.
ReceiveOwn(c) ==
    /\ place[c] = "read"
    /\ inbox # <<>>
    /\ inbox' = Tail(inbox)
    /\ IF Head(inbox) = calling[c].id THEN Return(c, "answered") ELSE UNCHANGED <<callers, holder>>
    /\ UNCHANGED <<nextID, lost, outbox, bridge, clock, timeouts>>

\* A complete frame is taken before the deadline is looked at. It answers this
\* request, or its id is not this request's, which is fatal to the connection.
Receive(c) ==
    /\ place[c] = "read"
    /\ inbox # <<>>
    /\ inbox' = Tail(inbox)
    /\ IF Head(inbox) = calling[c].id
       THEN UNCHANGED lost /\ Return(c, "answered")
       ELSE lost' = TRUE /\ Return(c, "fault")
    /\ UNCHANGED <<nextID, outbox, bridge, clock, timeouts>>

\* Nothing to read, and the bridge's end is closed.
ReadEOF(c) ==
    /\ place[c] = "read"
    /\ inbox = <<>> /\ ~alive
    /\ lost' = TRUE
    /\ Return(c, "lost")
    /\ UNCHANGED <<nextID, outbox, inbox, bridge, clock, timeouts>>

\* Nothing to read, and the budget has run out: the call is given up. The
\* connection is not.
ReadTimeout(c) ==
    /\ place[c] = "read"
    /\ inbox = <<>> /\ alive
    /\ clock >= deadline[c]
    /\ timeouts' = timeouts + 1
    /\ Return(c, "timeout")
    /\ UNCHANGED <<nextID, lost, outbox, inbox, bridge, clock>>

\* Close, between two calls.
Close ==
    /\ Free
    /\ ~lost
    /\ lost' = TRUE
    /\ UNCHANGED <<holder, nextID, callers, outbox, inbox, bridge, clock, timeouts>>

-----------------------------------------------------------------------------
(***************************************************************************)
(* The bridge, and time.                                                   *)
(***************************************************************************)
BridgeReads ==
    /\ alive
    /\ serving = NoRequest
    /\ outbox # <<>>
    /\ serving' = Head(outbox)
    /\ until' = clock + Head(outbox).takes
    /\ outbox' = Tail(outbox)
    /\ UNCHANGED <<client, callers, inbox, alive, clock, timeouts>>

BridgeAnswers ==
    /\ alive
    /\ serving # NoRequest
    /\ clock >= until
    /\ inbox' = Append(inbox, serving.id)
    /\ serving' = NoRequest
    /\ UNCHANGED <<client, callers, outbox, until, alive, clock, timeouts>>

BridgeGone ==
    /\ alive
    /\ alive' = FALSE
    /\ serving' = NoRequest
    /\ UNCHANGED <<client, callers, outbox, inbox, until, clock, timeouts>>

\* Time passes while a caller or the bridge is waiting for it to, and never
\* past the moment one of them is to act: a tick is much longer than a poll, so
\* what has arrived is taken before the next one.
Reading == {c \in Callers : place[c] = "read"}
Tick ==
    /\ Reading # {} \/ serving # NoRequest
    /\ \A c \in Reading : clock < deadline[c] /\ inbox = <<>>
    /\ alive /\ serving = NoRequest => outbox = <<>>
    /\ serving # NoRequest => clock < until
    /\ clock' = clock + 1
    /\ UNCHANGED <<client, callers, outbox, inbox, bridge, timeouts>>

\* Nothing is in progress and the calls of the bound are used up.
Quiet ==
    /\ nextID > MaxCalls
    /\ \A c \in Callers : place[c] = "idle"
    /\ alive => serving = NoRequest /\ outbox = <<>>
    /\ UNCHANGED vars

-----------------------------------------------------------------------------
CallStep(c) ==
    \/ CallLost(c) \/ Write(c) \/ WriteFails(c)
    \/ Receive(c) \/ ReadEOF(c) \/ ReadTimeout(c)

Next ==
    \/ \E c \in Callers : Call(c) \/ CallStep(c)
    \/ Close
    \/ BridgeReads \/ BridgeAnswers \/ BridgeGone
    \/ Tick
    \/ Quiet

Spec == Init /\ [][Next]_vars

\* The mutex is fair, a read polls, time passes, and a bridge that is there reads
\* its channel and answers when the command has been served, however long that
\* takes.
FairSpec ==
    /\ Spec
    /\ \A c \in Callers : WF_vars(CallStep(c))
    /\ WF_vars(BridgeReads)
    /\ WF_vars(BridgeAnswers)
    /\ WF_vars(Tick)

-----------------------------------------------------------------------------
(***************************************************************************)
(* Safety.                                                                 *)
(***************************************************************************)

\* While no call has timed out, the ids agree: an answer to another request is
\* only ever the late answer to a call that was given up.
FaultNeedsTimeout ==
    (\E c \in Callers : outcome[c] = "fault") => timeouts > 0

-----------------------------------------------------------------------------
(***************************************************************************)
(* The inductive invariant: FaultNeedsTimeout and the action properties    *)
(* below follow from it.                                                   *)
(***************************************************************************)

\* The mutex is held by the one caller that waits for an answer, to a request
\* already written; nobody waits on a connection that is lost.
Serialised ==
    /\ \A c \in Callers : place[c] = "read" <=> holder = c
    /\ \A c \in Callers : place[c] = "read" => calling[c] \in Requests /\ calling[c].id < nextID
    /\ lost => holder = Nobody

Nothing == outbox = <<>> /\ serving = NoRequest /\ inbox = <<>>

\* A request is on its way, being served, or answered.
Underway(r) ==
    \/ outbox = <<r>> /\ serving = NoRequest /\ inbox = <<>>
    \/ outbox = <<>> /\ serving = r /\ inbox = <<>>
    \/ outbox = <<>> /\ serving = NoRequest /\ inbox = <<r.id>>

\* Until a call times out the one thing underway is what the holder of the mutex
\* waits for, or nothing if nobody does; only a bridge that is gone loses it.
OneUnderway ==
    timeouts = 0 /\ ~lost =>
        \/ Nothing /\ (holder = Nobody \/ ~alive)
        \/ \E c \in Callers : holder = c /\ Underway(calling[c])

\* Such a request is given the time it takes: the bridge starts on it at once, so
\* the budget's surplus is left when it is done.
OnTime ==
    timeouts = 0 /\ ~lost /\ alive =>
        \A c \in Callers : holder = c =>
            /\ outbox # <<>> => deadline[c] = clock + BudgetOf(calling[c])
            /\ serving # NoRequest =>
                  /\ clock <= until
                  /\ deadline[c] + serving.takes = until + BudgetOf(calling[c])

\* After a timeout the next answer to be read, if there will be one, is older
\* than any request a caller waits for.
Old(id) == id < nextID /\ \A c \in Callers : place[c] = "read" => id < calling[c].id
OldComesFirst ==
    timeouts > 0 /\ ~lost =>
        \/ inbox # <<>> /\ Old(Head(inbox))
        \/ inbox = <<>> /\ serving # NoRequest /\ Old(serving.id)
        \/ inbox = <<>> /\ serving = NoRequest /\ outbox # <<>> /\ Old(Head(outbox).id)
        \/ inbox = <<>> /\ ~alive

Inv ==
    /\ TypeOK
    /\ Serialised
    /\ OneUnderway
    /\ OnTime
    /\ OldComesFirst
    /\ FaultNeedsTimeout

-----------------------------------------------------------------------------
(***************************************************************************)
(* Action properties.                                                      *)
(***************************************************************************)
Returns(c, how) == place[c] = "read" /\ place'[c] = "idle" /\ outcome'[c] = how

\* A call that times out is the end of the connection in fact, though not in
\* name: no later call is ever answered, because the late answer comes first.
NothingAfterTimeout ==
    [][\A c \in Callers : Returns(c, "answered") => timeouts = 0]_vars

\* The bridge's own timeout fires before the local one: a waiting command is
\* not cut short, unless a call before it has been.
WaitNotCutFirst ==
    [][\A c \in Callers : Returns(c, "timeout") /\ calling[c].waits => timeouts > 0]_vars

-----------------------------------------------------------------------------
(***************************************************************************)
(* Liveness.                                                               *)
(***************************************************************************)

\* Every call returns, even if the bridge answers too late and never closes.
CallReturns == \A c \in Callers : place[c] # "idle" ~> place[c] = "idle"

=============================================================================
