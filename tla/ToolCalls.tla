------------------------------ MODULE ToolCalls ------------------------------
(***************************************************************************)
(* A tool call from end to end, on the server's side: the layers the       *)
(* process starts from (Configuration), the backstop in front of the MCP   *)
(* SDK (server/adapters/mcp/backstop.go), the dispatcher's context, the    *)
(* tool's own checks (ToolTable), and the command sent to the reader, or,  *)
(* for connect_reader, the dial over the reader's endpoints in their order *)
(* (server/adapters/bridge/handshake.go).                                  *)
(*                                                                         *)
(* The calls, the heartbeat and the readers' processes interleave at every *)
(* point where the code holds no lock. The steps inside a disconnect and   *)
(* inside the noticing of a loss are those of module Connection; here each *)
(* is the close of the session, the clear and the retraction.              *)
(***************************************************************************)
EXTENDS Configuration, ToolTable

CONSTANTS
    Callers,        \* the tool calls that can be in progress at once
    Asks,           \* the names each of them may call
    Setups,         \* how the process may be started: platform and options
    Announcements,  \* the sets of capabilities a `hello` can announce
    Namespaces,     \* the sets of pipe names a look at the namespace may find
    MaxDials        \* bound: how many transports are opened in one behaviour

ASSUME SetupAssumption ==
    /\ MaxDials \in Nat
    /\ Asks \in [Callers -> SUBSET STRING]
    /\ "heartbeat" \notin Callers
    /\ \A s \in Setups : s.options \in Options

\* The gate of the registry's table.
Catalog == INSTANCE ToolCatalog WITH
    Tools <- Gated, CapabilityOf <- [t \in Gated |-> GateOf(t)]

Procs == Callers \cup {"heartbeat"}

\* A transport is named by the order it was opened in, and so is the session a
\* `hello` opened over it. None is no session.
None == 0
Dials == 1 .. MaxDials
DialOrNone == 0 .. MaxDials

Labels == {"idle", "ask", "lookup", "context", "execute", "send", "verify", "dial",
           "hello", "install", "publish", "clear", "retract", "replied"}
Replies == {"none", "unknown tool", "no connection", "not announced", "bad arguments",
            "unknown reader", "already live", "no endpoint", "incompatible",
            "failed", "lost", "answered"}

VARIABLES
    setup,       \* the platform and the options the process was started with
    stage,       \* starting, serving, or failed to start
    readers,     \* the Loader's readers
    connection,  \* the controller's connection
    advertised,  \* the tools registered with the SDK's server
    wire,        \* what became of each transport
    reached,     \* the endpoint of each transport that was not closed
    announced,   \* what the reader behind each transport announced
    opened,      \* how many transports were opened
    pc,          \* where each call, and the heartbeat, is
    local,       \* what it keeps in local variables
    listing,     \* what list_readers answered a call
    during,      \* history: what the connection was at some time of a gated call
    overtaken    \* history: the tool was retracted after the backstop looked

process == <<setup, stage, readers>>
transports == <<wire, reached, announced, opened>>
history == <<during, overtaken>>
vars == <<process, connection, advertised, transports, pc, local, listing, history>>

\* The endpoint of a transport that is not there.
Nowhere == [kind |-> "none", address |-> << >>]

\* The names that may be called.
Asked == {"none"} \cup UNION {Asks[c] : c \in Callers}

\* The locals of a call: the tool, the connection in its context, the place of
\* the reader it connects to, how many of its endpoints were passed over,
\* whether the transport of one of them was lost, the transport in hand, the
\* names to retract, and the reply.
Locals == [tool : Asked, seen : DialOrNone, reader : Nat, passed : Nat,
           lost : BOOLEAN, dial : DialOrNone, names : SUBSET Names, reply : Replies]

Fresh == [tool |-> "none", seen |-> None, reader |-> 0, passed |-> 0,
          lost |-> FALSE, dial |-> None, names |-> {}, reply |-> "none"]

Init ==
    /\ setup \in Setups
    /\ stage = "starting"
    /\ readers = << >>
    /\ connection = None
    /\ advertised = {}
    /\ wire = [d \in Dials |-> "unopened"]
    /\ reached = [d \in Dials |-> Nowhere]
    /\ announced = [d \in Dials |-> {}]
    /\ opened = 0
    /\ pc = [p \in Procs |-> "idle"]
    /\ local = [p \in Procs |-> Fresh]
    /\ listing = [c \in Callers |-> << >>]
    /\ during = [c \in Callers |-> {}]
    /\ overtaken = [c \in Callers |-> FALSE]

-----------------------------------------------------------------------------
(***************************************************************************)
(* Control flow.                                                           *)
(***************************************************************************)
At(p, label) == stage = "serving" /\ pc[p] = label
Goto(p, label) == pc' = [pc EXCEPT ![p] = label]

\* A call has its reply: of its locals only the tool is still of interest.
Settle(c, reply) ==
    local' = [local EXCEPT ![c] = [Fresh EXCEPT !.tool = local[c].tool, !.reply = reply]]
Reply(c, reply) == Goto(c, "replied") /\ Settle(c, reply)

\* A call that is in progress and needs what a session announced.
Gates(c) == pc[c] # "idle" /\ local[c].tool \in Gated

\* The connection changes under the calls that are in progress.
SetConnection(s) ==
    /\ connection' = s
    /\ during' = [c \in Callers |-> IF Gates(c) THEN during[c] \cup {s} ELSE during[c]]

\* The client of a transport is closed.
Close(d) ==
    /\ wire' = [wire EXCEPT ![d] = "closed"]
    /\ reached' = [reached EXCEPT ![d] = Nowhere]

\* main and wiring.Build: a bad layer and the process exits. A good one and it
\* serves the ungated tools, having dialed nothing.
Start ==
    /\ stage = "starting"
    /\ IF Loads(setup.options)
       THEN /\ stage' = "serving"
            /\ readers' = Load(setup.options)
            /\ advertised' = Ungated
       ELSE /\ stage' = "failed"
            /\ UNCHANGED <<readers, advertised>>
    /\ UNCHANGED <<setup, connection, transports, pc, local, listing, history>>

\* The process that failed to start is no more.
Failed == stage = "failed" /\ UNCHANGED vars

\* The host calls a tool.
Call(c) ==
    /\ At(c, "idle")
    /\ \E tool \in Asks[c] :
          /\ local' = [local EXCEPT ![c] = [Fresh EXCEPT !.tool = tool]]
          /\ during' = [during EXCEPT ![c] = IF tool \in Gated THEN {connection} ELSE {}]
    /\ Goto(c, "ask")
    /\ overtaken' = [overtaken EXCEPT ![c] = FALSE]
    /\ UNCHANGED <<process, listing, connection, advertised, transports>>

\* The host has the reply and the call is over.
Return(c) ==
    /\ At(c, "replied")
    /\ Goto(c, "idle")
    /\ local' = [local EXCEPT ![c] = Fresh]
    /\ listing' = [listing EXCEPT ![c] = << >>]
    /\ during' = [during EXCEPT ![c] = {}]
    /\ overtaken' = [overtaken EXCEPT ![c] = FALSE]
    /\ UNCHANGED <<process, connection, advertised, transports>>

-----------------------------------------------------------------------------
(***************************************************************************)
(* The MCP adapter.                                                        *)
(***************************************************************************)

\* Seeded fault: every call takes the ordinary path.
BackstopNone(c) ==
    /\ At(c, "ask")
    /\ Goto(c, "lookup")
    /\ UNCHANGED <<process, listing, connection, advertised, transports, local, history>>

\* The backstop asks for the SDK's list. A tool of ours that is not in it goes
\* to the dispatcher from here; everything else takes the ordinary path.
Backstop(c) ==
    /\ At(c, "ask")
    /\ Goto(c, IF Known(local[c].tool) /\ local[c].tool \notin advertised
               THEN "context" ELSE "lookup")
    /\ UNCHANGED <<process, listing, connection, advertised, transports, local, history>>

\* The SDK looks its handler up; with none it answers a protocol error itself.
Lookup(c) ==
    /\ At(c, "lookup")
    /\ IF local[c].tool \in advertised
       THEN Goto(c, "context") /\ UNCHANGED local
       ELSE Reply(c, "unknown tool")
    /\ UNCHANGED <<process, listing, connection, advertised, transports, history>>

-----------------------------------------------------------------------------
(***************************************************************************)
(* The dispatcher and the tools.                                           *)
(***************************************************************************)

\* The context of one call: the connection as it is now.
Context(c) ==
    /\ At(c, "context")
    /\ local' = [local EXCEPT ![c].seen = connection]
    /\ Goto(c, "execute")
    /\ UNCHANGED <<process, listing, connection, advertised, transports, history>>

\* The ports of a session: those of the capabilities it announced.
Ports(s) == IF s = None THEN {} ELSE announced[s] \cap DOMAIN PortCommands

\* Seeded fault: the port is taken from the connection of that later time.
ExecuteLate(c) ==
    /\ At(c, "execute")
    /\ local[c].tool \in Gated
    /\ \/ /\ Registry[local[c].tool].port \notin Ports(local[c].seen)
          /\ Reply(c, IF local[c].seen = None THEN "no connection" ELSE "not announced")
       \/ /\ Registry[local[c].tool].port \in Ports(local[c].seen)
          /\ \E kind \in ArgumentKinds :
                IF Accepts(local[c].tool, kind)
                THEN Goto(c, "send") /\ local' = [local EXCEPT ![c].seen = connection]
                ELSE Reply(c, "bad arguments")
    /\ UNCHANGED <<process, listing, connection, advertised, transports, history>>

\* A gated tool: first the port, then the arguments. Everything it looks at is
\* in its context.
Execute(c) ==
    /\ At(c, "execute")
    /\ local[c].tool \in Gated
    /\ \/ /\ Registry[local[c].tool].port \notin Ports(local[c].seen)
          /\ Reply(c, IF local[c].seen = None THEN "no connection" ELSE "not announced")
       \/ /\ Registry[local[c].tool].port \in Ports(local[c].seen)
          /\ \E kind \in ArgumentKinds :
                IF Accepts(local[c].tool, kind)
                THEN Goto(c, "send") /\ UNCHANGED local
                ELSE Reply(c, "bad arguments")
    /\ UNCHANGED <<process, listing, connection, advertised, transports, history>>

\* The command's round trip on that session's wire: answered, refused or out of
\* time; or faulted by an answer nobody waits for, which closes the wire and is
\* not reported as a loss; or lost, and then the connection is verified before
\* the call fails.
RoundTrip(c) ==
    /\ At(c, "send")
    /\ \/ /\ wire[local[c].seen] = "session"
          /\ \E reply \in {"answered", "failed"} : Reply(c, reply)
          /\ UNCHANGED <<wire, reached>>
       \/ /\ wire[local[c].seen] = "session"
          /\ Close(local[c].seen)
          /\ Reply(c, "failed")
       \/ /\ wire[local[c].seen] # "session"
          /\ Close(local[c].seen)
          /\ Settle(c, "lost")
          /\ Goto(c, "verify")
    /\ UNCHANGED <<process, listing, connection, advertised, announced, opened, history>>

\* list_readers: one look at the namespace, no dial.
AskListing(c) ==
    /\ At(c, "execute")
    /\ local[c].tool = "list_readers"
    /\ \E names \in Namespaces :
          listing' = [listing EXCEPT ![c] =
                         List(readers, PipeNames(setup.platform, names))]
    /\ Reply(c, "answered")
    /\ UNCHANGED <<process, connection, advertised, transports, history>>

\* status: verifies when there is a session to verify.
AskStatus(c) ==
    /\ At(c, "execute")
    /\ local[c].tool = "status"
    /\ Settle(c, "answered")
    /\ Goto(c, IF local[c].seen = None THEN "replied" ELSE "verify")
    /\ UNCHANGED <<process, listing, connection, advertised, transports, history>>

-----------------------------------------------------------------------------
(***************************************************************************)
(* connect_reader.                                                         *)
(***************************************************************************)

\* Its arguments, the name, and the connection, in this order.
AskConnect(c) ==
    /\ At(c, "execute")
    /\ local[c].tool = "connect_reader"
    /\ \/ /\ \E kind \in ArgumentKinds : ~ Accepts("connect_reader", kind)
          /\ Reply(c, "bad arguments")
       \/ Reply(c, "unknown reader")
       \/ /\ connection # None
          /\ Reply(c, "already live")
       \/ /\ connection = None
          /\ \E i \in 1 .. Len(readers) :
                Finds(readers, i) /\ local' = [local EXCEPT ![c].reader = i]
          /\ Goto(c, "dial")
    /\ UNCHANGED <<process, listing, connection, advertised, transports, history>>

\* The endpoints of the reader found, in their order, and the place in it.
Endpoints(c) == readers[local[c].reader].endpoints
Place(c) == local[c].passed + 1
NextEndpoint(c) == Endpoints(c)[Place(c)]

\* Seeded fault: an endpoint that cannot be dialed is tried again.
DialAgain(c) ==
    /\ At(c, "dial")
    /\ Place(c) \in DOMAIN Endpoints(c)
    /\ UNCHANGED vars

\* The next endpoint may not be dialed, or nothing listens there.
DialRefused(c) ==
    /\ At(c, "dial")
    /\ Place(c) \in DOMAIN Endpoints(c)
    /\ local' = [local EXCEPT ![c].passed = @ + 1]
    /\ UNCHANGED <<process, listing, connection, advertised, transports, pc, history>>

\* A transport to the next endpoint.
DialOpens(c) ==
    /\ At(c, "dial")
    /\ opened < MaxDials
    /\ Place(c) \in DOMAIN Endpoints(c)
    /\ DialerFor(setup.platform, NextEndpoint(c))
    /\ opened' = opened + 1
    /\ wire' = [wire EXCEPT ![opened + 1] = "open"]
    /\ reached' = [reached EXCEPT ![opened + 1] = NextEndpoint(c)]
    /\ local' = [local EXCEPT ![c].dial = opened + 1]
    /\ Goto(c, "hello")
    /\ UNCHANGED <<process, listing, connection, advertised, announced, history>>

\* No endpoint is left. The errors of all of them are joined: with a connection
\* lost among them, the dispatcher verifies the one there may be by now before
\* the call ends.
DialFails(c) ==
    /\ At(c, "dial")
    /\ Place(c) \notin DOMAIN Endpoints(c)
    /\ Settle(c, "no endpoint")
    /\ Goto(c, IF local[c].lost THEN "verify" ELSE "replied")
    /\ UNCHANGED <<process, listing, connection, advertised, transports, history>>

\* `hello` is answered in a version this server supports.
HelloAccepted(c) ==
    /\ At(c, "hello")
    /\ \E caps \in Announcements :
          announced' = [announced EXCEPT ![local[c].dial] = caps]
    /\ wire' = [wire EXCEPT ![local[c].dial] = "session"]
    /\ Goto(c, "install")
    /\ UNCHANGED <<process, listing, connection, advertised, reached, opened, local, history>>

\* The endpoint is done with, and its transport may have been lost meanwhile.
PassedOver(c) ==
    \E gone \in BOOLEAN :
        local' = [local EXCEPT ![c] = [local[c] EXCEPT
                     !.passed = Place(c), !.lost = @ \/ gone, !.dial = None]]

\* Seeded fault: the transport of a `hello` that failed is left open.
HelloFailsOpen(c) ==
    /\ At(c, "hello")
    /\ PassedOver(c)
    /\ Goto(c, "dial")
    /\ UNCHANGED <<process, listing, connection, advertised, transports, history>>

\* It is refused, lost, or not answered in time: as if nothing were there.
HelloFails(c) ==
    /\ At(c, "hello")
    /\ Close(local[c].dial)
    /\ PassedOver(c)
    /\ Goto(c, "dial")
    /\ UNCHANGED <<process, listing, connection, advertised, announced, opened, history>>

\* It is answered in another version: no other endpoint is tried.
HelloMismatch(c) ==
    /\ At(c, "hello")
    /\ Close(local[c].dial)
    /\ Reply(c, "incompatible")
    /\ UNCHANGED <<process, listing, connection, advertised, announced, opened, history>>

\* The controller takes the session, and then publishes its tools.
Install(c) ==
    /\ At(c, "install")
    /\ SetConnection(local[c].dial)
    /\ Goto(c, "publish")
    /\ UNCHANGED <<process, listing, advertised, transports, local, overtaken>>

Publish(c) ==
    /\ At(c, "publish")
    /\ advertised' = advertised \cup Catalog!Allowed(announced[local[c].dial])
    /\ Reply(c, "answered")
    /\ UNCHANGED <<process, listing, connection, transports, history>>

-----------------------------------------------------------------------------
(***************************************************************************)
(* The end of a session.                                                   *)
(***************************************************************************)

\* disconnect_reader: with no connection it has nothing to do; otherwise bye and
\* the close.
AskDisconnect(c) ==
    /\ At(c, "execute")
    /\ local[c].tool = "disconnect_reader"
    /\ IF connection = None
       THEN Reply(c, "answered") /\ UNCHANGED <<wire, reached>>
       ELSE /\ Close(connection)
            /\ Settle(c, "answered")
            /\ Goto(c, "clear")
    /\ UNCHANGED <<process, listing, connection, advertised, announced, opened, history>>

\* A call or the heartbeat verifies the connection. There is none, or it
\* answers, be it with a refusal.
Verified(p) ==
    /\ At(p, "verify")
    /\ connection # None => wire[connection] = "session"
    /\ Goto(p, "replied")
    /\ UNCHANGED <<process, listing, connection, advertised, transports, local, history>>

\* Or it is lost: the heartbeat looks unasked.
Lose(p) ==
    /\ At(p, "verify") \/ (p = "heartbeat" /\ At(p, "idle"))
    /\ connection # None
    /\ wire[connection] # "session"
    /\ Close(connection)
    /\ Goto(p, "clear")
    /\ UNCHANGED <<process, listing, connection, advertised, announced, opened, local,
                   history>>

\* clear drops whatever the connection is by now, and what was published for it
\* is retracted after the mutex is released.
Clear(p) ==
    /\ At(p, "clear")
    /\ local' = [local EXCEPT ![p].names =
                    IF connection = None THEN {} ELSE Catalog!Allowed(announced[connection])]
    /\ SetConnection(None)
    /\ Goto(p, "retract")
    /\ UNCHANGED <<process, listing, advertised, transports, overtaken>>

Retract(p) ==
    /\ At(p, "retract")
    /\ advertised' = advertised \ local[p].names
    /\ overtaken' = [c \in Callers |->
                        \/ overtaken[c]
                        \/ pc[c] = "lookup" /\ local[c].tool \in local[p].names]
    /\ Goto(p, IF p = "heartbeat" THEN "idle" ELSE "replied")
    /\ local' = [local EXCEPT ![p].names = {}]
    /\ UNCHANGED <<process, listing, connection, transports, during>>

\* The reader of a session goes away. (External: while its `hello` is awaited,
\* HelloFails is what that comes to.)
ReaderGone(d) ==
    /\ stage = "serving"
    /\ wire[d] = "session"
    /\ wire' = [wire EXCEPT ![d] = "gone"]
    /\ UNCHANGED <<process, listing, connection, advertised, reached, announced, opened, pc, local,
                   history>>

-----------------------------------------------------------------------------
Dial(c) ==
    \/ DialRefused(c) \/ DialOpens(c) \/ DialFails(c)
    \/ HelloAccepted(c) \/ HelloFails(c) \/ HelloMismatch(c)

GoOn(c) ==
    \/ Backstop(c) \/ Lookup(c) \/ Context(c)
    \/ Execute(c) \/ RoundTrip(c)
    \/ AskListing(c) \/ AskStatus(c) \/ AskConnect(c) \/ AskDisconnect(c)
    \/ Dial(c) \/ Install(c) \/ Publish(c)
    \/ Return(c)

EndSession(p) == Verified(p) \/ Lose(p) \/ Clear(p) \/ Retract(p)

Next ==
    \/ Start
    \/ Failed
    \/ \E c \in Callers : Call(c) \/ GoOn(c)
    \/ \E p \in Procs : EndSession(p)
    \/ \E d \in Dials : ReaderGone(d)

Spec == Init /\ [][Next]_vars

\* What has begun goes on: every dial, round trip and close has a deadline and
\* no lock is held across one. Nothing makes the host call.
Fairness ==
    /\ WF_vars(Start)
    /\ \A c \in Callers : WF_vars(GoOn(c) \/ EndSession(c))
    /\ WF_vars(EndSession("heartbeat"))

FairSpec == Spec /\ Fairness

-----------------------------------------------------------------------------
(***************************************************************************)
(* The inductive invariant.                                                *)
(***************************************************************************)
ProcessOK ==
    /\ setup \in Setups
    /\ stage \in {"starting", "serving", "failed"}
    /\ connection \in DialOrNone
    /\ advertised \in SUBSET Names

TransportsOK ==
    /\ wire \in [Dials -> {"unopened", "open", "session", "gone", "closed"}]
    /\ DOMAIN reached = Dials
    /\ DOMAIN announced = Dials
    /\ opened \in DialOrNone

CallsOK ==
    /\ pc \in [Procs -> Labels]
    /\ local \in [Procs -> Locals]
    /\ during \in [Callers -> SUBSET DialOrNone]
    /\ overtaken \in [Callers -> BOOLEAN]

TypeOK == ProcessOK /\ TransportsOK /\ CallsOK

\* A `hello` was accepted over this transport at some time.
Shook(d) == d \in Dials /\ wire[d] \in {"session", "gone", "closed"}

InHand(c) == pc[c] \in {"hello", "install", "publish"}

\* Nothing happens before the process serves, and a call dials a reader there is.
StageInv ==
    /\ stage # "serving" =>
          /\ \A p \in Procs : pc[p] = "idle"
          /\ \A d \in Dials : reached[d] = Nowhere
    /\ \A c \in Callers :
          pc[c] \in {"dial", "hello"} => local[c].reader \in 1 .. Len(readers)

\* What is in hand is one's own, and is what its label says.
HandsInv ==
    /\ \A d \in Dials : wire[d] # "unopened" <=> d <= opened
    /\ \A c \in Callers :
          /\ pc[c] = "hello" =>
                local[c].dial \in Dials /\ wire[local[c].dial] = "open"
          /\ pc[c] \in {"install", "publish"} => Shook(local[c].dial)
    /\ \A c1, c2 \in Callers :
          InHand(c1) /\ InHand(c2) /\ c1 # c2 => local[c1].dial # local[c2].dial

\* A call knows of the connection and of what it was when the call looked.
DuringInv ==
    /\ connection # None => Shook(connection)
    /\ \A c \in Callers :
          /\ \A s \in during[c] : s # None => Shook(s)
          /\ Gates(c) => connection \in during[c]
          /\ Gates(c) /\ pc[c] \in {"execute", "send"} => local[c].seen \in during[c]
          /\ pc[c] = "send" =>
                /\ local[c].tool \in Gated
                /\ Registry[local[c].tool].port \in Ports(local[c].seen)
          /\ pc[c] = "lookup" =>
                \/ ~ Known(local[c].tool)
                \/ local[c].tool \in advertised
                \/ overtaken[c]
    /\ \A c1, c2 \in Callers : pc[c1] \in {"hello", "install"} =>
          local[c1].dial # connection /\ local[c1].dial \notin during[c2]

-----------------------------------------------------------------------------
(***************************************************************************)
(* Safety.                                                                 *)
(***************************************************************************)

\* What the process serves with is what the layers say (loader.go, Load, and its
\* rule that a layer replaces a reader's endpoints and never merges them).
LoadIsLayered ==
    [][stage = "starting" /\ stage' = "serving" => Layered(setup.options, readers')]_vars

\* Whatever was dialed is an endpoint somebody configured and this machine's
\* own; a transport whose `hello` was not accepted is open only while its call
\* waits for the answer; and a session is reached at the endpoint whose turn it
\* was (handshake.go, Dial and dialOne).
Configured(endpoint) ==
    \E i \in 1 .. Len(readers) : \E k \in DOMAIN readers[i].endpoints :
        readers[i].endpoints[k] = endpoint

\* A port of localhost or of a loopback address, which may be in brackets.
ThisMachine(address) ==
    \E host \in LoopbackHosts \cup {<<"localhost">>} : \E port \in Range(address) :
        address \in {host \o <<":", port>>, <<"[">> \o host \o <<"]", ":", port>>}

DialHonest ==
    /\ \A d \in Dials : reached[d] # Nowhere =>
          /\ Configured(reached[d])
          /\ IF reached[d].kind = "pipe"
             THEN setup.platform = "windows"
             ELSE ThisMachine(reached[d].address)
    /\ \A d \in Dials : wire[d] = "open" =>
          \E c \in Callers : pc[c] = "hello" /\ local[c].dial = d
    /\ \A c \in Callers : pc[c] \in {"hello", "install"} =>
          reached[local[c].dial] = NextEndpoint(c)

\* A command is sent only to a session that was the connection at some time of
\* the call, and that session announced the capability the tool is gated on and
\* handed over the port the command belongs to; whatever was connected,
\* disconnected or retracted since the host chose the tool.
NothingUnannounced ==
    \A c \in Callers : pc[c] = "send" =>
        LET tool == local[c].tool  s == local[c].seen
        IN  /\ s \in during[c] \ {None}
            /\ GateOf(tool) \in announced[s]
            /\ \E port \in Ports(s) : Registry[tool].command \in PortCommands[port]

\* The refusals of a call have different remedies, and each is right: "connect
\* first" is answered only if there was no connection at some time of the call;
\* "this reader does not do that" only if a session without the capability was
\* there; and, thanks to the backstop, the SDK's own "unknown tool" for a tool of
\* ours only if the tool was retracted between the backstop's look and the SDK's.
RemedyIsRight ==
    \A c \in Callers :
        /\ local[c].reply = "no connection" => None \in during[c]
        /\ local[c].reply = "not announced" =>
              \E s \in during[c] \ {None} : GateOf(local[c].tool) \notin announced[s]
        /\ local[c].reply = "unknown tool" /\ Known(local[c].tool) => overtaken[c]

Inv == TypeOK /\ StageInv /\ HandsInv /\ DuringInv

\* Every call is answered, whatever the readers and the other calls do.
CallEnds == \A c \in Callers : pc[c] # "idle" ~> pc[c] = "idle"

=============================================================================
