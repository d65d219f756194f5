# Verification of nvda-mcp

TLA+ models of nvda-mcp, the MCP server that lets an agent drive the NVDA screen
reader: `server/`, a Go program that serves MCP to the agent's host, and
`bridges/nvda/`, an NVDA add-on in Python that the server connects to. The two
meet at a wire contract, `specs/wire/v1/protocol.md`.

The models are translated from the source. `PROJECT.json` maps every definition
to the lines it stands for and lists the runs, the seeded faults, the hazards and
the theorems.

Paths below are relative to the repository. `S` is `server/` and `B` is
`bridges/nvda/addon/globalPlugins/nvdaMcpBridge/`.

## 1. The system

    MCP host --stdio--> SDK server --> dispatcher --> tools
                            ^                           |
             publish/retract|                           v
                        Connection controller <--- heartbeat goroutine
                            |                      main goroutine (exit)
                            v  one ReaderConnection
                     JSON-lines client (one mutex per connection)
                            |
                   named pipe or loopback TCP
                            |
                     channel --> Session --> handlers --> NVDA (filter, hooks, log)
                                    ^                        ^
          BridgeServer (accept thread)                NVDA's main thread:
                     start/stop <------- plugin, dialog, panic gesture

### Components, their state and their operations

| Component | State | Operations | What makes it correct |
|---|---|---|---|
| Connection controller, `S domain/controllers/connection.go` | `status`, `connection`, `published`, behind a mutex that is never held across a call | Connect, Disconnect, Verify, Status, Current, RunHeartbeat, Close | one session; state, names and tool list agree with it; no session left open; a loss is noticed |
| Capability gate, `S domain/entities/tool_catalog.go` | the table of tools | Allowed, Ungated, Gated, CapabilityOf | exactly the tools the reader announced |
| Dispatcher and tools, `S domain/controllers/tools/` | none of their own; a context per call | Execute | a lost connection is re-checked; `live` is the outcome of a round trip; nothing is sent to a reader that did not announce it; a refusal names the right remedy |
| MCP adapter, `S adapters/mcp/` | the SDK's registered tools | Publish, Retract, Run, the capability backstop, the info resource | registered tools follow the session |
| Handshake, `S adapters/bridge/handshake.go` | none | Dial over the endpoints in order, `hello` | only configured local endpoints, in order; a failed attempt leaves nothing open; version mismatch told apart |
| JSON-lines client, `S adapters/bridge/json_lines_client.go` | `nextID`, `lost`, the line buffer, a mutex held for a whole round trip | call, Ping, Bye, Close, a method per command | each answer goes to its own request; a wait is not cut short; every call returns |
| Process, `S wiring/wiring.go` | the heartbeat's stop channel | Build, Run | exits when stdin closes, ending a live session |
| Discovery and configuration, `S adapters/discovery`, `S config`, `S domain/entities/endpoint.go` | the loaded readers | Load, List | defaults, file and flags in the documented order; the listing dials nothing |
| Session, `B domain/controllers/session.py` | phase, reason, external reason, two watchdogs, the context | run, request_teardown | the protocol's phases; silence and idleness bounded; everything released on every exit path |
| Handlers, `B domain/controllers/commands/` | the context | one `execute` each | `hello` builds all or is undone |
| Capture adapters, `B adapters/nvda_*` | what is registered with NVDA | start, stop | nothing stays registered |
| Bridge server, `B adapters/bridge_server.py` | state, live session, thread, stop flag, behind a lock | start, stop, the accept loop | one session; stopped means stopped; no session escapes a stop |
| Dialog and plugin, `B views`, `B plugin.py` | the state shown | start, stop, panic, refresh | the dialog shows the state |
| Listeners and transports, `B adapters/*listener.py`, `*transport.py` | pending pipe instance or socket, `_closed` | open, accept, close | a close unblocks an accept and leaks nothing |
| Capture buffers, `B domain/entities/` | indexed entries | append, reads, waits | reading on loses and repeats nothing; a wait answers the first match and misses only what was not there |
| Main-thread marshalling, `B adapters/nvda_main_thread.py`, `nvda_gesture_sender.py` | NVDA's event queue | run_on_main, press | gestures arrive in order; a failed command stops; every command is answered |
| Transcript, log capture, event bus, settings of the bridge | files, handlers, subscriptions | open, write, close, publish | files closed, level restored |
| Wire codecs, generator, packaging, CI, fakes | | | not behaviour of the running system |

### How they interact

* The SDK runs each tool call on a goroutine of its own. Nothing serialises them
  above the client's mutex, and the heartbeat and the exit come from two more
  goroutines. The controller decides under its mutex and acts outside of it.
* The controller reaches the tool list through a callback to the SDK server, after
  the mutex is released.
* The client and the session exchange lines; the session's thread is blocked while
  a handler runs, so the client's budgets and the session's watchdogs measure the
  same waits from both ends.
* The bridge has two threads: NVDA's main thread calls start, stop and
  request_teardown; the server thread accepts and runs the session. Status events
  go back to the main thread through its event queue.

### What is hard

1. Check-then-act over the controller's mutex: connect, lose and clear each read the
   connection, unlock for a call that can take seconds, and write.
2. Publishing and retracting outside the mutex, in an order of their own.
3. Deadlines on both ends of one channel: late answers, waits as long as a window.
4. Partial failure: `hello` fails between its steps, a teardown step raises.
5. `stop()` against an accept in progress, and a loop that gives up by itself.
6. A peer that dies, goes quiet, only pings, or queues slow commands, while NVDA is mute.
7. A tool that was right to call when the host chose it, and is sent after a disconnect,
   a reconnect or a retraction.
8. Three threads around the buffers and NVDA's event queue: one that speaks, one that
   waits with a deadline, one that is late.

`PROJECT.json` "hazards" lists these and others at their lines, with the
properties that cover each, or a note where none does yet.

## 2. The modules

| Module | Models | Abstraction |
|---|---|---|
| `ToolCatalog` | the gate | sets instead of ordered lists |
| `Connection` | controller, dispatcher, tools, heartbeat, exit, publication | a session is a number; a dial, a ping and a round trip are one step with each outcome |
| `MCConnection` | constants for TLC | three tools, two capabilities |
| `ConnectionProofs` | theorems about `Connection` | |
| `Session` | one bridge session with its handlers and what it holds in NVDA | a line is one of ten kinds; time in polls |
| `SessionProofs` | theorems about `Session` | |
| `BridgeService` | what the server promises: the abstract specification | state and whether a session is live |
| `BridgeServer` | start, stop, accept loop, status events | a session runs until it ends or is asked to |
| `BridgeServerProofs` | theorems, and that `BridgeServer` implements `BridgeService` | |
| `JSONLinesClient` | concurrent callers of one client, a bridge of any speed | a response is its id |
| `JSONLinesClientProofs` | theorems about `JSONLinesClient` | |
| `Configuration` | endpoint syntax, layers of settings, dialing policy, listing | a spec is the sequence of its marks (`:`, `[`, `]`) and of the texts between them; no variables |
| `ConfigurationProofs` | the theorem that `Load` layers the settings | |
| `ToolTable` | the registry: all sixteen tools, ports and commands | the arguments of a call are of one of five kinds; no variables |
| `ToolCalls` | a call from the host to the reader: start, backstop, dispatcher, tools, dial, the end of a session | composes the two above with `ToolCatalog`; bye, ping and close are one step |
| `MCToolCalls` | constants for TLC | seven ways to start, two callers |
| `ToolCallsProofs` | theorems about `ToolCalls` and `ToolTable` | |
| `Capture` | buffers, waits, gestures, announcements, NVDA's event queue | an utterance is the set of texts it holds |
| `CaptureProofs` | theorems about `Capture` | |
| `Induction` | induction over the natural numbers, and loops as functions | no model |

### Connection

A goroutine is `pc` and `local`; `pc` names the next critical section or the next
call made without the mutex. `controller` is the Go struct; `advertised` is what the
SDK has registered; `wire[s]` is what became of session `s`: up, dead (the peer is
gone and the client has not noticed), ended (acknowledged bye), closed.

| Code | Actions |
|---|---|
| `Connect` | `ConnectCheck`, `DialSucceeds` or `DialFails`, `RecordFailure` or `Install`, `Publish` |
| `Disconnect`, `Close` | `DisconnectCall` or `Exit`, `Bye`, `CloseAfterBye`, `Clear`, `Retract` |
| `Verify`, `lose`, `clear` | `VerifyRead`, `PingAnswered`, `PingRefused` or `PingLost`, `LoseRead`, `LoseClose`, `Clear`, `Retract` |
| `status` | `StatusCall` (which holds the context's connection), then Verify, `StatusReply` |
| gated tools, `Dispatcher.Execute` | `UseCall`, `UseReturns`, then Verify if the connection is lost |
| `RunHeartbeat` | `Beat`, then Verify from its ping on |

`Beat` starts with the read that finds a connection, since one that finds none changes
nothing. A call that is refused before it changes anything is no step. A gated tool
that got as far as `roundtrip` stands for the waits too: its step may be as late as it
likes.

`Retract` sees the names `Clear` took from `published`; `Publish` sees the names its
own dial got from the gate. `RecordFailure` goes on to Verify when a `hello` was lost on
the way, since the dispatcher re-checks after every error that says so.

Nothing is held between the critical sections of a goroutine, so another one may act
in between. There are five ways in which that matters, and each is noted where it
happens, in the history variable `crossed`: a failed dial is recorded beside a session
(`late failure`), a session is installed over another one (`replaced`), tools are
published for a session that is not the connection any more (`late publish`), or
retracted under one that is (`late retract`), and a clear drops a session it was not
meant for (`cleared another`). No action reads `crossed`. A property `...UnlessCrossed`
says which of the five it takes to break what the code promises, and that nothing else
does.

### Session

`at` is the point of the loop or of the teardown. One turn of `_loop` is `Absorb`, one
of the reads, and for a command one of the handlers. `Reply` is the end of a turn: the
response, the handshake rule and `_check_deadline`. `HelloUpTo(done, ...)` is `hello`
up to the step that raises: `done` counts transcript and log capture (1), adapters
handed over (2), speech source (3), braille source (4), and the end (5). The six
teardown actions are `_teardown`'s guarded steps in its order.

Time is an integer that moves only while the session thread is blocked: one tick for a
read that polls out, and a value of `Waits` for a handler that blocks. Steps of the
thread itself take no time.

The peer sends any of the ten kinds of line and closes when it likes; lines it queued
are read before the end of the channel is, as `_LineReader` and the transports do, or
are lost with a peer that is killed.
`arrived`, `real` and `late` are history variables and no action reads them.

The transcript's own failures are left out because `FileTranscript` and its writer
swallow `OSError`; closing the log capture's `FileHandler` does not, and `DiskFaults`
says whether it may fail.

### BridgeServer

`main` is where NVDA's main thread is in `start` or `stop`, `place[t]` where server
thread `t` is in `_serve` and `_run_session`. `start` binds and spawns in one critical
section, `stop` is five steps with the lock released between them. The session is
reduced to `run`; `asked[t]` is its external reason. `forewarned[t]` is the local
`stopping` that `_run_session` reads in the section that registers the session.
The dialog is one queued event and the state it shows.

### JSONLinesClient

`Call` takes a place in the queue for the mutex; `Write` is the lock, the id, the
write and the deadline; the three ways a read ends are `Receive`, `ReadEOF` and
`ReadTimeout`. The lock is released by `Return`, on every one of them. The bridge
serves one request at a time, for as long as the request takes, and answers all of
them in order. `Tick` moves time only when nobody has anything to do first, which
models a poll far shorter than a tick; a frame that arrives at the deadline is taken,
since `readLine` looks at its buffer before it looks at the clock.

### Configuration, ToolTable and ToolCalls

`Load` goes over the layers as the code does: `Override` takes one `ReplaceReader` per
reader of a layer, and `ReadersFromFlags` notes each name when it is first met (`Noted`,
`NamesOf`) and gathers the flags of a name in their order (`FlagsNamed`). The loops are
recursive functions, so that they can be proved about. `Layered` is the reference `Load`
is checked against and proved equal to, stated by name and by place instead of by loop:
which names, in which order, with whose endpoints. `Options` is what a file and flags may
hold. `LowerCase` and `LoopbackHosts` are parameters, since they belong to Go's libraries.

A tool is a record: its capability, the port it asks its context for, the command it
sends and the kinds of arguments it refuses. `Registry` is the one table from which the
gate, the SDK's handlers and the backstop are derived, as in `registry.go`.

| Code | Actions |
|---|---|
| `main`, `wiring.Build` | `Start`, or `Failed` for ever |
| SDK, `backstop.go` | `Call`, `Backstop`, `Lookup`, `Return` |
| `Dispatcher.Execute`, the tools | `Context`, then `Execute` and `RoundTrip`, or `AskListing`, `AskStatus`, `AskConnect`, `AskDisconnect` |
| `Handshake.Dial`, `dialOne`, `hello` | `DialRefused`, `DialOpens`, `DialFails`, `HelloAccepted`, `HelloFails`, `HelloMismatch`, then `Install`, `Publish` |
| `Verify`, `lose`, `clear` | `Verified` or `Lose`, `Clear`, `Retract` |

`Connection` has the finer steps inside a disconnect and a verify; `ToolCalls` has what
`Connection` leaves out: which reader, which endpoint, which tool, which refusal. A
session is named by the transport it was opened over. The backstop sends a tool of ours
that is not registered to the dispatcher, so that it answers "connect first" or "this
reader cannot"; any other call takes the SDK's own way.

An address is read as `net.SplitHostPort` reads it (`HostPort`): only a host in brackets
may have colons, so `tcp:[::1]:9010` is dialed and `tcp:::1:9010` is not. A call to
`connect_reader` whose `hello` was lost is verified before it ends (`PassedOver`,
`DialFails`).

`during[c]` is what the connection was at some time of call `c`; `overtaken[c]` says that
the tool was retracted after the backstop looked. No action reads either.

### Capture

`pc` is what the session's thread waits in. `Look` is one turn of `_wait`, once per unit
of time; `Miss` is the reading of the next index after the last look, a step of its own
because `next_index` takes the lock again. `posted` is NVDA's event queue, of which the
first `ran` have run. `Press` posts the next gesture and `Pressed` or `PressFails` is the
end of the wait for it; a gesture that is out of time stays posted. `Announce` posts and
does not wait. NVDA speaks, writes its braille window and runs its queue when it likes, or
never. `cursor` and `taken` are an agent that reads on from where its last range ended;
they, `lookedAt`, `failedAt` and `acked` are history.

## 3. The runs

| Run | Bounds | What it shows |
|---|---|---|
| `ConnectionParallel` | 2 agents, heartbeat, 2 sessions | `Inv`, `PublishedIsAllowed`, `StatusMatchesUnlessLate`, `ToolsMatchUnlessCrossed`, `NoneAbandonedUnlessCrossed`, `LiveIsProofUnlessEnded`, `ExitEndsSessionUnlessCrossed`, `HealthyKept` |
| `ConnectionHeartbeat` | 1 agent, heartbeat, 2 sessions | `LossNoticed`, `ExitFollows` |
| `Session` | windows 3 and 5, waits 0 and 2, both modes, 3 lines, 2 queued, disk faults | `Inv`, `SpeechRestored`, `AllReleased`, `SilenceBounded`, `IdleBounded`, `RequestPrompt`, `HeartbeatHonest`, `SessionEnds` |
| `BridgeServer` | 3 server threads in turn | `Inv`, `StoppedIsStopped`, `OneSession`, `NoSessionMissed`, `DialogCurrent`, `ImplementsService`, `StopReturns` |
| `ClientCalls` | 2 callers, budget 2, slack 1, answers in 0, 1 or 4 ticks, 3 requests | `Inv`, `NothingAfterTimeout`, `WaitNotCutFirst`, `CallReturns` |
| `ToolCalls` | 2 callers and the heartbeat, 2 transports, 2 announcements, 7 ways to start | `Inv`, `DialHonest`, `NothingUnannounced`, `RemedyIsRight`, `LoadIsLayered`, `CallEnds` |
| `Capture` | 3 entries, 2 commands, 2 gestures, waits of 0 and 1, a gesture's timeout 1 | `Inv`, `ReadsTile`, `WaitExact`, `PressOrder`, `CallAnswered` |
| `ConnectionLatePublish` | 1 agent, heartbeat | `ToolsMatch` is violated |
| `ConnectionParallelConnect` | 2 agents, heartbeat | `NeverSwitched` is violated |
| `SessionDiskFault` | as `Session`, 2 lines | `LogLevelRestored` is violated |
| `SessionLongWait` | 2 lines, waits 0 and 4, heartbeat window 3 | `WaitCannotTrip` is violated |
| `CaptureAfterIndex` | as `Capture` | `FindsFromBookmark` is violated |

Why the bounds are enough. Two sessions let a connect follow a loss or a parallel
connect, the case every stale read of the controller needs, and two agents with the
heartbeat reach all five crossings; the agents are interchangeable, so
`ConnectionParallel` takes them up to symmetry (it checks no liveness). In `Session` the
inactivity window is longer than the heartbeat window, as in `SessionConfig`, and a wait
is shorter than either; three lines make hello, a slow command and any third line, two
in the queue put a slow line in front of another.
Three threads are a start, a stop and restart, and a restart after a loop that gave
up. In `ClientCalls` an answer takes less than the budget, or more than the budget of
two calls together, and a wait takes exactly what it asked for.

In `ToolCalls` the second transport is a reconnect to a reader that announces other
capabilities, which every stale context and every late retraction needs; one caller uses
the session and the other one opens and ends it, which is every order of the two, while
two that both open would only add what `Connection` says of parallel connects. The seven
starts are the defaults on Windows, where a pipe and a socket are dialed; a file and flags
elsewhere, that replace, add and repeat readers, with an endpoint that is not local; and
one for each way a layer is refused. In `Capture` two commands are one that times out and one
that comes after it, two gestures are one before and one after a failure, and three
entries are one before, at and after a bookmark.

Deadlock is checked in every run. Where the system may really stop, an explicit
stuttering step says when: `Exited`, `Ended`, `Quiet`, `Failed`.

### Fairness

* `Connection`: a call that has begun goes on, since dials, round trips and closes have
  deadlines; the heartbeat's sleep is bounded; the exit runs once no call is in
  progress, which is taken of the SDK, whose `Run` is external. The
  liveness properties are checked with one agent, to keep the graph small. No agent has
  to call, no host to close, no peer to stay or to go.
* `Session`: the server thread runs. A poll returns, and a handler returns.
* `BridgeServer`: both threads run. A session that was asked to end does, which is what
  `RequestPrompt` and `SessionEnds` of `Session` show. A gesture of that session that waits
  for the main thread, while `stop()` holds the main thread in its join, is part of that
  assumption: it is over when the gesture's timeout is, which `Capture` has
  (`CallAnswered`, with a main thread that runs nothing). No client has to dial.
* `JSONLinesClient`: Go's mutex hands itself over to a waiter that starves, a read
  polls, time passes, and a bridge that is there reads and answers.
* `ToolCalls`: the process starts, and a call or a heartbeat that has begun goes on: dials,
  round trips and closes have deadlines, and no lock is held across one. No host has to
  call.
* `Capture`: the session's thread runs and time passes. NVDA owes nothing: it may be
  silent, and its main thread wedged.

### Seeded faults

Each property of a passing run is shown to be able to fail: the modules hold, just
before the definition it replaces, a form of it with a plausible bug (commented
`Seeded fault`), and with it TLC finds the property violated. No specification uses
one. `PROJECT.json` "mutants" pairs them.

## 4. Where the code and its words disagree

Five of these are runs; each shows the shortest behaviour TLC finds.

* **Tools of a reader that is gone** (`ConnectionLatePublish`, `connection.go:135`).
  A loss observed by the heartbeat between `Connect`'s unlock and its `Publish`
  retracts first and is published over.
* **Parallel connects** (`ConnectionParallelConnect`, `connection.go:130`). Both pass the
  check, and the second install replaces a live session, which nobody closes. `Connect`'s
  own comment wants an error there. MCP hosts may call tools in parallel, and nothing in
  the dispatcher stops them.
* **The log level** (`SessionDiskFault`, `nvda_log_capture.py:88`). A file handler that
  raises on close skips the restoring of the level, and the next session remembers the
  raised level as the user's.
* **Long waits** (`SessionLongWait`, `wait_for_speech.py:22`). The handler's comment has
  every wait well below the watchdog windows; nothing on either side caps the timeout a
  client may ask for. A wait of thirty seconds ends the session after its answer.
* **Bookmarks** (`CaptureAfterIndex`, `speech_buffer.py:90`). `wait_for_speech` tells the
  agent to pass the index it got from `get_next_speech_index`; the contract says "at or
  after"; the buffer searches strictly after it. The first utterance an action causes is
  skipped. The buffer's own docstring says exclusive.

Others were seen while choosing the bounds of the passing runs, which is why those
bounds are what they are:

* `HealthyKept` is as strong as the code is: a session that is up may be closed under a
  call that tears down another one, since `lose` reads the connection again. Without that
  case it fails with the heartbeat.
* `StatusMatches`, `ToolsMatch`, `NoneAbandoned` and `ExitEndsSession` fail with parallel
  calls or with the heartbeat, and hold of `ConnectionParallel` up to the crossings each of
  them names. So a session can outlive the process with one agent too: the heartbeat and a
  call tear down the same loss, a reconnect comes between, the later `clear` drops it
  unclosed (`connection.go:320`), and the exit finds nothing to end, although
  `wiring.go:140-141` says a live session is ended on the way out.
* `status` takes the nil of a Verify that found no connection for an answer of the reader
  (`connection.go:196`, against `status.go:65-66`). `LiveIsProofUnlessEnded` says when: the
  session it was called beside has been torn down by another goroutine in between.
* An unmatched id is said to be impossible while calls are serialised
  (`json_lines_client.go:347-349`). A bridge that is late once is enough:
  `NothingAfterTimeout` says that after a timeout no call on that connection is ever
  answered, and `FaultNeedsTimeout` that a timeout is needed.
* What is said between the last look of `wait_for_speech` and its reading of the next index
  is not searched, and is below the bookmark the miss answers (`speech_buffer.py:113`):
  `found=false` for a text that is there, and an agent that reads on from the bookmark
  passes it by. `WaitExact` is about what was there at the last look.
* With a wait as long as the heartbeat window, `HeartbeatHonest` fails too: the session
  ends with lines of the peer unread. The theorem assumes that every wait is shorter.
  A `press_gesture` of several ids, each up to ten seconds, can be as long.
* A waiting call can be cut short after an earlier call has timed out, since the bridge
  is still busy with that one. `WaitNotCutFirst` says so.

And some were met while translating, and are in the models as the code has them:

* A malformed line in an established session is noted and not answered
  (`session.py:161`); `protocol.md:73-75` lists it with the faults that are.
* A pipe off Windows or an address that is not local is said to be reported when the
  configuration is read (`adapters/bridge/endpoint.go:34-36`,
  `pipe_transport_other.go:15-18`). `DialerFor` is only called by a dial, which goes on to
  the next endpoint: `DialRefused`.
* "Not listening always means the probe actually looked" (`reader_listing.go:57-59`). Off
  Windows, and when the namespace cannot be read, the probe has no names and every pipe is
  "not listening".
* `get_since` clamps a negative index and not one beyond the end, of which its docstring
  says the same (`indexed_buffer.py:80`): the range then starts after it ends. The tools
  require `since_index` in their schema and take an absent one for 0.
* An answer that does not match closes the client and is not `ErrConnectionLost`
  (`json_lines_client.go:346-352`), so the dispatcher does not verify: the loss is noticed
  by the next call or the heartbeat. `RoundTrip` has it.
* `wait_for_speech_to_finish` right after a gesture answers finished when the gesture's
  speech has not begun (`LookFinished`): the rule is how long it has been quiet.
* `disconnect_reader` names the reader of its context, read before the disconnect
  (`disconnect_reader.go:50-60`), and the info resource reads status and session in two
  critical sections (`info_resource.go:98`): an answer may name a state that never was.

## 5. What is proved

The proofs are checked by TLAPS and hold for every value of the constants.

* **`ConnectionProofs`**. `Inv` is inductive for any number of agents, heartbeats,
  sessions and tools. The property is `PublishedIsAllowed`; by itself it is not inductive,
  since `Install` writes names the goroutine has carried since its dial: `HeldAllowed`
  says they are that session's names, and `DialedOnly` that a later dial does not reuse a
  session's number. `StatusMatchesUnlessLate`, `ToolsMatchUnlessCrossed`,
  `NoneAbandonedUnlessCrossed`, `LiveIsProofUnlessEnded`, `ExitEndsSessionUnlessCrossed`
  and `HealthyKept` are proved for the same constants, with no assumption on who calls.
  For the tools, `ToolsAccounted` says where the difference between what is on offer and
  what is published is: while nothing has crossed, a tool too many is in the hands of a
  goroutine about to retract it, and a session whose tools are all out has them all on
  offer. For the exit, `ExitOrder` says that agents connect, that they have all returned
  before the main goroutine closes, and that what it cleared stays cleared. For
  `HealthyKept`, `LossesAreLost` keeps with every teardown the session whose ping found
  its wire gone. For `LiveIsProofUnlessEnded`, `LiveInv` is inductive with `Inv`: until a
  status call has verified, the session it was called beside is the connection or closed,
  since a connection is let go only once its session is closed (`LetGo`).
  `SoleInv` adds, under the assumption `OneAgent` that an agent makes one call at a time and
  with the heartbeat and the exit running, that no failed dial comes late and no session is
  replaced. Its strengthening is `ConnectHolds`: from the check to the install there is no
  connection, because nobody else can install one. `StatusMatches` follows, and
  `NeverSwitched` with one step.
  The proof goes by what an action can disturb: *quiet* actions leave the controller
  alone and move one goroutine to a place outside the connect; dials, installs and
  clears have a lemma each.
* **`SessionProofs`**. `Inv` is inductive for windows of any length, any waits, any
  number of lines. `SpeechRestored` and `AllReleased` need `HelloReachable` (what is
  registered can be reached through the adapters, so the teardown does not pass it by)
  and `TornDownSoFar` (each step of the teardown is done once it is past).
  `ServedWhole`, that nothing but `hello` is served by a session that was not built to the
  end, needs `RightSide`; `IdleBounded` needs `IdleWatched`; `RequestPrompt`
  needs `AskedOnce`. `HeartbeatHonest` is proved from `Inv` and the assumption that all
  waits are shorter than the heartbeat window; `ShortWaitsCannotTrip` is the general
  form for both windows. `SilenceBounded` says how long a mute may outlive the peer's
  last line, which no single step bounds: `SilenceSoFar` charges each line that was
  queued with one turn of the longest handler, and says at each point of the loop how
  many of them can have been taken since. The products of the sum are kept behind
  `Cost`, of which the proof uses only that it grows by one turn with each line
  (`CostOfLines`).
* **`BridgeServerProofs`**. `Inv` is inductive for any number of threads.
  `StopOwnsThread` says that the thread `stop()` joins is the server's, `OneWorker` that
  it is the only one at work, and so that a join of it is a join of everything.
  `DialogCurrent` is inductive with `Inv`: a step
  that changes the state leaves its thread with an announcement to make, and what the
  dialog then shows is the state it reads anew. `ServerImplementsService`: with `mode <-
  state` and `live <- active # NoThread`, each step of the server is a step of
  `BridgeService` or a stutter.
* **`JSONLinesClientProofs`**. `Inv` is inductive for any callers, budget, slack and
  answer times. Until the first timeout `OneUnderway` says that the one request on its
  way, being served or answered is the mutex holder's, and `OnTime` that its deadline is
  its budget after it was sent, whoever has it: `FaultNeedsTimeout` and, with a slack
  above zero, `WaitNotCutFirst` follow. After it `OldComesFirst` says that the next
  answer the client will read is older than any request it waits for: each timeout
  leaves a request behind that is answered before the next one. `NothingAfterTimeout`
  follows.

* **`ToolCallsProofs`**. `TableIsCoherent` is a fact about the sixteen rows: the port a
  tool asks for is that of the capability it declares, and its command one of that port.
  `Inv` is inductive for any callers, transports, layers and announcements. `HandsInv`
  says that a transport in hand is its call's own, which is what lets another call's dial,
  close or hello pass it by. `DuringInv` says that what a call saw was the connection at
  some time of the call, and that a session not yet installed was nobody's: without the
  latter, an `Install` could give a call a session whose capabilities change under it.
  `NothingUnannounced` follows with the table. `RemedyIsRight` is proved from
  `RefusedRight`, that a refused call is over and its refusal right; the two steps that
  refuse are right by `DuringInv`, and no later step takes that away, since what was
  announced stays (`WireKept`) and `during` and `overtaken` only grow (`DuringKept`,
  `OvertakenKept`). `DialHonest` is inductive with `Inv`: whoever is done waiting for
  `hello` leaves no open transport (`HelloEnds`).
* **`CaptureProofs`**. `Inv` is inductive for every set of texts and every bound.
  `PressInv` says that the gestures before the one in progress have run and none after it
  is posted; `WaitInv` that a wait that goes on has found nothing as far as it looked.
  `WaitExact` and `PressOrder` follow with one step each. `ReadsTile` needs that the text
  of two adjacent ranges is the text of the whole (`TextInPieces`), by induction over the
  second range; then each read adds to what was taken exactly what it answered.
* **`ConfigurationProofs`** and **`Induction`**. `Induction` has induction over the
  natural numbers for sets, from the well-foundedness of `<`: what is proved by induction
  is the set of the numbers a statement holds for. `BoundedInduction` goes up to a bound
  and `Iteration` gives the function a loop defines, so that a recursive function of the
  model is what its definition says. `LoadLayers` has one such induction per loop of
  `loader.go`. Its invariant is `InOrder`: the names so far are those of what was read,
  each once, in the order they were first met. A `ReplaceReader` keeps it (`NotedInOrder`,
  `ReplaceFacts`), and with it `Supplied`: a reader is the last of its name in its layer,
  or was there below and its layer does not name it. `InOrderOfBoth` puts the flags'
  own order in place of the flags. `FlagsNamedFacts` counts: the place of a flag in its
  reader is the number of flags of that name up to it. `LoadIsLayered` of `ToolCalls` is
  then one step.

Constants are assumed to be what the modules' named `ASSUME`s say: disjoint sets of
processes, non-zero windows, waits that include zero, settings that are `Options`. Some
theorems assume more, and say so: `OneAgent`, without which `NeverSwitched` and
`StatusMatches` are false (section 4); waits shorter than a window; for `SilenceBounded` that
there is a longest wait, without which there is nothing to bound.

Only model-checked: the liveness properties (`LossNoticed`, `ExitFollows`, `SessionEnds`,
`StopReturns`, `CallReturns`, `CallEnds`, `CallAnswered`), which need fairness and
`ENABLED`. Every invariant and action property of a passing run, and the refinement, is
proved.

## 6. What is not modelled

* The wording of messages, the shape of answers, and speech and braille beyond what a
  search tells apart.
* The listeners' and transports' own state: `BridgeServer` has one flag, `Session` and
  `JSONLinesClient` an ordered channel. Overlapped pipe handles closed under an accept are
  listed as a hazard with no property.
* The info resource: it changes nothing.
* The dialog's own start: it is subscribed from the beginning, and what happens between
  its first refresh and its subscription is left out.
* The transcript's lock-free writes, the pruning of its files, the ini file of the add-on,
  the widgets of the dialog.
* The exact finish of a silent session: the rule exists in `SpeechBuffer`, and `hello`
  builds every buffer without it.
* A write that blocks: requests are far smaller than a pipe's buffer.
* The wire codecs, the generator, packaging, CI, fakes and tests: declarative, generated,
  or no behaviour of the running system.
* The MCP SDK, NVDA, wx and the operating system are external and appear only through
  what the code calls.

## 7. Plan

Done, in this order, each with its inductive invariant proved:

1. `Connection` with `ToolCatalog`: the state every tool call depends on.
2. `Session`, `BridgeServer` with `BridgeService`: the part that touches a user's screen
   reader, and the refinement.
3. `JSONLinesClient`: the path every command takes.
4. `Configuration`, `ToolTable` and `ToolCalls`: what is dialed, sent and refused.
5. `Capture`: the buffers, the waits and NVDA's main thread.

Every safety property of a run is proved (section 5), with `Induction` for what the loops
of `Configuration` and `Capture` compute.

Left:

6. `Listener` (`named_pipe_listener.py`, `tcp_listener.py`): close against accept;
   to be composed with `BridgeServer`.
7. Client and session over one channel: heartbeat against watchdog, bye against close;
   `Session` shown to implement the reduced session `BridgeServer` runs, `Connection` the
   ends of sessions in `ToolCalls`.
8. Proofs: the theorems of those modules, and what the listing says of an endpoint it
   does not dial (`BuildListing`, `Live`).
