------------------------------ MODULE Session ------------------------------
(***************************************************************************)
(* One session of the NVDA bridge: domain/controllers/session.py with the  *)
(* handlers it dispatches to, and what it changes in NVDA while it lasts.  *)
(*                                                                         *)
(* The session runs on the server thread. A peer sends it lines and may    *)
(* close the channel at any time, and NVDA's main thread may ask it to end *)
(* (the panic gesture, the dialog's Stop, the add-on's terminate).         *)
(*                                                                         *)
(* Time is counted in ticks. It passes only while the session thread is    *)
(* blocked: in a read, whose poll is one tick, and in a handler.           *)
(***************************************************************************)
EXTENDS Integers, Sequences

CONSTANTS
    HeartbeatTimeout,   \* SessionConfig.heartbeat_timeout
    InactivityTimeout,  \* SessionConfig.inactivity_timeout
    Waits,              \* how long a handler that blocks can take
    Modes,              \* the capture modes a `hello` may ask for
    DiskFaults,         \* whether closing a log file may fail
    MaxMessages,        \* bound: how many lines the peer sends
    QueueLimit          \* bound: how many of them may wait to be read

ASSUME WindowAssumption ==
    /\ HeartbeatTimeout \in Nat \ {0}
    /\ InactivityTimeout \in Nat \ {0}
    /\ Waits \subseteq Nat
    /\ 0 \in Waits

ASSUME PeerAssumption ==
    /\ Modes \subseteq {"silent", "live"}
    /\ DiskFaults \in BOOLEAN
    /\ MaxMessages \in Nat
    /\ QueueLimit \in Nat

-----------------------------------------------------------------------------
(***************************************************************************)
(* The lines a peer can send, told apart by what the dispatcher does.      *)
(***************************************************************************)
Garbage == "garbage"      \* not a JSON object: read_message raises
Invalid == "invalid"      \* an object that is no request
Unknown == "unknown"      \* a request whose command no handler serves
Commands == {"hello",     \* a `hello` this bridge can serve
             "badHello",  \* a `hello` of another version, or with bad params
             "ping",
             "query",     \* any command that answers at once
             "wait",      \* a command that blocks: a wait, a gesture
             "refused",   \* a command whose handler raises
             "bye"}
Lines == Commands \cup {Garbage, Invalid, Unknown}

\* Seeded fault: a ping keeps the session alive.
AllResetInactivity(cmd) == TRUE

\* What each handler says of itself.
AvailableBeforeHello(cmd) == cmd \in {"hello", "badHello"}
ResetsInactivity(cmd) == cmd # "ping"

NoLine == "none"
Reasons == {"client-bye", "channel-closed", "heartbeat-timeout",
            "inactivity-timeout", "handshake-failed", "external"}
NoReason == "none"

\* The steps of _teardown, each with the one that follows it.
StepAfter == [capture |-> "speech", speech |-> "braille", braille |-> "transcript",
              transcript |-> "cue", cue |-> "channel", channel |-> "ended"]

\* Where the session thread can be: in the loop, or in the teardown.
LoopPlaces == {"absorb", "read", "execute"}
Places == LoopPlaces \cup DOMAIN StepAfter \cup {"ended"}

VARIABLES
    at,           \* where the session thread is
    state,        \* PRE_HELLO or ESTABLISHED
    reason,       \* self._reason
    external,     \* self._external_reason
    clock,
    lastMessage,  \* self._last_message_time
    lastCommand,  \* self._last_command_time
    current,      \* the command being executed
    reply,        \* the last response written: its command, and whether a result
    adapters,     \* ctx.adapters has been set
    capture,      \* NvdaLogCapture has a handler to take off NVDA's log
    logLevel,     \* NVDA's log level: the user's, or raised by hello
    filter,       \* the handler registered with filter_speechSequence
    braille,      \* the handler registered with pre_writeCells
    transcript,   \* the transcript is open
    cues,         \* the tones sounded: "none", "up" or "updown"
    channel,      \* our end of the channel is open
    inbox,        \* lines sent and not yet read
    peer,         \* the peer's end of the channel is open
    sent,         \* how many lines the peer has sent
    arrived,      \* history: when the last line arrived
    real,         \* history: when the last command that is not a ping was read
    late          \* history: how many lines were read after a request to end

watchdogs == <<lastMessage, lastCommand>>
nvda == <<adapters, capture, logLevel, filter, braille>>
record == <<transcript, cues, channel>>
peerVars == <<inbox, peer, sent, arrived>>
history == <<real, late>>
vars == <<at, state, reason, external, clock, watchdogs, current, reply,
          nvda, record, peerVars, history>>

TypeOK ==
    /\ at \in Places
    /\ state \in {"pre-hello", "established"}
    /\ reason \in Reasons \cup {NoReason}
    /\ external \in {NoReason, "client-bye", "external"}
    /\ clock \in Nat
    /\ lastMessage \in Nat
    /\ lastCommand \in Nat
    /\ current \in Commands \cup {NoLine}
    /\ reply \in [to : Lines \cup {NoLine}, ok : BOOLEAN]
    /\ adapters \in BOOLEAN
    /\ capture \in BOOLEAN
    /\ logLevel \in {"users", "raised"}
    /\ filter \in BOOLEAN
    /\ braille \in BOOLEAN
    /\ transcript \in BOOLEAN
    /\ cues \in {"none", "up", "updown"}
    /\ channel \in BOOLEAN
    /\ inbox \in Seq(Lines)
    /\ peer \in BOOLEAN
    /\ sent \in Nat
    /\ arrived \in Nat
    /\ real \in Nat
    /\ late \in Nat

\* run() has just seeded the watchdogs. The transcript was opened when the
\* session was built (create_session_log).
Init ==
    /\ at = "absorb"
    /\ state = "pre-hello"
    /\ reason = NoReason
    /\ external = NoReason
    /\ clock = 0
    /\ lastMessage = 0
    /\ lastCommand = 0
    /\ current = NoLine
    /\ reply = [to |-> NoLine, ok |-> FALSE]
    /\ adapters = FALSE
    /\ capture = FALSE
    /\ logLevel = "users"
    /\ filter = FALSE
    /\ braille = FALSE
    /\ transcript = TRUE
    /\ cues = "none"
    /\ channel = TRUE
    /\ inbox = <<>>
    /\ peer = TRUE
    /\ sent = 0
    /\ arrived = 0
    /\ real = 0
    /\ late = 0

-----------------------------------------------------------------------------
(***************************************************************************)
(* The loop.                                                               *)
(***************************************************************************)

\* Seeded fault: the windows guard the handshake only.
DeadlineOfHandshake(r, st, message, command, now) ==
    IF r = NoReason /\ st = "pre-hello" /\ now - message >= HeartbeatTimeout
    THEN "handshake-failed" ELSE r

\* _check_deadline: what the reason becomes, given one already set or none,
\* the phase, the watchdogs and the time.
Deadline(r, st, message, command, now) ==
    IF r # NoReason THEN r
    ELSE IF now - message >= HeartbeatTimeout
         THEN IF st = "pre-hello" THEN "handshake-failed" ELSE "heartbeat-timeout"
    ELSE IF st = "established" /\ now - command >= InactivityTimeout
         THEN "inactivity-timeout"
    ELSE NoReason

\* The loop ends as soon as there is a reason.
Loop(r) == reason' = r /\ at' = IF r = NoReason THEN "absorb" ELSE "capture"

\* Seeded fault: a request to end is looked at only when nothing is queued.
AbsorbWhenQuiet ==
    /\ at = "absorb"
    /\ reason' = IF inbox = <<>> THEN external ELSE NoReason
    /\ at' = IF reason' = NoReason THEN "read" ELSE "capture"
    /\ UNCHANGED <<state, external, clock, watchdogs, current, reply,
                   nvda, record, peerVars, history>>

\* _absorb_external, at the top of every turn.
Absorb ==
    /\ at = "absorb"
    /\ reason' = external
    /\ at' = IF external = NoReason THEN "read" ELSE "capture"
    /\ UNCHANGED <<state, external, clock, watchdogs, current, reply,
                   nvda, record, peerVars, history>>

\* The read timed out: nothing arrived during one poll.
Poll ==
    /\ at = "read"
    /\ inbox = <<>> /\ peer
    /\ clock' = clock + 1
    /\ Loop(Deadline(reason, state, lastMessage, lastCommand, clock'))
    /\ UNCHANGED <<state, external, watchdogs, current, reply,
                   nvda, record, peerVars, history>>

\* Seeded fault: the end of the channel is taken for a read with nothing to read.
ReadClosedIgnored ==
    /\ at = "read"
    /\ inbox = <<>> /\ ~peer
    /\ Loop(reason)
    /\ UNCHANGED <<state, external, clock, watchdogs, current, reply,
                   nvda, record, peerVars, history>>

\* The peer closed its end, and everything it sent has been read.
ReadClosed ==
    /\ at = "read"
    /\ inbox = <<>> /\ ~peer
    /\ Loop("channel-closed")
    /\ UNCHANGED <<state, external, clock, watchdogs, current, reply,
                   nvda, record, peerVars, history>>

\* A line is taken off the channel.
Take(line) ==
    /\ at = "read"
    /\ inbox # <<>> /\ line = Head(inbox)
    /\ inbox' = Tail(inbox)
    /\ late' = IF external = NoReason THEN late ELSE late + 1
    /\ UNCHANGED <<external, clock, nvda, record, peer, sent, arrived>>

\* An unreadable line is not our client before hello; afterwards it counts as
\* a sign of life and is noted in the transcript.
ReadGarbage ==
    /\ Take(Garbage)
    /\ IF state = "pre-hello"
       THEN UNCHANGED lastMessage /\ Loop("handshake-failed")
       ELSE /\ lastMessage' = clock
            /\ Loop(Deadline(reason, state, clock, lastCommand, clock))
    /\ UNCHANGED <<state, lastCommand, current, reply, real>>

\* Whether the dispatcher turns a line away without running a handler: it is
\* no request, no handler serves it, or it is on the wrong side of hello.
TurnedAway(line) ==
    \/ line \in {Invalid, Unknown}
    \/ (state = "pre-hello") # AvailableBeforeHello(line)

\* Any message at all is a sign of life; the error reply ends a handshake and
\* leaves an established session alone.
ReadTurnedAway ==
    \E line \in Lines \ {Garbage} :
        /\ Take(line)
        /\ TurnedAway(line)
        /\ lastMessage' = clock
        /\ reply' = [to |-> line, ok |-> FALSE]
        /\ Loop(IF state = "pre-hello" THEN "handshake-failed"
                ELSE Deadline(reason, state, clock, lastCommand, clock))
        /\ UNCHANGED <<state, lastCommand, current, real>>

\* Seeded fault: a command resets one watchdog or the other.
TouchOne(cmd) ==
    IF ResetsInactivity(cmd) THEN lastCommand' = clock /\ UNCHANGED lastMessage
                             ELSE lastMessage' = clock /\ UNCHANGED lastCommand

\* A command resets the heartbeat, and inactivity unless it is a ping.
Touch(cmd) ==
    /\ lastMessage' = clock
    /\ lastCommand' = IF ResetsInactivity(cmd) THEN clock ELSE lastCommand

\* A command goes to its handler.
ReadCommand ==
    \E cmd \in Commands :
        /\ Take(cmd)
        /\ ~TurnedAway(cmd)
        /\ Touch(cmd)
        /\ real' = IF cmd # "ping" THEN clock ELSE real
        /\ current' = cmd
        /\ at' = "execute"
        /\ UNCHANGED <<state, reason, reply>>

-----------------------------------------------------------------------------
(***************************************************************************)
(* The handlers.  A handler takes some time, its reply is written, and the *)
(* deadlines are checked after it.                                         *)
(***************************************************************************)

\* The end of _dispatch and of the loop's turn.
Reply(ok, elapsed) ==
    /\ clock' = clock + elapsed
    /\ current' = NoLine
    /\ reply' = [to |-> current, ok |-> ok]
    /\ Loop(IF state = "pre-hello" /\ ~ok THEN "handshake-failed"
            ELSE Deadline(reason, state', lastMessage, lastCommand, clock'))

\* Seeded fault: hello hands the adapters over once it has started them all.
HandOverLast(done) == adapters' = (done >= 4)

\* hello hands the adapters over before it starts any of them.
HandOver(done) == adapters' = (done >= 2)

\* hello, up to the first step that raises (done = 5: none did). In order: the
\* transcript and the log capture, the adapters, the speech source, the braille
\* source, and the synth's name.
HelloUpTo(done, mode, level, elapsed) ==
    /\ done < 4 => elapsed = 0
    /\ capture' = (done >= 1)
    /\ logLevel' = IF done >= 1 THEN level ELSE logLevel
    /\ HandOver(done)
    /\ filter' = (done >= 3 /\ mode = "silent")
    /\ braille' = (done >= 4)
    /\ state' = IF done = 5 THEN "established" ELSE state
    /\ cues' = IF done = 5 THEN "up" ELSE cues
    /\ Reply(done = 5, elapsed)

Hello ==
    /\ at = "execute" /\ current = "hello"
    /\ \E done \in 0 .. 5, mode \in Modes, level \in {"users", "raised"}, elapsed \in Waits :
          HelloUpTo(done, mode, level, elapsed)
    /\ UNCHANGED <<external, watchdogs, transcript, channel, peerVars, history>>

\* A handler that changes nothing here: it answers, or it raises.
Serve ==
    /\ at = "execute" /\ current \in {"badHello", "ping", "query", "refused"}
    /\ UNCHANGED state
    /\ Reply(current \in {"ping", "query"}, 0)
    /\ UNCHANGED <<external, watchdogs, nvda, record, peerVars, history>>

\* A handler that blocks the session thread: it answers, or gives up and raises.
ServeWait ==
    /\ at = "execute" /\ current = "wait"
    /\ UNCHANGED state
    /\ \E elapsed \in Waits, ok \in BOOLEAN : Reply(ok, elapsed)
    /\ UNCHANGED <<external, watchdogs, nvda, record, peerVars, history>>

\* bye asks for the teardown it will be granted at the next turn, unless one
\* was asked for already, and is acknowledged first.
Bye ==
    /\ at = "execute" /\ current = "bye"
    /\ external' = IF external = NoReason THEN "client-bye" ELSE external
    /\ UNCHANGED state
    /\ Reply(TRUE, 0)
    /\ UNCHANGED <<watchdogs, nvda, record, peerVars, history>>

-----------------------------------------------------------------------------
(***************************************************************************)
(* The teardown, one guarded step after another.                           *)
(***************************************************************************)
Step(name) == at = name /\ at' = StepAfter[name]

tornDownAlone == <<state, reason, external, clock, watchdogs, current, reply,
                   peerVars, history>>

\* NvdaLogCapture.stop: the handler comes off NVDA's log and is closed, and
\* then the level is restored. Closing a file flushes it, which can fail; the
\* guard around this step swallows that.
StopCapture ==
    /\ Step("capture")
    /\ \/ capture' = FALSE /\ logLevel' = "users"
       \/ DiskFaults /\ capture /\ UNCHANGED <<capture, logLevel>>
    /\ UNCHANGED <<adapters, filter, braille, record, tornDownAlone>>

StopSpeech ==
    /\ Step("speech")
    /\ filter' = (filter /\ ~adapters)
    /\ UNCHANGED <<adapters, capture, logLevel, braille, record, tornDownAlone>>

StopBraille ==
    /\ Step("braille")
    /\ braille' = (braille /\ ~adapters)
    /\ UNCHANGED <<adapters, capture, logLevel, filter, record, tornDownAlone>>

CloseTranscript ==
    /\ Step("transcript")
    /\ transcript' = FALSE
    /\ UNCHANGED <<nvda, cues, channel, tornDownAlone>>

\* Seeded fault: the tones for the end, whatever was sounded before.
EndCueAlways ==
    /\ Step("cue")
    /\ cues' = "updown"
    /\ UNCHANGED <<nvda, transcript, channel, tornDownAlone>>

\* The tones for the end, only if there were tones for the start.
EndCue ==
    /\ Step("cue")
    /\ cues' = IF state = "established" THEN "updown" ELSE cues
    /\ UNCHANGED <<nvda, transcript, channel, tornDownAlone>>

CloseChannel ==
    /\ Step("channel")
    /\ channel' = FALSE
    /\ UNCHANGED <<nvda, transcript, cues, tornDownAlone>>

-----------------------------------------------------------------------------
(***************************************************************************)
(* The peer and the other threads.                                         *)
(***************************************************************************)
sessionVars == <<at, state, reason, clock, watchdogs, current, reply, nvda, record, history>>

Send(line) ==
    /\ peer /\ channel
    /\ sent < MaxMessages /\ Len(inbox) < QueueLimit
    /\ inbox' = Append(inbox, line)
    /\ sent' = sent + 1
    /\ arrived' = clock
    /\ UNCHANGED <<sessionVars, external, peer>>

\* What the peer had sent before it closed is still read; a peer that is killed
\* resets the connection, which may lose it.
PeerCloses ==
    /\ peer
    /\ peer' = FALSE
    /\ inbox' \in {inbox, <<>>}
    /\ UNCHANGED <<sessionVars, external, sent, arrived>>

\* request_teardown from another thread: the first request wins.
RequestTeardown ==
    /\ external = NoReason
    /\ external' = "external"
    /\ UNCHANGED <<sessionVars, peerVars>>

\* The session is over and its thread goes back to the server.
Ended == at = "ended" /\ UNCHANGED vars

-----------------------------------------------------------------------------
Execute == Hello \/ Serve \/ ServeWait \/ Bye
Read == Poll \/ ReadClosed \/ ReadGarbage \/ ReadTurnedAway \/ ReadCommand
TearDown ==
    \/ StopCapture \/ StopSpeech \/ StopBraille
    \/ CloseTranscript \/ EndCue \/ CloseChannel
Run == Absorb \/ Read \/ Execute \/ TearDown

Next ==
    \/ Run
    \/ \E line \in Lines : Send(line)
    \/ PeerCloses
    \/ RequestTeardown
    \/ Ended

Spec == Init /\ [][Next]_vars

\* The server thread runs, and a read or a handler that blocks comes back.
\* Nothing makes the peer send or close, or anyone ask for the end.
FairSpec == Spec /\ WF_vars(Run)

-----------------------------------------------------------------------------
(***************************************************************************)
(* Safety.                                                                 *)
(***************************************************************************)

\* A session that is over leaves NVDA speaking, whatever ended it, however far
\* hello got, and whichever steps of the teardown failed before this one.
SpeechRestored == at = "ended" => ~filter

\* It also leaves the braille hook free, the transcript and the channel closed,
\* and the tones for "control taken" and "control released" in pairs. Only a log
\* file that would not close keeps the log's level up.
AllReleased ==
    at = "ended" => /\ ~braille /\ ~transcript /\ ~channel
                    /\ capture \/ logLevel = "users"
                    /\ cues = IF state = "established" THEN "updown" ELSE "none"

\* A command other than hello runs only in a session hello built to the end: a
\* half-built session never serves the buffers and adapters it lacks.
ServedWhole ==
    at = "execute" /\ current # "hello" /\ current # "badHello" =>
        state = "established" /\ capture /\ adapters /\ braille

\* Speech is not suppressed for long on behalf of a peer that has fallen silent:
\* once its last line arrived, NVDA is mute for at most the lines it had queued,
\* each as slow as a handler may be, and one heartbeat window.
LongestWait == CHOOSE w \in Waits : \A v \in Waits : v <= w
SilenceBounded ==
    filter => clock - arrived <= QueueLimit * LongestWait + HeartbeatTimeout

\* Pings keep a session alive no longer than the inactivity window: the session
\* waits for its next line only within the window of the last real command.
IdleBounded ==
    at = "read" /\ state = "established" => clock - real < InactivityTimeout

\* A request to end the session from another thread is honoured at the next
\* wakeup: at most one more line is read after it.
RequestPrompt == late <= 1

\* NVDA's log level is restored at teardown, on every exit path.
LogLevelRestored == at = "ended" => logLevel = "users"

-----------------------------------------------------------------------------
(***************************************************************************)
(* The inductive invariant: the safety properties that do not speak of how *)
(* long a line can take follow from it.                                    *)
(***************************************************************************)

\* The loop goes on exactly while no reason to end has been found.
LoopHasNoReason == at \in LoopPlaces <=> reason = NoReason

\* What hello has registered with NVDA is reachable through the adapters it
\* built, or the teardown would pass it by; a log level is raised only by a
\* capture that knows the old one.
HelloReachable ==
    /\ filter \/ braille => adapters
    /\ capture \/ logLevel = "users"
    /\ at \in LoopPlaces /\ state = "pre-hello" => logLevel = "users"
    /\ at \in LoopPlaces /\ state = "established" => capture /\ adapters /\ braille

\* The teardown has done every step it is past.
Behind(step) ==
    CASE step = "speech"     -> {"braille", "transcript", "cue", "channel", "ended"}
      [] step = "braille"    -> {"transcript", "cue", "channel", "ended"}
      [] step = "transcript" -> {"cue", "channel", "ended"}
      [] step = "cue"        -> {"channel", "ended"}
      [] step = "channel"    -> {"ended"}
TornDownSoFar ==
    /\ at \in Behind("speech") => ~filter
    /\ at \in Behind("braille") => ~braille
    /\ at \in Behind("transcript") => ~transcript
    /\ at \in Behind("channel") => ~channel
    /\ cues = IF state # "established" THEN "none"
              ELSE IF at \in Behind("cue") THEN "updown" ELSE "up"

\* A command runs on its own side of hello, at the moment its line was read.
RightSide ==
    at = "execute" => /\ current # NoLine
                      /\ (state = "pre-hello") = AvailableBeforeHello(current)
                      /\ lastMessage = clock
                      /\ current # "ping" => lastCommand = clock

\* The inactivity watchdog is the time of the last real command, and the loop
\* does not wait past its window.
IdleWatched ==
    /\ lastCommand = real
    /\ at \in {"absorb", "read"} /\ state = "established" =>
          clock - lastCommand < InactivityTimeout

\* At most the line being read when the request came, or the next one.
AskedOnce ==
    /\ late > 0 => external # NoReason
    /\ at = "read" => late = 0
    /\ late <= 1

\* What the order of the loop's and the teardown's steps keeps true.
Inv ==
    /\ TypeOK
    /\ LoopHasNoReason
    /\ HelloReachable
    /\ TornDownSoFar
    /\ RightSide
    /\ IdleWatched
    /\ AskedOnce

\* How long the peer has been silent. A line after which the session goes on
\* took less than the heartbeat window, and no more than the longest wait: what
\* is queued when the last line arrives, and the line being executed then, are
\* worked off at that rate, and the last of them starts the last window.
Turn == IF LongestWait < HeartbeatTimeout THEN LongestWait ELSE HeartbeatTimeout
SilenceSoFar ==
    /\ Len(inbox) <= QueueLimit
    /\ lastMessage <= clock
    /\ at = "execute" =>
          QueueLimit > 0 /\ clock - arrived <= (QueueLimit - Len(inbox)) * Turn
    /\ at \in {"absorb", "read"} =>
          /\ clock - lastMessage < HeartbeatTimeout
          /\ inbox # <<>> => clock - arrived <= (QueueLimit - Len(inbox) + 1) * Turn
    /\ lastMessage - arrived <= QueueLimit * Turn
    /\ at \notin LoopPlaces =>
          clock - arrived <= QueueLimit * LongestWait + HeartbeatTimeout

-----------------------------------------------------------------------------
(***************************************************************************)
(* Action properties.                                                      *)
(***************************************************************************)

\* The heartbeat watchdog never ends a session while a line of the peer waits
\* to be read: it measures the peer's silence and not the bridge's own delay.
HeartbeatHonest ==
    [][reason = NoReason /\ reason' = "heartbeat-timeout" => inbox = <<>>]_vars

\* A command that blocks the session thread cannot trip a deadline.
\* SessionProofs shows what this takes: that it blocks for less than each window.
WaitCannotTrip ==
    [][at = "execute" /\ current = "wait" =>
          reason' \notin {"heartbeat-timeout", "inactivity-timeout"}]_vars

-----------------------------------------------------------------------------
(***************************************************************************)
(* Liveness.                                                               *)
(***************************************************************************)

\* Every session ends: a peer that stops sending is noticed by a watchdog, one
\* that closes is noticed by the read.
SessionEnds == <>(at = "ended")

=============================================================================
