---------------------------- MODULE SessionProofs ----------------------------
(***************************************************************************)
(* Proofs about Session, for every choice of windows, capture modes, waits *)
(* and bounds: its inductive invariant, the safety properties that follow  *)
(* from it, and how long a handler may block without tripping a watchdog.  *)
(***************************************************************************)
EXTENDS Session, TLAPS

-----------------------------------------------------------------------------
\* The initial state.
LEMMA InitInv == Init => Inv
<1> SUFFICES ASSUME Init PROVE Inv
    OBVIOUS
<1> USE DEF Init
<1>1. TypeOK
    <2>1. inbox \in Seq(Lines) /\ reply \in [to : Lines \cup {NoLine}, ok : BOOLEAN]
        OBVIOUS
    <2>2. at \in Places
        BY DEF Places, LoopPlaces
    <2> QED
        BY <2>1, <2>2 DEF TypeOK
<1>2. LoopHasNoReason /\ HelloReachable /\ TornDownSoFar
    BY DEF LoopHasNoReason, LoopPlaces, NoReason, HelloReachable, TornDownSoFar, Behind
<1>3. RightSide /\ IdleWatched /\ AskedOnce
    BY DEF RightSide, IdleWatched, AskedOnce
<1> QED
    BY <1>1, <1>2, <1>3 DEF Inv

\* What the deadline check decides is a reason, or none.
LEMMA DeadlineType ==
    ASSUME NEW r \in Reasons \cup {NoReason}, NEW st, NEW m, NEW c, NEW now
    PROVE  Deadline(r, st, m, c, now) \in Reasons \cup {NoReason}
BY DEF Deadline, Reasons

\* A turn of the loop ends at the top of the loop or at the teardown.
LEMMA LoopType ==
    ASSUME NEW r \in Reasons \cup {NoReason}, Loop(r)
    PROVE  /\ reason' \in Reasons \cup {NoReason}
           /\ at' \in Places
           /\ at' \in LoopPlaces <=> reason' = NoReason
           /\ at' \in {"absorb", "capture"}
BY DEF Loop, Places, LoopPlaces, StepAfter

-----------------------------------------------------------------------------
\* Every step keeps the types.
LEMMA TypeStep == Inv /\ [Next]_vars => TypeOK'
<1> SUFFICES ASSUME Inv, [Next]_vars PROVE TypeOK'
    OBVIOUS
<1> USE DEF Inv, TypeOK, watchdogs, nvda, record, peerVars, history
<1>1. CASE Absorb
    <2>1. at' \in Places /\ reason' \in Reasons \cup {NoReason}
        BY <1>1 DEF Absorb, Places, LoopPlaces, StepAfter, Reasons
    <2> QED
        BY <1>1, <2>1 DEF Absorb
<1>2. CASE Poll
    <2>1. Deadline(reason, state, lastMessage, lastCommand, clock') \in Reasons \cup {NoReason}
        BY DeadlineType
    <2>2. at' \in Places /\ reason' \in Reasons \cup {NoReason}
        BY <1>2, <2>1, LoopType DEF Poll
    <2> QED
        BY <1>2, <2>2 DEF Poll
<1>3. CASE ReadClosed
    <2>1. at' \in Places /\ reason' \in Reasons \cup {NoReason}
        BY <1>3, LoopType DEF ReadClosed, Reasons
    <2> QED
        BY <1>3, <2>1 DEF ReadClosed
<1>4. CASE ReadGarbage
    <2>1. Deadline(reason, state, clock, lastCommand, clock) \in Reasons \cup {NoReason}
        BY DeadlineType
    <2>2. at' \in Places /\ reason' \in Reasons \cup {NoReason}
        BY <1>4, <2>1, LoopType DEF ReadGarbage, Reasons
    <2> QED
        BY <1>4, <2>2 DEF ReadGarbage, Take
<1>5. CASE ReadTurnedAway
    <2>1. Deadline(reason, state, clock, lastCommand, clock) \in Reasons \cup {NoReason}
        BY DeadlineType
    <2>2. at' \in Places /\ reason' \in Reasons \cup {NoReason}
        BY <1>5, <2>1, LoopType DEF ReadTurnedAway, Reasons
    <2> QED
        BY <1>5, <2>2 DEF ReadTurnedAway, Take
<1>6. CASE ReadCommand
    BY <1>6 DEF ReadCommand, Touch, Take, Places, LoopPlaces
<1>7. CASE Execute
    <2>1. ASSUME NEW elapsed \in Waits, NEW ok \in BOOLEAN, Reply(ok, elapsed)
          PROVE  /\ at' \in Places /\ reason' \in Reasons \cup {NoReason}
                 /\ clock' \in Nat /\ current' \in Commands \cup {NoLine}
                 /\ reply' \in [to : Lines \cup {NoLine}, ok : BOOLEAN]
        <3>1. Deadline(reason, state', lastMessage, lastCommand, clock')
                  \in Reasons \cup {NoReason}
            BY DeadlineType
        <3>2. at' \in Places /\ reason' \in Reasons \cup {NoReason}
            BY <2>1, <3>1, LoopType DEF Reply, Reasons
        <3> QED
            BY <2>1, <3>2, WindowAssumption DEF Reply, Lines
    <2>2. CASE Hello
        <3>1. PICK done \in 0 .. 5, mode \in Modes, level \in {"users", "raised"},
                   elapsed \in Waits : HelloUpTo(done, mode, level, elapsed)
            BY <2>2 DEF Hello
        <3>2. /\ at' \in Places /\ reason' \in Reasons \cup {NoReason}
              /\ clock' \in Nat /\ current' \in Commands \cup {NoLine}
              /\ reply' \in [to : Lines \cup {NoLine}, ok : BOOLEAN]
            BY <2>1, <3>1 DEF HelloUpTo, HandOver
        <3>3. /\ capture' \in BOOLEAN /\ adapters' \in BOOLEAN
              /\ filter' \in BOOLEAN /\ braille' \in BOOLEAN
            BY <3>1 DEF HelloUpTo, HandOver
        <3>4. /\ logLevel' \in {"users", "raised"} /\ cues' \in {"none", "up", "updown"}
              /\ state' \in {"pre-hello", "established"}
            BY <3>1 DEF HelloUpTo, HandOver
        <3> QED
            BY <2>2, <3>2, <3>3, <3>4 DEF Hello
    <2>3. CASE Serve
        <3>1. (current \in {"ping", "query"}) \in BOOLEAN /\ 0 \in Waits
            BY WindowAssumption
        <3>2. /\ at' \in Places /\ reason' \in Reasons \cup {NoReason}
              /\ clock' \in Nat /\ current' \in Commands \cup {NoLine}
              /\ reply' \in [to : Lines \cup {NoLine}, ok : BOOLEAN]
            BY <2>1, <2>3, <3>1 DEF Serve
        <3> QED
            BY <2>3, <3>2 DEF Serve
    <2>4. CASE ServeWait
        BY <2>1, <2>4 DEF ServeWait
    <2>5. CASE Bye
        <3>1. /\ at' \in Places /\ reason' \in Reasons \cup {NoReason}
              /\ clock' \in Nat /\ current' \in Commands \cup {NoLine}
              /\ reply' \in [to : Lines \cup {NoLine}, ok : BOOLEAN]
            BY <2>1, <2>5, WindowAssumption DEF Bye
        <3> QED
            BY <2>5, <3>1 DEF Bye
    <2> QED
        BY <1>7, <2>2, <2>3, <2>4, <2>5 DEF Execute
<1>8. CASE TearDown
    <2>1. at' \in Places
        BY <1>8 DEF TearDown, StopCapture, StopSpeech, StopBraille, CloseTranscript, EndCue,
            CloseChannel, Step, StepAfter, Places, LoopPlaces
    <2> USE DEF tornDownAlone
    <2>2. CASE StopCapture
        <3>1. capture' \in BOOLEAN /\ logLevel' \in {"users", "raised"}
            BY <2>2, Zenon DEF StopCapture
        <3> QED
            BY <2>1, <2>2, <3>1 DEF StopCapture
    <2>3. CASE StopSpeech \/ StopBraille
        <3>1. filter' \in BOOLEAN /\ braille' \in BOOLEAN
            BY <2>3, Zenon DEF StopSpeech, StopBraille
        <3> QED
            BY <2>1, <2>3, <3>1 DEF StopSpeech, StopBraille
    <2>4. CASE CloseTranscript \/ CloseChannel
        <3>1. transcript' \in BOOLEAN /\ channel' \in BOOLEAN
            BY <2>4, Zenon DEF CloseTranscript, CloseChannel
        <3> QED
            BY <2>1, <2>4, <3>1 DEF CloseTranscript, CloseChannel
    <2>5. CASE EndCue
        BY <2>1, <2>5 DEF EndCue
    <2> QED
        BY <1>8, <2>2, <2>3, <2>4, <2>5 DEF TearDown
<1>9. CASE UNCHANGED vars \/ Ended
    BY <1>9 DEF vars, Ended
<1>10. CASE (\E line \in Lines : Send(line)) \/ PeerCloses \/ RequestTeardown
    <2> USE DEF sessionVars
    <2>1. ASSUME NEW line \in Lines, Send(line) PROVE TypeOK'
        BY <2>1 DEF Send
    <2>2. CASE PeerCloses
        <3>1. peer' \in BOOLEAN
            BY <2>2, Zenon DEF PeerCloses
        <3>2. inbox' \in Seq(Lines)
            <4>1. inbox \in Seq(Lines) /\ <<>> \in Seq(Lines)
                OBVIOUS
            <4>2. inbox' = inbox \/ inbox' = <<>>
                BY <2>2, Zenon DEF PeerCloses
            <4> QED
                BY <4>1, <4>2
        <3>3. UNCHANGED <<sessionVars, external, sent, arrived>>
            BY <2>2, Zenon DEF PeerCloses
        <3> QED
            BY <3>1, <3>2, <3>3
    <2>3. CASE RequestTeardown
        BY <2>3 DEF RequestTeardown
    <2> QED
        BY <1>10, <2>1, <2>2, <2>3
<1> QED
    BY <1>1, <1>2, <1>3, <1>4, <1>5, <1>6, <1>7, <1>8, <1>9, <1>10 DEF Next, Run, Read

-----------------------------------------------------------------------------
(***************************************************************************)
(* The inductive step.                                                     *)
(***************************************************************************)

\* A check that finds no reason found every window open.
LEMMA DeadlineOpen ==
    ASSUME NEW r, NEW st, NEW m \in Nat, NEW c \in Nat, NEW now \in Nat,
           Deadline(r, st, m, c, now) = NoReason
    PROVE  /\ r = NoReason
           /\ st = "established" => now - c < InactivityTimeout
BY WindowAssumption DEF Deadline, NoReason

\* A turn of the loop that is not a hello ends at the top or at the teardown,
\* having touched nothing of NVDA.
LEMMA TurnKeepsInv ==
    ASSUME Inv, TypeOK', at \in LoopPlaces,
           NEW r \in Reasons \cup {NoReason}, Loop(r),
           UNCHANGED <<state, nvda, record>>,
           lastCommand' = real',
           r = NoReason /\ state = "established" => clock' - lastCommand' < InactivityTimeout,
           AskedOnce'
    PROVE  Inv'
<1> USE DEF Inv, nvda, record
<1>1. /\ at' \in {"absorb", "capture"} /\ (at' \in LoopPlaces <=> reason' = NoReason)
      /\ reason' = r
    BY LoopType DEF Loop
<1>2. LoopHasNoReason'
    BY <1>1 DEF LoopHasNoReason
<1>3. HelloReachable'
    BY <1>1 DEF HelloReachable
<1>4. TornDownSoFar'
    BY <1>1 DEF TornDownSoFar, Behind, LoopPlaces
<1>5. RightSide' /\ IdleWatched'
    BY <1>1 DEF RightSide, IdleWatched, LoopPlaces
<1> QED
    BY <1>2, <1>3, <1>4, <1>5

LEMMA AbsorbKeepsInv == ASSUME Inv, TypeOK', Absorb PROVE Inv'
<1> USE DEF Inv, Absorb, nvda, record, watchdogs, peerVars, history
<1>1. LoopHasNoReason' /\ HelloReachable'
    BY DEF LoopHasNoReason, HelloReachable, LoopPlaces
<1>2. TornDownSoFar'
    BY DEF TornDownSoFar, Behind
<1>3. RightSide' /\ IdleWatched'
    BY DEF RightSide, IdleWatched
<1>4. AskedOnce'
    BY DEF AskedOnce, TypeOK
<1> QED
    BY <1>1, <1>2, <1>3, <1>4

LEMMA ReadKeepsInv ==
    ASSUME Inv, TypeOK', Poll \/ ReadClosed \/ ReadGarbage \/ ReadTurnedAway
    PROVE  Inv'
<1> USE DEF Inv, TypeOK, LoopPlaces, nvda, record, watchdogs, peerVars, history
<1>1. CASE Poll
    <2> DEFINE r == Deadline(reason, state, lastMessage, lastCommand, clock')
    <2>1. r \in Reasons \cup {NoReason}
        BY DeadlineType
    <2>2. r = NoReason /\ state = "established" => clock' - lastCommand < InactivityTimeout
        BY DeadlineOpen
    <2>3. AskedOnce'
        BY <1>1, LoopType, <2>1 DEF Poll, AskedOnce
    <2>4. Loop(r) /\ at = "read" /\ UNCHANGED <<state, nvda, record, lastCommand, real>>
        BY <1>1 DEF Poll
    <2> HIDE DEF r
    <2> QED
        BY <2>1, <2>2, <2>3, <2>4, TurnKeepsInv DEF IdleWatched
<1>2. CASE ReadClosed
    <2>1. "channel-closed" \in Reasons /\ "channel-closed" # NoReason
        BY DEF Reasons, NoReason
    <2>2. AskedOnce'
        BY <1>2, LoopType, <2>1 DEF ReadClosed, AskedOnce
    <2>3. /\ Loop("channel-closed") /\ at = "read"
          /\ UNCHANGED <<state, nvda, record, lastCommand, real>>
        BY <1>2 DEF ReadClosed
    <2> QED
        BY <2>1, <2>2, <2>3, TurnKeepsInv DEF IdleWatched
<1>3. ASSUME NEW line, Take(line), NEW r \in Reasons \cup {NoReason}, Loop(r),
             UNCHANGED <<state, lastCommand, real>>,
             r # "handshake-failed" => r = Deadline(reason, state, clock, lastCommand, clock)
      PROVE  Inv'
    <2>1. r = NoReason /\ state = "established" => clock' - lastCommand < InactivityTimeout
        BY <1>3, DeadlineOpen DEF Take, NoReason
    <2>2. AskedOnce'
        BY <1>3, LoopType DEF Take, AskedOnce
    <2>3. at = "read" /\ UNCHANGED <<nvda, record>>
        BY <1>3 DEF Take
    <2> QED
        BY <1>3, <2>1, <2>2, <2>3, TurnKeepsInv DEF IdleWatched
<1>4. Deadline(reason, state, clock, lastCommand, clock) \in Reasons \cup {NoReason}
    BY DeadlineType
<1>5. "handshake-failed" \in Reasons
    BY DEF Reasons
<1>6. CASE ReadGarbage
    BY <1>3, <1>4, <1>5, <1>6 DEF ReadGarbage
<1>7. CASE ReadTurnedAway
    BY <1>3, <1>4, <1>5, <1>7 DEF ReadTurnedAway
<1> QED
    BY <1>1, <1>2, <1>6, <1>7

LEMMA CommandKeepsInv == ASSUME Inv, TypeOK', ReadCommand PROVE Inv'
<1> USE DEF Inv, nvda, record, watchdogs, peerVars, history
<1>1. PICK cmd \in Commands :
          /\ Take(cmd) /\ ~TurnedAway(cmd)
          /\ lastMessage' = clock
          /\ lastCommand' = IF ResetsInactivity(cmd) THEN clock ELSE lastCommand
          /\ real' = IF cmd # "ping" THEN clock ELSE real
          /\ current' = cmd /\ at' = "execute" /\ UNCHANGED <<state, reason, reply>>
    BY DEF ReadCommand, Touch
<1> USE <1>1 DEF Take
<1>2. LoopHasNoReason' /\ HelloReachable'
    BY DEF LoopHasNoReason, HelloReachable, LoopPlaces
<1>3. TornDownSoFar'
    BY DEF TornDownSoFar, Behind
<1>4. RightSide'
    BY DEF RightSide, TurnedAway, Commands, NoLine, AvailableBeforeHello, ResetsInactivity, TypeOK
<1>5. IdleWatched'
    BY DEF IdleWatched, ResetsInactivity
<1>6. AskedOnce'
    BY DEF AskedOnce, TypeOK
<1> QED
    BY <1>2, <1>3, <1>4, <1>5, <1>6

\* The reply of a handler that is not a hello which succeeds.
LEMMA ReplyKeepsInv ==
    ASSUME Inv, TypeOK', at = "execute",
           NEW elapsed \in Waits, NEW ok \in BOOLEAN, Reply(ok, elapsed),
           UNCHANGED <<state, watchdogs, nvda, record, history>>,
           external # NoReason => external' # NoReason
    PROVE  Inv'
<1> USE DEF Inv, TypeOK, watchdogs, history
<1> DEFINE r == IF state = "pre-hello" /\ ~ok THEN "handshake-failed"
                ELSE Deadline(reason, state', lastMessage, lastCommand, clock')
<1>1. r \in Reasons \cup {NoReason}
    BY DeadlineType DEF Reasons
<1>2. Loop(r)
    BY DEF Reply
<1>3. r = NoReason /\ state = "established" => clock' - lastCommand' < InactivityTimeout
    BY DeadlineOpen
<1>4. AskedOnce'
    BY <1>1, <1>2, LoopType DEF AskedOnce
<1> HIDE DEF r
<1> QED
    BY <1>1, <1>2, <1>3, <1>4, TurnKeepsInv DEF IdleWatched, LoopPlaces

LEMMA HelloKeepsInv == ASSUME Inv, TypeOK', Hello PROVE Inv'
<1> USE DEF Inv, TypeOK, watchdogs, peerVars, history
<1>1. PICK done \in 0 .. 5, mode \in Modes, level \in {"users", "raised"}, elapsed \in Waits :
          HelloUpTo(done, mode, level, elapsed)
    BY DEF Hello
<1> DEFINE r == IF state = "pre-hello" /\ done # 5 THEN "handshake-failed"
                ELSE Deadline(reason, state', lastMessage, lastCommand, clock')
<1>2. at = "execute" /\ state = "pre-hello" /\ cues = "none" /\ reason = NoReason
    BY DEF Hello, RightSide, AvailableBeforeHello, TornDownSoFar, LoopHasNoReason, LoopPlaces
<1>3. r \in Reasons \cup {NoReason} /\ Loop(r)
    BY <1>1, DeadlineType DEF HelloUpTo, HandOver, Reply, Reasons
<1>4. r = NoReason /\ state' = "established" => clock' - lastCommand < InactivityTimeout
    <2> SUFFICES ASSUME r = NoReason, state' = "established"
                 PROVE  clock' - lastCommand < InactivityTimeout
        OBVIOUS
    <2>1. Deadline(reason, state', lastMessage, lastCommand, clock') = NoReason
        BY DEF NoReason
    <2> QED
        BY <2>1, DeadlineOpen
<1>5. r = NoReason => done = 5
    BY <1>2 DEF NoReason
<1> HIDE DEF r
<1>6. /\ at' \in {"absorb", "capture"} /\ (at' \in LoopPlaces <=> reason' = NoReason)
      /\ reason' = r
    BY <1>3, LoopType DEF Loop
<1>7. done = 5 => capture' /\ adapters' /\ braille'
    <2>1. done = 5 => done >= 1 /\ done >= 2 /\ done >= 4
        OBVIOUS
    <2>2. capture' = (done >= 1) /\ adapters' = (done >= 2) /\ braille' = (done >= 4)
        BY <1>1 DEF HelloUpTo, HandOver
    <2> QED
        BY <2>1, <2>2, Zenon
<1>8. filter' \/ braille' => adapters'
    BY <1>1 DEF HelloUpTo, HandOver
<1>9. capture' \/ logLevel' = "users"
    <2>1. CASE done >= 1
        BY <1>1, <2>1 DEF HelloUpTo, HandOver
    <2>2. CASE done = 0
        <3>1. logLevel' = logLevel
            BY <1>1, <2>2 DEF HelloUpTo, HandOver
        <3>2. logLevel = "users"
            BY <1>2 DEF HelloReachable, LoopPlaces
        <3> QED
            BY <3>1, <3>2
    <2> QED
        BY <2>1, <2>2
<1>10. state' = "established" <=> done = 5
    BY <1>1, <1>2 DEF HelloUpTo, HandOver
<1>11. cues' = IF done = 5 THEN "up" ELSE "none"
    BY <1>1, <1>2 DEF HelloUpTo, HandOver
<1>12. HelloReachable'
    BY <1>5, <1>6, <1>7, <1>8, <1>9, <1>10 DEF HelloReachable
<1>13. LoopHasNoReason' /\ TornDownSoFar'
    BY <1>6, <1>10, <1>11 DEF LoopHasNoReason, TornDownSoFar, Behind
<1>14. RightSide' /\ IdleWatched'
    <2>1. reason' = NoReason => r = NoReason
        BY <1>6
    <2>2. UNCHANGED <<lastCommand, real>>
        BY DEF Hello
    <2>3. RightSide'
        BY <1>6 DEF RightSide
    <2>4. IdleWatched'
        BY <1>4, <1>6, <2>1, <2>2 DEF IdleWatched, LoopPlaces
    <2> QED
        BY <2>3, <2>4
<1>15. AskedOnce'
    BY <1>6 DEF Hello, AskedOnce
<1> QED
    BY <1>12, <1>13, <1>14, <1>15

LEMMA ExecuteKeepsInv == ASSUME Inv, TypeOK', Execute PROVE Inv'
<1> USE DEF Inv
<1>1. CASE Hello
    BY <1>1, HelloKeepsInv
<1>2. CASE Serve
    <2>1. (current \in {"ping", "query"}) \in BOOLEAN /\ 0 \in Waits
        BY WindowAssumption
    <2> QED
        BY <1>2, <2>1, ReplyKeepsInv DEF Serve
<1>3. CASE ServeWait
    BY <1>3, ReplyKeepsInv DEF ServeWait
<1>4. CASE Bye
    BY <1>4, ReplyKeepsInv, WindowAssumption DEF Bye, NoReason
<1> QED
    BY <1>1, <1>2, <1>3, <1>4 DEF Execute

LEMMA TearDownKeepsInv == ASSUME Inv, TypeOK', TearDown PROVE Inv'
<1> USE DEF Inv, Step, StepAfter, tornDownAlone, nvda, record, watchdogs, peerVars, history
<1>1. at \notin LoopPlaces /\ at' \notin LoopPlaces /\ UNCHANGED <<reason, state>>
    BY DEF TearDown, StopCapture, StopSpeech, StopBraille, CloseTranscript, EndCue,
        CloseChannel, LoopPlaces
<1>2. LoopHasNoReason'
    BY <1>1 DEF LoopHasNoReason
<1>3. (RightSide /\ IdleWatched /\ AskedOnce)'
    <2>1. UNCHANGED <<lastCommand, real, late, external>>
        BY DEF TearDown, StopCapture, StopSpeech, StopBraille, CloseTranscript, EndCue,
            CloseChannel
    <2> QED
        BY <1>1, <2>1 DEF RightSide, IdleWatched, AskedOnce, LoopPlaces
<1>4. HelloReachable'
    <2>1. (filter' => filter) /\ (braille' => braille) /\ UNCHANGED adapters
        <3>1. CASE StopSpeech
            BY <3>1, Zenon DEF StopSpeech
        <3>2. CASE StopBraille
            BY <3>2, Zenon DEF StopBraille
        <3>3. CASE StopCapture \/ CloseTranscript \/ EndCue \/ CloseChannel
            BY <3>3 DEF StopCapture, CloseTranscript, EndCue, CloseChannel
        <3> QED
            BY <3>1, <3>2, <3>3 DEF TearDown
    <2>2. capture' \/ logLevel' = "users"
        BY DEF TearDown, StopCapture, StopSpeech, StopBraille, CloseTranscript, EndCue,
            CloseChannel, HelloReachable
    <2> QED
        BY <1>1, <2>1, <2>2 DEF HelloReachable
<1>5. TornDownSoFar'
    <2> USE DEF TornDownSoFar, Behind
    <2>1. CASE StopCapture
        BY <2>1 DEF StopCapture
    <2>2. CASE StopSpeech
        BY <2>2 DEF StopSpeech, HelloReachable
    <2>3. CASE StopBraille
        BY <2>3 DEF StopBraille, HelloReachable
    <2>4. CASE CloseTranscript
        BY <2>4 DEF CloseTranscript
    <2>5. CASE EndCue
        BY <2>5 DEF EndCue
    <2>6. CASE CloseChannel
        BY <2>6 DEF CloseChannel
    <2> QED
        BY <2>1, <2>2, <2>3, <2>4, <2>5, <2>6 DEF TearDown
<1> QED
    BY <1>2, <1>3, <1>4, <1>5

\* The peer, the other threads, and a step that changes nothing.
LEMMA WorldKeepsInv ==
    ASSUME Inv, TypeOK',
           \/ \E line \in Lines : Send(line)
           \/ PeerCloses \/ RequestTeardown \/ Ended \/ UNCHANGED vars
    PROVE  Inv'
<1> USE DEF Inv
<1>1. /\ UNCHANGED sessionVars
      /\ external # NoReason => external' # NoReason
    BY DEF Send, PeerCloses, RequestTeardown, Ended, vars, sessionVars, watchdogs, nvda,
        record, history, peerVars, NoReason
<1> USE <1>1 DEF sessionVars, watchdogs, nvda, record, history
<1>2. (LoopHasNoReason /\ HelloReachable /\ TornDownSoFar)'
    BY DEF LoopHasNoReason, HelloReachable, TornDownSoFar
<1>3. (RightSide /\ IdleWatched /\ AskedOnce)'
    BY DEF RightSide, IdleWatched, AskedOnce
<1> QED
    BY <1>2, <1>3

LEMMA InvStep == Inv /\ [Next]_vars => Inv'
<1> SUFFICES ASSUME Inv, [Next]_vars PROVE Inv'
    OBVIOUS
<1>1. TypeOK'
    BY TypeStep
<1> QED
    BY <1>1, AbsorbKeepsInv, ReadKeepsInv, CommandKeepsInv, ExecuteKeepsInv, TearDownKeepsInv,
        WorldKeepsInv
    DEF Next, Run, Read

-----------------------------------------------------------------------------
\* The inductive invariant holds of every session.
THEOREM Invariance == Spec => []Inv
<1> QED
    BY InitInv, InvStep, PTL DEF Spec

\* However a session ends and however far hello got, NVDA speaks again: the
\* teardown reaches the speech source by the adapters, which hello sets first.
THEOREM SpeechRestoredHolds == Spec => []SpeechRestored
<1>1. Inv => SpeechRestored
    BY DEF Inv, TornDownSoFar, Behind, SpeechRestored
<1> QED
    BY <1>1, Invariance, PTL

\* A session that is over holds nothing of NVDA's, but for the log's level if a
\* log file would not close.
THEOREM AllReleasedHolds == Spec => []AllReleased
<1>1. Inv => AllReleased
    BY DEF Inv, TornDownSoFar, Behind, HelloReachable, AllReleased, TypeOK
<1> QED
    BY <1>1, Invariance, PTL

\* No command but hello runs in a session hello did not build to the end.
THEOREM ServedWholeHolds == Spec => []ServedWhole
<1>1. Inv => ServedWhole
    BY DEF Inv, RightSide, HelloReachable, AvailableBeforeHello, LoopPlaces, ServedWhole, TypeOK
<1> QED
    BY <1>1, Invariance, PTL

\* Pings do not keep a session alive past the inactivity window.
THEOREM IdleBoundedHolds == Spec => []IdleBounded
<1>1. Inv => IdleBounded
    BY DEF Inv, IdleWatched, IdleBounded
<1> QED
    BY <1>1, Invariance, PTL

\* A request to end from another thread lets at most one more line be read.
THEOREM RequestPromptHolds == Spec => []RequestPrompt
<1>1. Inv => RequestPrompt
    BY DEF Inv, AskedOnce, RequestPrompt
<1> QED
    BY <1>1, Invariance, PTL

-----------------------------------------------------------------------------
(***************************************************************************)
(* How long NVDA can be mute on behalf of a silent peer.  What is assumed  *)
(* is that some longest wait exists: the model then charges each queued    *)
(* line one turn, and the last of them one heartbeat window.               *)
(***************************************************************************)

\* What k lines cost, at the rate of the slowest turn the session survives.
Cost(k) == k * Turn

\* The most any silence can come to.
Limit == QueueLimit * LongestWait + HeartbeatTimeout

BoundedWaits == \E w \in Waits : \A v \in Waits : v <= w

LEMMA TurnFacts ==
    ASSUME BoundedWaits
    PROVE  /\ LongestWait \in Nat /\ Turn \in Nat
           /\ \A v \in Waits : v \in Nat /\ v <= LongestWait
           /\ Turn <= LongestWait /\ Turn <= HeartbeatTimeout
           /\ Turn = LongestWait \/ Turn = HeartbeatTimeout
<1>1. LongestWait \in Waits /\ \A v \in Waits : v <= LongestWait
    BY DEF BoundedWaits, LongestWait
<1> QED
    BY <1>1, WindowAssumption DEF Turn

\* A line costs one turn, and more lines cost no less.
LEMMA CostOfLines ==
    ASSUME BoundedWaits
    PROVE  /\ \A k \in Nat : Cost(k) \in Nat
           /\ \A k \in Nat : Cost(k + 1) = Cost(k) + Turn
           /\ \A j, k \in Nat : j <= k => Cost(j) <= Cost(k)
<1>1. Turn \in Nat
    BY TurnFacts
<1>2. \A k \in Nat : Cost(k) \in Nat
    BY <1>1 DEF Cost
<1>3. \A k \in Nat : Cost(k + 1) = Cost(k) + Turn
    BY <1>1 DEF Cost
<1>4. ASSUME NEW j \in Nat, NEW k \in Nat, j <= k PROVE Cost(j) <= Cost(k)
    <2>1. (k - j) \in Nat /\ (k - j) * Turn \in Nat
        BY <1>1, <1>4
    <2>2. k * Turn = j * Turn + (k - j) * Turn
        BY <1>1
    <2> QED
        BY <1>1, <2>1, <2>2 DEF Cost
<1> QED
    BY <1>2, <1>3, <1>4

\* The whole queue and one more window, or with a queue at all one more wait,
\* stay within the limit.
LEMMA CostWithinLimit ==
    ASSUME BoundedWaits
    PROVE  /\ Limit \in Nat
           /\ Cost(QueueLimit) + HeartbeatTimeout <= Limit
           /\ QueueLimit > 0 => Cost(QueueLimit) + LongestWait <= Limit
<1> DEFINE L == LongestWait
           H == HeartbeatTimeout
           Q == QueueLimit
<1>1. L \in Nat /\ H \in Nat /\ Q \in Nat /\ Turn \in Nat /\ Turn <= L
    BY TurnFacts, WindowAssumption, PeerAssumption
<1>2. Q * L \in Nat /\ Q * Turn \in Nat
    BY <1>1
<1>3. Q * Turn <= Q * L
    <2>1. (L - Turn) \in Nat /\ Q * (L - Turn) \in Nat
        BY <1>1
    <2>2. Q * L = Q * Turn + Q * (L - Turn)
        BY <1>1
    <2> QED
        BY <1>1, <1>2, <2>1, <2>2
<1>4. ASSUME Q > 0 PROVE Q * Turn + L <= Q * L + H
    <2>1. CASE Turn = L
        <3>1. L <= H
            BY <2>1, TurnFacts
        <3> QED
            BY <1>1, <1>2, <2>1, <3>1
    <2>2. CASE Turn = H
        <3>1. (Q - 1) \in Nat /\ (L - H) \in Nat
            BY <1>1, <1>4, <2>2
        <3>2. (Q - 1) * (L - H) \in Nat
            BY <3>1
        <3>3. Q * L + H = Q * H + L + (Q - 1) * (L - H)
            BY <1>1
        <3> QED
            BY <1>1, <1>2, <2>2, <3>2, <3>3
    <2> QED
        BY <2>1, <2>2, TurnFacts
<1> QED
    BY <1>1, <1>2, <1>3, <1>4 DEF Cost, Limit

\* SilenceSoFar in these terms.
LEMMA SilenceByCost ==
    SilenceSoFar <=>
        /\ Len(inbox) <= QueueLimit
        /\ lastMessage <= clock
        /\ at = "execute" =>
              QueueLimit > 0 /\ clock - arrived <= Cost(QueueLimit - Len(inbox))
        /\ at \in {"absorb", "read"} =>
              /\ clock - lastMessage < HeartbeatTimeout
              /\ inbox # <<>> => clock - arrived <= Cost(QueueLimit - Len(inbox) + 1)
        /\ lastMessage - arrived <= Cost(QueueLimit)
        /\ at \notin LoopPlaces => clock - arrived <= Limit
BY DEF SilenceSoFar, Cost, Limit

\* What the invariant says of the silence wherever the session is.
LEMMA SilenceAnywhere ==
    ASSUME BoundedWaits, TypeOK, SilenceSoFar
    PROVE  clock - arrived <= Limit
<1> USE DEF TypeOK
<1>1. Len(inbox) \in Nat /\ QueueLimit \in Nat /\ HeartbeatTimeout \in Nat
    BY PeerAssumption, WindowAssumption
<1>2. /\ Cost(QueueLimit) \in Nat /\ Limit \in Nat
      /\ Cost(QueueLimit) + HeartbeatTimeout <= Limit
    BY <1>1, CostOfLines, CostWithinLimit
<1>3. CASE at = "execute"
    <2>1. Len(inbox) <= QueueLimit /\ clock - arrived <= Cost(QueueLimit - Len(inbox))
        BY <1>3, SilenceByCost
    <2>2. QueueLimit - Len(inbox) \in Nat /\ QueueLimit - Len(inbox) <= QueueLimit
        BY <1>1, <2>1
    <2>3. Cost(QueueLimit - Len(inbox)) \in Nat
          /\ Cost(QueueLimit - Len(inbox)) <= Cost(QueueLimit)
        BY <1>1, <2>2, CostOfLines
    <2> QED
        BY <1>1, <1>2, <2>1, <2>3
<1>4. CASE at \in {"absorb", "read"}
    <2>1. clock - lastMessage < HeartbeatTimeout /\ lastMessage - arrived <= Cost(QueueLimit)
        BY <1>4, SilenceByCost
    <2> QED
        BY <1>1, <1>2, <2>1
<1>5. CASE at \notin LoopPlaces
    BY <1>5, SilenceByCost
<1> QED
    BY <1>3, <1>4, <1>5 DEF LoopPlaces

\* A check that finds no reason found the heartbeat window open.
LEMMA DeadlineAlive ==
    ASSUME NEW r, NEW st, NEW m \in Nat, NEW c \in Nat, NEW now \in Nat,
           Deadline(r, st, m, c, now) = NoReason
    PROVE  now - m < HeartbeatTimeout
BY WindowAssumption DEF Deadline, NoReason

\* A turn that goes on leaves room for the next one; a turn that does not has
\* kept NVDA mute no longer than the limit.
LEMMA TurnKeepsSilence ==
    ASSUME BoundedWaits, Inv, TypeOK', NEW r \in Reasons \cup {NoReason}, Loop(r),
           Len(inbox') <= QueueLimit, lastMessage' <= clock',
           lastMessage' - arrived' <= Cost(QueueLimit),
           r = NoReason => clock' - lastMessage' < HeartbeatTimeout,
           r = NoReason /\ inbox' # <<>> =>
               clock' - arrived' <= Cost(QueueLimit - Len(inbox') + 1),
           r # NoReason => clock' - arrived' <= Limit
    PROVE  SilenceSoFar'
<1>1. /\ reason' = r /\ at' \in {"absorb", "capture"}
      /\ (at' \in LoopPlaces <=> reason' = NoReason)
    BY LoopType DEF Loop
<1>2. at' # "execute"
    BY <1>1
<1>3. at' \in {"absorb", "read"} => r = NoReason
    BY <1>1 DEF LoopPlaces
<1>4. at' \notin LoopPlaces => r # NoReason
    BY <1>1
<1> QED
    BY <1>2, <1>3, <1>4 DEF SilenceSoFar, Cost, Limit

LEMMA LoopTurnKeepsSilence ==
    ASSUME BoundedWaits, Inv, SilenceSoFar, TypeOK', Absorb \/ Poll \/ ReadClosed
    PROVE  SilenceSoFar'
<1> USE DEF Inv, TypeOK, watchdogs, nvda, record, peerVars, history
<1>1. /\ Len(inbox) \in Nat /\ QueueLimit \in Nat /\ HeartbeatTimeout \in Nat
      /\ Cost(QueueLimit) \in Nat /\ Limit \in Nat
      /\ Cost(QueueLimit) + HeartbeatTimeout <= Limit
    BY PeerAssumption, WindowAssumption, CostOfLines, CostWithinLimit
<1>2. clock - arrived <= Limit
    BY SilenceAnywhere
<1>3. /\ Len(inbox) <= QueueLimit /\ lastMessage <= clock
      /\ lastMessage - arrived <= Cost(QueueLimit)
    BY SilenceByCost
<1>4. CASE Absorb
    <2>1. UNCHANGED <<clock, arrived, lastMessage, inbox>> /\ at = "absorb"
          /\ at' \in {"read", "capture"}
        BY <1>4 DEF Absorb
    <2> QED
        BY <1>2, <2>1 DEF SilenceSoFar, Limit, LoopPlaces
<1>5. CASE Poll
    <2> DEFINE r == Deadline(reason, state, lastMessage, lastCommand, clock')
    <2>1. r \in Reasons \cup {NoReason} /\ Loop(r)
        BY <1>5, DeadlineType DEF Poll
    <2>2. /\ clock' = clock + 1 /\ UNCHANGED <<arrived, lastMessage, inbox>>
          /\ inbox = <<>> /\ at = "read"
        BY <1>5 DEF Poll
    <2>3. r = NoReason => clock' - lastMessage' < HeartbeatTimeout
        BY <2>2, DeadlineAlive
    <2>4. clock' - arrived' <= Limit
        <3>1. clock - lastMessage < HeartbeatTimeout
            BY <2>2, SilenceByCost
        <3> QED
            BY <1>1, <1>3, <2>2, <3>1
    <2> HIDE DEF r
    <2>5. lastMessage' <= clock' /\ lastMessage' - arrived' <= Cost(QueueLimit)
          /\ Len(inbox') <= QueueLimit /\ inbox' = <<>>
        BY <1>3, <2>2
    <2> QED
        BY <2>1, <2>3, <2>4, <2>5, TurnKeepsSilence
<1>6. CASE ReadClosed
    <2>1. "channel-closed" \in Reasons \cup {NoReason} /\ "channel-closed" # NoReason
        BY DEF Reasons, NoReason
    <2>2. Loop("channel-closed") /\ UNCHANGED <<clock, arrived, lastMessage, inbox>>
        BY <1>6 DEF ReadClosed
    <2> QED
        BY <1>2, <1>3, <2>1, <2>2, TurnKeepsSilence
<1> QED
    BY <1>4, <1>5, <1>6

\* Taking a line off the queue frees one turn of the budget.
LEMMA TakeSpends ==
    ASSUME BoundedWaits, Inv, SilenceSoFar, TypeOK', NEW line, Take(line)
    PROVE  /\ Len(inbox') <= QueueLimit /\ QueueLimit > 0
           /\ UNCHANGED <<clock, arrived>> /\ lastMessage <= clock
           /\ lastMessage - arrived <= Cost(QueueLimit)
           /\ clock - arrived <= Cost(QueueLimit - Len(inbox'))
           /\ clock - arrived <= Cost(QueueLimit - Len(inbox') + 1)
           /\ clock - arrived <= Cost(QueueLimit)
           /\ clock - arrived <= Limit
<1> USE DEF Inv, TypeOK
<1>1. /\ at = "read" /\ inbox # <<>> /\ inbox' = Tail(inbox)
      /\ UNCHANGED <<clock, arrived>>
    BY DEF Take
<1>2. Len(inbox) \in Nat /\ Len(inbox) > 0 /\ Len(inbox') = Len(inbox) - 1
    BY <1>1
<1>3. /\ Len(inbox) <= QueueLimit /\ lastMessage <= clock
      /\ lastMessage - arrived <= Cost(QueueLimit)
      /\ clock - arrived <= Cost(QueueLimit - Len(inbox) + 1)
    BY <1>1, SilenceByCost
<1> DEFINE j == QueueLimit - Len(inbox')
<1>4. /\ QueueLimit \in Nat /\ QueueLimit > 0
      /\ j \in Nat /\ j <= QueueLimit
      /\ j = QueueLimit - Len(inbox) + 1
    <2>1. QueueLimit \in Nat
        BY PeerAssumption
    <2> DEFINE n == Len(inbox)
               m == Len(inbox')
    <2>2. n \in Nat /\ n > 0 /\ m = n - 1 /\ n <= QueueLimit
        BY <1>2, <1>3
    <2> HIDE DEF n, m
    <2>3. /\ QueueLimit > 0 /\ QueueLimit - m \in Nat /\ QueueLimit - m <= QueueLimit
          /\ QueueLimit - m = QueueLimit - n + 1
        BY <2>1, <2>2
    <2> QED
        BY <2>1, <2>3 DEF n, m
<1>5. /\ Cost(j) \in Nat /\ Cost(j + 1) \in Nat /\ Cost(QueueLimit) \in Nat
      /\ Cost(j) <= Cost(j + 1) /\ Cost(j) <= Cost(QueueLimit)
    <2>1. j + 1 \in Nat /\ j <= j + 1
        BY <1>4
    <2> HIDE DEF j
    <2> QED
        BY <1>4, <2>1, CostOfLines
<1>6. clock - arrived <= Cost(j)
    BY <1>3, <1>4
<1>7. clock - arrived <= Limit
    BY SilenceAnywhere
<1> HIDE DEF j
<1>8. clock - arrived <= Cost(j + 1) /\ clock - arrived <= Cost(QueueLimit)
    BY <1>5, <1>6
<1>9. Len(inbox') <= QueueLimit
    BY <1>2, <1>3, <1>4
<1> QED
    BY <1>1, <1>3, <1>4, <1>6, <1>7, <1>8, <1>9 DEF j

LEMMA ReadKeepsSilence ==
    ASSUME BoundedWaits, Inv, SilenceSoFar, TypeOK',
           ReadGarbage \/ ReadTurnedAway \/ ReadCommand
    PROVE  SilenceSoFar'
<1> USE DEF Inv, TypeOK
<1>1. ASSUME NEW line, Take(line), NEW r \in Reasons \cup {NoReason}, Loop(r),
             lastMessage' = clock \/ (lastMessage' = lastMessage /\ r # NoReason)
      PROVE  SilenceSoFar'
    <2>1. r = NoReason => clock' - lastMessage' < HeartbeatTimeout
        BY <1>1, WindowAssumption DEF Take
    <2>2. /\ Len(inbox') <= QueueLimit /\ UNCHANGED <<clock, arrived>>
          /\ lastMessage <= clock /\ lastMessage - arrived <= Cost(QueueLimit)
          /\ clock - arrived <= Cost(QueueLimit - Len(inbox') + 1)
          /\ clock - arrived <= Cost(QueueLimit) /\ clock - arrived <= Limit
        BY <1>1, TakeSpends
    <2>3. lastMessage' <= clock' /\ lastMessage' - arrived' <= Cost(QueueLimit)
        <3>1. CASE lastMessage' = clock
            BY <2>2, <3>1
        <3>2. CASE lastMessage' = lastMessage
            BY <2>2, <3>2
        <3> QED
            BY <1>1, <3>1, <3>2
    <2>4. /\ clock' - arrived' <= Cost(QueueLimit - Len(inbox') + 1)
          /\ clock' - arrived' <= Limit
        BY <2>2
    <2> QED
        BY <1>1, <2>1, <2>2, <2>3, <2>4, TurnKeepsSilence
<1>2. Deadline(reason, state, clock, lastCommand, clock) \in Reasons \cup {NoReason}
    BY DeadlineType
<1>3. "handshake-failed" \in Reasons /\ "handshake-failed" # NoReason
    BY DEF Reasons, NoReason
<1>4. CASE ReadGarbage
    BY <1>1, <1>2, <1>3, <1>4 DEF ReadGarbage
<1>5. CASE ReadTurnedAway
    BY <1>1, <1>2, <1>3, <1>5 DEF ReadTurnedAway
<1>6. CASE ReadCommand
    <2>1. PICK cmd \in Commands : Take(cmd) /\ Touch(cmd) /\ at' = "execute"
        BY <1>6 DEF ReadCommand
    <2>2. lastMessage' = clock
        BY <2>1 DEF Touch
    <2>3. /\ Len(inbox') <= QueueLimit /\ QueueLimit > 0 /\ UNCHANGED <<clock, arrived>>
          /\ clock - arrived <= Cost(QueueLimit - Len(inbox'))
          /\ clock - arrived <= Cost(QueueLimit)
        BY <2>1, TakeSpends
    <2>4. /\ at' = "execute" /\ "execute" \in LoopPlaces /\ "execute" \notin {"absorb", "read"}
          /\ lastMessage' <= clock'
        BY <2>1, <2>2, <2>3 DEF LoopPlaces
    <2> QED
        BY <2>2, <2>3, <2>4 DEF SilenceSoFar, Cost
<1> QED
    BY <1>4, <1>5, <1>6

\* A handler after which the session goes on took one turn at most; one after
\* which it does not took the longest wait at most.
LEMMA ReplyKeepsSilence ==
    ASSUME BoundedWaits, Inv, SilenceSoFar, TypeOK', at = "execute",
           NEW elapsed \in Waits, NEW ok \in BOOLEAN, Reply(ok, elapsed),
           UNCHANGED <<lastMessage, arrived, inbox>>
    PROVE  SilenceSoFar'
<1> USE DEF Inv, TypeOK
<1> DEFINE r == IF state = "pre-hello" /\ ~ok THEN "handshake-failed"
                ELSE Deadline(reason, state', lastMessage, lastCommand, clock')
           j == QueueLimit - Len(inbox)
<1>1. r \in Reasons \cup {NoReason} /\ Loop(r)
    BY DeadlineType DEF Reasons, Reply
<1>2. /\ elapsed \in Nat /\ elapsed <= LongestWait /\ LongestWait \in Nat
      /\ elapsed < HeartbeatTimeout => elapsed <= Turn
      /\ HeartbeatTimeout \in Nat /\ Turn \in Nat
    BY TurnFacts, WindowAssumption
<1>3. clock' = clock + elapsed /\ lastMessage = clock
    BY DEF Reply, RightSide
<1>4. r = NoReason => clock' - lastMessage' < HeartbeatTimeout
    <2>1. r = NoReason => Deadline(reason, state', lastMessage, lastCommand, clock') = NoReason
        BY DEF NoReason
    <2> QED
        BY <2>1, DeadlineAlive
<1> HIDE DEF r
<1>5. /\ Len(inbox) \in Nat /\ Len(inbox) <= QueueLimit /\ QueueLimit > 0
      /\ clock - arrived <= Cost(QueueLimit - Len(inbox))
      /\ lastMessage - arrived <= Cost(QueueLimit)
    BY SilenceByCost
<1>6. j \in Nat /\ j <= QueueLimit /\ QueueLimit \in Nat
    BY <1>5, PeerAssumption
<1>7. clock - arrived <= Cost(j)
    BY <1>5
<1> HIDE DEF j
<1>8. /\ Cost(j) \in Nat /\ Cost(QueueLimit) \in Nat /\ Cost(j) <= Cost(QueueLimit)
      /\ Cost(j + 1) = Cost(j) + Turn
      /\ Limit \in Nat /\ Cost(QueueLimit) + LongestWait <= Limit
    BY <1>5, <1>6, CostOfLines, CostWithinLimit
<1>9. r = NoReason => clock' - arrived' <= Cost(j + 1)
    BY <1>2, <1>3, <1>4, <1>7, <1>8
<1>10. clock' - arrived' <= Limit
    BY <1>2, <1>3, <1>7, <1>8
<1>11. lastMessage' <= clock'
    BY <1>2, <1>3
<1>12. Len(inbox') <= QueueLimit /\ lastMessage' - arrived' <= Cost(QueueLimit)
    BY <1>5
<1>13. r = NoReason => clock' - arrived' <= Cost(QueueLimit - Len(inbox') + 1)
    BY <1>9 DEF j
<1> QED
    BY <1>1, <1>4, <1>10, <1>11, <1>12, <1>13, TurnKeepsSilence

LEMMA ExecuteKeepsSilence ==
    ASSUME BoundedWaits, Inv, SilenceSoFar, TypeOK', Execute
    PROVE  SilenceSoFar'
<1> USE DEF watchdogs, peerVars
<1>1. CASE Hello
    <2>1. PICK done \in 0 .. 5, mode \in Modes, level \in {"users", "raised"},
               elapsed \in Waits : HelloUpTo(done, mode, level, elapsed)
        BY <1>1 DEF Hello
    <2>2. Reply(done = 5, elapsed) /\ (done = 5) \in BOOLEAN
        BY <2>1 DEF HelloUpTo, HandOver
    <2> QED
        BY <1>1, <2>2, ReplyKeepsSilence DEF Hello
<1>2. CASE Serve
    <2>1. (current \in {"ping", "query"}) \in BOOLEAN /\ 0 \in Waits
        BY WindowAssumption
    <2> QED
        BY <1>2, <2>1, ReplyKeepsSilence DEF Serve
<1>3. CASE ServeWait
    BY <1>3, ReplyKeepsSilence DEF ServeWait
<1>4. CASE Bye
    BY <1>4, ReplyKeepsSilence, WindowAssumption DEF Bye
<1> QED
    BY <1>1, <1>2, <1>3, <1>4 DEF Execute

LEMMA TearDownKeepsSilence ==
    ASSUME BoundedWaits, Inv, SilenceSoFar, TypeOK', TearDown
    PROVE  SilenceSoFar'
<1>1. at \notin LoopPlaces /\ at' \notin LoopPlaces
    BY DEF TearDown, StopCapture, StopSpeech, StopBraille, CloseTranscript, EndCue,
        CloseChannel, Step, StepAfter, LoopPlaces
<1>2. UNCHANGED <<clock, lastMessage, arrived, inbox>>
    BY DEF TearDown, StopCapture, StopSpeech, StopBraille, CloseTranscript, EndCue,
        CloseChannel, tornDownAlone, watchdogs, peerVars
<1> QED
    BY <1>1, <1>2 DEF SilenceSoFar, LoopPlaces

\* A line that arrives starts the count anew; lines lost with their peer only
\* shorten the queue.
LEMMA WorldKeepsSilence ==
    ASSUME BoundedWaits, Inv, SilenceSoFar, TypeOK',
           \/ \E line \in Lines : Send(line)
           \/ PeerCloses \/ RequestTeardown \/ Ended \/ UNCHANGED vars
    PROVE  SilenceSoFar'
<1> USE DEF Inv, TypeOK, sessionVars, watchdogs, peerVars
<1>1. Len(inbox) \in Nat /\ QueueLimit \in Nat
    BY PeerAssumption
<1>2. ASSUME NEW line \in Lines, Send(line) PROVE SilenceSoFar'
    <2>1. /\ Len(inbox) < QueueLimit /\ Len(inbox') = Len(inbox) + 1
          /\ arrived' = clock /\ UNCHANGED <<at, clock, lastMessage>>
        BY <1>2 DEF Send
    <2> DEFINE j == QueueLimit - Len(inbox')
    <2>2. j \in Nat /\ j + 1 \in Nat
        BY <1>1, <2>1
    <2>3. lastMessage <= clock
        BY SilenceByCost
    <2>4. /\ clock' - arrived' = 0 /\ lastMessage' - arrived' \in Int
          /\ lastMessage' - arrived' <= 0
        BY <2>1, <2>3
    <2> HIDE DEF j
    <2>5. /\ Cost(j) \in Nat /\ Cost(j + 1) \in Nat /\ Cost(QueueLimit) \in Nat
          /\ Limit \in Nat
        BY <1>1, <2>2, CostOfLines, CostWithinLimit
    <2>6. /\ clock' - arrived' <= Cost(j) /\ clock' - arrived' <= Cost(j + 1)
          /\ lastMessage' - arrived' <= Cost(QueueLimit)
          /\ clock' - arrived' <= Limit
        <3>1. \A c \in Nat : \A d \in Int : d <= 0 => d <= c
            OBVIOUS
        <3>2. clock' - arrived' \in Int
            BY <2>4
        <3> HIDE DEF TypeOK
        <3> QED
            BY <2>4, <2>5, <3>1, <3>2
    <2>7. /\ clock' - arrived' <= (QueueLimit - Len(inbox')) * Turn
          /\ clock' - arrived' <= (QueueLimit - Len(inbox') + 1) * Turn
          /\ lastMessage' - arrived' <= QueueLimit * Turn
          /\ clock' - arrived' <= QueueLimit * LongestWait + HeartbeatTimeout
        BY <2>6 DEF j, Cost, Limit
    <2>8. at \in {"absorb", "read"} => clock - lastMessage < HeartbeatTimeout
        BY SilenceByCost
    <2>9. Len(inbox') <= QueueLimit /\ QueueLimit > 0 /\ lastMessage' <= clock'
        BY <1>1, <2>1, <2>3
    <2> QED
        BY <2>1, <2>7, <2>8, <2>9 DEF SilenceSoFar
<1>3. CASE PeerCloses
    <2>1. UNCHANGED <<at, clock, lastMessage, arrived>> /\ (inbox' = inbox \/ inbox' = <<>>)
        BY <1>3, Zenon DEF PeerCloses
    <2>2. CASE inbox' = inbox
        BY <2>1, <2>2 DEF SilenceSoFar
    <2>3. CASE inbox' = <<>>
        <3>1. Len(inbox') = 0 /\ Len(inbox) <= QueueLimit
            BY <2>3, SilenceByCost
        <3>2. /\ QueueLimit - Len(inbox) \in Nat /\ QueueLimit - Len(inbox) <= QueueLimit
              /\ QueueLimit - Len(inbox') = QueueLimit
            BY <1>1, <3>1
        <3>3. /\ Cost(QueueLimit - Len(inbox)) <= Cost(QueueLimit)
              /\ Cost(QueueLimit - Len(inbox)) \in Nat /\ Cost(QueueLimit) \in Nat
            BY <1>1, <3>2, CostOfLines
        <3>4. at = "execute" => clock - arrived <= Cost(QueueLimit - Len(inbox'))
            <4>1. at = "execute" => clock - arrived <= Cost(QueueLimit - Len(inbox))
                BY SilenceByCost
            <4> QED
                BY <3>2, <3>3, <4>1
        <3>5. at = "execute" => clock' - arrived' <= (QueueLimit - Len(inbox')) * Turn
            BY <2>1, <3>4 DEF Cost
        <3> QED
            BY <1>1, <2>1, <2>3, <3>1, <3>5 DEF SilenceSoFar
    <2> QED
        BY <2>1, <2>2, <2>3
<1>4. CASE RequestTeardown \/ Ended \/ UNCHANGED vars
    <2>1. UNCHANGED <<at, clock, lastMessage, arrived, inbox>>
        BY <1>4 DEF RequestTeardown, Ended, vars
    <2> QED
        BY <2>1 DEF SilenceSoFar
<1> QED
    BY <1>2, <1>3, <1>4

\* Speech is not suppressed for long on behalf of a silent peer: once its last
\* line arrived, NVDA is mute for at most the lines it had queued, each as slow
\* as the slowest handler, and one heartbeat window. (session.py's watchdogs look
\* at the clock only between two lines.)
THEOREM SilenceBoundedHolds ==
    ASSUME \E w \in Waits : \A v \in Waits : v <= w
    PROVE  Spec => []SilenceBounded
<1>1. BoundedWaits
    BY DEF BoundedWaits
<1>2. Init => SilenceSoFar
    <2>1. Cost(QueueLimit) \in Nat /\ QueueLimit \in Nat /\ HeartbeatTimeout \in Nat \ {0}
        BY <1>1, CostOfLines, PeerAssumption, WindowAssumption
    <2> QED
        BY <2>1 DEF Init, SilenceSoFar, Cost, LoopPlaces
<1>3. Inv /\ SilenceSoFar /\ [Next]_vars => SilenceSoFar'
    BY <1>1, TypeStep, LoopTurnKeepsSilence, ReadKeepsSilence, ExecuteKeepsSilence,
        TearDownKeepsSilence, WorldKeepsSilence
    DEF Next, Run, Read
<1>4. Inv /\ SilenceSoFar => SilenceBounded
    BY <1>1, SilenceAnywhere DEF Inv, SilenceBounded, Limit
<1> QED
    BY <1>2, <1>3, <1>4, Invariance, PTL DEF Spec

-----------------------------------------------------------------------------
(***************************************************************************)
(* How long a handler may block.  The session measures the peer's silence  *)
(* after a handler has blocked the thread, from the moment its line was    *)
(* read: both theorems assume what the bridge does not enforce.            *)
(***************************************************************************)

\* The turn that ends a handler shorter than the window does not end the session
\* for the peer's silence.
LEMMA ShortReply ==
    ASSUME Inv, at = "execute", NEW elapsed \in Waits, elapsed < HeartbeatTimeout,
           NEW ok \in BOOLEAN, Reply(ok, elapsed), lastMessage' = lastMessage
    PROVE  reason' # "heartbeat-timeout"
<1> USE DEF Inv, TypeOK
<1>1. lastMessage = clock /\ reason = NoReason
    BY DEF RightSide, LoopHasNoReason, LoopPlaces
<1>2. clock' = clock + elapsed
    BY DEF Reply
<1>3. Deadline(reason, state', lastMessage, lastCommand, clock') # "heartbeat-timeout"
    BY <1>1, <1>2, WindowAssumption DEF Deadline, NoReason
<1> QED
    BY <1>3 DEF Reply, Loop

\* If every handler takes less than the heartbeat window, the watchdog measures
\* the peer's silence and nothing else: it never fires with a line waiting.
THEOREM HeartbeatHonestHolds ==
    ASSUME \A w \in Waits : w < HeartbeatTimeout
    PROVE  Spec => HeartbeatHonest
<1>1. Inv /\ [Next]_vars =>
          [reason = NoReason /\ reason' = "heartbeat-timeout" => inbox = <<>>]_vars
    <2> SUFFICES ASSUME Inv, Next, reason = NoReason, reason' = "heartbeat-timeout"
                 PROVE  inbox = <<>>
        BY DEF vars
    <2> USE DEF Inv, TypeOK, NoReason
    <2>1. ~Absorb
        BY DEF Absorb
    <2>2. CASE Poll \/ ReadClosed
        BY <2>2 DEF Poll, ReadClosed
    <2>3. Deadline(reason, state, clock, lastCommand, clock) # "heartbeat-timeout"
        BY WindowAssumption DEF Deadline
    <2>4. ~ReadGarbage /\ ~ReadTurnedAway /\ ~ReadCommand
        BY <2>3 DEF ReadGarbage, ReadTurnedAway, ReadCommand, Touch, Loop
    <2>5. ~Hello
        BY ShortReply DEF Hello, HelloUpTo, HandOver, watchdogs
    <2>6. ~Serve /\ ~Bye
        <3>1. 0 \in Waits /\ 0 < HeartbeatTimeout /\ TRUE \in BOOLEAN
              /\ (current \in {"ping", "query"}) \in BOOLEAN
            BY WindowAssumption
        <3> QED
            BY <3>1, ShortReply DEF Serve, Bye, watchdogs
    <2>7. ~ServeWait
        BY ShortReply DEF ServeWait, watchdogs
    <2>8. ~TearDown
        BY DEF TearDown, StopCapture, StopSpeech, StopBraille, CloseTranscript, EndCue,
            CloseChannel, tornDownAlone
    <2>9. /\ \A line \in Lines : ~Send(line)
          /\ ~PeerCloses /\ ~RequestTeardown /\ ~Ended
        BY DEF Send, PeerCloses, RequestTeardown, Ended, sessionVars, vars
    <2> QED
        BY <2>1, <2>2, <2>4, <2>5, <2>6, <2>7, <2>8, <2>9 DEF Next, Run, Read, Execute
<1> QED
    BY <1>1, Invariance, PTL DEF Spec, HeartbeatHonest

\* A wait shorter than both windows cannot trip a deadline, as wait_for_speech.py
\* says of its own; a client may ask for a longer one.
THEOREM ShortWaitsCannotTrip ==
    ASSUME \A w \in Waits : w < HeartbeatTimeout /\ w < InactivityTimeout
    PROVE  Spec => WaitCannotTrip
<1>1. Inv /\ [Next]_vars =>
          [at = "execute" /\ current = "wait" =>
              reason' \notin {"heartbeat-timeout", "inactivity-timeout"}]_vars
    <2> SUFFICES ASSUME Inv, Next, at = "execute", current = "wait"
                 PROVE  reason' \notin {"heartbeat-timeout", "inactivity-timeout"}
        BY DEF vars
    <2> USE DEF Inv, TypeOK, NoReason
    <2>1. lastMessage = clock /\ lastCommand = clock /\ reason = NoReason
        BY DEF RightSide, LoopHasNoReason, LoopPlaces
    <2>2. CASE ServeWait
        <3>1. PICK elapsed \in Waits, ok \in BOOLEAN : Reply(ok, elapsed)
            BY <2>2 DEF ServeWait
        <3>2. clock' = clock + elapsed
            BY <3>1 DEF Reply
        <3>3. Deadline(reason, state', lastMessage, lastCommand, clock')
                  \notin {"heartbeat-timeout", "inactivity-timeout"}
            BY <2>1, <3>2, WindowAssumption DEF Deadline
        <3> QED
            BY <3>1, <3>3 DEF Reply, Loop
    <2>3. CASE UNCHANGED reason
        BY <2>1, <2>3
    <2>4. ServeWait \/ UNCHANGED reason
        BY DEF Next, Run, Absorb, Read, Poll, ReadClosed, ReadGarbage, ReadTurnedAway,
            ReadCommand, Touch, Take, Execute, Hello, Serve, Bye, TearDown, StopCapture, StopSpeech,
            StopBraille, CloseTranscript, EndCue, CloseChannel, Step, Send, PeerCloses,
            RequestTeardown, Ended, sessionVars, vars
    <2> QED
        BY <2>2, <2>3, <2>4
<1> QED
    BY <1>1, Invariance, PTL DEF Spec, WaitCannotTrip

=============================================================================
