--------------------------- MODULE ToolCallsProofs ---------------------------
(***************************************************************************)
(* Proofs about ToolCalls, for every set of callers, way to start the      *)
(* process and set of announcements: its inductive invariant, that nothing *)
(* is sent to a reader that did not announce it, that the refusals of a    *)
(* call are right, that only what was configured is dialed, and that the   *)
(* process serves with the readers its layers promise.                     *)
(***************************************************************************)
EXTENDS ToolCalls, ConfigurationProofs

-----------------------------------------------------------------------------
(***************************************************************************)
(* The table.                                                              *)
(***************************************************************************)

\* The names of the table.
LEMMA NamesOfTable ==
    Names = {"list_readers", "connect_reader", "disconnect_reader", "status",
             "get_speech", "get_last_speech", "get_next_speech_index", "wait_for_speech",
             "wait_for_speech_to_finish", "get_braille", "press_gesture", "announce",
             "get_focus_info", "get_state", "get_config", "set_config"}
BY DEF Names, Registry

\* A tool that declares a capability asks for the port of that capability and
\* sends a command of that port; a tool that declares none is not gated.
THEOREM TableIsCoherent ==
    \A t \in Names :
        t \in Gated =>
            /\ Registry[t].port = GateOf(t)
            /\ GateOf(t) \in DOMAIN PortCommands
            /\ Registry[t].command \in PortCommands[GateOf(t)]
<1> SUFFICES ASSUME NEW t \in Names, GateOf(t) # "none"
             PROVE  /\ Registry[t].port = GateOf(t)
                    /\ GateOf(t) \in DOMAIN PortCommands
                    /\ Registry[t].command \in PortCommands[GateOf(t)]
    BY DEF Gated
<1> USE DEF GateOf, Registry, PortCommands, Tool
<1>1. CASE t \in {"list_readers", "connect_reader", "disconnect_reader", "status"}
    BY <1>1 DEF ListReaders, ConnectReader, DisconnectReader, Status
<1>2. CASE t \in {"get_speech", "get_last_speech", "get_next_speech_index"}
    BY <1>2 DEF GetSpeech, GetLastSpeech, GetNextSpeechIndex
<1>3. CASE t \in {"wait_for_speech", "wait_for_speech_to_finish", "get_braille"}
    BY <1>3 DEF WaitForSpeech, WaitForSpeechToFinish, GetBraille
<1>4. CASE t \in {"press_gesture", "announce", "get_focus_info"}
    BY <1>4 DEF PressGesture, Announce, GetFocusInfo
<1>5. CASE t \in {"get_state", "get_config", "set_config"}
    BY <1>5 DEF GetState, GetConfig, SetConfig
<1> QED
    BY <1>1, <1>2, <1>3, <1>4, <1>5, NamesOfTable

\* What is published for a session is of the table.
LEMMA AllowedType ==
    ASSUME NEW caps
    PROVE  Catalog!Allowed(caps) \subseteq Names
BY DEF Catalog!Allowed, Gated

LEMMA UngatedType == Ungated \subseteq Names /\ Gated \subseteq Names
BY DEF Ungated, Gated

-----------------------------------------------------------------------------
(***************************************************************************)
(* Types.                                                                  *)
(***************************************************************************)
LEMMA BoundType == MaxDials \in Nat
BY SetupAssumption

LEMMA FreshType == Fresh \in Locals
<1>1. None \in DialOrNone
    BY BoundType DEF DialOrNone, None
<1>2. "none" \in Asked /\ "none" \in Replies
    BY DEF Asked, Replies
<1> QED
    BY <1>1, <1>2 DEF Fresh, Locals

\* A call that is settled keeps its tool and has the reply.
LEMMA SettleType ==
    ASSUME TypeOK, NEW c \in Callers, NEW reply \in Replies, Settle(c, reply)
    PROVE  /\ local' \in [Procs -> Locals]
           /\ local'[c].tool = local[c].tool /\ local'[c].reply = reply
           /\ local'[c].seen = None /\ local'[c].dial = None
           /\ \A p \in Procs \ {c} : local'[p] = local[p]
<1>1. c \in Procs /\ local \in [Procs -> Locals]
    BY DEF Procs, TypeOK, CallsOK
<1> DEFINE settled == [Fresh EXCEPT !.tool = local[c].tool, !.reply = reply]
<1>2. settled \in Locals
    <2>1. local[c].tool \in Asked
        BY <1>1 DEF Locals
    <2> QED
        BY <2>1, FreshType DEF Locals
<1>3. settled.tool = local[c].tool /\ settled.reply = reply
      /\ settled.seen = None /\ settled.dial = None
    BY DEF Fresh
<1>4. local' = [local EXCEPT ![c] = settled]
    BY DEF Settle
<1> HIDE DEF settled
<1> QED
    BY <1>1, <1>2, <1>3, <1>4

\* A call that passes an endpoint over has no transport in hand and is as it was.
LEMMA PassedOverType ==
    ASSUME TypeOK, NEW c \in Callers, PassedOver(c)
    PROVE  /\ local' \in [Procs -> Locals]
           /\ local'[c].tool = local[c].tool /\ local'[c].reply = local[c].reply
           /\ local'[c].reader = local[c].reader /\ local'[c].dial = None
           /\ \A p \in Procs \ {c} : local'[p] = local[p]
<1>1. c \in Procs /\ local \in [Procs -> Locals] /\ local[c] \in Locals
    BY DEF Procs, TypeOK, CallsOK
<1>2. None \in DialOrNone
    BY BoundType DEF None, DialOrNone
<1>3. PICK gone \in BOOLEAN :
          local' = [local EXCEPT ![c] = [local[c] EXCEPT
                       !.passed = Place(c), !.lost = @ \/ gone, !.dial = None]]
    BY DEF PassedOver
<1> DEFINE lost == local[c].lost \/ gone
           next == [local[c] EXCEPT !.passed = Place(c), !.lost = lost, !.dial = None]
<1>4. Place(c) \in Nat /\ lost \in BOOLEAN
    <2>1. local[c].passed \in Nat /\ local[c].lost \in BOOLEAN
        BY <1>1 DEF Locals
    <2>2. Place(c) \in Nat
        BY <2>1 DEF Place
    <2> QED
        BY <2>1, <2>2, Zenon
<1>5. local' = [local EXCEPT ![c] = next]
    BY <1>3
<1> HIDE DEF lost
<1>6. /\ next \in Locals /\ next.tool = local[c].tool /\ next.reply = local[c].reply
      /\ next.reader = local[c].reader /\ next.dial = None
    BY <1>1, <1>2, <1>4 DEF Locals
<1> HIDE DEF next
<1> QED
    BY <1>1, <1>5, <1>6

\* A process goes to a label, alone.
LEMMA GotoType ==
    ASSUME TypeOK, NEW p \in Procs, NEW label \in Labels, Goto(p, label)
    PROVE  /\ pc' \in [Procs -> Labels] /\ pc'[p] = label
           /\ \A q \in Procs \ {p} : pc'[q] = pc[q]
BY DEF Goto, TypeOK, CallsOK

\* Every step keeps the types: of the process,
LEMMA ProcessStep == Inv /\ [Next]_vars => ProcessOK'
<1> SUFFICES ASSUME Inv, [Next]_vars PROVE ProcessOK'
    OBVIOUS
<1> USE DEF Inv, TypeOK, ProcessOK
<1>1. CASE Start
    BY <1>1, UngatedType DEF Start
<1>2. ASSUME NEW c \in Callers, Install(c) PROVE ProcessOK'
    <2>1. local[c].dial \in DialOrNone
        BY <1>2 DEF CallsOK, Procs, Locals
    <2> QED
        BY <1>2, <2>1 DEF Install, SetConnection, process
<1>3. ASSUME NEW c \in Callers, Publish(c) PROVE ProcessOK'
    BY <1>3, AllowedType DEF Publish, process
<1>4. ASSUME NEW p \in Procs, Clear(p) PROVE ProcessOK'
    <2>1. None \in DialOrNone
        BY BoundType DEF None, DialOrNone
    <2> QED
        BY <1>4, <2>1 DEF Clear, SetConnection, process
<1>5. ASSUME NEW p \in Procs, Retract(p) PROVE ProcessOK'
    BY <1>5 DEF Retract, process
<1>6. CASE UNCHANGED <<process, connection, advertised>>
    BY <1>6 DEF process
<1>7. ASSUME NEW c \in Callers, Call(c) \/ GoOn(c), ~ Install(c), ~ Publish(c)
      PROVE  UNCHANGED <<process, connection, advertised>>
    BY <1>7
    DEF GoOn, Dial, Call, Return, Backstop, Lookup, Context, Execute, RoundTrip, AskListing,
        AskStatus, AskConnect, AskDisconnect, DialRefused, DialOpens, DialFails,
        HelloAccepted, HelloFails, HelloMismatch
<1>8. ASSUME NEW p \in Procs, EndSession(p), ~ Clear(p), ~ Retract(p)
      PROVE  UNCHANGED <<process, connection, advertised>>
    BY <1>8 DEF EndSession, Verified, Lose
<1>9. ASSUME NEW d \in Dials, ReaderGone(d)
      PROVE  UNCHANGED <<process, connection, advertised>>
    BY <1>9 DEF ReaderGone
<1>10. CASE Failed \/ UNCHANGED vars
    BY <1>6, <1>10 DEF Failed, vars
<1> QED
    BY <1>1, <1>2, <1>3, <1>4, <1>5, <1>6, <1>7, <1>8, <1>9, <1>10 DEF Next

\* A client that is closed leaves the rest as it was.
LEMMA CloseType ==
    ASSUME TransportsOK, NEW d, Close(d)
    PROVE  /\ wire' \in [Dials -> {"unopened", "open", "session", "gone", "closed"}]
           /\ DOMAIN reached' = Dials
           /\ \A e \in Dials : e # d => wire'[e] = wire[e] /\ reached'[e] = reached[e]
           /\ d \in Dials => wire'[d] = "closed" /\ reached'[d] = Nowhere
BY DEF TransportsOK, Close

\* of the transports,
LEMMA TransportsStep == Inv /\ [Next]_vars => TransportsOK'
<1> SUFFICES ASSUME Inv, [Next]_vars PROVE TransportsOK'
    OBVIOUS
<1> USE DEF Inv, TypeOK
<1>1. ASSUME NEW d, Close(d), UNCHANGED <<announced, opened>> PROVE TransportsOK'
    BY <1>1, CloseType DEF TransportsOK
<1>2. CASE UNCHANGED transports
    BY <1>2 DEF transports, TransportsOK
<1>3. ASSUME NEW c \in Callers, RoundTrip(c) \/ AskDisconnect(c) PROVE TransportsOK'
    BY <1>1, <1>3 DEF RoundTrip, AskDisconnect, TransportsOK
<1>4. ASSUME NEW c \in Callers, DialOpens(c) PROVE TransportsOK'
    <2>1. opened + 1 \in Dials /\ opened + 1 \in DialOrNone
        BY <1>4, BoundType DEF DialOpens, TransportsOK, DialOrNone, Dials
    <2> QED
        BY <1>4, <2>1 DEF DialOpens, TransportsOK
<1>5. ASSUME NEW c \in Callers, HelloAccepted(c) PROVE TransportsOK'
    BY <1>5 DEF HelloAccepted, TransportsOK
<1>6. ASSUME NEW c \in Callers, HelloFails(c) \/ HelloMismatch(c) PROVE TransportsOK'
    BY <1>1, <1>6 DEF HelloFails, HelloMismatch
<1>7. ASSUME NEW p \in Procs, Lose(p) PROVE TransportsOK'
    BY <1>1, <1>7 DEF Lose
<1>8. ASSUME NEW d \in Dials, ReaderGone(d) PROVE TransportsOK'
    BY <1>8 DEF ReaderGone, TransportsOK
<1>9. ASSUME NEW c \in Callers, Call(c) \/ GoOn(c), ~ RoundTrip(c), ~ AskDisconnect(c),
             ~ DialOpens(c), ~ HelloAccepted(c), ~ HelloFails(c), ~ HelloMismatch(c)
      PROVE  UNCHANGED transports
    BY <1>9
    DEF GoOn, Dial, Call, Return, Backstop, Lookup, Context, Execute, AskListing,
        AskStatus, AskConnect, DialRefused, DialFails, Install, Publish
<1>10. ASSUME NEW p \in Procs, EndSession(p), ~ Lose(p) PROVE UNCHANGED transports
    BY <1>10 DEF EndSession, Verified, Clear, Retract
<1>11. CASE Start \/ Failed \/ UNCHANGED vars
    BY <1>2, <1>11 DEF Start, Failed, vars
<1> QED
    BY <1>2, <1>3, <1>4, <1>5, <1>6, <1>7, <1>8, <1>9, <1>10, <1>11 DEF Next

\* A call that is answered, or settled on its way, is still a call.
LEMMA SettledCall ==
    ASSUME TypeOK, NEW c \in Callers, NEW reply \in Replies, NEW label \in Labels,
           Settle(c, reply), Goto(c, label), UNCHANGED history
    PROVE  CallsOK'
<1>1. c \in Procs
    BY DEF Procs
<1> QED
    BY <1>1, SettleType, GotoType DEF TypeOK, CallsOK, history

\* A process that goes on with its locals as they are is still one.
LEMMA MovedCall ==
    ASSUME TypeOK, NEW p \in Procs, NEW label \in Labels, Goto(p, label),
           local' \in [Procs -> Locals], UNCHANGED history
    PROVE  CallsOK'
BY GotoType DEF TypeOK, CallsOK, history

\* The connection changes under calls, and they are still calls.
LEMMA DuringType ==
    ASSUME TypeOK, NEW s \in DialOrNone, SetConnection(s)
    PROVE  /\ during' \in [Callers -> SUBSET DialOrNone]
           /\ \A c \in Callers : during'[c] = IF Gates(c) THEN during[c] \cup {s} ELSE during[c]
<1>1. \A c \in Callers : during[c] \in SUBSET DialOrNone
    BY DEF TypeOK, CallsOK
<1> QED
    BY <1>1 DEF SetConnection

\* The steps of a call before it has a reply keep it a call.
LEMMA CallStep ==
    ASSUME Inv, NEW c \in Callers, Call(c) \/ GoOn(c)
    PROVE  CallsOK'
<1>1. /\ c \in Procs /\ c # "heartbeat" /\ local \in [Procs -> Locals]
      /\ local[c] \in Locals /\ connection \in DialOrNone /\ opened \in DialOrNone
    BY SetupAssumption DEF Procs, Inv, TypeOK, ProcessOK, TransportsOK, CallsOK
<1>0. TypeOK
    BY DEF Inv
<1>2. CASE Call(c)
    <2>1. PICK tool \in Asks[c] :
              /\ local' = [local EXCEPT ![c] = [Fresh EXCEPT !.tool = tool]]
              /\ during' = [during EXCEPT ![c] = IF tool \in Gated THEN {connection} ELSE {}]
        BY <1>2 DEF Call
    <2>2. [Fresh EXCEPT !.tool = tool] \in Locals
        <3>1. tool \in Asked
            BY DEF Asked
        <3> QED
            BY <3>1, FreshType DEF Locals
    <2>3. local' \in [Procs -> Locals] /\ during' \in [Callers -> SUBSET DialOrNone]
        BY <1>0, <1>1, <2>1, <2>2 DEF TypeOK, CallsOK
    <2>4. pc' \in [Procs -> Labels]
        BY <1>0, <1>1, <1>2, GotoType DEF Call, Labels
    <2> QED
        BY <1>0, <1>2, <2>3, <2>4 DEF Call, TypeOK, CallsOK
<1>3. CASE Return(c)
    <2>1. local' \in [Procs -> Locals]
        BY <1>1, <1>3, FreshType DEF Return
    <2>2. pc' \in [Procs -> Labels]
        BY <1>0, <1>1, <1>3, GotoType DEF Return, Labels
    <2> QED
        BY <1>0, <1>3, <2>1, <2>2 DEF Return, TypeOK, CallsOK
<1>4. ASSUME NEW label \in Labels, Goto(c, label), UNCHANGED <<local, history>>
      PROVE  CallsOK'
    BY <1>0, <1>1, <1>4, MovedCall
<1>5. ASSUME NEW reply \in Replies, Reply(c, reply), UNCHANGED history
      PROVE  CallsOK'
    BY <1>0, <1>5, SettledCall DEF Reply, Labels
<1>6. CASE Backstop(c)
    BY <1>4, <1>6 DEF Backstop, Labels
<1>7. CASE Lookup(c)
    BY <1>4, <1>5, <1>7 DEF Lookup, Labels, Replies, history
<1>8. CASE Context(c)
    <2>1. local' \in [Procs -> Locals]
        BY <1>1, <1>8 DEF Context, Locals
    <2> QED
        BY <1>0, <1>1, <1>8, <2>1, MovedCall DEF Context, Labels
<1>9. CASE Execute(c)
    BY <1>4, <1>5, <1>9 DEF Execute, Labels, Replies, history
<1>10. CASE RoundTrip(c)
    BY <1>0, <1>5, <1>10, SettledCall DEF RoundTrip, Labels, Replies
<1>11. CASE AskListing(c) \/ HelloMismatch(c) \/ Publish(c)
    BY <1>5, <1>11 DEF AskListing, HelloMismatch, Publish, Replies
<1>12. CASE AskStatus(c)
    BY <1>0, <1>12, SettledCall DEF AskStatus, Labels, Replies
<1>13. CASE AskDisconnect(c)
    BY <1>0, <1>5, <1>13, SettledCall DEF AskDisconnect, Labels, Replies
<1>14. CASE AskConnect(c)
    <2>1. ASSUME NEW i \in 1 .. Len(readers), local' = [local EXCEPT ![c].reader = i]
          PROVE  local' \in [Procs -> Locals]
        <3>1. i \in Nat
            BY SMT
        <3>2. [local[c] EXCEPT !.reader = i] \in Locals
            BY <1>1, <3>1 DEF Locals
        <3> QED
            BY <1>1, <2>1, <3>2
    <2> QED
        BY <1>0, <1>1, <1>5, <1>14, <2>1, MovedCall DEF AskConnect, Labels, Replies
<1>15. CASE DialRefused(c)
    <2>1. local' \in [Procs -> Locals]
        BY <1>1, <1>15 DEF DialRefused, Locals
    <2> QED
        BY <1>0, <1>15, <2>1 DEF DialRefused, TypeOK, CallsOK, history
<1>16. CASE DialOpens(c)
    <2>1. opened + 1 \in DialOrNone
        BY <1>1, <1>16, BoundType DEF DialOpens, DialOrNone
    <2>2. local' \in [Procs -> Locals]
        BY <1>1, <1>16, <2>1 DEF DialOpens, Locals
    <2> QED
        BY <1>0, <1>1, <1>16, <2>2, MovedCall DEF DialOpens, Labels
<1>17. CASE HelloAccepted(c)
    BY <1>4, <1>17 DEF HelloAccepted, Labels
<1>18. CASE HelloFails(c)
    BY <1>0, <1>1, <1>18, PassedOverType, MovedCall DEF HelloFails, Labels
<1>19. CASE Install(c)
    <2>1. local[c].dial \in DialOrNone
        BY <1>1 DEF Locals
    <2>2. during' \in [Callers -> SUBSET DialOrNone]
        BY <1>0, <1>19, <2>1, DuringType DEF Install
    <2>3. pc' \in [Procs -> Labels]
        BY <1>0, <1>1, <1>19, GotoType DEF Install, Labels
    <2> QED
        BY <1>0, <1>19, <2>2, <2>3 DEF Install, TypeOK, CallsOK
<1>20. CASE DialFails(c)
    BY <1>0, <1>20, SettledCall DEF DialFails, Labels, Replies
<1> QED
    BY <1>2, <1>3, <1>6, <1>7, <1>8, <1>9, <1>10, <1>11, <1>12, <1>13, <1>14, <1>15, <1>16,
       <1>17, <1>18, <1>19, <1>20 DEF GoOn, Dial

\* So do the ends of a session.
LEMMA EndStep ==
    ASSUME Inv, NEW p \in Procs, EndSession(p)
    PROVE  CallsOK'
<1>0. TypeOK /\ local \in [Procs -> Locals] /\ local[p] \in Locals
    BY DEF Inv, TypeOK, CallsOK
<1>1. CASE Verified(p)
    BY <1>0, <1>1, MovedCall DEF Verified, Labels
<1>2. CASE Lose(p)
    BY <1>0, <1>2, MovedCall DEF Lose, Labels
<1>3. CASE Clear(p)
    <2>1. local' \in [Procs -> Locals]
        <3>1. (IF connection = None THEN {} ELSE Catalog!Allowed(announced[connection]))
                  \in SUBSET Names
            BY AllowedType
        <3>2. PICK names \in SUBSET Names : local' = [local EXCEPT ![p].names = names]
            BY <1>3, <3>1 DEF Clear
        <3> QED
            BY <1>0, <3>2 DEF Locals
    <2>2. None \in DialOrNone
        BY BoundType DEF None, DialOrNone
    <2>3. during' \in [Callers -> SUBSET DialOrNone]
        BY <1>0, <1>3, <2>2, DuringType DEF Clear
    <2>4. pc' \in [Procs -> Labels]
        BY <1>0, <1>3, GotoType DEF Clear, Labels
    <2> QED
        BY <1>0, <1>3, <2>1, <2>3, <2>4 DEF Clear, TypeOK, CallsOK
<1>4. CASE Retract(p)
    <2>1. local' \in [Procs -> Locals]
        BY <1>0, <1>4 DEF Retract, Locals
    <2>2. pc' \in [Procs -> Labels]
        BY <1>0, <1>4, GotoType DEF Retract, Labels
    <2>3. overtaken' \in [Callers -> BOOLEAN]
        <3>1. \A c \in Callers : overtaken[c] \in BOOLEAN
            BY <1>0 DEF TypeOK, CallsOK
        <3> QED
            BY <1>4, <3>1 DEF Retract
    <2> QED
        BY <1>0, <1>4, <2>1, <2>2, <2>3 DEF Retract, TypeOK, CallsOK
<1> QED
    BY <1>1, <1>2, <1>3, <1>4 DEF EndSession

\* and of the calls.
LEMMA CallsStep == Inv /\ [Next]_vars => CallsOK'
<1> SUFFICES ASSUME Inv, [Next]_vars PROVE CallsOK'
    OBVIOUS
<1>1. CASE UNCHANGED <<pc, local, history>>
    BY <1>1 DEF Inv, TypeOK, CallsOK, history
<1>2. CASE Start \/ Failed \/ UNCHANGED vars
    BY <1>1, <1>2 DEF Start, Failed, vars
<1>3. ASSUME NEW d \in Dials, ReaderGone(d) PROVE CallsOK'
    BY <1>1, <1>3 DEF ReaderGone
<1> QED
    BY <1>2, <1>3, CallStep, EndStep DEF Next

-----------------------------------------------------------------------------
(***************************************************************************)
(* What a step may do to a call.                                           *)
(***************************************************************************)

\* A step of one process leaves the others where they are.
LEMMA OthersKept ==
    ASSUME Inv, NEW p \in Procs,
           (p \in Callers /\ (Call(p) \/ GoOn(p))) \/ EndSession(p)
    PROVE  \A q \in Procs \ {p} : pc'[q] = pc[q] /\ local'[q] = local[q]
<1>1. pc \in [Procs -> Labels] /\ local \in [Procs -> Locals]
    BY DEF Inv, TypeOK, CallsOK
<1> SUFFICES ASSUME NEW q \in Procs \ {p} PROVE pc'[q] = pc[q] /\ local'[q] = local[q]
    OBVIOUS
<1>0. PassedOver(p) => local'[q] = local[q]
    BY <1>1 DEF PassedOver
<1> USE DEF Goto, Settle, Reply
<1>2. CASE EndSession(p)
    BY <1>1, <1>2 DEF EndSession, Verified, Lose, Clear, Retract
<1>3. CASE Call(p) \/ Return(p) \/ Backstop(p) \/ Lookup(p) \/ Context(p) \/ Execute(p)
    BY <1>1, <1>3 DEF Call, Return, Backstop, Lookup, Context, Execute
<1>4. CASE RoundTrip(p) \/ AskListing(p) \/ AskStatus(p) \/ AskConnect(p) \/ AskDisconnect(p)
    BY <1>1, <1>4 DEF RoundTrip, AskListing, AskStatus, AskConnect, AskDisconnect
<1>5. CASE Dial(p) \/ Install(p) \/ Publish(p)
    BY <1>0, <1>1, <1>5
    DEF Dial, DialRefused, DialOpens, DialFails, HelloAccepted, HelloFails, HelloMismatch,
        Install, Publish
<1> QED
    BY <1>2, <1>3, <1>4, <1>5 DEF GoOn

\* Which step takes a call to which label; and it keeps its tool.
LEMMA Shapes ==
    ASSUME Inv, NEW c \in Callers, Call(c) \/ GoOn(c)
    PROVE  /\ stage = "serving" /\ UNCHANGED <<setup, stage, readers>>
           /\ pc'[c] = "lookup" => Backstop(c)
           /\ pc'[c] = "execute" => Context(c)
           /\ pc'[c] = "send" => Execute(c)
           /\ pc'[c] = "dial" => AskConnect(c) \/ DialRefused(c) \/ HelloFails(c)
           /\ pc'[c] = "hello" => DialOpens(c)
           /\ pc'[c] = "install" => HelloAccepted(c)
           /\ pc'[c] = "publish" => Install(c)
           /\ pc'[c] = "idle" => Return(c)
           /\ ~ Call(c) /\ ~ Return(c) => pc[c] # "idle" /\ local'[c].tool = local[c].tool
<1>1. c \in Procs /\ pc \in [Procs -> Labels] /\ local \in [Procs -> Locals]
    BY DEF Procs, Inv, TypeOK, CallsOK
<1>2. \A reply : Settle(c, reply) => local'[c].tool = local[c].tool
    BY <1>1 DEF Settle, Fresh
<1>3. \A label : Goto(c, label) => pc'[c] = label
    BY <1>1 DEF Goto
<1> USE DEF At, process
<1>4. CASE Call(c) \/ Return(c)
    BY <1>3, <1>4 DEF Call, Return
<1>5. CASE Backstop(c) \/ Lookup(c)
    BY <1>2, <1>3, <1>5 DEF Backstop, Lookup, Reply
<1>6. CASE Context(c) \/ Execute(c)
    BY <1>1, <1>2, <1>3, <1>6 DEF Context, Execute, Reply, Locals
<1>7. CASE RoundTrip(c)
    BY <1>2, <1>3, <1>7 DEF RoundTrip, Reply
<1>8. CASE AskListing(c) \/ AskStatus(c) \/ AskDisconnect(c)
    BY <1>2, <1>3, <1>8 DEF AskListing, AskStatus, AskDisconnect, Reply
<1>9. CASE AskConnect(c)
    BY <1>1, <1>2, <1>3, <1>9 DEF AskConnect, Reply, Locals
<1>10. CASE DialRefused(c) \/ DialOpens(c)
    BY <1>1, <1>3, <1>10 DEF DialRefused, DialOpens, Locals
<1>11. CASE DialFails(c) \/ HelloMismatch(c) \/ Publish(c)
    BY <1>2, <1>3, <1>11 DEF DialFails, HelloMismatch, Publish, Reply
<1>12. CASE HelloAccepted(c) \/ Install(c)
    BY <1>3, <1>12 DEF HelloAccepted, Install
<1>13. CASE HelloFails(c)
    BY <1>3, <1>13, PassedOverType DEF HelloFails, Inv
<1> QED
    BY <1>4, <1>5, <1>6, <1>7, <1>8, <1>9, <1>10, <1>11, <1>12, <1>13 DEF GoOn, Dial

\* The end of a session takes a process to none of the labels of a call.
LEMMA EndShapes ==
    ASSUME Inv, NEW p \in Procs, EndSession(p)
    PROVE  /\ stage = "serving" /\ UNCHANGED <<setup, stage, readers>>
           /\ pc'[p] \in {"idle", "replied", "clear", "retract"}
           /\ p \in Callers =>
                 pc[p] # "idle" /\ pc'[p] # "idle" /\ local'[p].tool = local[p].tool
<1>1. pc \in [Procs -> Labels] /\ local \in [Procs -> Locals]
    BY DEF Inv, TypeOK, CallsOK
<1>2. \A label : Goto(p, label) => pc'[p] = label
    BY <1>1 DEF Goto
<1>3. p \in Callers => p # "heartbeat"
    BY SetupAssumption
<1> USE DEF At, process
<1>4. CASE Verified(p)
    BY <1>2, <1>4 DEF Verified
<1>5. CASE Lose(p)
    BY <1>2, <1>3, <1>5 DEF Lose
<1>6. CASE Clear(p)
    BY <1>1, <1>2, <1>6 DEF Clear, Locals
<1>7. CASE Retract(p)
    BY <1>1, <1>2, <1>3, <1>7 DEF Retract, Locals
<1> QED
    BY <1>4, <1>5, <1>6, <1>7 DEF EndSession

\* A command goes to a session whose `hello` was accepted.
LEMMA SentToSession ==
    ASSUME Inv, NEW c \in Callers, pc[c] = "send"
    PROVE  Shook(local[c].seen) /\ local[c].seen \in during[c] \ {None}
<1>1. /\ local[c].tool \in Gated
      /\ Registry[local[c].tool].port \in Ports(local[c].seen)
    BY DEF Inv, DuringInv
<1>2. local[c].seen # None
    BY <1>1 DEF Ports
<1>3. local[c].seen \in during[c]
    BY <1>1 DEF Inv, DuringInv, Gates
<1> QED
    BY <1>2, <1>3 DEF Inv, DuringInv

\* The transports of a step: one is closed that was open, one is opened, a `hello`
\* is accepted over one that is open, a reader goes away, or none changes.
LEMMA WireSteps ==
    ASSUME Inv, [Next]_vars
    PROVE  \/ \E d \in Dials : /\ wire[d] # "unopened" /\ Close(d)
                               /\ UNCHANGED <<announced, opened>>
           \/ \E c \in Callers : DialOpens(c)
           \/ \E c \in Callers : HelloAccepted(c)
           \/ \E d \in Dials : ReaderGone(d)
           \/ UNCHANGED transports
<1>1. ASSUME NEW c \in Callers, RoundTrip(c)
      PROVE  \/ UNCHANGED transports
             \/ \E d \in Dials : wire[d] # "unopened" /\ Close(d) /\ UNCHANGED <<announced, opened>>
    BY <1>1, SentToSession DEF RoundTrip, At, Shook, transports
<1>2. connection # None => connection \in Dials /\ wire[connection] # "unopened"
    BY DEF Inv, DuringInv, Shook
<1>3. ASSUME NEW c \in Callers, AskDisconnect(c)
      PROVE  \/ UNCHANGED transports
             \/ \E d \in Dials : wire[d] # "unopened" /\ Close(d) /\ UNCHANGED <<announced, opened>>
    BY <1>2, <1>3 DEF AskDisconnect, transports
<1>4. ASSUME NEW p \in Procs, EndSession(p)
      PROVE  \/ UNCHANGED transports
             \/ \E d \in Dials : wire[d] # "unopened" /\ Close(d) /\ UNCHANGED <<announced, opened>>
    BY <1>2, <1>4 DEF EndSession, Verified, Lose, Clear, Retract, transports
<1>5. ASSUME NEW c \in Callers, HelloFails(c) \/ HelloMismatch(c)
      PROVE  \E d \in Dials : wire[d] # "unopened" /\ Close(d) /\ UNCHANGED <<announced, opened>>
    <2>1. local[c].dial \in Dials /\ wire[local[c].dial] = "open"
        BY <1>5 DEF HelloFails, HelloMismatch, At, Inv, HandsInv
    <2> QED
        BY <1>5, <2>1 DEF HelloFails, HelloMismatch
<1>6. ASSUME NEW c \in Callers, Call(c) \/ GoOn(c), ~ RoundTrip(c), ~ AskDisconnect(c),
             ~ DialOpens(c), ~ HelloAccepted(c), ~ HelloFails(c), ~ HelloMismatch(c)
      PROVE  UNCHANGED transports
    BY <1>6
    DEF GoOn, Dial, Call, Return, Backstop, Lookup, Context, Execute, AskListing,
        AskStatus, AskConnect, DialRefused, DialFails, Install, Publish
<1>7. CASE Start \/ Failed \/ UNCHANGED vars
    BY <1>7 DEF Start, Failed, vars
<1> QED
    BY <1>1, <1>3, <1>4, <1>5, <1>6, <1>7 DEF Next

\* A session stays one that was accepted, with what it announced, and what was
\* opened was opened.
LEMMA WireKept ==
    ASSUME Inv, [Next]_vars
    PROVE  /\ \A d \in Dials : Shook(d) => Shook(d)' /\ announced'[d] = announced[d]
           /\ \A d \in Dials : wire'[d] # "unopened" <=> d <= opened'
<1>1. /\ wire \in [Dials -> {"unopened", "open", "session", "gone", "closed"}]
      /\ DOMAIN announced = Dials /\ opened \in Nat
      /\ \A d \in Dials : d \in Nat /\ (wire[d] # "unopened" <=> d <= opened)
    BY BoundType DEF Inv, TypeOK, TransportsOK, HandsInv, DialOrNone, Dials
<1> USE DEF Shook
<1>2. ASSUME NEW d \in Dials, wire[d] # "unopened", Close(d), UNCHANGED <<announced, opened>>
      PROVE  /\ \A e \in Dials : Shook(e) => Shook(e)' /\ announced'[e] = announced[e]
             /\ \A e \in Dials : wire'[e] # "unopened" <=> e <= opened'
    BY <1>1, <1>2 DEF Close
<1>3. ASSUME NEW c \in Callers, DialOpens(c)
      PROVE  /\ \A e \in Dials : Shook(e) => Shook(e)' /\ announced'[e] = announced[e]
             /\ \A e \in Dials : wire'[e] # "unopened" <=> e <= opened'
    <2>1. opened' = opened + 1 /\ wire' = [wire EXCEPT ![opened + 1] = "open"]
          /\ UNCHANGED announced
        BY <1>3 DEF DialOpens
    <2> QED
        BY <1>1, <2>1
<1>4. ASSUME NEW c \in Callers, HelloAccepted(c)
      PROVE  /\ \A e \in Dials : Shook(e) => Shook(e)' /\ announced'[e] = announced[e]
             /\ \A e \in Dials : wire'[e] # "unopened" <=> e <= opened'
    <2>1. local[c].dial \in Dials /\ wire[local[c].dial] = "open"
        BY <1>4 DEF HelloAccepted, At, Inv, HandsInv
    <2>2. PICK caps : announced' = [announced EXCEPT ![local[c].dial] = caps]
        BY <1>4 DEF HelloAccepted
    <2> QED
        BY <1>1, <1>4, <2>1, <2>2 DEF HelloAccepted
<1>5. ASSUME NEW d \in Dials, ReaderGone(d)
      PROVE  /\ \A e \in Dials : Shook(e) => Shook(e)' /\ announced'[e] = announced[e]
             /\ \A e \in Dials : wire'[e] # "unopened" <=> e <= opened'
    BY <1>1, <1>5 DEF ReaderGone
<1>6. CASE UNCHANGED transports
    BY <1>1, <1>6 DEF transports
<1> QED
    BY <1>2, <1>3, <1>4, <1>5, <1>6, WireSteps

-----------------------------------------------------------------------------
(***************************************************************************)
(* The inductive invariant.                                                *)
(***************************************************************************)

\* Nothing happens before the process serves, and a call dials a reader there is.
LEMMA StageStep == Inv /\ [Next]_vars => StageInv'
<1> SUFFICES ASSUME Inv, [Next]_vars PROVE StageInv'
    OBVIOUS
<1>1. ASSUME NEW c \in Callers, Call(c) \/ GoOn(c) PROVE StageInv'
    <2>1. c \in Procs /\ Callers \subseteq Procs /\ local \in [Procs -> Locals]
        BY DEF Procs, Inv, TypeOK, CallsOK
    <2>2. stage' = "serving" /\ readers' = readers
        BY <1>1, Shapes
    <2>3. pc'[c] \in {"dial", "hello"} => local'[c].reader \in 1 .. Len(readers)
        <3>1. CASE AskConnect(c) /\ pc'[c] \in {"dial", "hello"}
            <4>1. ~ \E reply : Reply(c, reply)
                BY <2>1, <3>1 DEF Reply, Goto, Inv, TypeOK, CallsOK
            <4>2. PICK i \in 1 .. Len(readers) : local' = [local EXCEPT ![c].reader = i]
                BY <3>1, <4>1 DEF AskConnect
            <4> QED
                BY <2>1, <4>2 DEF Locals
        <3>2. CASE DialRefused(c) \/ DialOpens(c) \/ HelloFails(c)
            <4>1. local[c].reader \in 1 .. Len(readers)
                BY <3>2 DEF DialRefused, DialOpens, HelloFails, At, Inv, StageInv
            <4>2. local'[c].reader = local[c].reader
                BY <2>1, <3>2, PassedOverType DEF DialRefused, DialOpens, HelloFails, Locals, Inv
            <4> QED
                BY <4>1, <4>2
        <3> QED
            BY <1>1, <3>1, <3>2, Shapes
    <2>4. \A q \in Callers \ {c} : pc'[q] = pc[q] /\ local'[q] = local[q]
        BY <1>1, <2>1, OthersKept
    <2> QED
        BY <2>2, <2>3, <2>4 DEF Inv, StageInv
<1>2. ASSUME NEW p \in Procs, EndSession(p) PROVE StageInv'
    <2>1. stage' = "serving" /\ readers' = readers
          /\ pc'[p] \in {"idle", "replied", "clear", "retract"}
        BY <1>2, EndShapes
    <2>2. \A q \in Callers \ {p} : pc'[q] = pc[q] /\ local'[q] = local[q]
        BY <1>2, OthersKept DEF Procs
    <2> QED
        BY <2>1, <2>2 DEF Inv, StageInv
<1>3. ASSUME NEW d \in Dials, ReaderGone(d) PROVE StageInv'
    BY <1>3 DEF ReaderGone, process, Inv, StageInv
<1>4. CASE Start
    BY <1>4 DEF Start, transports, Inv, StageInv, Procs
<1>5. CASE Failed \/ UNCHANGED vars
    BY <1>5 DEF Failed, vars, process, transports, Inv, StageInv
<1> QED
    BY <1>1, <1>2, <1>3, <1>4, <1>5 DEF Next

\* What a call has in hand before it is installed is nobody else's.
LEMMA InHandIsOwn ==
    ASSUME Inv, NEW q \in Callers, pc[q] \in {"hello", "install"}
    PROVE  /\ local[q].dial \in Dials /\ wire[local[q].dial] # "unopened"
           /\ connection # local[q].dial /\ local[q].dial # None
           /\ \A c \in Callers : pc[c] = "send" => local[c].seen # local[q].dial
           /\ \A c \in Callers \ {q} : InHand(c) => local[c].dial # local[q].dial
<1>1. local[q].dial \in Dials /\ wire[local[q].dial] # "unopened"
    BY DEF Inv, HandsInv, Shook
<1>2. \A c \in Callers : pc[c] = "send" => local[c].seen # local[q].dial
    BY SentToSession DEF Inv, DuringInv
<1>3. local[q].dial # None
    BY <1>1 DEF Dials, None
<1>4. connection # local[q].dial
    BY DEF Inv, DuringInv
<1>5. \A c \in Callers \ {q} : InHand(c) => local[c].dial # local[q].dial
    BY DEF Inv, HandsInv, InHand
<1> QED
    BY <1>1, <1>2, <1>3, <1>4, <1>5

\* And stays as it is while others take their steps.
LEMMA InHandKept ==
    ASSUME Inv, [Next]_vars, NEW q \in Callers, pc[q] \in {"hello", "install"},
           ~ Call(q), ~ GoOn(q), ~ EndSession(q)
    PROVE  /\ reached'[local[q].dial] = reached[local[q].dial]
           /\ wire[local[q].dial] = "open" => wire'[local[q].dial] = "open"
<1> DEFINE mine == local[q].dial
           Kept == /\ reached'[mine] = reached[mine]
                   /\ wire[mine] = "open" => wire'[mine] = "open"
<1>1. /\ mine \in Dials /\ wire[mine] # "unopened" /\ connection # mine
      /\ \A c \in Callers : pc[c] = "send" => local[c].seen # mine
      /\ \A c \in Callers \ {q} : pc[c] = "hello" => local[c].dial # mine
    BY InHandIsOwn DEF InHand
<1>2. /\ TransportsOK /\ DOMAIN reached = Dials /\ DOMAIN wire = Dials
      /\ opened \in Nat /\ mine <= opened
    BY <1>1, BoundType DEF Inv, TypeOK, TransportsOK, HandsInv, DialOrNone, Dials
<1>3. ASSUME NEW d, d # mine, Close(d) PROVE Kept
    BY <1>1, <1>2, <1>3 DEF Close
<1>4. CASE UNCHANGED <<wire, reached>>
    BY <1>4
<1>5. ASSUME NEW c \in Callers \ {q}, RoundTrip(c) PROVE Kept
    BY <1>1, <1>3, <1>4, <1>5 DEF RoundTrip, At
<1>6. ASSUME NEW c \in Callers, AskDisconnect(c) PROVE Kept
    BY <1>1, <1>3, <1>4, <1>6 DEF AskDisconnect
<1>7. ASSUME NEW c \in Callers \ {q}, HelloFails(c) \/ HelloMismatch(c) PROVE Kept
    BY <1>1, <1>3, <1>7 DEF HelloFails, HelloMismatch, At
<1>8. ASSUME NEW c \in Callers \ {q}, DialOpens(c) PROVE Kept
    BY <1>1, <1>2, <1>8 DEF DialOpens, Dials
<1>9. ASSUME NEW c \in Callers \ {q}, HelloAccepted(c) PROVE Kept
    BY <1>1, <1>2, <1>9 DEF HelloAccepted, At
<1>10. ASSUME NEW p \in Procs, EndSession(p) PROVE Kept
    BY <1>1, <1>3, <1>4, <1>10 DEF EndSession, Verified, Lose, Clear, Retract, transports
<1>11. ASSUME NEW d \in Dials, ReaderGone(d) PROVE Kept
    BY <1>1, <1>2, <1>11 DEF ReaderGone
<1>12. ASSUME NEW c \in Callers, Call(c) \/ GoOn(c), ~ RoundTrip(c), ~ AskDisconnect(c),
              ~ DialOpens(c), ~ HelloAccepted(c), ~ HelloFails(c), ~ HelloMismatch(c)
       PROVE  UNCHANGED <<wire, reached>>
    BY <1>12
    DEF GoOn, Dial, Call, Return, Backstop, Lookup, Context, Execute, AskListing,
        AskStatus, AskConnect, DialRefused, DialFails, Install, Publish, transports
<1>13. CASE Start \/ Failed \/ UNCHANGED vars
    BY <1>4, <1>13 DEF Start, Failed, vars, transports
<1>14. ASSUME NEW c \in Callers, Call(c) \/ GoOn(c) PROVE Kept
    <2>1. c \in Callers \ {q}
        BY <1>14
    <2>2. CASE RoundTrip(c) \/ AskDisconnect(c) \/ HelloFails(c) \/ HelloMismatch(c)
        BY <1>5, <1>6, <1>7, <2>1, <2>2
    <2>3. CASE DialOpens(c) \/ HelloAccepted(c)
        BY <1>8, <1>9, <2>1, <2>3
    <2> QED
        BY <1>4, <1>12, <1>14, <2>2, <2>3
<1> QED
    BY <1>10, <1>11, <1>13, <1>14 DEF Next

\* Whoever takes a step, every call takes it or is left where it is.
LEMMA ActsOrKept ==
    ASSUME Inv, [Next]_vars, NEW q \in Callers
    PROVE  \/ Call(q) \/ GoOn(q) \/ EndSession(q)
           \/ pc'[q] = pc[q] /\ local'[q] = local[q]
<1>1. CASE Start \/ Failed \/ UNCHANGED vars
    BY <1>1 DEF Start, Failed, vars
<1>2. ASSUME NEW d \in Dials, ReaderGone(d) PROVE pc'[q] = pc[q] /\ local'[q] = local[q]
    BY <1>2 DEF ReaderGone
<1> QED
    BY <1>1, <1>2, OthersKept DEF Next, Procs

\* What is in hand is one's own, and is what its label says.
LEMMA HandsStep == Inv /\ [Next]_vars => HandsInv'
<1> SUFFICES ASSUME Inv, [Next]_vars PROVE HandsInv'
    OBVIOUS
<1>0. /\ pc \in [Procs -> Labels] /\ local \in [Procs -> Locals] /\ Callers \subseteq Procs
      /\ DOMAIN wire = Dials /\ opened \in Nat
    BY BoundType DEF Inv, TypeOK, CallsOK, TransportsOK, Procs, DialOrNone
\* What a call that takes a step has in hand then: a new transport, or what it had.
<1>1. ASSUME NEW q \in Callers, Call(q) \/ GoOn(q), InHand(q)'
      PROVE  \/ /\ DialOpens(q) /\ local'[q].dial = opened + 1 /\ opened + 1 \in Dials
                /\ wire'[opened + 1] = "open" /\ pc'[q] = "hello"
             \/ /\ InHand(q) /\ pc'[q] \in {"install", "publish"}
                /\ local'[q].dial = local[q].dial /\ Shook(local[q].dial)'
    <2>1. CASE DialOpens(q)
        <3>1. opened + 1 \in Dials
            BY <1>0, <2>1, BoundType DEF DialOpens, Dials
        <3> QED
            BY <1>0, <2>1, <3>1 DEF DialOpens, Locals, Goto
    <2>2. CASE HelloAccepted(q)
        BY <1>0, <2>2 DEF HelloAccepted, At, Goto, Inv, HandsInv, InHand, Shook
    <2>3. CASE Install(q)
        BY <1>0, <2>3, WireKept DEF Install, At, Goto, Inv, HandsInv, InHand, Shook
    <2> QED
        BY <1>1, <2>1, <2>2, <2>3, Shapes DEF InHand
\* What any call has in hand then.
<1>2. ASSUME NEW q \in Callers, InHand(q)'
      PROVE  \/ DialOpens(q) /\ local'[q].dial = opened + 1
             \/ InHand(q) /\ local'[q].dial = local[q].dial
    <2>1. ~ EndSession(q)
        BY <1>0, <1>2, EndShapes DEF InHand
    <2> QED
        BY <1>1, <1>2, <2>1, ActsOrKept DEF InHand
<1>3. ASSUME NEW q \in Callers
      PROVE  /\ pc'[q] = "hello" => local'[q].dial \in Dials /\ wire'[local'[q].dial] = "open"
             /\ pc'[q] \in {"install", "publish"} => Shook(local[q].dial)'
    <2>1. CASE EndSession(q)
        BY <1>0, <2>1, EndShapes
    <2>2. CASE Call(q) \/ GoOn(q)
        BY <1>1, <2>2 DEF InHand
    <2>3. CASE ~ Call(q) /\ ~ GoOn(q) /\ ~ EndSession(q)
        <3>1. pc'[q] = pc[q] /\ local'[q] = local[q]
            BY <2>3, ActsOrKept
        <3>2. CASE pc[q] = "hello"
            BY <2>3, <3>1, <3>2, InHandKept DEF Inv, HandsInv
        <3>3. CASE pc[q] \in {"install", "publish"}
            <4>1. Shook(local[q].dial)
                BY <3>3 DEF Inv, HandsInv
            <4> QED
                BY <3>1, <3>3, <4>1, WireKept DEF Shook
        <3> QED
            BY <3>1, <3>2, <3>3
    <2> QED
        BY <2>1, <2>2, <2>3
<1>4. ASSUME NEW c1 \in Callers, NEW c2 \in Callers, InHand(c1)', InHand(c2)', c1 # c2
      PROVE  local'[c1].dial # local'[c2].dial
    <2>1. \A q \in Callers : InHand(q) => local[q].dial \in Nat /\ local[q].dial <= opened
        BY DEF Inv, HandsInv, InHand, Shook, Dials
    <2>2. ~ (DialOpens(c1) /\ DialOpens(c2))
        <3> SUFFICES ASSUME DialOpens(c1), DialOpens(c2) PROVE FALSE
            OBVIOUS
        <3>1. pc'[c1] = "hello" /\ pc[c1] = "dial"
            BY <1>0, <1>4 DEF DialOpens, Goto, At
        <3>2. pc'[c1] = pc[c1]
            BY <1>0, <1>4 DEF DialOpens, Goto
        <3> QED
            BY <3>1, <3>2
    <2> QED
        BY <1>0, <1>2, <1>4, <2>1, <2>2 DEF Inv, HandsInv
<1> QED
    BY <1>3, <1>4, WireKept DEF HandsInv

\* How the connection changes, and what the calls in progress know of it.
LEMMA DuringKept ==
    ASSUME Inv, [Next]_vars
    PROVE  /\ \/ connection' \in {connection, None}
              \/ \E c \in Callers : Install(c) /\ connection' = local[c].dial
           /\ \A c \in Callers :
                 /\ during'[c] \subseteq during[c] \cup {connection, connection'}
                 /\ Gates(c) /\ ~ Return(c) =>
                       /\ during[c] \subseteq during'[c]
                       /\ connection' = connection \/ connection' \in during'[c]
                 /\ Call(c) /\ Gates(c)' => connection' \in during'[c]
<1>0. /\ pc \in [Procs -> Labels] /\ Callers \subseteq Procs /\ local \in [Procs -> Locals]
      /\ DOMAIN during = Callers
    BY DEF Inv, TypeOK, CallsOK, Procs
<1>a. ASSUME NEW c \in Callers, Call(c) PROVE ~ Gates(c)
    BY <1>a DEF Call, At, Gates
<1>1. ASSUME NEW s, SetConnection(s), \A c \in Callers : ~ Call(c),
             \/ s = None
             \/ \E c \in Callers : Install(c) /\ s = local[c].dial
      PROVE  /\ \/ connection' \in {connection, None}
                \/ \E c \in Callers : Install(c) /\ connection' = local[c].dial
             /\ \A c \in Callers :
                   /\ during'[c] \subseteq during[c] \cup {connection, connection'}
                   /\ Gates(c) => during[c] \subseteq during'[c] /\ connection' \in during'[c]
    BY <1>1 DEF SetConnection
<1>2. ASSUME NEW c \in Callers, Install(c) PROVE \A q \in Callers : ~ Call(q)
    <2>1. pc' = [pc EXCEPT ![c] = "publish"] /\ pc[c] = "install"
        BY <1>2 DEF Install, Goto, At
    <2> SUFFICES ASSUME NEW q \in Callers, Call(q) PROVE FALSE
        OBVIOUS
    <2>2. pc' = [pc EXCEPT ![q] = "ask"] /\ pc[q] = "idle"
        BY DEF Call, Goto, At
    <2> QED
        BY <1>0, <2>1, <2>2
<1>3. ASSUME NEW p \in Procs, Clear(p) PROVE \A q \in Callers : ~ Call(q)
    <2>1. pc' = [pc EXCEPT ![p] = "retract"] /\ pc[p] = "clear"
        BY <1>3 DEF Clear, Goto, At
    <2> SUFFICES ASSUME NEW q \in Callers, Call(q) PROVE FALSE
        OBVIOUS
    <2>2. pc' = [pc EXCEPT ![q] = "ask"] /\ pc[q] = "idle"
        BY DEF Call, Goto, At
    <2> QED
        BY <1>0, <2>1, <2>2
<1>4. ASSUME NEW c \in Callers, Call(c)
      PROVE  /\ connection' = connection
             /\ \A q \in Callers \ {c} : during'[q] = during[q]
             /\ during'[c] = IF local'[c].tool \in Gated THEN {connection} ELSE {}
    <2>1. PICK tool \in Asks[c] :
              /\ local' = [local EXCEPT ![c] = [Fresh EXCEPT !.tool = tool]]
              /\ during' = [during EXCEPT ![c] = IF tool \in Gated THEN {connection} ELSE {}]
        BY <1>4 DEF Call
    <2>2. local'[c].tool = tool
        BY <1>0, <2>1 DEF Fresh
    <2> QED
        BY <1>0, <1>4, <2>1, <2>2 DEF Call
<1>5. ASSUME NEW c \in Callers, Return(c)
      PROVE  /\ connection' = connection /\ during'[c] = {}
             /\ \A q \in Callers \ {c} : during'[q] = during[q]
    BY <1>0, <1>5 DEF Return
<1>6. ASSUME NEW c \in Callers, GoOn(c), ~ Install(c), ~ Return(c)
      PROVE  UNCHANGED <<connection, during>>
    BY <1>6
    DEF GoOn, Dial, Backstop, Lookup, Context, Execute, RoundTrip, AskListing,
        AskStatus, AskConnect, AskDisconnect, DialRefused, DialOpens, DialFails,
        HelloAccepted, HelloFails, HelloMismatch, Publish, history
<1>7. ASSUME NEW p \in Procs, EndSession(p), ~ Clear(p) PROVE UNCHANGED <<connection, during>>
    BY <1>7 DEF EndSession, Verified, Lose, Retract, history
<1>8. ASSUME NEW d \in Dials, ReaderGone(d) PROVE UNCHANGED <<connection, during>>
    BY <1>8 DEF ReaderGone, history
<1>9. CASE Start \/ Failed \/ UNCHANGED vars
    <2>1. UNCHANGED <<connection, during, pc, local>>
        BY <1>9 DEF Start, Failed, vars, history
    <2> QED
        BY <1>a, <2>1 DEF Gates
<1>10. CASE \E c \in Callers : Install(c)
    BY <1>1, <1>2, <1>10 DEF Install
<1>11. CASE \E p \in Procs : Clear(p)
    BY <1>1, <1>3, <1>11 DEF Clear
<1>12. ASSUME NEW c \in Callers, Call(c)
       PROVE  \A q \in Callers \ {c} : Call(q) => FALSE
    <2> SUFFICES ASSUME NEW q \in Callers \ {c}, Call(q) PROVE FALSE
        OBVIOUS
    <2>1. pc'[q] = "ask" /\ pc[q] = "idle" /\ pc'[q] = pc[q]
        BY <1>0, <1>12 DEF Call, Goto, At
    <2> QED
        BY <2>1
<1>13. CASE \E c \in Callers : Call(c)
    BY <1>a, <1>4, <1>12, <1>13 DEF Gates
<1>14. CASE \E c \in Callers : Return(c)
    <2>1. \A q \in Callers : Call(q) => ~ Gates(q)
        BY <1>a
    <2>2. PICK c \in Callers : Return(c)
        BY <1>14
    <2>3. \A q \in Callers : ~ Call(q)
        <3> SUFFICES ASSUME NEW q \in Callers, Call(q) PROVE FALSE
            OBVIOUS
        <3>1. pc' = [pc EXCEPT ![q] = "ask"] /\ pc' = [pc EXCEPT ![c] = "idle"]
              /\ pc[q] = "idle" /\ pc[c] = "replied"
            BY <2>2 DEF Call, Return, Goto, At
        <3> QED
            BY <1>0, <3>1
    <2> QED
        BY <1>5, <2>2, <2>3
<1>15. CASE UNCHANGED <<connection, during>> /\ \A c \in Callers : ~ Call(c)
    BY <1>15
<1> QED
    BY <1>6, <1>7, <1>8, <1>9, <1>10, <1>11, <1>13, <1>14, <1>15 DEF Next

\* What is registered stays registered, but for what a call is told of.
LEMMA AdvertisedKept ==
    ASSUME Inv, [Next]_vars, NEW c \in Callers, pc[c] = "lookup",
           ~ Call(c), ~ GoOn(c), ~ EndSession(c)
    PROVE  /\ overtaken[c] => overtaken'[c]
           /\ local[c].tool \in advertised =>
                 local[c].tool \in advertised' \/ overtaken'[c]
<1>0. overtaken \in [Callers -> BOOLEAN] /\ c \in Procs
    BY DEF Inv, TypeOK, CallsOK, Procs
<1>1. CASE UNCHANGED <<advertised, overtaken>>
    BY <1>1
<1>2. ASSUME NEW q \in Callers, Publish(q)
      PROVE  UNCHANGED overtaken /\ advertised \subseteq advertised'
    BY <1>2 DEF Publish, history
<1>3. ASSUME NEW q \in Callers \ {c}, Call(q) \/ Return(q)
      PROVE  advertised' = advertised /\ overtaken'[c] = overtaken[c]
    BY <1>0, <1>3 DEF Call, Return
<1>4. ASSUME NEW q \in Callers, GoOn(q), ~ Publish(q), ~ Return(q)
      PROVE  UNCHANGED <<advertised, overtaken>>
    BY <1>4
    DEF GoOn, Dial, Backstop, Lookup, Context, Execute, RoundTrip, AskListing,
        AskStatus, AskConnect, AskDisconnect, DialRefused, DialOpens, DialFails,
        HelloAccepted, HelloFails, HelloMismatch, Install, history
<1>5. ASSUME NEW p \in Procs, Retract(p)
      PROVE  /\ overtaken[c] => overtaken'[c]
             /\ local[c].tool \in advertised =>
                   local[c].tool \in advertised' \/ overtaken'[c]
    BY <1>5 DEF Retract
<1>6. ASSUME NEW p \in Procs, EndSession(p), ~ Retract(p)
      PROVE  UNCHANGED <<advertised, overtaken>>
    BY <1>6 DEF EndSession, Verified, Lose, Clear, history
<1>7. ASSUME NEW d \in Dials, ReaderGone(d) PROVE UNCHANGED <<advertised, overtaken>>
    BY <1>7 DEF ReaderGone, history
<1>8. CASE Failed \/ UNCHANGED vars
    BY <1>8 DEF Failed, vars, history
<1>9. ~ Start
    <2>1. Start => stage # "serving"
        BY DEF Start
    <2> QED
        BY <1>0, <2>1 DEF Inv, StageInv
<1> QED
    BY <1>1, <1>2, <1>3, <1>4, <1>5, <1>6, <1>7, <1>8, <1>9 DEF Next

\* A call knows of the connection and of what it was when the call looked.
LEMMA DuringStep == Inv /\ [Next]_vars => DuringInv'
<1> SUFFICES ASSUME Inv, [Next]_vars PROVE DuringInv'
    OBVIOUS
<1>0. /\ pc \in [Procs -> Labels] /\ local \in [Procs -> Locals] /\ Callers \subseteq Procs
      /\ overtaken \in [Callers -> BOOLEAN]
    BY DEF Inv, TypeOK, CallsOK, Procs
<1>1. connection' # None => Shook(connection)'
    <2>1. ASSUME NEW d, Shook(d) PROVE d \in Dials /\ wire'[d] \in {"session", "gone", "closed"}
        BY <2>1, WireKept DEF Shook
    <2>2. ASSUME NEW c \in Callers, Install(c) PROVE Shook(local[c].dial)
        BY <2>2 DEF Install, At, Inv, HandsInv
    <2>3. connection # None => Shook(connection)
        BY DEF Inv, DuringInv
    <2> QED
        BY <2>1, <2>2, <2>3, DuringKept DEF Shook
<1>2. ASSUME NEW c \in Callers
      PROVE  \A s \in during'[c] : s # None => Shook(s)'
    <2> SUFFICES ASSUME NEW s \in during'[c], s # None PROVE Shook(s)'
        OBVIOUS
    <2>1. s \in during[c] \/ s = connection \/ s = connection'
        BY DuringKept
    <2>2. CASE s \in during[c] \/ s = connection
        <3>1. Shook(s)
            BY <2>2 DEF Inv, DuringInv
        <3> QED
            BY <3>1, WireKept DEF Shook
    <2>3. CASE s = connection'
        BY <1>1, <2>3 DEF Shook
    <2> QED
        BY <2>1, <2>2, <2>3
\* A gated call is one that is called now, or was one before and goes on.
<1>3. ASSUME NEW c \in Callers, Gates(c)', ~ Call(c)
      PROVE  Gates(c) /\ ~ Return(c) /\ local'[c].tool = local[c].tool
    <2>1. ~ Return(c)
        <3>1. Return(c) => pc'[c] = "idle"
            BY <1>0 DEF Return, Goto
        <3> QED
            BY <1>3, <3>1 DEF Gates
    <2>2. CASE GoOn(c)
        BY <1>3, <2>1, <2>2, Shapes DEF Gates
    <2>3. CASE EndSession(c)
        BY <1>0, <1>3, <2>1, <2>3, EndShapes DEF Gates
    <2>4. CASE pc'[c] = pc[c] /\ local'[c] = local[c]
        BY <1>3, <2>1, <2>4 DEF Gates
    <2> QED
        BY <1>3, <2>2, <2>3, <2>4, ActsOrKept
<1>4. ASSUME NEW c \in Callers, Gates(c)'
      PROVE  connection' \in during'[c]
    <2>1. CASE Call(c)
        BY <1>4, <2>1, DuringKept
    <2>2. CASE ~ Call(c)
        <3>1. Gates(c) /\ ~ Return(c)
            BY <1>3, <1>4, <2>2
        <3>2. connection \in during[c]
            BY <3>1 DEF Inv, DuringInv
        <3> QED
            BY <3>1, <3>2, DuringKept
    <2> QED
        BY <2>1, <2>2
<1>5. ASSUME NEW c \in Callers, Gates(c)', pc'[c] \in {"execute", "send"}
      PROVE  local'[c].seen \in during'[c]
    <2>1. ~ Call(c)
        BY <1>0, <1>5 DEF Call, Goto
    <2>2. Gates(c) /\ during[c] \subseteq during'[c] /\ connection \in during[c]
        <3>1. Gates(c) /\ ~ Return(c)
            BY <1>3, <1>5, <2>1
        <3> QED
            BY <3>1, DuringKept DEF Inv, DuringInv
    <2>3. CASE Context(c)
        <3>1. local'[c].seen = connection
            BY <1>0, <2>3 DEF Context, Locals
        <3> QED
            BY <2>2, <3>1
    <2>4. CASE Execute(c) /\ pc'[c] = "send"
        <3>1. ~ \E reply : Reply(c, reply)
            BY <1>0, <2>4 DEF Reply, Goto
        <3>2. local' = local /\ pc[c] = "execute"
            BY <2>4, <3>1 DEF Execute, At
        <3> QED
            BY <2>2, <3>2 DEF Inv, DuringInv
    <2>5. CASE pc'[c] = pc[c] /\ local'[c] = local[c]
        BY <1>5, <2>2, <2>5 DEF Inv, DuringInv
    <2>6. CASE GoOn(c)
        BY <1>5, <2>3, <2>4, <2>6, Shapes
    <2>7. ~ EndSession(c)
        BY <1>0, <1>5, EndShapes
    <2> QED
        BY <2>1, <2>5, <2>6, <2>7, ActsOrKept
<1>6. ASSUME NEW c \in Callers, pc'[c] = "send"
      PROVE  /\ local'[c].tool \in Gated
             /\ Registry[local'[c].tool].port \in Ports(local[c].seen)'
    <2>1. CASE Call(c) \/ GoOn(c)
        <3>1. Execute(c)
            BY <1>6, <2>1, Shapes
        <3>2. ~ \E reply : Reply(c, reply)
            BY <1>0, <1>6 DEF Reply, Goto
        <3>3. /\ local' = local /\ UNCHANGED announced /\ local[c].tool \in Gated
              /\ Registry[local[c].tool].port \in Ports(local[c].seen)
            BY <3>1, <3>2 DEF Execute, transports
        <3> QED
            BY <3>3 DEF Ports
    <2>2. CASE pc'[c] = pc[c] /\ local'[c] = local[c]
        <3>1. /\ local[c].tool \in Gated /\ Shook(local[c].seen)
              /\ Registry[local[c].tool].port \in Ports(local[c].seen)
            BY <1>6, <2>2, SentToSession DEF Inv, DuringInv
        <3>2. announced'[local[c].seen] = announced[local[c].seen]
            BY <3>1, WireKept DEF Shook
        <3> QED
            BY <2>2, <3>1, <3>2 DEF Ports
    <2>3. ~ EndSession(c)
        BY <1>0, <1>6, EndShapes
    <2> QED
        BY <2>1, <2>2, <2>3, ActsOrKept
<1>7. ASSUME NEW c \in Callers, pc'[c] = "lookup"
      PROVE  \/ ~ Known(local'[c].tool)
             \/ local'[c].tool \in advertised'
             \/ overtaken'[c]
    <2>1. CASE Call(c) \/ GoOn(c)
        <3>1. Backstop(c)
            BY <1>7, <2>1, Shapes
        <3>2. UNCHANGED <<local, advertised>>
            BY <3>1 DEF Backstop
        <3>3. ~ (Known(local[c].tool) /\ local[c].tool \notin advertised)
            BY <1>0, <1>7, <3>1 DEF Backstop, Goto
        <3> QED
            BY <3>2, <3>3
    <2>2. CASE ~ Call(c) /\ ~ GoOn(c) /\ ~ EndSession(c)
        <3>1. pc'[c] = pc[c] /\ local'[c] = local[c]
            BY <2>2, ActsOrKept
        <3>2. ~ Known(local[c].tool) \/ local[c].tool \in advertised \/ overtaken[c]
            BY <1>7, <3>1 DEF Inv, DuringInv
        <3> QED
            BY <1>7, <2>2, <3>1, <3>2, AdvertisedKept
    <2>3. ~ EndSession(c)
        BY <1>0, <1>7, EndShapes
    <2> QED
        BY <2>1, <2>2, <2>3
<1>8. ASSUME NEW c1 \in Callers, NEW c2 \in Callers, pc'[c1] \in {"hello", "install"}
      PROVE  local'[c1].dial # connection' /\ local'[c1].dial \notin during'[c2]
    <2>1. CASE pc[c1] \in {"hello", "install"} /\ local'[c1].dial = local[c1].dial
               /\ ~ Install(c1)
        <3>1. /\ local[c1].dial # connection /\ local[c1].dial # None
              /\ local[c1].dial \notin during[c2]
            BY <2>1, InHandIsOwn DEF Inv, DuringInv
        <3>2. \A c \in Callers : Install(c) => local[c].dial # local[c1].dial
            BY <2>1, InHandIsOwn DEF Install, At, InHand
        <3> QED
            BY <2>1, <3>1, <3>2, DuringKept
    <2>2. CASE DialOpens(c1)
        <3>1. local'[c1].dial = opened + 1 /\ opened \in Nat
            BY <1>0, <2>2, BoundType DEF DialOpens, Locals, Inv, TypeOK, TransportsOK, DialOrNone
        <3>2. \A s : Shook(s) \/ s = None => s # opened + 1
            BY <3>1 DEF Shook, Inv, HandsInv, None
        <3>3. connection' = connection /\ during' = during
            BY <2>2 DEF DialOpens, history
        <3> QED
            BY <3>1, <3>2, <3>3 DEF Inv, DuringInv
    <2>3. CASE HelloAccepted(c1)
        BY <2>1, <2>3 DEF HelloAccepted, At, Install
    <2>4. CASE Call(c1) \/ GoOn(c1)
        BY <1>8, <2>2, <2>3, <2>4, Shapes
    <2>5. ~ EndSession(c1)
        BY <1>0, <1>8, EndShapes
    <2>6. CASE pc'[c1] = pc[c1] /\ local'[c1] = local[c1]
        <3>1. ~ Install(c1)
            BY <1>0, <1>8, <2>6 DEF Install, Goto, At
        <3> QED
            BY <1>8, <2>1, <2>6, <3>1
    <2> QED
        BY <2>4, <2>5, <2>6, ActsOrKept
<1> QED
    BY <1>1, <1>2, <1>4, <1>5, <1>6, <1>7, <1>8 DEF DuringInv

\* The initial state.
LEMMA InitInv == Init => Inv
<1> SUFFICES ASSUME Init PROVE Inv
    OBVIOUS
<1>0. None \in DialOrNone /\ \A d \in Dials : d \in Nat /\ d > 0
    BY BoundType DEF None, DialOrNone, Dials
<1>1. ProcessOK
    BY <1>0 DEF Init, ProcessOK
<1>2. TransportsOK
    BY <1>0 DEF Init, TransportsOK, DialOrNone, None
<1>3. CallsOK
    BY FreshType DEF Init, CallsOK, Labels
<1>4. StageInv
    BY DEF Init, StageInv, Procs
<1>5. HandsInv
    BY <1>0 DEF Init, HandsInv, InHand, Procs
<1>6. DuringInv
    BY DEF Init, DuringInv, Gates, Procs
<1> QED
    BY <1>1, <1>2, <1>3, <1>4, <1>5, <1>6 DEF Inv, TypeOK

\* The invariant holds from the start and every step keeps it (module ToolCalls,
\* section "The inductive invariant").
THEOREM InvIsInvariant == Spec => []Inv
<1>1. Inv /\ [Next]_vars => Inv'
    BY ProcessStep, TransportsStep, CallsStep, StageStep, HandsStep, DuringStep
    DEF Inv, TypeOK
<1> QED
    BY InitInv, <1>1, PTL DEF Spec

-----------------------------------------------------------------------------
\* A command is sent only to a session that was the connection at some time of
\* the call, that announced the tool's capability and handed over the port the
\* command belongs to (tool_context.go, the tools' Execute).
THEOREM NothingUnannouncedIsSent == Spec => []NothingUnannounced
<1>1. Inv => NothingUnannounced
    <2> SUFFICES ASSUME Inv, NEW c \in Callers, pc[c] = "send"
                 PROVE  /\ local[c].seen \in during[c] \ {None}
                        /\ GateOf(local[c].tool) \in announced[local[c].seen]
                        /\ \E port \in Ports(local[c].seen) :
                              Registry[local[c].tool].command \in PortCommands[port]
        BY DEF NothingUnannounced
    <2>1. local[c].seen \in during[c] \ {None}
        BY SentToSession
    <2>2. /\ local[c].tool \in Gated
          /\ Registry[local[c].tool].port \in Ports(local[c].seen)
        BY DEF Inv, DuringInv
    <2>3. /\ Registry[local[c].tool].port = GateOf(local[c].tool)
          /\ Registry[local[c].tool].command \in PortCommands[GateOf(local[c].tool)]
        BY <2>2, TableIsCoherent, UngatedType
    <2>4. GateOf(local[c].tool) \in announced[local[c].seen]
        BY <2>1, <2>2, <2>3 DEF Ports
    <2> QED
        BY <2>1, <2>2, <2>3, <2>4
<1> QED
    BY InvIsInvariant, <1>1, PTL

-----------------------------------------------------------------------------
\* A call that was refused is over but for its return, and the refusal was right.
RefusedRight(c) ==
    /\ local[c].reply \in {"no connection", "not announced", "unknown tool"} => pc[c] = "replied"
    /\ local[c].reply \in {"no connection", "not announced"} => local[c].tool \in Gated
    /\ local[c].reply = "no connection" => None \in during[c]
    /\ local[c].reply = "not announced" =>
          \E s \in during[c] \ {None} : Shook(s) /\ GateOf(local[c].tool) \notin announced[s]
    /\ local[c].reply = "unknown tool" /\ Known(local[c].tool) => overtaken[c]

\* Only two steps refuse a call.
LEMMA Refusals ==
    ASSUME Inv, NEW c \in Callers, Call(c) \/ GoOn(c),
           local'[c].reply \in {"no connection", "not announced", "unknown tool"}
    PROVE  \/ Execute(c) /\ local'[c].reply # "unknown tool"
           \/ Lookup(c) /\ local'[c].reply = "unknown tool"
           \/ local'[c].reply = local[c].reply /\ pc[c] # "replied"
<1>0. c \in Procs /\ local \in [Procs -> Locals] /\ pc \in [Procs -> Labels]
    BY DEF Procs, Inv, TypeOK, CallsOK
<1>1. \A reply : Settle(c, reply) => local'[c].reply = reply
    BY <1>0 DEF Settle, Fresh
<1>2. CASE Call(c) \/ Return(c)
    <2>1. CASE Call(c)
        <3>1. PICK tool \in Asks[c] : local' = [local EXCEPT ![c] = [Fresh EXCEPT !.tool = tool]]
            BY <2>1 DEF Call
        <3>2. local'[c].reply = "none"
            BY <1>0, <3>1 DEF Fresh
        <3> QED
            BY <3>2
    <2>2. CASE Return(c)
        BY <1>0, <2>2 DEF Return, Fresh
    <2> QED
        BY <1>2, <2>1, <2>2
<1>3. CASE Backstop(c) \/ Context(c)
    BY <1>0, <1>3 DEF Backstop, Context, Locals, At
<1>4. CASE Lookup(c)
    BY <1>1, <1>4 DEF Lookup, Reply, At
<1>5. CASE Execute(c)
    BY <1>1, <1>5 DEF Execute, Reply, At
<1>6. CASE RoundTrip(c) \/ AskListing(c) \/ AskStatus(c) \/ AskDisconnect(c)
    BY <1>1, <1>6 DEF RoundTrip, AskListing, AskStatus, AskDisconnect, Reply
<1>7. CASE AskConnect(c)
    BY <1>0, <1>1, <1>7 DEF AskConnect, Reply, Locals, At
<1>8. CASE DialRefused(c) \/ DialOpens(c)
    BY <1>0, <1>8 DEF DialRefused, DialOpens, Locals, At
<1>9. CASE DialFails(c) \/ HelloMismatch(c) \/ Publish(c)
    BY <1>1, <1>9 DEF DialFails, HelloMismatch, Publish, Reply
<1>10. CASE HelloAccepted(c) \/ Install(c)
    BY <1>10 DEF HelloAccepted, Install, At
<1>11. CASE HelloFails(c)
    BY <1>11, PassedOverType DEF HelloFails, At, Inv
<1> QED
    BY <1>2, <1>3, <1>4, <1>5, <1>6, <1>7, <1>8, <1>9, <1>10, <1>11 DEF GoOn, Dial

\* That a tool was retracted under a call is not forgotten while it lasts.
LEMMA OvertakenKept ==
    ASSUME Inv, [Next]_vars, NEW c \in Callers, overtaken[c], ~ Call(c), ~ Return(c)
    PROVE  overtaken'[c]
<1>0. DOMAIN overtaken = Callers
    BY DEF Inv, TypeOK, CallsOK
<1>1. CASE UNCHANGED overtaken
    BY <1>1
<1>2. ASSUME NEW q \in Callers, Call(q) \/ Return(q) PROVE overtaken'[c]
    BY <1>0, <1>2 DEF Call, Return
<1>3. ASSUME NEW q \in Callers, GoOn(q), ~ Return(q) PROVE UNCHANGED overtaken
    BY <1>3
    DEF GoOn, Dial, Backstop, Lookup, Context, Execute, RoundTrip, AskListing, AskStatus,
        AskConnect, AskDisconnect, DialRefused, DialOpens, DialFails, HelloAccepted,
        HelloFails, HelloMismatch, Install, Publish, history
<1>4. ASSUME NEW q \in Procs, EndSession(q) PROVE overtaken'[c]
    BY <1>1, <1>4 DEF EndSession, Verified, Lose, Clear, Retract, history
<1>5. CASE Start \/ Failed \/ UNCHANGED vars
    BY <1>1, <1>5 DEF Start, Failed, vars, history
<1>6. ASSUME NEW d \in Dials, ReaderGone(d) PROVE UNCHANGED overtaken
    BY <1>6 DEF ReaderGone, history
<1> QED
    BY <1>1, <1>2, <1>3, <1>4, <1>5, <1>6 DEF Next

\* A tool that refuses is right, from what was in its call's context.
LEMMA ExecuteIsRight ==
    ASSUME Inv, NEW c \in Callers, Execute(c),
           local'[c].reply \in {"no connection", "not announced"} =>
               local[c].reply \notin {"no connection", "not announced"},
           local'[c].reply # "unknown tool"
    PROVE  RefusedRight(c)'
<1>0. /\ c \in Procs /\ local \in [Procs -> Locals] /\ pc \in [Procs -> Labels]
      /\ TypeOK /\ during \in [Callers -> SUBSET DialOrNone]
    BY DEF Procs, Inv, TypeOK, CallsOK
<1>1. /\ pc[c] = "execute" /\ local[c].tool \in Gated
      /\ UNCHANGED <<during, announced, wire>>
    BY DEF Execute, At, history, transports
<1>2. local[c].seen \in during[c]
    BY <1>0, <1>1 DEF Gates, Inv, DuringInv
<1>3. CASE local'[c].reply \in {"no connection", "not announced"}
    <2>1. /\ local[c].reply # local'[c].reply
          /\ ~ UNCHANGED local
        BY <1>3
    <2>2. ASSUME NEW reply \in Replies, Reply(c, reply)
          PROVE  pc'[c] = "replied" /\ local'[c].reply = reply /\ local'[c].tool = local[c].tool
        BY <1>0, <2>2, SettleType, GotoType DEF Reply, Labels
    <2>3. CASE local'[c].reply = "no connection"
        <3>1. local[c].seen = None /\ Reply(c, "no connection")
            BY <2>1, <2>2, <2>3 DEF Execute, Replies
        <3> QED
            BY <1>1, <1>2, <2>2, <2>3, <3>1 DEF RefusedRight, Replies
    <2>4. CASE local'[c].reply = "not announced"
        <3>1. /\ local[c].seen # None /\ Reply(c, "not announced")
              /\ Registry[local[c].tool].port \notin Ports(local[c].seen)
            BY <2>1, <2>2, <2>4 DEF Execute, Replies
        <3>2. Shook(local[c].seen)
            BY <1>2, <3>1 DEF Inv, DuringInv
        <3>3. GateOf(local[c].tool) \notin announced[local[c].seen]
            BY <1>1, <3>1, TableIsCoherent, UngatedType DEF Ports
        <3>4. \E s \in during'[c] \ {None} :
                 Shook(s)' /\ GateOf(local[c].tool) \notin announced'[s]
            BY <1>1, <1>2, <3>1, <3>2, <3>3 DEF Shook
        <3> QED
            BY <1>1, <2>2, <2>4, <3>1, <3>4 DEF RefusedRight, Replies
    <2> QED
        BY <1>3, <2>3, <2>4
<1> QED
    BY <1>3 DEF RefusedRight

\* Right refusals stay right while the call lasts.
LEMMA RefusalKept ==
    ASSUME Inv, [Next]_vars, NEW c \in Callers, RefusedRight(c),
           local'[c].reply = local[c].reply, local'[c].tool = local[c].tool,
           pc[c] = "replied" => pc'[c] = "replied"
    PROVE  RefusedRight(c)'
<1> SUFFICES ASSUME local[c].reply \in {"no connection", "not announced", "unknown tool"}
             PROVE  RefusedRight(c)'
    BY DEF RefusedRight
<1>1. pc[c] = "replied" /\ pc'[c] = "replied"
    BY DEF RefusedRight
<1>2. ~ Call(c) /\ ~ Return(c)
    <2>1. c \in Procs /\ pc \in [Procs -> Labels]
        BY DEF Procs, Inv, TypeOK, CallsOK
    <2> QED
        BY <1>1, <2>1 DEF Call, Return, At, Goto
<1>3. CASE local[c].reply = "unknown tool"
    BY <1>1, <1>2, <1>3, OvertakenKept DEF RefusedRight
<1>4. CASE local[c].reply \in {"no connection", "not announced"}
    <2>1. Gates(c)
        BY <1>1, <1>4 DEF Gates, RefusedRight
    <2>2. during[c] \subseteq during'[c]
        BY <1>2, <2>1, DuringKept
    <2>3. ASSUME NEW s, Shook(s) PROVE Shook(s)' /\ announced'[s] = announced[s]
        BY <2>3, WireKept DEF Shook
    <2> QED
        BY <1>1, <1>4, <2>2, <2>3 DEF RefusedRight
<1> QED
    BY <1>3, <1>4

\* The refusals of a call have different remedies, and each is right (backstop.go,
\* tool_context.go, the tools' Execute).
THEOREM RemediesAreRight == Spec => []RemedyIsRight
<1> DEFINE AllRight == \A c \in Callers : RefusedRight(c)
<1>1. Init => AllRight
    <2> SUFFICES ASSUME Init, NEW c \in Callers PROVE RefusedRight(c)
        OBVIOUS
    <2>1. local[c].reply = "none"
        BY DEF Init, Fresh, Procs
    <2> QED
        BY <2>1 DEF RefusedRight
<1>2. ASSUME Inv, [Next]_vars, AllRight, NEW c \in Callers
      PROVE  RefusedRight(c)'
    <2>0. /\ c \in Procs /\ local \in [Procs -> Locals] /\ pc \in [Procs -> Labels]
          /\ TypeOK /\ RefusedRight(c)
        BY <1>2 DEF Procs, Inv, TypeOK, CallsOK
    <2>1. CASE Call(c) \/ GoOn(c)
        <3> SUFFICES ASSUME local'[c].reply \in {"no connection", "not announced", "unknown tool"}
                     PROVE  RefusedRight(c)'
            BY DEF RefusedRight
        <3>1. CASE Execute(c) /\ local'[c].reply # "unknown tool"
            <4>1. local[c].reply \notin {"no connection", "not announced"}
                BY <2>0, <3>1 DEF Execute, At, RefusedRight
            <4> QED
                BY <1>2, <3>1, <4>1, ExecuteIsRight
        <3>2. CASE Lookup(c) /\ local'[c].reply = "unknown tool"
            <4>1. pc[c] = "lookup" /\ local[c].reply # "unknown tool" /\ UNCHANGED overtaken
                BY <2>0, <3>2 DEF Lookup, At, RefusedRight, history
            <4>2. Reply(c, "unknown tool") /\ local[c].tool \notin advertised
                BY <3>2, <4>1 DEF Lookup
            <4>3. local'[c].tool = local[c].tool /\ pc'[c] = "replied"
                BY <2>0, <4>2, SettleType, GotoType DEF Reply, Replies, Labels
            <4>4. Known(local[c].tool) => overtaken[c]
                BY <1>2, <4>1, <4>2 DEF Inv, DuringInv
            <4> QED
                BY <3>2, <4>1, <4>3, <4>4 DEF RefusedRight
        <3>3. CASE local'[c].reply = local[c].reply /\ pc[c] # "replied"
            BY <2>0, <3>3 DEF RefusedRight
        <3> QED
            BY <1>2, <2>1, <3>1, <3>2, <3>3, Refusals
    <2>2. CASE EndSession(c)
        <3>1. pc[c] \in {"verify", "clear", "retract"}
            <4>1. c # "heartbeat"
                BY SetupAssumption
            <4> QED
                BY <2>2, <4>1 DEF EndSession, Verified, Lose, Clear, Retract, At
        <3>2. local'[c].reply = local[c].reply
            BY <2>0, <2>2 DEF EndSession, Verified, Lose, Clear, Retract, Locals
        <3> QED
            BY <2>0, <3>1, <3>2 DEF RefusedRight
    <2>3. CASE pc'[c] = pc[c] /\ local'[c] = local[c]
        BY <1>2, <2>0, <2>3, RefusalKept
    <2> QED
        BY <1>2, <2>1, <2>2, <2>3, ActsOrKept
<1>3. Inv /\ AllRight /\ [Next]_vars => AllRight'
    BY <1>2
<1>4. AllRight => RemedyIsRight
    BY DEF RefusedRight, RemedyIsRight
<1> QED
    BY InvIsInvariant, <1>1, <1>3, <1>4, PTL DEF Spec

-----------------------------------------------------------------------------
\* The process serves what it loaded, on the platform it was started on.
LEMMA ProcessKept ==
    ASSUME Inv, [Next]_vars
    PROVE  setup' = setup /\ (stage = "serving" => readers' = readers)
<1>1. CASE Start
    BY <1>1 DEF Start
<1>2. ASSUME NEW c \in Callers, Call(c) \/ GoOn(c) PROVE UNCHANGED <<setup, readers>>
    BY <1>2, Shapes
<1>3. ASSUME NEW p \in Procs, EndSession(p) PROVE UNCHANGED <<setup, readers>>
    BY <1>3, EndShapes
<1>4. CASE Failed \/ UNCHANGED vars \/ \E d \in Dials : ReaderGone(d)
    BY <1>4 DEF Failed, ReaderGone, vars, process
<1> QED
    BY <1>1, <1>2, <1>3, <1>4 DEF Next

\* What an endpoint must be to be dialed.
DialedRight(endpoint) ==
    /\ Configured(endpoint)
    /\ IF endpoint.kind = "pipe"
       THEN setup.platform = "windows"
       ELSE ThisMachine(endpoint.address)

\* The endpoint a call dials is one.
LEMMA DialsRightly ==
    ASSUME Inv, NEW c \in Callers, DialOpens(c)
    PROVE  DialedRight(NextEndpoint(c))
<1>1. local[c].reader \in 1 .. Len(readers)
    BY DEF DialOpens, At, Inv, StageInv
<1>2. Configured(NextEndpoint(c))
    BY <1>1 DEF DialOpens, Configured, NextEndpoint, Endpoints
<1>3. ASSUME NEW platform, NEW endpoint, DialerFor(platform, endpoint)
      PROVE  IF endpoint.kind = "pipe"
             THEN platform = "windows"
             ELSE ThisMachine(endpoint.address)
    <2>1. ASSUME NEW address, RequireLoopback(address) PROVE ThisMachine(address)
        <3>1. PICK host \in LoopbackHosts \cup {<<"localhost">>}, port \in Range(address) :
                  HostPort(address, host, port)
            BY <2>1, Zenon DEF RequireLoopback
        <3>2. address \in {host \o <<":", port>>, <<"[">> \o host \o <<"]", ":", port>>}
            BY <3>1, Zenon DEF HostPort
        <3> QED
            BY <3>1, <3>2, Zenon DEF ThisMachine
    <2> QED
        BY <1>3, <2>1, Zenon DEF DialerFor, PipeDialable
<1>4. DialerFor(setup.platform, NextEndpoint(c))
    BY DEF DialOpens
<1>5. IF NextEndpoint(c).kind = "pipe"
      THEN setup.platform = "windows"
      ELSE ThisMachine(NextEndpoint(c).address)
    BY <1>3, <1>4
<1> QED
    BY <1>2, <1>5, Zenon DEF DialedRight

\* A call that is done waiting for `hello` leaves no open transport behind.
LEMMA HelloEnds ==
    ASSUME Inv, NEW c \in Callers, pc[c] = "hello", Call(c) \/ GoOn(c) \/ EndSession(c)
    PROVE  wire'[local[c].dial] # "open"
<1>1. /\ local[c].dial \in Dials /\ TransportsOK /\ DOMAIN wire = Dials
      /\ c # "heartbeat"
    BY SetupAssumption DEF Inv, TypeOK, TransportsOK, HandsInv
<1>2. HelloAccepted(c) \/ HelloFails(c) \/ HelloMismatch(c)
    BY <1>1
    DEF Call, GoOn, Dial, Return, Backstop, Lookup, Context, Execute, RoundTrip, AskListing,
        AskStatus, AskConnect, AskDisconnect, DialRefused, DialOpens, DialFails, Install,
        Publish, EndSession, Verified, Lose, Clear, Retract, At
<1>3. CASE HelloAccepted(c)
    BY <1>1, <1>3 DEF HelloAccepted
<1>4. CASE HelloFails(c) \/ HelloMismatch(c)
    BY <1>1, <1>4, CloseType DEF HelloFails, HelloMismatch
<1> QED
    BY <1>2, <1>3, <1>4

\* Whatever was dialed was configured and is this machine's own; an open
\* transport has its call waiting for `hello`; and a session is reached at the
\* endpoint whose turn it was (handshake.go, adapters/bridge/endpoint.go).
THEOREM DialsAreHonest == Spec => []DialHonest
<1>1. Init => DialHonest
    <2> SUFFICES ASSUME Init PROVE DialHonest
        OBVIOUS
    <2>1. \A d \in Dials : reached[d] = Nowhere /\ wire[d] = "unopened"
        BY DEF Init
    <2>2. \A c \in Callers : pc[c] = "idle"
        BY DEF Init, Procs
    <2> QED
        BY <2>1, <2>2 DEF DialHonest
<1>2. ASSUME Inv, [Next]_vars, DialHonest PROVE DialHonest'
    <2>0. /\ TypeOK /\ TransportsOK /\ DOMAIN reached = Dials /\ DOMAIN wire = Dials
          /\ local \in [Procs -> Locals] /\ pc \in [Procs -> Labels] /\ Callers \subseteq Procs
          /\ opened \in Nat
        BY <1>2, BoundType DEF Inv, TypeOK, TransportsOK, CallsOK, DialOrNone, Procs
    <2>1. ASSUME NEW c \in Callers, DialOpens(c)
          PROVE  /\ opened + 1 \in Dials
                 /\ wire' = [wire EXCEPT ![opened + 1] = "open"]
                 /\ reached' = [reached EXCEPT ![opened + 1] = NextEndpoint(c)]
                 /\ stage = "serving" /\ UNCHANGED <<setup, readers>>
                 /\ pc'[c] = "hello" /\ local'[c].dial = opened + 1
                 /\ local'[c].reader = local[c].reader /\ local'[c].passed = local[c].passed
        <3>1. local[c] \in Locals
            BY <2>0
        <3>2. local' = [local EXCEPT ![c].dial = opened + 1]
            BY <2>1 DEF DialOpens
        <3>3. /\ local'[c].dial = opened + 1
              /\ local'[c].reader = local[c].reader /\ local'[c].passed = local[c].passed
            BY <2>0, <3>1, <3>2 DEF Locals
        <3> QED
            BY <2>0, <2>1, <3>3, BoundType DEF DialOpens, At, Goto, Dials, process
    <2>2. ASSUME NEW d \in Dials, reached'[d] # Nowhere
          PROVE  DialedRight(reached[d])'
        <3>1. CASE \E c \in Callers : DialOpens(c) /\ d = opened + 1
            <4>1. PICK c \in Callers : DialOpens(c) /\ d = opened + 1
                BY <3>1
            <4>2. reached'[d] = NextEndpoint(c) /\ UNCHANGED <<setup, readers>>
                BY <2>0, <2>1, <4>1
            <4>3. DialedRight(NextEndpoint(c))
                BY <1>2, <4>1, DialsRightly
            <4> QED
                BY <4>2, <4>3 DEF DialedRight, Configured
        <3>2. CASE ~ \E c \in Callers : DialOpens(c) /\ d = opened + 1
            <4>1. reached'[d] \in {reached[d], Nowhere}
                <5>1. CASE \E e \in Dials : Close(e)
                    BY <2>0, <5>1 DEF Close
                <5>2. CASE \E c \in Callers : DialOpens(c)
                    BY <2>0, <2>1, <3>2, <5>2
                <5>3. CASE \/ \E c \in Callers : HelloAccepted(c)
                           \/ \E e \in Dials : ReaderGone(e)
                           \/ UNCHANGED transports
                    BY <5>3 DEF HelloAccepted, ReaderGone, transports
                <5> QED
                    BY <1>2, <5>1, <5>2, <5>3, WireSteps
            <4>2. reached'[d] = reached[d] /\ reached[d] # Nowhere
                BY <2>2, <4>1
            <4>3. stage = "serving"
                BY <1>2, <4>2 DEF Inv, StageInv
            <4>4. UNCHANGED <<setup, readers>>
                BY <1>2, <4>3, ProcessKept
            <4>5. DialedRight(reached[d])
                BY <1>2, <4>2 DEF DialHonest, DialedRight
            <4> QED
                BY <4>2, <4>4, <4>5 DEF DialedRight, Configured
        <3> QED
            BY <3>1, <3>2
    <2>3. ASSUME NEW d \in Dials, wire'[d] = "open"
          PROVE  \E c \in Callers : pc'[c] = "hello" /\ local'[c].dial = d
        <3>1. CASE wire[d] = "open"
            <4>1. PICK c \in Callers : pc[c] = "hello" /\ local[c].dial = d
                BY <1>2, <3>1 DEF DialHonest
            <4>2. pc'[c] = pc[c] /\ local'[c] = local[c]
                BY <1>2, <2>3, <4>1, HelloEnds, ActsOrKept
            <4> QED
                BY <4>1, <4>2
        <3>2. CASE wire[d] # "open"
            <4>1. ~ \E e \in Dials : Close(e)
                BY <2>0, <2>3, <3>2 DEF Close
            <4>2. ~ \E c \in Callers : HelloAccepted(c)
                BY <2>0, <2>3, <3>2 DEF HelloAccepted
            <4>3. ~ \E e \in Dials : ReaderGone(e)
                BY <2>0, <2>3, <3>2 DEF ReaderGone
            <4>4. PICK c \in Callers : DialOpens(c)
                BY <1>2, <2>3, <3>2, <4>1, <4>2, <4>3, WireSteps DEF transports
            <4>5. d = opened + 1
                BY <2>0, <2>1, <2>3, <3>2, <4>4
            <4> QED
                BY <2>1, <4>4, <4>5
        <3> QED
            BY <3>1, <3>2
    <2>4. ASSUME NEW c \in Callers, pc'[c] \in {"hello", "install"}
          PROVE  reached'[local'[c].dial] = NextEndpoint(c)'
        <3>1. CASE DialOpens(c)
            <4>1. /\ local'[c].dial = opened + 1 /\ local'[c].reader = local[c].reader
                  /\ local'[c].passed = local[c].passed
                BY <2>1, <3>1
            <4>2. reached'[opened + 1] = NextEndpoint(c) /\ readers' = readers
                BY <2>0, <2>1, <3>1
            <4> QED
                BY <4>1, <4>2 DEF NextEndpoint, Endpoints, Place
        <3>2. CASE HelloAccepted(c)
            BY <1>2, <3>2 DEF HelloAccepted, At, DialHonest, NextEndpoint, Endpoints, Place, process
        <3>3. CASE Call(c) \/ GoOn(c)
            BY <1>2, <2>4, <3>1, <3>2, <3>3, Shapes
        <3>4. ~ EndSession(c)
            BY <1>2, <2>0, <2>4, EndShapes
        <3>5. CASE ~ Call(c) /\ ~ GoOn(c)
            <4>1. pc'[c] = pc[c] /\ local'[c] = local[c]
                BY <1>2, <3>4, <3>5, ActsOrKept
            <4>2. reached'[local[c].dial] = reached[local[c].dial]
                BY <1>2, <2>4, <3>4, <3>5, <4>1, InHandKept
            <4>3. stage = "serving"
                BY <1>2, <2>0, <2>4, <4>1 DEF Inv, StageInv
            <4>4. readers' = readers
                BY <1>2, <4>3, ProcessKept
            <4> QED
                BY <1>2, <2>4, <4>1, <4>2, <4>4 DEF DialHonest, NextEndpoint, Endpoints, Place
        <3> QED
            BY <3>3, <3>5
    <2> QED
        BY <2>2, <2>3, <2>4 DEF DialHonest, DialedRight
<1> QED
    BY InvIsInvariant, <1>1, <1>2, PTL DEF Spec
-----------------------------------------------------------------------------
\* A process that starts to serve does so with the readers its layers promise,
\* whatever its config file and flags are (main.go builds the runtime with what
\* config.Load returns).
THEOREM LoadIsLayeredHolds == Spec => LoadIsLayered
<1>1. Inv /\ [Next]_vars =>
          (stage = "starting" /\ stage' = "serving" => Layered(setup.options, readers'))
    <2> SUFFICES ASSUME Inv, [Next]_vars, stage = "starting", stage' = "serving"
                 PROVE  Layered(setup.options, readers')
        OBVIOUS
    <2>1. Start
        <3>1. \A c \in Callers : Call(c) \/ GoOn(c) => stage' = stage
            BY Shapes
        <3>2. \A p \in Procs : EndSession(p) => stage' = stage
            BY EndShapes
        <3>3. Failed \/ UNCHANGED vars \/ (\E d \in Dials : ReaderGone(d)) => stage' = stage
            BY DEF Failed, ReaderGone, vars, process
        <3> QED
            BY <3>1, <3>2, <3>3 DEF Next
    <2>2. readers' = Load(setup.options)
        BY <2>1 DEF Start
    <2>3. setup.options \in Options
        BY SetupAssumption DEF Inv, TypeOK, ProcessOK
    <2> QED
        BY <2>2, <2>3, LoadLayers
<1> QED
    BY InvIsInvariant, <1>1, PTL DEF Spec, LoadIsLayered

=============================================================================
