---------------------------- MODULE CaptureProofs ----------------------------
(***************************************************************************)
(* Proofs about Capture, for every choice of texts, timeouts and bounds:   *)
(* its inductive invariant, what a wait answers, and the order in which    *)
(* gestures reach NVDA's main thread.                                      *)
(***************************************************************************)
EXTENDS Capture, Induction

-----------------------------------------------------------------------------
\* The commands without parameters, the waits and the gestures are commands.
LEMMA NoCallType == NoCall \in Commands
BY CaptureAssumption DEF NoCall, Commands

LEMMA WaitType ==
    ASSUME NEW text \in Texts, NEW after \in {-1} \cup Indices
    PROVE  [NoCall EXCEPT !.text = text, !.after = after] \in Commands
BY NoCallType, CaptureAssumption DEF Commands

LEMMA GesturesType ==
    ASSUME NEW ids \in 1 .. MaxIds
    PROVE  LET command == [NoCall EXCEPT !.ids = ids, !.at = 1]
           IN  command \in Commands /\ command.ids = ids /\ command.at = 1
<1>1. 1 \in 0 .. MaxIds + 1 /\ ids \in 0 .. MaxIds
    BY CaptureAssumption
<1>2. [NoCall EXCEPT !.ids = ids, !.at = 1] \in Commands
    BY <1>1, NoCallType DEF Commands
<1>3. LET command == [NoCall EXCEPT !.ids = ids, !.at = 1]
      IN  command.ids = ids /\ command.at = 1
    BY DEF NoCall
<1> QED
    BY <1>2, <1>3

\* A command that is taken up is a command, and the last one.
LEMMA TakeType ==
    ASSUME Inv, Idle, NEW command \in Commands, NEW label, Take(command, label)
    PROVE  /\ call' \in Commands /\ calls' \in Numbers /\ calls' \in 0 .. MaxCalls
           /\ calls' = calls + 1 /\ call'.number = calls'
           /\ looked' = FALSE /\ pc' = label
           /\ call'.text = command.text /\ call'.after = command.after
           /\ call'.ids = command.ids /\ call'.at = command.at
<1>1. calls + 1 \in 0 .. MaxCalls /\ calls + 1 \in Numbers
    BY CaptureAssumption DEF Inv, TypeOK, ThreadOK, Idle, Numbers
<1>2. call' = [command EXCEPT !.number = calls + 1]
    BY DEF Take
<1>3. calls' = calls + 1 /\ looked' = FALSE /\ pc' = label
    BY DEF Take
<1>4. call' \in Commands
    BY <1>1, <1>2 DEF Commands
<1>5. /\ call'.number = calls + 1
      /\ call'.text = command.text /\ call'.after = command.after
      /\ call'.ids = command.ids /\ call'.at = command.at
    BY <1>2 DEF Commands
<1> QED
    BY <1>1, <1>3, <1>4, <1>5

\* A command that is answered at once leaves the thread idle.
LEMMA AtOnceType ==
    ASSUME Inv, NEW kind, NEW from, NEW to, AnswerAtOnce(kind, from, to)
    PROVE  /\ pc = "idle" /\ pc' = "idle" /\ left' = left /\ looked' = FALSE
           /\ call' \in Commands /\ calls' \in 0 .. MaxCalls /\ calls' \in Numbers
           /\ calls' = calls + 1 /\ call'.number = calls'
           /\ answer' = [kind |-> kind, from |-> from, to |-> to]
<1>1. Idle /\ Take(NoCall, "idle") /\ left' = left
      /\ answer' = [kind |-> kind, from |-> from, to |-> to]
    BY DEF AnswerAtOnce
<1> QED
    BY <1>1, TakeType, NoCallType DEF Idle

\* The sequences a step makes of those there were.
LEMMA SequenceFacts ==
    /\ \A S : << >> \in Seq(S) /\ Len(<< >>) = 0
    /\ \A S : \A e \in S : <<e>> \in Seq(S) /\ Len(<<e>>) = 1
    /\ \A S : \A s \in Seq(S) : \A e \in S :
          Append(s, e) \in Seq(S) /\ Len(Append(s, e)) = Len(s) + 1
    /\ \A S : \A s \in Seq(S) :
          /\ Len(s) \in Nat /\ DOMAIN s = 1 .. Len(s)
          /\ \A i \in DOMAIN s : s[i] \in S
OBVIOUS

-----------------------------------------------------------------------------
\* The initial state.
LEMMA InitInv == Init => Inv
<1> SUFFICES ASSUME Init PROVE Inv
    OBVIOUS
<1>1. /\ speech \in Seq(SUBSET Texts) /\ Len(speech) = 1
      /\ braille \in Seq(Windows \cup {"blank"}) /\ Len(braille) = 1
      /\ posted \in Seq([number : Numbers, at : 0 .. MaxIds]) /\ Len(posted) = 0
    BY SequenceFacts DEF Init
<1>2. TypeOK
    <2>1. BuffersOK
        BY <1>1, CaptureAssumption DEF BuffersOK, Init
    <2>2. MainOK
        BY <1>1 DEF MainOK, Init
    <2>3. ThreadOK
        <3>1. pc = "idle" /\ call = NoCall /\ left = 0 /\ looked = FALSE /\ calls = 0
            BY DEF Init
        <3>2. call \in Commands
            BY <3>1, NoCallType
        <3>3. left \in Nat /\ calls \in 0 .. MaxCalls
            BY <3>1, CaptureAssumption
        <3> QED
            BY <3>1, <3>2, <3>3 DEF ThreadOK
    <2>4. OutcomesOK
        BY CaptureAssumption DEF OutcomesOK, Init
    <2>5. AnswerOK
        BY DEF AnswerOK, NoAnswer, Init
    <2> QED
        BY <2>1, <2>2, <2>3, <2>4, <2>5 DEF TypeOK
<1>3. PressInv /\ WaitInv
    BY <1>1 DEF PressInv, WaitInv, NoCall, Numbers, Init
<1> QED
    BY <1>2, <1>3 DEF Inv

-----------------------------------------------------------------------------
\* Every step keeps the types: of the buffers and of the places in them,
LEMMA BuffersStep == Inv /\ [Next]_vars => BuffersOK'
<1> SUFFICES ASSUME Inv, [Next]_vars PROVE BuffersOK'
    OBVIOUS
<1> USE CaptureAssumption DEF Inv, TypeOK, BuffersOK
<1>1. CASE Speak
    <2>1. PICK said \in SUBSET Texts : speech' = Append(speech, said)
        BY <1>1 DEF Speak
    <2>2. speech' \in Seq(SUBSET Texts) /\ Len(speech') = Len(speech) + 1
        BY <2>1, SequenceFacts
    <2> QED
        BY <1>1, <2>2 DEF Speak, history
<1>2. CASE WriteCells
    <2>1. PICK shown \in Windows : braille' = Append(braille, shown)
        BY <1>2 DEF WriteCells
    <2>2. braille' \in Seq(Windows \cup {"blank"}) /\ Len(braille') = Len(braille) + 1
        BY <2>1, SequenceFacts
    <2> QED
        BY <1>2, <2>2 DEF WriteCells, history
<1>3. CASE GetSpeech
    <2>1. cursor' = Len(speech) \/ cursor' = cursor
        BY <1>3 DEF GetSpeech
    <2> QED
        BY <1>3, <2>1 DEF GetSpeech, buffers
<1>4. CASE WaitForSpeech
    BY <1>4 DEF WaitForSpeech, buffers
<1>5. CASE Look
    BY <1>5 DEF Look, buffers
<1>6. CASE Tick
    <2>1. quiet' \in 0 .. Settle + 1
        BY <1>6 DEF Tick
    <2> QED
        BY <1>6, <2>1 DEF Tick, history
<1>7. CASE UNCHANGED <<buffers, lookedAt, cursor>>
    BY <1>7 DEF buffers
<1> QED
    BY <1>1, <1>2, <1>3, <1>4, <1>5, <1>6, <1>7
    DEF Next, NVDA, Begin, GoOn, RunPosted, GetBraille, GetLastSpeech,
        GetNextSpeechIndex, Miss, WaitForSpeechToFinish, LookFinished, PressGesture,
        Press, Pressed, PressFails, Announce, vars, buffers, history

\* of what is posted to the main thread,
LEMMA MainStep == Inv /\ [Next]_vars => MainOK'
<1> SUFFICES ASSUME Inv, [Next]_vars PROVE MainOK'
    OBVIOUS
<1> USE CaptureAssumption DEF Inv, TypeOK, MainOK
<1>1. CASE RunPosted
    BY <1>1 DEF RunPosted
<1>2. CASE Press
    <2>1. CASE posted' = Append(posted, Task(call.at)) /\ call.at <= call.ids /\ done' = "no"
        <3>1. call.number \in Numbers /\ call.at \in 0 .. MaxIds
            BY <1>2, <2>1 DEF Press, PressInv, ThreadOK, Commands
        <3>2. Task(call.at) \in [number : Numbers, at : 0 .. MaxIds]
            BY <3>1 DEF Task
        <3>3. posted' \in Seq([number : Numbers, at : 0 .. MaxIds])
              /\ Len(posted') = Len(posted) + 1
            BY <2>1, <3>2, SequenceFacts
        <3> QED
            BY <1>2, <2>1, <3>3 DEF Press
    <2> QED
        BY <1>2, <2>1 DEF Press
<1>3. CASE Announce
    <2>1. calls + 1 \in Numbers /\ 0 \in 0 .. MaxIds
        <3>1. AnswerAtOnce("ok", 0, 0)
            BY <1>3 DEF Announce
        <3>2. calls' \in Numbers /\ calls' = calls + 1
            BY <3>1, AtOnceType
        <3> QED
            BY <3>2
    <2>2. [number |-> calls + 1, at |-> 0] \in [number : Numbers, at : 0 .. MaxIds]
        BY <2>1
    <2>3. posted' \in Seq([number : Numbers, at : 0 .. MaxIds])
          /\ Len(posted') = Len(posted) + 1
        BY <1>3, <2>2, SequenceFacts DEF Announce
    <2> QED
        BY <1>3, <2>3 DEF Announce
<1>4. CASE UNCHANGED main
    BY <1>4 DEF main
<1> QED
    BY <1>1, <1>2, <1>3, <1>4
    DEF Next, NVDA, Begin, GoOn, Speak, WriteCells, GetSpeech, GetBraille, GetLastSpeech,
        GetNextSpeechIndex, WaitForSpeech, Look, Miss, WaitForSpeechToFinish,
        LookFinished, PressGesture, Pressed, PressFails, Tick, vars

\* of the session's thread,
LEMMA ThreadStep == Inv /\ [Next]_vars => ThreadOK'
<1> SUFFICES ASSUME Inv, [Next]_vars PROVE ThreadOK'
    OBVIOUS
<1> USE CaptureAssumption DEF Inv, TypeOK, ThreadOK
<1>1. ASSUME NEW kind, NEW from, NEW to, AnswerAtOnce(kind, from, to)
      PROVE  ThreadOK'
    BY <1>1, AtOnceType
<1>2. CASE WaitForSpeech
    <2>1. PICK text \in Texts, after \in {-1} \cup Indices :
              Take([NoCall EXCEPT !.text = text, !.after = after], "wait")
        BY <1>2 DEF WaitForSpeech
    <2>2. call' \in Commands /\ calls' \in 0 .. MaxCalls /\ looked' = FALSE /\ pc' = "wait"
        BY <1>2, <2>1, TakeType, WaitType DEF WaitForSpeech
    <2>3. left' \in Nat
        BY <1>2 DEF WaitForSpeech
    <2> QED
        BY <2>2, <2>3
<1>3. CASE Look
    BY <1>3 DEF Look, Answer
<1>4. CASE Miss
    BY <1>4 DEF Miss, Answer
<1>5. CASE WaitForSpeechToFinish
    <2>1. call' \in Commands /\ calls' \in 0 .. MaxCalls /\ looked' = FALSE /\ pc' = "settle"
        BY <1>5, TakeType, NoCallType DEF WaitForSpeechToFinish
    <2>2. left' \in Nat
        BY <1>5 DEF WaitForSpeechToFinish
    <2> QED
        BY <2>1, <2>2
<1>6. CASE LookFinished
    BY <1>6 DEF LookFinished, Answer
<1>7. CASE PressGesture
    <2>1. PICK ids \in 1 .. MaxIds : Take([NoCall EXCEPT !.ids = ids, !.at = 1], "press")
        BY <1>7 DEF PressGesture
    <2>2. call' \in Commands /\ calls' \in 0 .. MaxCalls /\ looked' = FALSE /\ pc' = "press"
        BY <1>7, <2>1, TakeType, GesturesType DEF PressGesture
    <2> QED
        BY <1>7, <2>2 DEF PressGesture
<1>8. CASE Press
    BY <1>8 DEF Press, Answer
<1>9. CASE Pressed
    <2>1. call.at + 1 \in 0 .. MaxIds + 1
        BY <1>9 DEF Pressed, PressInv, Commands
    <2>2. [call EXCEPT !.at = @ + 1] \in Commands
        BY <2>1 DEF Commands
    <2> QED
        BY <1>9, <2>2 DEF Pressed
<1>10. CASE PressFails
    BY <1>10 DEF PressFails, Answer
<1>11. CASE Tick
    <2>1. left' \in Nat
        BY <1>11 DEF Tick
    <2> QED
        BY <1>11, <2>1 DEF Tick
<1>12. CASE UNCHANGED <<thread, calls>>
    BY <1>12 DEF thread
<1> QED
    BY <1>1, <1>2, <1>3, <1>4, <1>5, <1>6, <1>7, <1>8, <1>9, <1>10, <1>11, <1>12
    DEF Next, NVDA, Begin, GoOn, Speak, WriteCells, RunPosted, GetSpeech, GetBraille,
        GetLastSpeech, GetNextSpeechIndex, Announce, vars

\* of the answers,
LEMMA AnswerStep == Inv /\ [Next]_vars => AnswerOK'
<1> SUFFICES ASSUME Inv, [Next]_vars PROVE AnswerOK'
    OBVIOUS
<1>1. Len(speech) \in Nat \ {0} /\ Len(braille) \in Nat /\ cursor \in Nat
    BY CaptureAssumption DEF Inv, TypeOK, BuffersOK
<1>2. \A since \in Indices : since \in Nat
    BY CaptureAssumption DEF Indices
<1>3. \A i : i \in Matches(call.text, First(call.after)) => i \in Nat
    BY <1>1, CaptureAssumption
    DEF Matches, First, Inv, TypeOK, ThreadOK, Commands, Indices
<1> USE DEF AnswerOK, AnswerAtOnce, Answer
<1>4. CASE GetSpeech \/ GetBraille \/ GetLastSpeech \/ GetNextSpeechIndex \/ Announce
    BY <1>1, <1>2, <1>4 DEF GetSpeech, GetBraille, GetLastSpeech, GetNextSpeechIndex, Announce
<1>5. CASE Look
    BY <1>3, <1>5 DEF Look, Inv, TypeOK
<1>6. CASE Miss \/ LookFinished \/ Press \/ PressFails
    BY <1>1, <1>6 DEF Miss, LookFinished, Press, PressFails, Inv, TypeOK
<1>7. CASE UNCHANGED answer
    BY <1>7 DEF Inv, TypeOK
<1> QED
    BY <1>4, <1>5, <1>6, <1>7
    DEF Next, NVDA, Begin, GoOn, Speak, WriteCells, RunPosted, WaitForSpeech,
        WaitForSpeechToFinish, PressGesture, Pressed, Tick, vars

\* and of the outcomes of the commands.
LEMMA OutcomesStep == Inv /\ [Next]_vars => OutcomesOK'
<1> SUFFICES ASSUME Inv, [Next]_vars PROVE OutcomesOK'
    OBVIOUS
<1> USE CaptureAssumption DEF Inv, TypeOK, OutcomesOK
<1>1. CASE Press
    <2>1. call.ids \in 0 .. MaxIds /\ call.at <= call.ids => call.at \in 0 .. MaxIds
        BY <1>1 DEF Press, PressInv, ThreadOK, Commands
    <2>2. call.ids \in 0 .. MaxIds
        BY DEF ThreadOK, Commands
    <2> QED
        BY <1>1, <2>1, <2>2 DEF Press
<1>2. CASE PressFails
    <2>1. call.at \in 0 .. MaxIds
        BY <1>2 DEF PressFails, PressInv, ThreadOK, Commands
    <2> QED
        BY <1>2, <2>1 DEF PressFails
<1>3. CASE UNCHANGED <<failedAt, acked>>
    BY <1>3
<1> QED
    BY <1>1, <1>2, <1>3
    DEF Next, NVDA, Begin, GoOn, Speak, WriteCells, RunPosted, GetSpeech, GetBraille,
        GetLastSpeech, GetNextSpeechIndex, WaitForSpeech, Look, Miss,
        WaitForSpeechToFinish, LookFinished, PressGesture, Pressed, Announce, Tick,
        vars, history

-----------------------------------------------------------------------------
\* What was posted are gestures of commands, and announcements.
LEMMA PostedType ==
    ASSUME TypeOK
    PROVE  /\ Len(posted) \in Nat /\ DOMAIN posted = 1 .. Len(posted)
           /\ \A i \in DOMAIN posted :
                 /\ posted[i].number \in Nat /\ posted[i].number \in Numbers
                 /\ posted[i].at \in Nat
<1>1. posted \in Seq([number : Numbers, at : 0 .. MaxIds])
    BY DEF TypeOK, MainOK
<1>2. /\ Len(posted) \in Nat /\ DOMAIN posted = 1 .. Len(posted)
      /\ \A i \in DOMAIN posted : posted[i] \in [number : Numbers, at : 0 .. MaxIds]
    BY <1>1, SequenceFacts
<1> QED
    BY <1>2, CaptureAssumption DEF Numbers

\* A step that neither presses nor posts nor takes a command up keeps what is
\* known of the gestures, wherever it leaves the thread.
LEMMA PressFrame ==
    ASSUME Inv, UNCHANGED <<posted, call, calls, failedAt, acked>>,
           ran' \in ran .. Len(posted),
           \/ pc' \notin {"press", "pressing"}
           \/ pc' = pc /\ UNCHANGED done
           \/ pc' = pc /\ ran' = Len(posted),
           pc' = "idle" \/ call.number \in Numbers
    PROVE  PressInv'
<1> USE DEF Inv, PressInv, Task
<1>1. ran \in Nat /\ ran' \in Nat /\ ran <= ran'
    BY DEF TypeOK, MainOK
<1>2. \A k : (\E i \in 1 .. ran : posted[i] = Task(k))
                => (\E i \in 1 .. ran' : posted'[i] = Task(k)')
    BY <1>1
<1> QED
    BY <1>1, <1>2

\* A command that is taken up is the last one, and nothing is known of it yet.
LEMMA PressFresh ==
    ASSUME Inv, pc = "idle", calls' = calls + 1, call'.number = calls', calls' \in Numbers,
           UNCHANGED <<posted, ran, done, failedAt, acked>>,
           pc' \notin {"press", "pressing"} \/ (pc' = "press" /\ call'.at = 1),
           call' \in Commands
    PROVE  PressInv'
<1> USE DEF Inv, PressInv
<1>1. calls \in Nat /\ call'.ids \in Nat
    BY CaptureAssumption DEF TypeOK, ThreadOK, Commands
<1>2. \A i \in DOMAIN posted : posted[i].number \in Nat /\ posted[i].number < calls'
    BY <1>1, PostedType
<1> QED
    BY <1>1, <1>2 DEF Numbers

\* Every step keeps what is known of the gestures.
LEMMA PressStep == Inv /\ [Next]_vars => PressInv'
<1> SUFFICES ASSUME Inv, [Next]_vars PROVE PressInv'
    OBVIOUS
<1>a. ran \in 0 .. Len(posted) /\ Len(posted) \in Nat /\ ran \in ran .. Len(posted)
    BY DEF Inv, TypeOK, MainOK
<1>b. pc # "idle" => call.number \in Numbers
    BY DEF Inv, TypeOK, ThreadOK, PressInv
<1>1. CASE RunPosted
    <2>1. /\ UNCHANGED <<posted, call, calls, failedAt, acked, pc>>
          /\ ran' \in ran .. Len(posted)
          /\ UNCHANGED done \/ ran' = Len(posted)
        BY <1>1, <1>a DEF RunPosted, thread, history
    <2>2. pc' = "idle" \/ call.number \in Numbers
        BY <2>1, <1>b
    <2> QED
        BY <2>1, <2>2, PressFrame
<1>2. ASSUME NEW kind, NEW from, NEW to, AnswerAtOnce(kind, from, to),
             UNCHANGED <<main, failedAt, acked>>
      PROVE  PressInv'
    BY <1>2, AtOnceType, PressFresh DEF main
<1>3. CASE WaitForSpeech
    <2>1. PICK text \in Texts, after \in {-1} \cup Indices :
              Take([NoCall EXCEPT !.text = text, !.after = after], "wait")
        BY <1>3 DEF WaitForSpeech
    <2>2. Idle /\ UNCHANGED <<posted, ran, done, failedAt, acked>>
        BY <1>3 DEF WaitForSpeech, main
    <2>3. /\ call' \in Commands /\ calls' \in Numbers /\ calls' = calls + 1
          /\ call'.number = calls' /\ pc' = "wait"
        BY <2>1, <2>2, TakeType, WaitType
    <2> QED
        BY <2>2, <2>3, PressFresh DEF Idle
<1>4. CASE WaitForSpeechToFinish
    <2>1. /\ Idle /\ Take(NoCall, "settle")
          /\ UNCHANGED <<posted, ran, done, failedAt, acked>>
        BY <1>4 DEF WaitForSpeechToFinish, main, history
    <2>2. /\ call' \in Commands /\ calls' \in Numbers /\ calls' = calls + 1
          /\ call'.number = calls' /\ pc' = "settle"
        BY <2>1, TakeType, NoCallType
    <2> QED
        BY <2>1, <2>2, PressFresh DEF Idle
<1>5. CASE PressGesture
    <2>1. PICK ids \in 1 .. MaxIds : Take([NoCall EXCEPT !.ids = ids, !.at = 1], "press")
        BY <1>5 DEF PressGesture
    <2> QED
        BY <1>5, <2>1, TakeType, GesturesType, PressFresh
        DEF PressGesture, main, history, Idle
<1>6. CASE Look \/ Miss \/ LookFinished \/ PressFails \/ Tick \/ Speak \/ WriteCells
           \/ UNCHANGED vars
    <2>1. CASE PressFails
        <3>1. call.at \in Nat \ {0} /\ call.number \in Numbers
            BY <2>1 DEF PressFails, Inv, PressInv, TypeOK, ThreadOK, Commands
        <3> QED
            BY <2>1, <3>1 DEF PressFails, Answer, main, Inv, PressInv, TypeOK, OutcomesOK, Numbers
    <2>2. CASE ~ PressFails
        <3>1. /\ UNCHANGED <<posted, call, calls, failedAt, acked, ran, done>>
              /\ pc' \notin {"press", "pressing"} \/ pc' = pc
              /\ pc' = "idle" \/ pc # "idle"
            BY <1>6, <2>2
            DEF Look, Miss, LookFinished, Tick, Speak, WriteCells, Answer, main, thread,
                history, vars
        <3> QED
            BY <3>1, <1>a, <1>b, PressFrame
    <2> QED
        BY <2>1, <2>2
<1>7. CASE Press
    <2>1. /\ call.number \in Numbers /\ call.at \in Nat /\ call.ids \in Nat
          /\ call.at \in 1 .. call.ids + 1 /\ calls \in Nat
          /\ UNCHANGED <<ran, call, calls>> /\ call.number = calls
        BY <1>7, CaptureAssumption
        DEF Press, Inv, PressInv, TypeOK, ThreadOK, Commands
    <2>2. CASE /\ call.at <= call.ids /\ posted' = Append(posted, Task(call.at))
               /\ done' = "no" /\ pc' = "pressing" /\ UNCHANGED <<failedAt, acked>>
        <3> DEFINE top == Len(posted) + 1
        <3>1. /\ Len(posted') = top /\ DOMAIN posted' = 1 .. top
              /\ posted'[top] = Task(call.at)
              /\ \A i \in 1 .. Len(posted) : posted'[i] = posted[i]
              /\ posted' # << >>
            BY <2>2, SequenceFacts DEF Inv, TypeOK, MainOK
        <3>2. /\ \A i \in DOMAIN posted' : posted'[i].number <= calls'
              /\ \A i \in DOMAIN posted' : posted'[i].number = call.number =>
                    posted'[i].at < call.at + 1
            <4> SUFFICES ASSUME NEW i \in DOMAIN posted'
                         PROVE  /\ posted'[i].number <= calls'
                                /\ posted'[i].number = call.number =>
                                      posted'[i].at < call.at + 1
                OBVIOUS
            <4>1. CASE i = top
                BY <2>1, <3>1, <4>1 DEF Task
            <4>2. CASE i # top
                <5>1. i \in DOMAIN posted /\ posted'[i] = posted[i]
                    BY <3>1, <4>2, PostedType DEF Inv
                <5> QED
                    BY <1>7, <2>1, <5>1, PostedType DEF Inv, PressInv, Press
            <4> QED
                BY <4>1, <4>2
        <3>3. \A k \in 1 .. call.at - 1 : \E i \in 1 .. ran : posted'[i] = Task(k)
            <4>1. ran <= Len(posted) /\ ran \in Nat /\ Len(posted) \in Nat
                BY <1>a
            <4>2. \A k \in 1 .. call.at - 1 : \E i \in 1 .. ran : posted[i] = Task(k)
                BY <1>7 DEF Inv, PressInv, Press
            <4> QED
                BY <3>1, <4>1, <4>2
        <3>4. Task(call.at)' = Task(call.at) /\ \A k : Task(k)' = Task(k)
            BY <2>1 DEF Task
        <3>5. failedAt[call.number] = 0
              /\ \A n \in Numbers : n > calls => failedAt[n] = 0 /\ acked[n] = 0
            BY <1>7 DEF Inv, PressInv, Press
        <3> QED
            BY <2>1, <2>2, <3>1, <3>2, <3>3, <3>4, <3>5 DEF PressInv
    <2>3. CASE pc' = "idle" /\ UNCHANGED <<posted, done>>
        <3>1. \A n \in Numbers : n > calls => failedAt'[n] = 0 /\ acked'[n] = 0
            <4>1. \/ failedAt' = [failedAt EXCEPT ![call.number] = call.at] /\ UNCHANGED acked
                  \/ acked' = [acked EXCEPT ![call.number] = call.ids] /\ UNCHANGED failedAt
                BY <1>7, <2>3 DEF Press
            <4>2. \A n \in Numbers : n > calls =>
                      failedAt[n] = 0 /\ acked[n] = 0 /\ n # call.number
                BY <2>1 DEF Inv, PressInv, Numbers
            <4>3. DOMAIN failedAt = Numbers /\ DOMAIN acked = Numbers
                BY DEF Inv, TypeOK, OutcomesOK
            <4> QED
                BY <4>1, <4>2, <4>3
        <3> QED
            BY <2>1, <2>3, <3>1 DEF Inv, PressInv
    <2> QED
        BY <1>7, <2>2, <2>3 DEF Press, Answer
<1>8. CASE Pressed
    <2>1. /\ call.number \in Numbers /\ call.at \in Nat /\ call.ids \in Nat
          /\ call.at \in 1 .. call.ids /\ calls \in Nat
          /\ UNCHANGED <<posted, ran, calls, failedAt, acked>> /\ pc' = "press"
          /\ call.number = calls /\ call'.number = calls /\ call'.ids = call.ids
          /\ call'.at = call.at + 1
        BY <1>8, CaptureAssumption
        DEF Pressed, Inv, PressInv, TypeOK, ThreadOK, Commands, main, history
    <2>2. ran = Len(posted) /\ posted[ran] = Task(call.at) /\ ran \in 1 .. ran
        BY <1>8, PostedType DEF Pressed, Inv, PressInv
    <2>3. \A k \in 1 .. call.at : \E i \in 1 .. ran : posted[i] = Task(k)
        <3> SUFFICES ASSUME NEW k \in 1 .. call.at
                     PROVE  \E i \in 1 .. ran : posted[i] = Task(k)
            OBVIOUS
        <3>1. CASE k = call.at
            BY <2>2, <3>1
        <3>2. CASE k # call.at
            <4>1. k \in 1 .. call.at - 1
                BY <2>1, <3>2
            <4> QED
                BY <1>8, <4>1 DEF Pressed, Inv, PressInv
        <3> QED
            BY <3>1, <3>2
    <2>4. \A k : Task(k)' = Task(k)
        BY <2>1 DEF Task
    <2>5. \A i \in DOMAIN posted : posted[i].number = call.number => posted[i].at < call.at + 1
        BY <1>8 DEF Pressed, Inv, PressInv
    <2> QED
        BY <1>8, <2>1, <2>3, <2>4, <2>5 DEF Pressed, Inv, PressInv
<1>9. CASE Announce
    <2>1. AnswerAtOnce("ok", 0, 0) /\ UNCHANGED <<ran, done, failedAt, acked>>
          /\ posted' = Append(posted, [number |-> calls + 1, at |-> 0])
        BY <1>9 DEF Announce, history
    <2>2. pc' = "idle" /\ calls' = calls + 1 /\ call'.number = calls' /\ calls \in Nat
        <3>1. pc' = "idle" /\ calls' = calls + 1 /\ call'.number = calls'
            BY <2>1, AtOnceType
        <3>2. calls \in Nat
            BY CaptureAssumption DEF Inv, TypeOK, ThreadOK
        <3> QED
            BY <3>1, <3>2
    <2>3. \A i \in DOMAIN posted' : posted'[i].number <= calls'
        <3>1. [number |-> calls + 1, at |-> 0].number = calls + 1
            OBVIOUS
        <3> QED
            BY <2>1, <2>2, <3>1, PostedType DEF Inv, PressInv, TypeOK, MainOK
    <2> QED
        BY <2>1, <2>2, <2>3 DEF Inv, PressInv, Numbers
<1> QED
    BY <1>1, <1>2, <1>3, <1>4, <1>5, <1>6, <1>7, <1>8, <1>9
    DEF Next, NVDA, Begin, GoOn, GetSpeech, GetBraille, GetLastSpeech,
        GetNextSpeechIndex, history

-----------------------------------------------------------------------------
\* An utterance does not change those before it.
LEMMA SpeechKept ==
    ASSUME Inv, [Next]_vars
    PROVE  /\ Len(speech) \in Nat /\ Len(speech') \in Nat /\ Len(speech) <= Len(speech')
           /\ \A i \in 0 .. Len(speech) - 1 : speech'[i + 1] = speech[i + 1]
<1>1. speech \in Seq(SUBSET Texts)
    BY DEF Inv, TypeOK, BuffersOK
<1>2. CASE Speak
    BY <1>1, <1>2, SequenceFacts DEF Speak
<1>3. CASE UNCHANGED speech
    BY <1>1, <1>3
<1> QED
    BY <1>2, <1>3
    DEF Next, NVDA, Begin, GoOn, WriteCells, RunPosted, GetSpeech, GetBraille, GetLastSpeech,
        GetNextSpeechIndex, WaitForSpeech, Look, Miss, WaitForSpeechToFinish,
        LookFinished, PressGesture, Press, Pressed, PressFails, Announce, Tick,
        vars, buffers

\* A look that finds no match leaves none behind it.
LEMMA LookComplete ==
    ASSUME Inv, NEW top \in 0 .. Len(speech),
           \A j \in Matches(call.text, First(call.after)) : top <= j
    PROVE  \A i \in 0 .. top - 1 : i > call.after => call.text \notin speech[i + 1]
<1>1. call.after \in Int /\ call.after >= -1 /\ Len(speech) \in Nat
    BY CaptureAssumption DEF Inv, TypeOK, ThreadOK, BuffersOK, Commands, Indices
<1> SUFFICES ASSUME NEW i \in 0 .. top - 1, i > call.after, call.text \in speech[i + 1]
             PROVE  FALSE
    OBVIOUS
<1>2. i \in First(call.after) .. Len(speech) - 1
    BY <1>1 DEF First
<1>3. i \in Matches(call.text, First(call.after))
    BY <1>2 DEF Matches
<1> QED
    BY <1>1, <1>3

\* Every step keeps what is known of the waits.
LEMMA WaitStep == Inv /\ [Next]_vars => WaitInv'
<1> SUFFICES ASSUME Inv, [Next]_vars PROVE WaitInv'
    OBVIOUS
<1>1. lookedAt \in 0 .. Len(speech) /\ Len(speech) \in Nat
    BY SpeechKept DEF Inv, TypeOK, BuffersOK
<1>2. CASE WaitForSpeech
    BY <1>2 DEF WaitForSpeech, WaitInv
<1>3. CASE Look
    <2>1. CASE Matches(call.text, First(call.after)) = {}
        <3>1. \A i \in 0 .. Len(speech) - 1 : i > call.after => call.text \notin speech[i + 1]
            BY <1>1, <2>1, LookComplete
        <3> QED
            BY <1>3, <3>1 DEF Look, WaitInv, buffers
    <2>2. CASE pc' = "idle"
        BY <2>2 DEF WaitInv
    <2> QED
        BY <1>3, <2>1, <2>2 DEF Look, Answer
<1>4. CASE UNCHANGED <<call, lookedAt, pc>>
    BY <1>1, <1>4, SpeechKept DEF Inv, WaitInv
<1>5. CASE pc' \notin {"wait", "missed"}
    BY <1>5 DEF WaitInv
<1> QED
    BY <1>2, <1>3, <1>4, <1>5
    DEF Next, NVDA, Begin, GoOn, Speak, WriteCells, RunPosted, GetSpeech, GetBraille,
        GetLastSpeech, GetNextSpeechIndex, Miss, WaitForSpeechToFinish, LookFinished,
        PressGesture, Press, Pressed, PressFails, Announce, Tick, AnswerAtOnce, Take,
        Answer, vars, thread, history

\* The invariant holds from the start and every step keeps it (module Capture,
\* section "The inductive invariant").
THEOREM InvIsInvariant == Spec => []Inv
<1>1. Inv /\ [Next]_vars => Inv'
    BY BuffersStep, MainStep, ThreadStep, AnswerStep, OutcomesStep, PressStep, WaitStep
    DEF Inv, TypeOK
<1> QED
    BY InitInv, <1>1, PTL DEF Spec

-----------------------------------------------------------------------------
\* A wait answers the first utterance after after_index that holds the text, and
\* misses only one that was not there when it looked (speech_buffer.py, wait_for).
THEOREM WaitIsExact == Spec => []WaitExact
<1>1. Init => WaitExact
    BY DEF Init, WaitExact, NoAnswer
<1>2. Inv /\ WaitExact /\ [Next]_vars => WaitExact'
    <2> SUFFICES ASSUME Inv, WaitExact, [Next]_vars PROVE WaitExact'
        OBVIOUS
    <2>1. /\ lookedAt \in 0 .. Len(speech) /\ Len(speech) \in Nat
          /\ call.after \in Int /\ call.after >= -1 /\ answer.from \in Nat
        BY SpeechKept, CaptureAssumption, SMTT(60)
        DEF Inv, TypeOK, BuffersOK, ThreadOK, AnswerOK, Commands, Indices
    <2>2. CASE Look
        <3>1. CASE \E i \in Matches(call.text, First(call.after)) :
                      /\ \A j \in Matches(call.text, First(call.after)) : i <= j
                      /\ Answer("found", i, i)
            <4>1. PICK i \in Matches(call.text, First(call.after)) :
                      /\ \A j \in Matches(call.text, First(call.after)) : i <= j
                      /\ Answer("found", i, i)
                BY <3>1
            <4>2. /\ i \in 0 .. Len(speech) - 1 /\ i > call.after
                  /\ call.text \in speech[i + 1]
                BY <2>1 DEF Matches, First
            <4>3. \A j \in 0 .. i - 1 : j > call.after => call.text \notin speech[j + 1]
                BY <2>1, <4>1, <4>2, LookComplete, SMTT(60)
            <4>4. answer' = [kind |-> "found", from |-> i, to |-> i]
                BY <4>1 DEF Answer
            <4> QED
                BY <2>2, <4>2, <4>3, <4>4 DEF Look, WaitExact, buffers
        <3>2. CASE pc' # "idle"
            BY <3>2 DEF WaitExact
        <3> QED
            BY <2>2, <3>1, <3>2 DEF Look
    <2>3. CASE Miss
        <3>1. \A i \in 0 .. lookedAt - 1 : i > call.after => call.text \notin speech[i + 1]
            BY <2>3 DEF Miss, Inv, WaitInv
        <3>2. answer' = [kind |-> "missed", from |-> Len(speech), to |-> Len(speech)]
              /\ UNCHANGED <<speech, call, lookedAt>>
            BY <2>3 DEF Miss, Answer, buffers, history
        <3> QED
            BY <2>1, <3>1, <3>2 DEF WaitExact
    <2>4. CASE pc' # "idle"
        BY <2>4 DEF WaitExact
    <2>5. CASE answer'.kind \notin {"found", "missed"}
        BY <2>5 DEF WaitExact
    <2>6. CASE UNCHANGED <<answer, call, lookedAt, pc>>
        <3>1. /\ Len(speech) <= Len(speech') /\ Len(speech') \in Nat
              /\ \A i \in 0 .. Len(speech) - 1 : speech'[i + 1] = speech[i + 1]
            BY SpeechKept
        <3> SUFFICES ASSUME pc = "idle", answer.kind \in {"found", "missed"} PROVE WaitExact'
            BY <2>6 DEF WaitExact
        <3>2. CASE answer.kind = "found"
            <4>1. /\ answer.from > call.after /\ answer.from < Len(speech)
                  /\ call.text \in speech[answer.from + 1]
                  /\ \A i \in 0 .. answer.from - 1 :
                        i > call.after => call.text \notin speech[i + 1]
                BY <3>2 DEF WaitExact
            <4>2. \A i \in 0 .. answer.from : speech'[i + 1] = speech[i + 1]
                BY <2>1, <3>1, <4>1
            <4>3. answer.from < Len(speech') /\ call.text \in speech'[answer.from + 1]
                BY <2>1, <3>1, <4>1, <4>2
            <4>4. \A i \in 0 .. answer.from - 1 :
                      i > call.after => call.text \notin speech'[i + 1]
                BY <2>1, <4>1, <4>2
            <4> QED
                BY <2>6, <3>2, <4>1, <4>3, <4>4 DEF WaitExact
        <3>3. CASE answer.kind = "missed"
            BY <2>1, <2>6, <3>1, <3>3 DEF WaitExact
        <3> QED
            BY <3>2, <3>3
    <2>7. ASSUME NEW kind, NEW from, NEW to, AnswerAtOnce(kind, from, to),
                 kind \notin {"found", "missed"}
          PROVE  WaitExact'
        BY <2>5, <2>7 DEF AnswerAtOnce
    <2>8. CASE GetSpeech \/ GetBraille \/ GetLastSpeech \/ GetNextSpeechIndex \/ Announce
        BY <2>7, <2>8 DEF GetSpeech, GetBraille, GetLastSpeech, GetNextSpeechIndex, Announce
    <2>9. CASE LookFinished \/ Press \/ PressFails
        <3>1. pc' # "idle" \/ answer'.kind \in {"finished", "unfinished", "ok", "error"}
            BY <2>9 DEF LookFinished, Press, PressFails, Answer
        <3> QED
            BY <2>4, <2>5, <3>1
    <2> QED
        BY <2>2, <2>3, <2>4, <2>6, <2>8, <2>9
        DEF Next, NVDA, Begin, GoOn, Speak, WriteCells, RunPosted, WaitForSpeech,
            WaitForSpeechToFinish, PressGesture, Pressed, Tick, Take, vars, thread, history
<1> QED
    BY InvIsInvariant, <1>1, <1>2, PTL DEF Spec

-----------------------------------------------------------------------------
\* What is posted last comes after everything before it, and after no gesture of
\* a command that failed earlier.
LEMMA OrderedPost ==
    ASSUME Inv, PressOrder, NEW n \in Numbers, NEW k \in Nat,
           posted' = Append(posted, [number |-> n, at |-> k]),
           UNCHANGED <<ran, failedAt, acked>>, n >= calls, failedAt[n] = 0,
           \A i \in DOMAIN posted : posted[i].number = n => posted[i].at < k
    PROVE  PressOrder'
<1> DEFINE top == Len(posted) + 1
<1>1. /\ DOMAIN posted = 1 .. Len(posted) /\ Len(posted) \in Nat /\ ran \in 0 .. Len(posted)
      /\ DOMAIN posted' = 1 .. top
      /\ posted'[top].number = n /\ posted'[top].at = k
      /\ \A i \in 1 .. Len(posted) : posted'[i] = posted[i]
    BY PostedType DEF Inv, TypeOK, MainOK
<1>2. calls \in Nat /\ n \in Nat
    BY CaptureAssumption DEF Inv, TypeOK, ThreadOK, Numbers
<1>3. \A i, j \in DOMAIN posted' : i < j =>
          \/ posted'[i].number < posted'[j].number
          \/ posted'[i].number = posted'[j].number /\ posted'[i].at < posted'[j].at
    <2> SUFFICES ASSUME NEW i \in DOMAIN posted', NEW j \in DOMAIN posted', i < j
                 PROVE  \/ posted'[i].number < posted'[j].number
                        \/ /\ posted'[i].number = posted'[j].number
                           /\ posted'[i].at < posted'[j].at
        OBVIOUS
    <2>1. i \in DOMAIN posted /\ posted'[i] = posted[i]
        BY <1>1
    <2>2. CASE j = top
        <3>1. posted[i].number <= n /\ posted[i].number \in Nat
            BY <1>2, <2>1, PostedType DEF Inv, PressInv
        <3> QED
            BY <1>1, <1>2, <2>1, <2>2, <3>1
    <2>3. CASE j # top
        <3>1. j \in DOMAIN posted /\ posted'[j] = posted[j]
            BY <1>1, <2>3
        <3> QED
            BY <2>1, <3>1 DEF PressOrder
    <2> QED
        BY <2>2, <2>3
<1>4. \A m \in Numbers : \A l \in 1 .. acked'[m] :
          \E i \in 1 .. ran' : posted'[i] = [number |-> m, at |-> l]
    <2>1. \A i \in 1 .. ran : posted'[i] = posted[i]
        BY <1>1
    <2>2. \A m \in Numbers : \A l \in 1 .. acked[m] :
              \E i \in 1 .. ran : posted[i] = [number |-> m, at |-> l]
        BY DEF PressOrder
    <2>3. acked' = acked /\ ran' = ran
        OBVIOUS
    <2>4. ASSUME NEW m \in Numbers, NEW l \in 1 .. acked[m]
          PROVE  \E i \in 1 .. ran : posted'[i] = [number |-> m, at |-> l]
        <3>1. PICK i \in 1 .. ran : posted[i] = [number |-> m, at |-> l]
            BY <2>2
        <3> QED
            BY <2>1, <3>1
    <2> QED
        BY <2>3, <2>4
<1>5. \A m \in Numbers : failedAt'[m] > 0 =>
          \A i \in DOMAIN posted' : posted'[i].number = m => posted'[i].at <= failedAt'[m]
    <2> SUFFICES ASSUME NEW m \in Numbers, failedAt[m] > 0, NEW i \in DOMAIN posted',
                        posted'[i].number = m
                 PROVE  posted'[i].at <= failedAt[m]
        OBVIOUS
    <2>1. i # top
        BY <1>1
    <2>2. i \in DOMAIN posted /\ posted'[i] = posted[i]
        BY <1>1, <2>1
    <2> QED
        BY <2>2 DEF PressOrder
<1> QED
    BY <1>3, <1>4, <1>5 DEF PressOrder

\* Gestures reach the main thread in order, an acknowledged command had all of
\* its gestures run, and a failed one presses nothing after the gesture it failed
\* at (press_gesture.py, nvda_gesture_sender.py).
THEOREM PressesInOrder == Spec => []PressOrder
<1>1. Init => PressOrder
    BY CaptureAssumption DEF Init, PressOrder
<1>2. Inv /\ PressOrder /\ [Next]_vars => PressOrder'
    <2> SUFFICES ASSUME Inv, PressOrder, [Next]_vars PROVE PressOrder'
        OBVIOUS
    <2>1. /\ DOMAIN posted = 1 .. Len(posted) /\ Len(posted) \in Nat
          /\ ran \in 0 .. Len(posted)
          /\ DOMAIN failedAt = Numbers /\ DOMAIN acked = Numbers
        BY PostedType DEF Inv, TypeOK, MainOK, OutcomesOK
    <2>2. ASSUME UNCHANGED <<posted, failedAt, acked>>, ran' = ran \/ ran' = ran + 1
          PROVE  PressOrder'
        <3>1. \A i : i \in 1 .. ran => i \in 1 .. ran'
            BY <2>1, <2>2
        <3> QED
            BY <2>2, <3>1 DEF PressOrder
    <2>3. CASE Press \/ PressFails
        <3>1. /\ call.number \in Numbers /\ call.at \in Nat \ {0} /\ call.ids \in Nat
              /\ call.at <= call.ids + 1 /\ call.number = calls /\ failedAt[call.number] = 0
              /\ calls \in Nat
            BY <2>3, CaptureAssumption
            DEF Press, PressFails, Inv, PressInv, TypeOK, ThreadOK, Commands
        <3>2. CASE posted' = Append(posted, Task(call.at)) /\ UNCHANGED <<ran, failedAt, acked>>
                   /\ Press
            <4>1. \A i \in DOMAIN posted :
                      posted[i].number = call.number => posted[i].at < call.at
                <5>1. pc = "press"
                    BY <3>2 DEF Press
                <5>2. \A i \in DOMAIN posted : posted[i].number = call.number =>
                          posted[i].at < call.at + 0
                    BY <5>1 DEF Inv, PressInv
                <5> QED
                    BY <3>1, <5>2
            <4> QED
                BY <3>1, <3>2, <4>1, OrderedPost DEF Task
        <3>3. CASE /\ UNCHANGED <<posted, ran, acked>>
                   /\ failedAt' = [failedAt EXCEPT ![call.number] = call.at]
            <4>1. \A i \in DOMAIN posted :
                      posted[i].number = call.number => posted[i].at <= call.at
                BY <2>3, <3>1, PostedType DEF Press, PressFails, Inv, PressInv
            <4> QED
                BY <2>1, <3>1, <3>3, <4>1 DEF PressOrder
        <3>4. CASE /\ UNCHANGED <<posted, ran, failedAt>> /\ Press
                   /\ call.at > call.ids
                   /\ acked' = [acked EXCEPT ![call.number] = call.ids]
            <4>1. \A k \in 1 .. call.ids :
                      \E i \in 1 .. ran : posted[i] = [number |-> call.number, at |-> k]
                <5>1. call.at - 1 = call.ids
                    BY <3>1, <3>4
                <5> QED
                    BY <3>4, <5>1 DEF Press, Inv, PressInv, Task
            <4> QED
                BY <2>1, <3>1, <3>4, <4>1 DEF PressOrder
        <3> QED
            BY <2>3, <3>2, <3>3, <3>4 DEF Press, PressFails, main
    <2>4. CASE Announce
        <3>1. AnswerAtOnce("ok", 0, 0) /\ UNCHANGED <<ran, failedAt, acked>>
              /\ posted' = Append(posted, [number |-> calls + 1, at |-> 0])
            BY <2>4 DEF Announce, history
        <3>2. calls + 1 \in Numbers
            BY <3>1, AtOnceType
        <3>3. calls \in Nat
            BY CaptureAssumption DEF Inv, TypeOK, ThreadOK
        <3>4. failedAt[calls + 1] = 0
            BY <3>2, <3>3 DEF Inv, PressInv
        <3>5. \A i \in DOMAIN posted : posted[i].number # calls + 1
            BY <3>3, PostedType DEF Inv, PressInv
        <3> QED
            BY <3>1, <3>2, <3>3, <3>4, <3>5, OrderedPost
    <2> QED
        BY <2>2, <2>3, <2>4
        DEF Next, NVDA, Begin, GoOn, Speak, WriteCells, RunPosted, GetSpeech, GetBraille,
            GetLastSpeech, GetNextSpeechIndex, WaitForSpeech, Look, Miss,
            WaitForSpeechToFinish, LookFinished, PressGesture, Pressed, Tick,
            vars, main, history
<1> QED
    BY InvIsInvariant, <1>1, <1>2, PTL DEF Spec

-----------------------------------------------------------------------------
(***************************************************************************)
(* What reading speech piece by piece gives.  Text is a recursive function *)
(* of the entries: first that it is one, then that it may be cut anywhere. *)
(***************************************************************************)

\* f holds the text of each prefix of the entries, up to the m-th.
TextUpTo(f, entries, m) ==
    /\ f = [n \in 0 .. m |-> f[n]]
    /\ f[0] = << >>
    /\ \A n \in 1 .. m :
          f[n] = IF entries[n] = {} THEN f[n - 1] ELSE Append(f[n - 1], entries[n])

\* There is such a function for every length.
LEMMA TextUpToExists ==
    ASSUME NEW entries, NEW m \in Nat
    PROVE  \E f : TextUpTo(f, entries, m)
<1> DEFINE T == {k \in Nat : \E f : TextUpTo(f, entries, k)}
<1>1. 0 \in T
    <2>1. TextUpTo([n \in 0 .. 0 |-> << >>], entries, 0)
        BY DEF TextUpTo
    <2> QED
        BY <2>1
<1>2. ASSUME NEW k \in Nat, k \in T PROVE k + 1 \in T
    <2>1. PICK f : TextUpTo(f, entries, k)
        BY <1>2
    <2> DEFINE last == IF entries[k + 1] = {} THEN f[k] ELSE Append(f[k], entries[k + 1])
               g == [n \in 0 .. k + 1 |-> IF n = k + 1 THEN last ELSE f[n]]
    <2>2. g = [n \in 0 .. k + 1 |-> g[n]]
        OBVIOUS
    <2>3. g[0] = << >> /\ g[k + 1] = last /\ \A n \in 0 .. k : g[n] = f[n]
        BY <2>1 DEF TextUpTo
    <2>4. ASSUME NEW n \in 1 .. k + 1
          PROVE  g[n] = IF entries[n] = {} THEN g[n - 1] ELSE Append(g[n - 1], entries[n])
        <3>1. CASE n = k + 1
            <4>1. g[n - 1] = f[k]
                BY <2>3, <3>1
            <4> HIDE DEF g
            <4> QED
                BY <2>3, <3>1, <4>1
        <3>2. CASE n # k + 1
            <4>1. n \in 1 .. k /\ n \in 0 .. k /\ n - 1 \in 0 .. k
                BY <3>2
            <4> HIDE DEF g
            <4> QED
                BY <2>1, <2>3, <4>1 DEF TextUpTo
        <3> QED
            BY <3>1, <3>2
    <2>5. TextUpTo(g, entries, k + 1)
        <3> HIDE DEF g
        <3> QED
            BY <2>2, <2>3, <2>4 DEF TextUpTo
    <2> HIDE DEF g
    <2> QED
        BY <2>5
<1> HIDE DEF T
<1>3. Nat \subseteq T
    BY <1>1, <1>2, NaturalInduction
<1> QED
    BY <1>3 DEF T

\* Text is the value of that function at the end.
LEMMA TextIsUpTo ==
    ASSUME NEW S, NEW entries \in Seq(S)
    PROVE  \E f : TextUpTo(f, entries, Len(entries)) /\ Text(entries) = f[Len(entries)]
<1> DEFINE len == Len(entries)
           Is(f) == f = [n \in 0 .. len |->
                            IF n = 0 THEN << >>
                            ELSE IF entries[n] = {} THEN f[n - 1]
                            ELSE Append(f[n - 1], entries[n])]
<1>1. len \in Nat
    OBVIOUS
<1> HIDE DEF len
<1>2. PICK f : TextUpTo(f, entries, len)
    BY <1>1, TextUpToExists
<1>3. Is(f)
    <2>1. ASSUME NEW n \in 0 .. len
          PROVE  f[n] = IF n = 0 THEN << >>
                        ELSE IF entries[n] = {} THEN f[n - 1]
                        ELSE Append(f[n - 1], entries[n])
        <3>1. CASE n = 0
            BY <1>2, <3>1 DEF TextUpTo
        <3>2. CASE n # 0
            <4>1. n \in 1 .. len
                BY <1>1, <3>2
            <4>2. f[n] = IF entries[n] = {} THEN f[n - 1] ELSE Append(f[n - 1], entries[n])
                BY <1>2, <4>1, Zenon DEF TextUpTo
            <4> QED
                BY <3>2, <4>2, Zenon
        <3> QED
            BY <3>1, <3>2
    <2>2. f = [n \in 0 .. len |-> f[n]]
        BY <1>2 DEF TextUpTo
    <2> QED
        BY <2>1, <2>2
<1>4. Is(CHOOSE g : Is(g))
    <2> HIDE DEF Is
    <2> QED
        BY <1>3, Zenon
<1>5. ASSUME NEW g, Is(g) PROVE TextUpTo(g, entries, len)
    <2>1. \A n \in 0 .. len :
              g[n] = IF n = 0 THEN << >>
                     ELSE IF entries[n] = {} THEN g[n - 1]
                     ELSE Append(g[n - 1], entries[n])
        BY <1>5
    <2>2. g = [n \in 0 .. len |-> g[n]]
        BY <1>5
    <2> HIDE DEF Is
    <2> QED
        BY <1>1, <2>1, <2>2 DEF TextUpTo
<1>6. Text(entries) = (CHOOSE g : Is(g))[len]
    BY DEF Text, len
<1> QED
    BY <1>4, <1>5, <1>6 DEF len

\* Two such functions agree as far as their entries do.
LEMMA TextUpToAgrees ==
    ASSUME NEW s, NEW t, NEW f, NEW g, NEW k \in Nat, NEW m \in Nat, k <= m,
           TextUpTo(f, s, k), TextUpTo(g, t, m), \A i \in 1 .. k : s[i] = t[i]
    PROVE  f[k] = g[k]
<1> DEFINE T == {n \in Nat : n <= k => f[n] = g[n]}
<1>1. 0 \in T
    BY DEF TextUpTo
<1>2. ASSUME NEW n \in Nat, n \in T PROVE n + 1 \in T
    <2> SUFFICES ASSUME n + 1 <= k PROVE f[n + 1] = g[n + 1]
        OBVIOUS
    <2>1. n + 1 \in 1 .. k /\ n + 1 \in 1 .. m /\ (n + 1) - 1 = n /\ f[n] = g[n]
        BY <1>2
    <2>2. f[n + 1] = IF s[n + 1] = {} THEN f[n] ELSE Append(f[n], s[n + 1])
        <3>1. f[n + 1] = IF s[n + 1] = {} THEN f[(n + 1) - 1]
                                          ELSE Append(f[(n + 1) - 1], s[n + 1])
            BY <2>1, Zenon DEF TextUpTo
        <3> QED
            BY <2>1, <3>1, Zenon
    <2>3. g[n + 1] = IF t[n + 1] = {} THEN g[n] ELSE Append(g[n], t[n + 1])
        <3>1. g[n + 1] = IF t[n + 1] = {} THEN g[(n + 1) - 1]
                                          ELSE Append(g[(n + 1) - 1], t[n + 1])
            BY <2>1, Zenon DEF TextUpTo
        <3> QED
            BY <2>1, <3>1, Zenon
    <2> QED
        BY <2>1, <2>2, <2>3, Zenon
<1> HIDE DEF T
<1>3. Nat \subseteq T
    BY <1>1, <1>2, NaturalInduction
<1> QED
    BY <1>3 DEF T

\* The text of a prefix of the entries is a sequence of entries.
LEMMA TextUpToType ==
    ASSUME NEW S, NEW s \in Seq(S), NEW f, TextUpTo(f, s, Len(s)),
           NEW k \in Nat, k <= Len(s)
    PROVE  f[k] \in Seq(S)
<1> DEFINE T == {n \in Nat : n <= Len(s) => f[n] \in Seq(S)}
<1>1. 0 \in T
    BY DEF TextUpTo
<1>2. ASSUME NEW n \in Nat, n \in T PROVE n + 1 \in T
    <2> SUFFICES ASSUME n + 1 <= Len(s) PROVE f[n + 1] \in Seq(S)
        OBVIOUS
    <2>1. n + 1 \in 1 .. Len(s) /\ (n + 1) - 1 = n /\ f[n] \in Seq(S) /\ s[n + 1] \in S
        BY <1>2
    <2>2. f[n + 1] = IF s[n + 1] = {} THEN f[(n + 1) - 1]
                                      ELSE Append(f[(n + 1) - 1], s[n + 1])
        BY <2>1, Zenon DEF TextUpTo
    <2>3. Append(f[n], s[n + 1]) \in Seq(S)
        BY <2>1
    <2> QED
        BY <2>1, <2>2, <2>3, Zenon
<1> HIDE DEF T
<1>3. Nat \subseteq T
    BY <1>1, <1>2, NaturalInduction
<1> QED
    BY <1>3 DEF T

\* Appending to a concatenation appends to what comes last in it.
LEMMA AppendLast ==
    ASSUME NEW S, NEW a \in Seq(S), NEW b \in Seq(S), NEW e \in S
    PROVE  a \o Append(b, e) = Append(a \o b, e)
OBVIOUS

\* The text may be read in two pieces, cut anywhere.
LEMMA TextInPieces ==
    ASSUME NEW S, NEW s \in Seq(S), NEW k \in 0 .. Len(s)
    PROVE  Text(SubSeq(s, 1, k)) \o Text(SubSeq(s, k + 1, Len(s))) = Text(s)
<1> DEFINE front == SubSeq(s, 1, k)
           rest == SubSeq(s, k + 1, Len(s))
<1>1. /\ front \in Seq(S) /\ Len(front) = k /\ \A i \in 1 .. k : front[i] = s[i]
      /\ rest \in Seq(S) /\ Len(rest) = Len(s) - k
      /\ \A i \in 1 .. Len(s) - k : rest[i] = s[k + i]
    OBVIOUS
<1> HIDE DEF front, rest
<1>2. PICK f : TextUpTo(f, front, k) /\ Text(front) = f[k]
    BY <1>1, TextIsUpTo
<1>3. PICK g : TextUpTo(g, rest, Len(s) - k) /\ Text(rest) = g[Len(s) - k]
    BY <1>1, TextIsUpTo
<1>4. PICK h : TextUpTo(h, s, Len(s)) /\ Text(s) = h[Len(s)]
    BY TextIsUpTo
<1>5. k \in Nat /\ Len(s) \in Nat /\ k <= Len(s) /\ Len(s) - k \in Nat
    OBVIOUS
<1>6. f[k] = h[k] /\ f[k] \in Seq(S)
    <2>1. \A i \in 1 .. k : front[i] = s[i]
        BY <1>1
    <2>2. f[k] = h[k]
        BY <1>2, <1>4, <1>5, <2>1, TextUpToAgrees
    <2>3. h[k] \in Seq(S)
        BY <1>4, <1>5, TextUpToType
    <2> QED
        BY <2>2, <2>3
<1> DEFINE Joined(n) == f[k] \o g[n] = h[k + n]
<1> HIDE DEF Joined
<1> DEFINE T == {n \in Nat : n <= Len(s) - k => Joined(n)}
<1>7. 0 \in T
    <2>1. g[0] = << >>
        BY <1>3 DEF TextUpTo
    <2>2. f[k] \o << >> = f[k] /\ k + 0 = k
        BY <1>5, <1>6
    <2>3. Joined(0)
        BY <1>6, <2>1, <2>2, Zenon DEF Joined
    <2> QED
        BY <2>3
<1>8. ASSUME NEW n \in Nat, n \in T PROVE n + 1 \in T
    <2> SUFFICES ASSUME n + 1 <= Len(s) - k PROVE Joined(n + 1)
        OBVIOUS
    <2>1. /\ n + 1 \in 1 .. Len(s) - k /\ (n + 1) - 1 = n /\ n <= Len(s) - k
          /\ k + (n + 1) \in 1 .. Len(s) /\ (k + (n + 1)) - 1 = k + n
          /\ Joined(n)
        BY <1>5, <1>8
    <2>2. g[n + 1] = IF rest[n + 1] = {} THEN g[(n + 1) - 1]
                                          ELSE Append(g[(n + 1) - 1], rest[n + 1])
        BY <1>3, <2>1, Zenon DEF TextUpTo
    <2>3. h[k + (n + 1)] =
              IF s[k + (n + 1)] = {} THEN h[(k + (n + 1)) - 1]
              ELSE Append(h[(k + (n + 1)) - 1], s[k + (n + 1)])
        BY <1>4, <2>1, Zenon DEF TextUpTo
    <2>4. rest[n + 1] = s[k + (n + 1)] /\ s[k + (n + 1)] \in S
        BY <1>1, <2>1
    <2>5. g[n] \in Seq(S)
        BY <1>1, <1>3, <1>5, <2>1, TextUpToType
    <2>6. rest[n + 1] \in S
        BY <2>4, Zenon
    <2>7. f[k] \o Append(g[n], rest[n + 1]) = Append(f[k] \o g[n], rest[n + 1])
        <3>1. \A a, b \in Seq(S) : \A e \in S : a \o Append(b, e) = Append(a \o b, e)
            BY AppendLast
        <3> QED
            BY <1>6, <2>5, <2>6, <3>1, Zenon
    <2> QED
        BY <2>1, <2>2, <2>3, <2>4, <2>7, Zenon DEF Joined
<1> HIDE DEF T
<1>9. Nat \subseteq T
    BY <1>7, <1>8, NaturalInduction
<1>10. Joined(Len(s) - k)
    BY <1>5, <1>9 DEF T
<1>11. k + (Len(s) - k) = Len(s)
    BY <1>5
<1> QED
    BY <1>2, <1>3, <1>4, <1>10, <1>11, Zenon DEF Joined, front, rest

\* Reading on from where the last range ended, an agent reads every utterance
\* that is not blank once and in order, whatever is spoken between its reads:
\* the range get_since answers starts where it was asked to and ends where the
\* next one starts.
THEOREM ReadsTileHolds == Spec => []ReadsTile
<1>1. Init => ReadsTile
    <2> SUFFICES ASSUME Init PROVE ReadsTile
        OBVIOUS
    <2>1. SubSeq(speech, 1, cursor) = << >> /\ taken = << >>
        BY DEF Init
    <2>2. << >> \in Seq({}) /\ Len(<< >>) = 0
        OBVIOUS
    <2>3. PICK f : TextUpTo(f, << >>, 0) /\ Text(<< >>) = f[0]
        BY <2>2, TextIsUpTo
    <2> QED
        BY <2>1, <2>3 DEF TextUpTo, ReadsTile
<1>2. Inv /\ ReadsTile /\ [Next]_vars => ReadsTile'
    <2> SUFFICES ASSUME Inv, ReadsTile, [Next]_vars PROVE ReadsTile'
        OBVIOUS
    <2>1. /\ speech \in Seq(SUBSET Texts) /\ cursor \in 0 .. Len(speech)
          /\ taken = Text(SubSeq(speech, 1, cursor))
        BY DEF Inv, TypeOK, BuffersOK, ReadsTile
    <2>2. CASE Speak
        <3>1. PICK said \in SUBSET Texts : speech' = Append(speech, said)
            BY <2>2 DEF Speak
        <3>2. UNCHANGED <<taken, cursor>>
            BY <2>2 DEF Speak, history
        <3>3. SubSeq(Append(speech, said), 1, cursor) = SubSeq(speech, 1, cursor)
            BY <2>1
        <3> QED
            BY <2>1, <3>1, <3>2, <3>3 DEF ReadsTile
    <2>3. CASE GetSpeech
        <3>1. UNCHANGED speech
            BY <2>3 DEF GetSpeech, buffers
        <3>2. CASE UNCHANGED <<taken, cursor>>
            BY <2>1, <3>1, <3>2 DEF ReadsTile
        <3>3. CASE taken' = taken \o Text(Since(speech, cursor)) /\ cursor' = Len(speech)
            <4>1. taken' = Text(speech)
                BY <2>1, <3>3, TextInPieces DEF Since
            <4>2. SubSeq(speech, 1, Len(speech)) = speech
                BY <2>1
            <4> QED
                BY <3>1, <3>3, <4>1, <4>2 DEF ReadsTile
        <3> QED
            BY <2>3, <3>2, <3>3 DEF GetSpeech
    <2>4. CASE UNCHANGED <<speech, taken, cursor>>
        BY <2>4 DEF ReadsTile
    <2>5. Speak \/ GetSpeech \/ UNCHANGED <<speech, taken, cursor>>
        <3>1. NVDA => Speak \/ UNCHANGED <<speech, taken, cursor>>
            BY DEF NVDA, WriteCells, RunPosted, buffers, history
        <3>2. Begin => GetSpeech \/ UNCHANGED <<speech, taken, cursor>>
            <4> USE DEF buffers, history
            <4>1. GetBraille \/ GetLastSpeech \/ GetNextSpeechIndex \/ Announce =>
                      UNCHANGED <<speech, taken, cursor>>
                BY DEF GetBraille, GetLastSpeech, GetNextSpeechIndex, Announce
            <4>2. WaitForSpeech => UNCHANGED <<speech, taken, cursor>>
                BY DEF WaitForSpeech
            <4>3. WaitForSpeechToFinish => UNCHANGED <<speech, taken, cursor>>
                BY DEF WaitForSpeechToFinish
            <4>4. PressGesture => UNCHANGED <<speech, taken, cursor>>
                BY DEF PressGesture
            <4> QED
                BY <4>1, <4>2, <4>3, <4>4, Zenon DEF Begin
        <3>3. GoOn => UNCHANGED <<speech, taken, cursor>>
            BY DEF GoOn, Look, Miss, LookFinished, Press, Pressed, PressFails, buffers, history
        <3>4. Tick \/ UNCHANGED vars => UNCHANGED <<speech, taken, cursor>>
            BY DEF Tick, buffers, history, vars
        <3> QED
            BY <3>1, <3>2, <3>3, <3>4, Zenon DEF Next
    <2> QED
        BY <2>2, <2>3, <2>4, <2>5
<1> QED
    BY <1>1, <1>2, InvIsInvariant, PTL DEF Spec

=============================================================================
