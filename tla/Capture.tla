------------------------------- MODULE Capture -------------------------------
(***************************************************************************)
(* What an agent sees of the reader: the capture buffers of the NVDA bridge*)
(* (indexed_buffer.py, speech_buffer.py, braille_buffer.py), the commands  *)
(* that read them, wait on them and press gestures, and NVDA's main thread,*)
(* to which gestures and announcements are posted (wx.CallAfter).          *)
(*                                                                         *)
(* The session's thread serves one command at a time. NVDA speaks, writes  *)
(* braille and runs what was posted whenever it likes, or not at all, and  *)
(* time passes in units no shorter than a poll. An utterance is the set of *)
(* the texts that occur in it, so a blank one is {}.                       *)
(***************************************************************************)
EXTENDS Integers, SequencesExt

CONSTANTS
    Texts,           \* the texts an agent may wait for
    Windows,         \* what a braille display may show, besides nothing
    Timeouts,        \* the timeouts of the waits, in units of time
    GestureTimeout,  \* how long a gesture may take the main thread
    Settle,          \* how long it must be quiet for speech to be finished
    MaxEntries,      \* bound: how many captures each buffer takes
    MaxIds,          \* bound: the gestures of one command
    MaxCalls         \* bound: the commands of one behaviour

ASSUME CaptureAssumption ==
    /\ Timeouts \subseteq Nat
    /\ GestureTimeout \in Nat /\ Settle \in Nat
    /\ MaxEntries \in Nat /\ MaxIds \in Nat /\ MaxCalls \in Nat

VARIABLES
    speech,    \* the speech buffer: entry i is speech[i + 1]
    braille,   \* the braille buffer
    quiet,     \* units since the last utterance, counted to Settle + 1
    posted,    \* what was posted to the main thread, in order
    ran,       \* how much of it the main thread has run
    done,      \* the event of the gesture that is waited for: no, yes, failed
    pc,        \* where the session's thread is
    call,      \* the command it serves, or served last
    left,      \* units until the wait it is in times out
    looked,    \* a wait has looked at the buffer in this unit
    answer,    \* the answer to the last command
    calls,     \* how many commands were served
    lookedAt,  \* history: the next index when a wait last looked
    cursor,    \* history: the agent's place, reading speech from end to end
    taken,     \* history: the utterances it has read
    failedAt,  \* history: which gesture each failed command failed at
    acked      \* history: how many gestures of each command were acknowledged

buffers == <<speech, braille, quiet>>
main == <<posted, ran, done>>
thread == <<pc, call, left, looked>>
history == <<lookedAt, cursor, taken, failedAt, acked>>
vars == <<buffers, main, thread, answer, calls, history>>

Indices == 0 .. MaxEntries + 1
Numbers == 1 .. MaxCalls

\* A command: its number, the text and after_index of a wait (-1 is none), the
\* gestures it presses and the one it is at.
NoCall == [number |-> 0, text |-> "none", after |-> -1, ids |-> 0, at |-> 0]
NoAnswer == [kind |-> "none", from |-> 0, to |-> 0]

\* Each buffer starts with an empty sentinel at index 0.
Init ==
    /\ speech = <<{}>>
    /\ braille = <<"blank">>
    /\ quiet = 0
    /\ posted = << >>
    /\ ran = 0
    /\ done = "no"
    /\ pc = "idle"
    /\ call = NoCall
    /\ left = 0
    /\ looked = FALSE
    /\ answer = NoAnswer
    /\ calls = 0
    /\ lookedAt = 0
    /\ cursor = 0
    /\ taken = << >>
    /\ failedAt = [n \in Numbers |-> 0]
    /\ acked = [n \in Numbers |-> 0]

-----------------------------------------------------------------------------
(***************************************************************************)
(* What NVDA does.                                                         *)
(***************************************************************************)

\* An utterance is queued to be spoken: blank ones are entries too.
Speak ==
    /\ Len(speech) <= MaxEntries
    /\ \E said \in SUBSET Texts : speech' = Append(speech, said)
    /\ quiet' = 0
    /\ UNCHANGED <<braille, main, thread, answer, calls, history>>

\* The display is written: nothing, or the same again, is no entry.
WriteCells ==
    /\ Len(braille) <= MaxEntries
    /\ \E shown \in Windows \ {Last(braille)} : braille' = Append(braille, shown)
    /\ UNCHANGED <<speech, quiet, main, thread, answer, calls, history>>

\* The main thread runs the next thing posted to it. Whoever waits for this very
\* gesture is told how it went.
RunPosted ==
    /\ ran < Len(posted)
    /\ ran' = ran + 1
    /\ IF pc = "pressing" /\ ran + 1 = Len(posted)
       THEN \E outcome \in {"yes", "failed"} : done' = outcome
       ELSE UNCHANGED done
    /\ UNCHANGED <<buffers, posted, thread, answer, calls, history>>

-----------------------------------------------------------------------------
(***************************************************************************)
(* The commands.                                                           *)
(***************************************************************************)
Idle == pc = "idle" /\ calls < MaxCalls

\* A command is taken up. One with no wait in it is answered in the same step.
Take(command, label) ==
    /\ calls' = calls + 1
    /\ call' = [command EXCEPT !.number = calls + 1]
    /\ pc' = label
    /\ looked' = FALSE

Answer(kind, from, to) ==
    /\ pc' = "idle"
    /\ answer' = [kind |-> kind, from |-> from, to |-> to]

AnswerAtOnce(kind, from, to) ==
    /\ Idle
    /\ Take(NoCall, "idle")
    /\ answer' = [kind |-> kind, from |-> from, to |-> to]
    /\ UNCHANGED left

\* A blank entry renders to nothing and is left out of the text.
Text(entries) ==
    LET upTo[n \in 0 .. Len(entries)] ==
            IF n = 0 THEN << >>
            ELSE IF entries[n] = {} THEN upTo[n - 1] ELSE Append(upTo[n - 1], entries[n])
    IN  upTo[Len(entries)]

\* Seeded fault: the entry at the bookmark is left out.
SinceExclusive(entries, index) == SubSeq(entries, index + 2, Len(entries))

\* Every entry from the index on; one past the end finds none.
Since(entries, index) == SubSeq(entries, index + 1, Len(entries))

\* get_since: the range starts at the index asked for, whatever it is, and ends
\* at the next index. An agent that reads on from where the last range ended has
\* its cursor there.
GetSpeech ==
    /\ \E since \in Indices \cup {cursor} :
          /\ AnswerAtOnce("range", since, Len(speech))
          /\ IF since = cursor
             THEN /\ taken' = taken \o Text(Since(speech, since))
                  /\ cursor' = Len(speech)
             ELSE UNCHANGED <<taken, cursor>>
    /\ UNCHANGED <<buffers, main, lookedAt, failedAt, acked>>

GetBraille ==
    /\ \E since \in Indices : AnswerAtOnce("braille", since, Len(braille))
    /\ UNCHANGED <<buffers, main, history>>

\* The last entry, and the index the next one will have.
GetLastSpeech ==
    /\ AnswerAtOnce("last", Len(speech) - 1, Len(speech))
    /\ UNCHANGED <<buffers, main, history>>

GetNextSpeechIndex ==
    /\ AnswerAtOnce("next", Len(speech), Len(speech))
    /\ UNCHANGED <<buffers, main, history>>

-----------------------------------------------------------------------------
(***************************************************************************)
(* The waits.                                                              *)
(***************************************************************************)

\* Seeded fault: the search starts at the index itself.
FirstAt(after) == IF after = -1 THEN 0 ELSE after

\* Where a search starts: after the index.
First(after) == IF after = -1 THEN 0 ELSE after + 1

Matches(text, first) == {i \in first .. Len(speech) - 1 : text \in speech[i + 1]}

WaitForSpeech ==
    /\ Idle
    /\ \E text \in Texts, after \in {-1} \cup Indices :
          Take([NoCall EXCEPT !.text = text, !.after = after], "wait")
    /\ left' \in Timeouts
    /\ lookedAt' = 0
    /\ UNCHANGED <<buffers, main, answer, cursor, taken, failedAt, acked>>

\* One look: the first match answers; without one the wait goes on, or is over
\* when its time is.
Look ==
    /\ pc = "wait" /\ ~ looked
    /\ lookedAt' = Len(speech)
    /\ LET matches == Matches(call.text, First(call.after))
       IN  \/ \E i \in matches :
                /\ \A j \in matches : i <= j
                /\ Answer("found", i, i)
                /\ UNCHANGED looked
           \/ /\ matches = {}
              /\ looked' = TRUE
              /\ pc' = IF left = 0 THEN "missed" ELSE "wait"
              /\ UNCHANGED answer
    /\ UNCHANGED <<buffers, main, call, left, calls, cursor, taken, failedAt, acked>>

\* A miss answers the next index, read after the last look.
Miss ==
    /\ pc = "missed"
    /\ Answer("missed", Len(speech), Len(speech))
    /\ UNCHANGED <<buffers, main, call, left, looked, calls, history>>

WaitForSpeechToFinish ==
    /\ Idle
    /\ Take(NoCall, "settle")
    /\ left' \in Timeouts
    /\ UNCHANGED <<buffers, main, answer, history>>

\* Finished when it has been quiet for more than Settle, whatever is still to
\* be said.
LookFinished ==
    /\ pc = "settle" /\ ~ looked
    /\ \/ /\ quiet > Settle
          /\ Answer("finished", 0, 0)
          /\ UNCHANGED looked
       \/ /\ quiet <= Settle /\ left = 0
          /\ Answer("unfinished", 0, 0)
          /\ UNCHANGED looked
       \/ /\ quiet <= Settle /\ left > 0
          /\ looked' = TRUE
          /\ UNCHANGED <<pc, answer>>
    /\ UNCHANGED <<buffers, main, call, left, calls, history>>

-----------------------------------------------------------------------------
(***************************************************************************)
(* Gestures and announcements.                                             *)
(***************************************************************************)
Task(at) == [number |-> call.number, at |-> at]

PressGesture ==
    /\ Idle
    /\ \E ids \in 1 .. MaxIds : Take([NoCall EXCEPT !.ids = ids, !.at = 1], "press")
    /\ UNCHANGED <<buffers, main, left, answer, history>>

\* The next gesture is posted and waited for; or NVDA does not know it; or none
\* is left and the command is acknowledged.
Press ==
    /\ pc = "press"
    /\ \/ /\ call.at <= call.ids
          /\ posted' = Append(posted, Task(call.at))
          /\ done' = "no"
          /\ left' = GestureTimeout
          /\ pc' = "pressing"
          /\ UNCHANGED <<answer, failedAt, acked>>
       \/ /\ call.at <= call.ids
          /\ Answer("error", 0, 0)
          /\ failedAt' = [failedAt EXCEPT ![call.number] = call.at]
          /\ UNCHANGED <<posted, done, left, acked>>
       \/ /\ call.at > call.ids
          /\ Answer("ok", 0, 0)
          /\ acked' = [acked EXCEPT ![call.number] = call.ids]
          /\ UNCHANGED <<posted, done, left, failedAt>>
    /\ UNCHANGED <<buffers, ran, call, looked, calls, lookedAt, cursor, taken>>

Pressed ==
    /\ pc = "pressing" /\ done = "yes"
    /\ call' = [call EXCEPT !.at = @ + 1]
    /\ pc' = "press"
    /\ UNCHANGED <<buffers, main, left, looked, answer, calls, history>>

\* Seeded fault: a gesture that was not pressed in time is passed over.
PassOver ==
    /\ pc = "pressing"
    /\ done = "failed" \/ (done = "no" /\ left = 0)
    /\ call' = [call EXCEPT !.at = @ + 1]
    /\ pc' = "press"
    /\ UNCHANGED <<buffers, main, left, looked, answer, calls, history>>

\* It fails, or the main thread does not get to it in time; the gestures after
\* it are not pressed. One that is out of time stays posted.
PressFails ==
    /\ pc = "pressing"
    /\ done = "failed" \/ (done = "no" /\ left = 0)
    /\ Answer("error", 0, 0)
    /\ failedAt' = [failedAt EXCEPT ![call.number] = call.at]
    /\ UNCHANGED <<buffers, main, call, left, looked, calls, lookedAt, cursor, taken, acked>>

\* An announcement is posted and not waited for.
Announce ==
    /\ AnswerAtOnce("ok", 0, 0)
    /\ posted' = Append(posted, [number |-> calls + 1, at |-> 0])
    /\ UNCHANGED <<buffers, ran, done, history>>

-----------------------------------------------------------------------------
(***************************************************************************)
(* Time passes unless the thread has something to do first: a wait looks   *)
(* in every unit, and an event or a timeout wakes it.                      *)
(***************************************************************************)
Dozes ==
    \/ pc = "idle"
    \/ pc \in {"wait", "settle"} /\ looked
    \/ pc = "pressing" /\ done = "no" /\ left > 0

\* Seeded fault: the time a wait has left does not run out.
TickForever ==
    /\ Dozes
    /\ quiet' = IF quiet > Settle THEN quiet ELSE quiet + 1
    /\ looked' = FALSE
    /\ UNCHANGED <<speech, braille, main, pc, call, left, answer, calls, history>>

Tick ==
    /\ Dozes
    /\ quiet' = IF quiet > Settle THEN quiet ELSE quiet + 1
    /\ left' = IF left > 0 THEN left - 1 ELSE 0
    /\ looked' = FALSE
    /\ UNCHANGED <<speech, braille, main, pc, call, answer, calls, history>>

NVDA == Speak \/ WriteCells \/ RunPosted

Begin ==
    \/ GetSpeech \/ GetBraille \/ GetLastSpeech \/ GetNextSpeechIndex
    \/ WaitForSpeech \/ WaitForSpeechToFinish \/ PressGesture \/ Announce

GoOn == Look \/ Miss \/ LookFinished \/ Press \/ Pressed \/ PressFails

Next == NVDA \/ Begin \/ GoOn \/ Tick

Spec == Init /\ [][Next]_vars

\* The session's thread runs and time passes. NVDA owes nothing: it may be
\* silent, and its main thread wedged, for ever.
FairSpec == Spec /\ WF_vars(GoOn) /\ WF_vars(Tick)

-----------------------------------------------------------------------------
(***************************************************************************)
(* The inductive invariant.                                                *)
(***************************************************************************)
Commands == [number : 0 .. MaxCalls, text : Texts \cup {"none"}, after : {-1} \cup Indices,
             ids : 0 .. MaxIds, at : 0 .. MaxIds + 1]

BuffersOK ==
    /\ speech \in Seq(SUBSET Texts) /\ Len(speech) \in 1 .. MaxEntries + 1
    /\ braille \in Seq(Windows \cup {"blank"}) /\ Len(braille) \in 1 .. MaxEntries + 1
    /\ quiet \in 0 .. Settle + 1
    /\ lookedAt \in 0 .. Len(speech)
    /\ cursor \in 0 .. Len(speech)

MainOK ==
    /\ posted \in Seq([number : Numbers, at : 0 .. MaxIds])
    /\ ran \in 0 .. Len(posted)
    /\ done \in {"no", "yes", "failed"}

ThreadOK ==
    /\ pc \in {"idle", "wait", "missed", "settle", "press", "pressing"}
    /\ call \in Commands
    /\ left \in Nat
    /\ looked \in BOOLEAN
    /\ calls \in 0 .. MaxCalls

OutcomesOK ==
    /\ failedAt \in [Numbers -> 0 .. MaxIds]
    /\ acked \in [Numbers -> 0 .. MaxIds]

AnswerOK == answer \in [kind : {"none", "range", "braille", "last", "next", "found", "missed",
                                "finished", "unfinished", "ok", "error"},
                        from : Nat, to : Nat]

TypeOK == BuffersOK /\ MainOK /\ ThreadOK /\ OutcomesOK /\ AnswerOK

\* The command in progress is the last one, it has posted the gestures up to the
\* one it is at, and no answer to it is recorded yet.
PressInv ==
    /\ call.number = calls
    /\ \A i \in DOMAIN posted : posted[i].number <= calls
    /\ pc \in {"wait", "missed", "settle", "press", "pressing"} => call.number \in Numbers
    /\ pc \in {"press", "pressing"} =>
          /\ call.at \in 1 .. call.ids + 1
          /\ failedAt[call.number] = 0
          /\ \A i \in DOMAIN posted : posted[i].number = call.number =>
                posted[i].at < call.at + (IF pc = "pressing" THEN 1 ELSE 0)
    /\ pc = "press" => \A k \in 1 .. call.at - 1 :
          \E i \in 1 .. ran : posted[i] = Task(k)
    /\ pc = "pressing" =>
          /\ call.at <= call.ids
          /\ posted # << >> /\ posted[Len(posted)] = Task(call.at)
          /\ \A k \in 1 .. call.at - 1 : \E i \in 1 .. ran : posted[i] = Task(k)
          /\ done = "yes" => ran = Len(posted)
    /\ \A n \in Numbers : n > calls => failedAt[n] = 0 /\ acked[n] = 0

\* A wait that goes on, or is about to miss, has found nothing as far as it looked.
WaitInv ==
    pc \in {"wait", "missed"} =>
        \A i \in 0 .. lookedAt - 1 : i > call.after => call.text \notin speech[i + 1]

-----------------------------------------------------------------------------
(***************************************************************************)
(* Safety.                                                                 *)
(***************************************************************************)

\* Reading on from where the last range ended, an agent reads every utterance
\* once and in order, whatever is spoken between its reads (indexed_buffer.py,
\* get_since).
ReadsTile == taken = Text(SubSeq(speech, 1, cursor))

\* A wait answers the first utterance after after_index that holds the text;
\* and it misses only if no utterance there was when it last looked held it, and
\* answers an index below none of those it looked at (speech_buffer.py, wait_for).
WaitExact ==
    pc = "idle" =>
        /\ answer.kind = "found" =>
              /\ answer.from > call.after /\ answer.from < Len(speech)
              /\ call.text \in speech[answer.from + 1]
              /\ \A i \in 0 .. answer.from - 1 :
                    i > call.after => call.text \notin speech[i + 1]
        /\ answer.kind = "missed" =>
              /\ \A i \in 0 .. lookedAt - 1 :
                    i > call.after => call.text \notin speech[i + 1]
              /\ answer.from >= lookedAt

\* However late the main thread is, gestures reach it in the order they were
\* asked for; an acknowledged command had all of its gestures run; and one that
\* failed at a gesture has posted none after that one, nor ever will
\* (press_gesture.py, nvda_gesture_sender.py).
PressOrder ==
    /\ \A i, j \in DOMAIN posted : i < j =>
          \/ posted[i].number < posted[j].number
          \/ posted[i].number = posted[j].number /\ posted[i].at < posted[j].at
    /\ \A n \in Numbers : \A k \in 1 .. acked[n] :
          \E i \in 1 .. ran : posted[i] = [number |-> n, at |-> k]
    /\ \A n \in Numbers : failedAt[n] > 0 =>
          \A i \in DOMAIN posted : posted[i].number = n => posted[i].at <= failedAt[n]

Inv == TypeOK /\ PressInv /\ WaitInv

\* Every command is answered, though NVDA is silent and its main thread wedged.
CallAnswered == pc # "idle" ~> pc = "idle"

\* The tool's words, "only consider utterances at or after this index": a wait
\* does not miss an utterance at its bookmark that was there when it looked.
\* (The code searches after the index: speech_buffer.py, index_of.)
FindsFromBookmark ==
    pc = "idle" /\ answer.kind = "missed" /\ call.after >= 0 =>
        \A i \in call.after .. lookedAt - 1 : call.text \notin speech[i + 1]

=============================================================================
