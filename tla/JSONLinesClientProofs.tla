----------------------- MODULE JSONLinesClientProofs -----------------------
(***************************************************************************)
(* Proofs about JSONLinesClient, for any number of callers, any budgets    *)
(* and any bridge.                                                         *)
(***************************************************************************)
EXTENDS JSONLinesClient, TLAPS

\* What call() leaves when it returns has the types of the variables.
LEMMA ReturnType ==
    ASSUME TypeOK, NEW c \in Callers, NEW how \in Outcomes, Return(c, how)
    PROVE  /\ holder' \in Callers \cup {Nobody}
           /\ calling' \in [Callers -> Requests \cup {NoRequest}]
           /\ place' \in [Callers -> {"idle", "lock", "read"}]
           /\ deadline' \in [Callers -> Nat]
           /\ outcome' \in [Callers -> Outcomes]
BY DEF TypeOK, Return, Unlock, Goto

\* A request that is written is one, and its budget is a time.
LEMMA WrittenType ==
    ASSUME TypeOK,
           NEW request \in [id : {nextID}, takes : PlainTimes, waits : {FALSE}]
                      \cup [id : {nextID}, takes : WaitTimes, waits : {TRUE}]
    PROVE  /\ request \in Requests
           /\ request.id = nextID
           /\ BudgetOf(request) \in Nat
<1>1. /\ request.id = nextID /\ request.id \in IDs
      /\ request.takes \in PlainTimes \cup WaitTimes
      /\ request.waits \in BOOLEAN
      /\ request = [id |-> request.id, takes |-> request.takes, waits |-> request.waits]
    BY DEF TypeOK
<1>2. request \in Requests
    BY <1>1 DEF Requests
<1>3. request.takes \in Nat /\ Budget \in Nat /\ WaitSlack \in Nat
    BY <1>1, TimesAssumption
<1>4. BudgetOf(request) \in Nat
    BY <1>3 DEF BudgetOf
<1> QED
    BY <1>1, <1>2, <1>4

LEMMA RequestType ==
    ASSUME NEW r \in Requests \cup {NoRequest}
    PROVE  r.takes \in Nat /\ r.id \in Nat /\ BudgetOf(r) \in Nat
<1>1. r.takes \in Nat /\ r.id \in Nat
    <2>1. CASE r \in Requests
        BY <2>1, TimesAssumption DEF Requests, IDs
    <2>2. CASE r = NoRequest
        BY <2>2 DEF NoRequest
    <2> QED
        BY <2>1, <2>2
<1> QED
    BY <1>1, TimesAssumption DEF BudgetOf

LEMMA TypeStep == TypeOK /\ [Next]_vars => TypeOK'
<1> SUFFICES ASSUME TypeOK, [Next]_vars PROVE TypeOK'
    OBVIOUS
<1> USE DEF TypeOK, client, callers, bridge
<1>1. CASE UNCHANGED vars
    BY <1>1 DEF vars
<1>2. ASSUME NEW c \in Callers, Call(c) PROVE TypeOK'
    BY <1>2 DEF Call, Goto, Outcomes
<1>3. ASSUME NEW c \in Callers, CallStep(c) PROVE TypeOK'
    <2> USE DEF Outcomes
    <2>1. CASE CallLost(c)
        BY <2>1, ReturnType DEF CallLost
    <2>2. CASE Write(c)
        <3>1. PICK request \in [id : {nextID}, takes : PlainTimes, waits : {FALSE}]
                          \cup [id : {nextID}, takes : WaitTimes, waits : {TRUE}] :
                 /\ calling' = [calling EXCEPT ![c] = request]
                 /\ outbox' = Append(outbox, request)
                 /\ deadline' = [deadline EXCEPT ![c] = clock + BudgetOf(request)]
            BY <2>2 DEF Write
        <3>2. request \in Requests /\ BudgetOf(request) \in Nat
            BY WrittenType
        <3>3. /\ calling' \in [Callers -> Requests \cup {NoRequest}]
              /\ outbox' \in Seq(Requests)
              /\ deadline' \in [Callers -> Nat]
            BY <3>1, <3>2
        <3> QED
            BY <2>2, <3>3 DEF Write, Goto, IDs
    <2>3. CASE WriteFails(c)
        BY <2>3, ReturnType DEF WriteFails, IDs
    <2>4. CASE Receive(c)
        <3>1. inbox' \in Seq(IDs)
            BY <2>4 DEF Receive
        <3>2. \E how \in Outcomes : Return(c, how)
            BY <2>4 DEF Receive
        <3> QED
            BY <2>4, <3>1, <3>2, ReturnType DEF Receive
    <2>5. CASE ReadEOF(c)
        BY <2>5, ReturnType DEF ReadEOF
    <2>6. CASE ReadTimeout(c)
        BY <2>6, ReturnType DEF ReadTimeout
    <2> QED
        BY <1>3, <2>1, <2>2, <2>3, <2>4, <2>5, <2>6 DEF CallStep
<1>4. CASE Close
    BY <1>4 DEF Close
<1>5. CASE BridgeReads
    <2>1. Head(outbox) \in Requests /\ Tail(outbox) \in Seq(Requests)
        BY <1>5 DEF BridgeReads
    <2>2. clock + Head(outbox).takes \in Nat
        BY <2>1, RequestType
    <2> QED
        BY <1>5, <2>1, <2>2 DEF BridgeReads
<1>6. CASE BridgeAnswers
    <2>1. serving.id \in IDs
        BY <1>6 DEF BridgeAnswers, Requests
    <2> QED
        BY <1>6, <2>1 DEF BridgeAnswers
<1>7. CASE BridgeGone
    BY <1>7 DEF BridgeGone
<1>8. CASE Tick
    BY <1>8 DEF Tick
<1>9. CASE Quiet
    BY <1>9 DEF Quiet, vars
<1> QED
    BY <1>1, <1>2, <1>3, <1>4, <1>5, <1>6, <1>7, <1>8, <1>9 DEF Next

-----------------------------------------------------------------------------
(***************************************************************************)
(* The inductive step.                                                     *)
(***************************************************************************)

LEMMA InitInv == Init => Inv
<1> SUFFICES ASSUME Init PROVE Inv
    OBVIOUS
<1>1. TypeOK
    <2>1. /\ calling \in [Callers -> Requests \cup {NoRequest}]
          /\ serving \in Requests \cup {NoRequest}
        BY DEF Init
    <2>2. outbox \in Seq(Requests) /\ inbox \in Seq(IDs)
        BY DEF Init
    <2>3. nextID \in IDs
        BY DEF Init, IDs
    <2> QED
        BY <2>1, <2>2, <2>3 DEF Init, TypeOK, Outcomes
<1>2. Serialised /\ FaultNeedsTimeout
    BY CallerAssumption DEF Init, Serialised, FaultNeedsTimeout
<1>3. OneUnderway /\ OnTime /\ OldComesFirst
    BY CallerAssumption DEF Init, OneUnderway, Nothing, OnTime, OldComesFirst
<1> QED
    BY <1>1, <1>2, <1>3 DEF Inv

\* The holder of the mutex reads, on a connection that is not lost, and its
\* request is one that was written.
LEMMA HolderReads ==
    ASSUME Inv, NEW c \in Callers
    PROVE  /\ place[c] = "read" => holder = c /\ ~lost /\ timeouts \in Nat
           /\ holder = c => place[c] = "read" /\ calling[c] \in Requests /\ calling[c] # NoRequest
           /\ holder = Nobody => place[c] # "read"
<1> USE CallerAssumption DEF Inv, TypeOK, Serialised
<1>1. holder = c => calling[c] # NoRequest
    BY DEF Requests, IDs, NoRequest
<1> QED
    BY <1>1

\* A call that leaves a lost connection behind leaves nothing to be kept.
LEMMA LostKeepsInv ==
    ASSUME Inv, TypeOK', NEW c \in Callers, NEW how \in {"lost", "fault"},
           holder \in {Nobody, c}, Return(c, how), lost', nextID' >= nextID, timeouts' = timeouts,
           how = "fault" => timeouts > 0
    PROVE  Inv'
<1> USE CallerAssumption DEF Inv, TypeOK
<1>1. \A d \in Callers : place'[d] # "read"
    <2> SUFFICES ASSUME NEW d \in Callers, place'[d] = "read" PROVE FALSE
        OBVIOUS
    <2>1. d # c /\ place[d] = "read" /\ holder = d
        BY DEF Return, Goto, Serialised
    <2> QED
        BY <2>1
<1>2. Serialised'
    BY <1>1 DEF Serialised, Return, Unlock
<1>3. FaultNeedsTimeout'
    BY DEF FaultNeedsTimeout, Return
<1> QED
    BY <1>2, <1>3 DEF OneUnderway, OnTime, OldComesFirst

\* Taking the mutex and writing: with no timeout so far nothing else is underway,
\* and after one the new request is younger than what is.
LEMMA WriteKeepsInv == ASSUME Inv, TypeOK', NEW c \in Callers, Write(c) PROVE Inv'
<1> USE CallerAssumption DEF Inv
<1>1. PICK request \in [id : {nextID}, takes : PlainTimes, waits : {FALSE}]
                  \cup [id : {nextID}, takes : WaitTimes, waits : {TRUE}] :
         /\ calling' = [calling EXCEPT ![c] = request]
         /\ outbox' = Append(outbox, request)
         /\ deadline' = [deadline EXCEPT ![c] = clock + BudgetOf(request)]
    BY DEF Write
<1>2. request \in Requests /\ request.id = nextID
    BY WrittenType
<1>3. /\ calling'[c] = request /\ deadline'[c] = clock + BudgetOf(request)
      /\ holder = Nobody /\ holder' = c /\ ~lost /\ ~lost'
      /\ nextID \in Nat /\ nextID' = nextID + 1
      /\ UNCHANGED <<inbox, serving, until, alive, clock, timeouts, outcome>>
    BY <1>1 DEF Write, Free, bridge, TypeOK, IDs
<1>4. \A d \in Callers : place'[d] = "read" <=> d = c
    BY HolderReads, <1>3 DEF Write, Goto, TypeOK
<1>5. Serialised'
    BY <1>2, <1>3, <1>4 DEF Serialised
<1>6. OneUnderway' /\ OnTime'
    <2> SUFFICES ASSUME timeouts = 0 PROVE OneUnderway' /\ OnTime'
        BY <1>3 DEF OneUnderway, OnTime
    <2>1. Nothing
        BY <1>3 DEF OneUnderway
    <2>2. outbox' = <<request>> /\ serving' = NoRequest /\ inbox' = <<>>
        BY <2>1, <1>1, <1>2, <1>3 DEF Nothing
    <2>3. OneUnderway'
        BY <2>2, <1>3 DEF OneUnderway, Underway
    <2>4. OnTime'
        BY <2>2, <1>3 DEF OnTime
    <2> QED
        BY <2>3, <2>4
<1>7. OldComesFirst'
    <2> SUFFICES ASSUME timeouts > 0 PROVE OldComesFirst'
        BY <1>3 DEF OldComesFirst
    <2>1. ASSUME NEW id \in IDs, Old(id) PROVE Old(id)'
        BY <2>1, <1>2, <1>3, <1>4 DEF Old, IDs
    <2>2. inbox # <<>> => Head(inbox) \in IDs
        BY DEF TypeOK
    <2>3. serving # NoRequest => serving.id \in IDs
        BY DEF TypeOK, Requests
    <2>4. outbox # <<>> => /\ Head(outbox).id \in IDs /\ outbox' # <<>>
                           /\ Head(outbox') = Head(outbox)
        <3> SUFFICES ASSUME outbox # <<>>
                     PROVE  /\ Head(outbox).id \in IDs /\ outbox' # <<>>
                            /\ Head(outbox') = Head(outbox)
            OBVIOUS
        <3>1. Head(outbox) \in Requests
            BY DEF TypeOK
        <3>2. Head(outbox).id \in IDs
            BY <3>1 DEF Requests
        <3>3. /\ Append(outbox, request) # <<>>
              /\ Head(Append(outbox, request)) = Head(outbox)
            <4>1. outbox \in Seq(Requests)
                BY DEF TypeOK
            <4> QED
                BY <4>1, <1>2
        <3> QED
            BY <3>2, <3>3, <1>1
    <2> QED
        BY <2>1, <2>2, <2>3, <2>4, <1>3 DEF OldComesFirst
<1>8. FaultNeedsTimeout'
    BY <1>3 DEF FaultNeedsTimeout
<1> QED
    BY <1>5, <1>6, <1>7, <1>8

\* Reading: what arrives is one's own answer, unless a call has timed out; then it
\* is an older one.
LEMMA ReadKeepsInv ==
    ASSUME Inv, TypeOK', NEW c \in Callers, Receive(c) \/ ReadEOF(c) \/ ReadTimeout(c)
    PROVE  Inv'
<1> USE CallerAssumption DEF Inv
<1>1. /\ place[c] = "read" /\ holder = c /\ ~lost /\ timeouts \in Nat
      /\ calling[c] \in Requests /\ calling[c] # NoRequest /\ calling[c].id \in IDs
    <2>1. place[c] = "read"
        BY DEF Receive, ReadEOF, ReadTimeout
    <2>2. calling[c] \in Requests => calling[c].id \in IDs
        BY DEF Requests
    <2> QED
        BY <2>1, <2>2, HolderReads DEF TypeOK
<1>2. ASSUME NEW how \in Outcomes, Return(c, how)
      PROVE  /\ holder' = Nobody
             /\ \A d \in Callers : place'[d] # "read"
             /\ how # "fault" => \A d \in Callers : outcome'[d] = "fault" => outcome[d] = "fault"
    <2>1. \A d \in Callers : place[d] = "read" => d = c
        BY <1>1 DEF Serialised
    <2> QED
        BY <1>2, <2>1 DEF Return, Unlock, Goto, TypeOK
<1>3. CASE Receive(c)
    <2>1. inbox # <<>> /\ Head(inbox) \in IDs
        BY <1>3 DEF Receive, TypeOK
    <2>2. CASE Head(inbox) = calling[c].id
        <3>1. Return(c, "answered") /\ UNCHANGED <<lost, nextID, outbox, serving, timeouts>>
            BY <1>3, <2>2 DEF Receive, bridge
        <3>2. timeouts = 0
            BY <1>1, <2>1, <2>2 DEF OldComesFirst, Old, IDs
        <3>3. Underway(calling[c])
            BY <1>1, <2>1, <3>2 DEF OneUnderway, Nothing
        <3>4. Nothing'
            <4>1. outbox = <<>> /\ serving = NoRequest /\ inbox = <<calling[c].id>>
                BY <2>1, <3>3 DEF Underway
            <4>2. inbox' = <<>>
                BY <4>1, <1>3 DEF Receive
            <4> QED
                BY <4>1, <4>2, <3>1 DEF Nothing
        <3>5. holder' = Nobody /\ FaultNeedsTimeout' /\ \A d \in Callers : place'[d] # "read"
            BY <1>2, <3>1 DEF Outcomes, FaultNeedsTimeout
        <3> QED
            BY <3>1, <3>2, <3>4, <3>5, <1>1
            DEF Serialised, OneUnderway, OnTime, OldComesFirst
    <2>3. CASE Head(inbox) # calling[c].id
        <3>1. timeouts > 0
            BY <1>1, <2>1, <2>3 DEF OneUnderway, Underway, Nothing
        <3> QED
            BY <1>1, <1>3, <2>3, <3>1, LostKeepsInv DEF Receive, TypeOK, IDs
    <2> QED
        BY <2>2, <2>3
<1>4. CASE ReadEOF(c)
    BY <1>1, <1>4, LostKeepsInv DEF ReadEOF, TypeOK, IDs
<1>5. CASE ReadTimeout(c)
    <2>1. /\ Return(c, "timeout") /\ inbox = <<>> /\ alive /\ timeouts' = timeouts + 1
          /\ UNCHANGED <<nextID, lost, outbox, inbox, serving, alive>>
        BY <1>5 DEF ReadTimeout, bridge
    <2>2. /\ holder' = Nobody
          /\ \A d \in Callers : place'[d] # "read"
          /\ timeouts' > 0
        BY <1>1, <1>2, <2>1 DEF Outcomes
    <2>3. OldComesFirst'
        <3>1. ASSUME NEW id \in IDs, id < nextID PROVE Old(id)'
            BY <2>1, <2>2, <3>1 DEF Old
        <3>2. CASE timeouts = 0
            <4>1. Underway(calling[c]) /\ calling[c].id < nextID
                BY <1>1, <2>1, <3>2 DEF OneUnderway, Nothing, Serialised
            <4>2. PICK r \in Requests : r = calling[c]
                BY <1>1
            <4>3. r # NoRequest /\ Old(r.id)'
                BY <3>1, <4>1, <4>2, <1>1
            <4>4. CASE outbox = <<r>> /\ serving = NoRequest
                <5>1. outbox # <<>> /\ Head(outbox) = r
                    BY <4>4
                <5> QED
                    BY <2>1, <4>3, <4>4, <5>1 DEF OldComesFirst
            <4>5. CASE serving = r
                BY <2>1, <4>3, <4>5 DEF OldComesFirst
            <4>6. \/ outbox = <<r>> /\ serving = NoRequest
                  \/ serving = r
                BY <2>1, <4>1, <4>2 DEF Underway
            <4> QED
                BY <4>4, <4>5, <4>6
        <3>3. CASE timeouts > 0
            <4>1. \A id : Old(id) => Old(id)'
                BY <2>1, <2>2 DEF Old
            <4> QED
                BY <4>1, <2>1, <3>3, <1>1 DEF OldComesFirst
        <3> QED
            BY <3>2, <3>3, <1>1
    <2>4. Serialised' /\ FaultNeedsTimeout'
        BY <2>2 DEF Serialised, FaultNeedsTimeout
    <2> QED
        BY <2>2, <2>3, <2>4 DEF OneUnderway, OnTime
<1> QED
    BY <1>3, <1>4, <1>5

\* A call, and Close, change none of what the invariant is about while the
\* connection is not lost.
LEMMA CallKeepsInv == ASSUME Inv, TypeOK', NEW c \in Callers, Call(c) PROVE Inv'
<1> USE DEF Inv
<1>1. /\ UNCHANGED <<holder, nextID, lost, calling, deadline, outbox, inbox>>
      /\ UNCHANGED <<serving, until, alive, clock, timeouts>>
      /\ \A d \in Callers : place'[d] = "read" <=> place[d] = "read"
      /\ \A d \in Callers : outcome'[d] = "fault" => outcome[d] = "fault"
    BY DEF Call, Goto, client, bridge, TypeOK
<1>2. Serialised'
    BY <1>1 DEF Serialised
<1>3. OneUnderway'
    BY <1>1 DEF OneUnderway, Nothing, Underway
<1>4. OnTime'
    BY <1>1 DEF OnTime
<1>5. OldComesFirst'
    BY <1>1 DEF OldComesFirst, Old
<1>6. FaultNeedsTimeout'
    BY <1>1 DEF FaultNeedsTimeout
<1> QED
    BY <1>2, <1>3, <1>4, <1>5, <1>6

\* The bridge takes the one request there is, at once, or answers it, or takes it
\* with it.
LEMMA BridgeKeepsInv ==
    ASSUME Inv, TypeOK', BridgeReads \/ BridgeAnswers \/ BridgeGone
    PROVE  Inv'
<1> USE CallerAssumption DEF Inv
<1>1. /\ UNCHANGED <<holder, nextID, lost, calling, place, deadline, outcome, clock, timeouts>>
      /\ alive
    BY DEF BridgeReads, BridgeAnswers, BridgeGone, client, callers
<1>2. Serialised' /\ FaultNeedsTimeout'
    BY <1>1 DEF Serialised, FaultNeedsTimeout
<1>3. \A id : Old(id) => Old(id)'
    BY <1>1 DEF Old
<1>4. CASE BridgeReads
    <2>1. /\ serving = NoRequest /\ outbox # <<>> /\ serving' = Head(outbox)
          /\ until' = clock + Head(outbox).takes
          /\ outbox' = Tail(outbox) /\ UNCHANGED <<inbox, alive>>
          /\ Head(outbox) \in Requests
        BY <1>4 DEF BridgeReads, TypeOK
    <2>2. ASSUME timeouts = 0, ~lost
          PROVE  \E c \in Callers : /\ holder = c /\ outbox = <<calling[c]>> /\ inbox = <<>>
                                    /\ calling[c] = Head(outbox)
        BY <2>1, <2>2 DEF OneUnderway, Nothing, Underway
    <2>3. OneUnderway'
        <3> SUFFICES ASSUME timeouts = 0, ~lost PROVE OneUnderway'
            BY <1>1 DEF OneUnderway
        <3>1. PICK c \in Callers : /\ holder = c /\ outbox = <<calling[c]>> /\ inbox = <<>>
                                   /\ calling[c] = Head(outbox)
            BY <2>2
        <3>2. outbox' = <<>>
            BY <3>1, <2>1
        <3> QED
            BY <1>1, <2>1, <3>1, <3>2 DEF OneUnderway, Underway
    <2>4. OnTime'
        <3> SUFFICES ASSUME timeouts = 0, ~lost, NEW d \in Callers, holder = d
                     PROVE  /\ outbox' = <<>>
                            /\ clock <= until'
                            /\ deadline[d] + serving'.takes = until' + BudgetOf(calling[d])
            BY <1>1, <2>1 DEF OnTime
        <3>1. outbox = <<calling[d]>> /\ calling[d] = Head(outbox)
            BY <2>2
        <3>2. outbox' = <<>>
            BY <3>1, <2>1
        <3>3. deadline[d] = clock + BudgetOf(calling[d])
            BY <1>1, <2>1 DEF OnTime
        <3>4. /\ clock \in Nat /\ serving'.takes \in Nat /\ BudgetOf(calling[d]) \in Nat
              /\ until' = clock + serving'.takes
            BY <2>1, <3>1, RequestType DEF TypeOK
        <3> QED
            BY <3>2, <3>3, <3>4
    <2>5. OldComesFirst'
        <3>1. Head(outbox) # NoRequest
            BY <2>1 DEF Requests, IDs, NoRequest
        <3> QED
            BY <1>1, <1>3, <2>1, <3>1 DEF OldComesFirst
    <2> QED
        BY <1>2, <2>3, <2>4, <2>5
<1>5. CASE BridgeAnswers
    <2>1. /\ serving # NoRequest /\ serving \in Requests
          /\ inbox' = Append(inbox, serving.id)
          /\ serving' = NoRequest /\ UNCHANGED <<outbox, until, alive>>
        BY <1>5 DEF BridgeAnswers, TypeOK
    <2>2. /\ inbox' # <<>>
          /\ inbox = <<>> => inbox' = <<serving.id>> /\ Head(inbox') = serving.id
          /\ inbox # <<>> => Head(inbox') = Head(inbox)
        <3>1. inbox \in Seq(IDs) /\ serving.id \in IDs
            BY <2>1 DEF TypeOK, Requests
        <3>2. /\ Append(inbox, serving.id) # <<>>
              /\ inbox # <<>> => Head(Append(inbox, serving.id)) = Head(inbox)
            BY <3>1
        <3>3. inbox = <<>> => Append(inbox, serving.id) = <<serving.id>>
            BY <3>1
        <3> QED
            BY <2>1, <3>2, <3>3
    <2>3. OneUnderway'
        <3> SUFFICES ASSUME timeouts = 0, ~lost PROVE OneUnderway'
            BY <1>1 DEF OneUnderway
        <3>1. PICK c \in Callers : /\ holder = c /\ outbox = <<>>
                                   /\ serving = calling[c] /\ inbox = <<>>
            BY <2>1 DEF OneUnderway, Nothing, Underway
        <3> QED
            BY <1>1, <2>1, <2>2, <3>1 DEF OneUnderway, Underway
    <2>4. OnTime'
        BY <1>1, <2>1 DEF OnTime
    <2>5. OldComesFirst'
        BY <1>1, <1>3, <2>1, <2>2 DEF OldComesFirst
    <2> QED
        BY <1>2, <2>3, <2>4, <2>5
<1>6. CASE BridgeGone
    <2>1. ~alive' /\ serving' = NoRequest /\ UNCHANGED <<outbox, inbox>>
        BY <1>6 DEF BridgeGone
    <2>2. OneUnderway'
        <3> SUFFICES ASSUME timeouts = 0, ~lost PROVE OneUnderway'
            BY <1>1 DEF OneUnderway
        <3>1. CASE Nothing
            BY <2>1, <3>1 DEF OneUnderway, Nothing
        <3>2. CASE \E c \in Callers : holder = c /\ Underway(calling[c])
            BY <1>1, <2>1, <3>2 DEF OneUnderway, Nothing, Underway
        <3> QED
            BY <3>1, <3>2 DEF OneUnderway
    <2>3. OnTime'
        BY <2>1 DEF OnTime
    <2>4. OldComesFirst'
        BY <1>1, <1>3, <2>1 DEF OldComesFirst
    <2> QED
        BY <1>1, <1>2, <2>2, <2>3, <2>4
<1> QED
    BY <1>4, <1>5, <1>6

\* Time passes only while nothing that has arrived waits to be read.
LEMMA TickKeepsInv == ASSUME Inv, TypeOK', Tick PROVE Inv'
<1> USE DEF Inv
<1>1. /\ UNCHANGED <<holder, nextID, lost, calling, place, deadline, outcome>>
      /\ UNCHANGED <<outbox, inbox, serving, until, alive, timeouts>>
      /\ alive /\ serving = NoRequest => outbox = <<>>
      /\ serving # NoRequest => clock < until
      /\ clock' = clock + 1 /\ clock \in Nat /\ until \in Nat
    BY DEF Tick, client, callers, bridge, TypeOK
<1>2. Serialised' /\ FaultNeedsTimeout'
    BY <1>1 DEF Serialised, FaultNeedsTimeout
<1>3. OneUnderway'
    BY <1>1 DEF OneUnderway, Nothing, Underway
<1>4. OldComesFirst'
    BY <1>1 DEF OldComesFirst, Old
<1>5. OnTime'
    <2> SUFFICES ASSUME timeouts = 0, ~lost, alive, NEW c \in Callers, holder = c
                 PROVE  /\ outbox # <<>> => deadline[c] = clock' + BudgetOf(calling[c])
                        /\ serving # NoRequest =>
                              /\ clock' <= until
                              /\ deadline[c] + serving.takes = until + BudgetOf(calling[c])
        BY <1>1 DEF OnTime
    <2>1. outbox = <<>>
        BY <1>1, CallerAssumption DEF OneUnderway, Nothing, Underway
    <2> QED
        BY <1>1, <2>1 DEF OnTime
<1> QED
    BY <1>2, <1>3, <1>4, <1>5

LEMMA InvStep == Inv /\ [Next]_vars => Inv'
<1> SUFFICES ASSUME Inv, [Next]_vars PROVE Inv'
    OBVIOUS
<1> USE CallerAssumption
<1>1. TypeOK'
    BY TypeStep DEF Inv
<1>2. CASE UNCHANGED vars
    BY <1>2 DEF Inv, TypeOK, Serialised, OneUnderway, OnTime, OldComesFirst, FaultNeedsTimeout,
        Nothing, Underway, Old, vars, client, callers, bridge
<1>3. ASSUME NEW c \in Callers, Call(c) PROVE Inv'
    BY <1>1, <1>3, CallKeepsInv
<1>4. ASSUME NEW c \in Callers, CallStep(c) PROVE Inv'
    <2>1. nextID \in Nat
        BY DEF Inv, TypeOK, IDs
    <2>2. CASE CallLost(c)
        BY <1>1, <2>1, <2>2, LostKeepsInv DEF CallLost, Free
    <2>3. CASE Write(c)
        BY <1>1, <2>3, WriteKeepsInv
    <2>4. CASE WriteFails(c)
        BY <1>1, <2>1, <2>4, LostKeepsInv DEF WriteFails, Free
    <2>5. CASE Receive(c) \/ ReadEOF(c) \/ ReadTimeout(c)
        BY <1>1, <2>5, ReadKeepsInv
    <2> QED
        BY <1>4, <2>2, <2>3, <2>4, <2>5 DEF CallStep
<1>5. CASE Close
    <2>1. /\ lost' /\ holder = Nobody
          /\ UNCHANGED <<holder, nextID, calling, place, outcome, timeouts>>
        BY <1>5 DEF Close, Free, callers
    <2> QED
        BY <1>1, <2>1
        DEF Inv, Serialised, OneUnderway, OnTime, OldComesFirst, FaultNeedsTimeout
<1>6. CASE BridgeReads \/ BridgeAnswers \/ BridgeGone
    BY <1>1, <1>6, BridgeKeepsInv
<1>7. CASE Tick
    BY <1>1, <1>7, TickKeepsInv
<1> QED
    BY <1>2, <1>3, <1>4, <1>5, <1>6, <1>7 DEF Next, Quiet

-----------------------------------------------------------------------------
(***************************************************************************)
(* The theorems.                                                           *)
(***************************************************************************)

\* The invariant of the client: one caller at a time has a request underway, and
\* it is what the next answer answers, until the first timeout; after it the next
\* answer is always too old.
THEOREM Invariance == Spec => []Inv
<1> QED
    BY InitInv, InvStep, PTL DEF Spec

\* The ids agree as long as no call has timed out (call(), and the fault it
\* raises over an unmatched id).
THEOREM FaultNeedsTimeoutHolds == Spec => []FaultNeedsTimeout
<1>1. Inv => FaultNeedsTimeout
    BY DEF Inv
<1> QED
    BY <1>1, Invariance, PTL

\* A caller that reads and returns does so in one of the three ways a read ends.
LEMMA ReturnsByReading ==
    ASSUME Inv, [Next]_vars, NEW c \in Callers, NEW how, Returns(c, how)
    PROVE  \/ Receive(c) /\ how \in {"answered", "fault"}
           \/ ReadEOF(c) /\ how = "lost"
           \/ ReadTimeout(c) /\ how = "timeout"
<1> USE CallerAssumption DEF Inv, TypeOK
<1>1. place[c] = "read" /\ place'[c] = "idle" /\ outcome'[c] = how
    BY DEF Returns
<1>2. UNCHANGED place => FALSE
    BY <1>1
<1>3. PICK d \in Callers : Call(d) \/ CallStep(d)
    BY <1>2 DEF Next, Close, BridgeReads, BridgeAnswers, BridgeGone, Tick, Quiet, vars, callers
<1>4. ~Call(d)
    BY <1>1 DEF Call, Goto
<1>5. ~(CallLost(d) \/ Write(d) \/ WriteFails(d))
    BY <1>1 DEF CallLost, Write, WriteFails, Free, Return, Goto, Serialised
<1>6. Receive(d) \/ ReadEOF(d) \/ ReadTimeout(d)
    BY <1>3, <1>4, <1>5 DEF CallStep
<1>7. d = c
    BY <1>1, <1>6 DEF Receive, ReadEOF, ReadTimeout, Serialised
<1> QED
    BY <1>1, <1>6, <1>7 DEF Receive, ReadEOF, ReadTimeout, Return

\* Once a call has timed out no later call on that connection is answered: the
\* late answer is read first and is fatal (call() in json_lines_client.go).
THEOREM NothingAfterTimeoutHolds == Spec => NothingAfterTimeout
<1>1. Inv /\ [Next]_vars =>
          [\A c \in Callers : Returns(c, "answered") => timeouts = 0]_vars
    <2> SUFFICES ASSUME Inv, [Next]_vars, NEW c \in Callers, Returns(c, "answered")
                 PROVE  timeouts = 0
        OBVIOUS
    <2>1. Receive(c)
        BY ReturnsByReading
    <2>2. Receive(c) /\ place[c] = "read" /\ ~lost /\ inbox # <<>>
        BY <2>1, HolderReads DEF Receive
    <2>3. Head(inbox) = calling[c].id
        BY <2>2 DEF Receive, Return, Returns, Inv, TypeOK
    <2>4. Head(inbox) \in Nat /\ timeouts \in Nat
        BY <2>2 DEF Inv, TypeOK, IDs
    <2> QED
        BY <2>2, <2>3, <2>4 DEF Inv, OldComesFirst, Old
<1> QED
    BY <1>1, Invariance, PTL DEF Spec, NothingAfterTimeout

\* With any slack at all a waiting command is never cut short by the local
\* deadline before the bridge's own timeout has answered it, unless an earlier
\* call timed out on that connection (waitBudget).
THEOREM WaitNotCutFirstHolds ==
    ASSUME WaitSlack > 0
    PROVE  Spec => WaitNotCutFirst
<1>1. Inv /\ [Next]_vars =>
          [\A c \in Callers : Returns(c, "timeout") /\ calling[c].waits => timeouts > 0]_vars
    <2> SUFFICES ASSUME Inv, [Next]_vars, NEW c \in Callers,
                        Returns(c, "timeout"), calling[c].waits, timeouts = 0
                 PROVE  FALSE
        BY DEF Inv, TypeOK
    <2>1. /\ ReadTimeout(c) /\ place[c] = "read" /\ holder = c /\ ~lost
          /\ calling[c] \in Requests /\ calling[c] # NoRequest
        BY ReturnsByReading, HolderReads DEF ReadTimeout
    <2>2. inbox = <<>> /\ alive /\ clock >= deadline[c]
        BY <2>1 DEF ReadTimeout
    <2>3. BudgetOf(calling[c]) = calling[c].takes + WaitSlack
        BY DEF BudgetOf
    <2>4. /\ calling[c].takes \in Nat /\ clock \in Nat /\ until \in Nat
          /\ deadline[c] \in Nat /\ WaitSlack \in Nat
        BY <2>1, RequestType, TimesAssumption DEF Inv, TypeOK
    <2>5. \/ outbox = <<calling[c]>>
          \/ serving = calling[c]
        BY <2>1, <2>2, CallerAssumption DEF Inv, OneUnderway, Nothing, Underway
    <2>6. CASE outbox = <<calling[c]>>
        BY <2>1, <2>2, <2>3, <2>4, <2>6 DEF Inv, OnTime
    <2>7. CASE serving = calling[c]
        BY <2>1, <2>2, <2>3, <2>4, <2>7 DEF Inv, OnTime
    <2> QED
        BY <2>5, <2>6, <2>7
<1> QED
    BY <1>1, Invariance, PTL DEF Spec, WaitNotCutFirst

=============================================================================
