-------------------------- MODULE ConnectionProofs --------------------------
(***************************************************************************)
(* Proofs about Connection: what holds however many tool calls are in      *)
(* progress beside the heartbeat and the exit, and what holds beside them  *)
(* as long as the agent makes one call at a time.                          *)
(***************************************************************************)
EXTENDS Connection, TLAPS

\* What the record of a call's locals may be changed to.
LEMMA LocalsType ==
    ASSUME TypeOK, NEW p \in Procs
    PROVE  /\ Fresh \in Locals
           /\ local[p] \in Locals
           /\ \A s \in SessionOrNone : [local EXCEPT ![p].held = s] \in [Procs -> Locals]
           /\ \A n \in SUBSET Tools : [local EXCEPT ![p].names = n] \in [Procs -> Locals]
           /\ \A s \in SessionOrNone :
                 [local EXCEPT ![p].live = "no", ![p].lost = s] \in [Procs -> Locals]
<1>1. Fresh \in Locals /\ local[p] \in Locals /\ local \in [Procs -> Locals]
    BY DEF TypeOK, Fresh, Locals, SessionOrNone, None, Failures
<1>2. ASSUME NEW l \in Locals
      PROVE  /\ \A s \in SessionOrNone : [l EXCEPT !.held = s] \in Locals
             /\ \A n \in SUBSET Tools : [l EXCEPT !.names = n] \in Locals
             /\ \A s \in SessionOrNone : [l EXCEPT !.live = "no", !.lost = s] \in Locals
    BY DEF Locals
<1>3. \A s \in SessionOrNone :
          [local EXCEPT ![p].live = "no", ![p].lost = s] =
              [local EXCEPT ![p] = [local[p] EXCEPT !.live = "no", !.lost = s]]
    BY <1>1
<1> QED
    BY <1>1, <1>2, <1>3

LEMMA GotoType ==
    ASSUME TypeOK, NEW p \in Procs, NEW label \in Labels, Goto(p, label)
    PROVE  pc' \in [Procs -> Labels]
BY DEF TypeOK, Goto

LEMMA FinishType ==
    ASSUME TypeOK, NEW p \in Procs, Finish(p)
    PROVE  pc' \in [Procs -> Labels] /\ local' \in [Procs -> Locals]
BY LocalsType, GotoType DEF Finish, Labels, TypeOK

LEMMA ReturnType ==
    ASSUME TypeOK, NEW p \in Procs, NEW live \in {"absent", "yes", "no"},
           NEW proved \in SessionOrNone, Return(p, live, proved)
    PROVE  pc' \in [Procs -> Labels] /\ local' \in [Procs -> Locals]
<1>1. CASE local[p].task = "status"
    <2>1. Goto(p, "reply") /\ local' = [local EXCEPT ![p].live = live, ![p].proved = proved]
        BY <1>1 DEF Return
    <2>2. local \in [Procs -> Locals]
        BY DEF TypeOK
    <2>3. \A l \in Locals : [l EXCEPT !.live = live, !.proved = proved] \in Locals
        BY DEF Locals
    <2>4. local' = [local EXCEPT ![p] = [local[p] EXCEPT !.live = live, !.proved = proved]]
        BY <2>1
    <2>5. local' \in [Procs -> Locals]
        BY <2>2, <2>3, <2>4
    <2> QED
        BY <2>1, <2>5, GotoType DEF Labels
<1>2. CASE local[p].task = "exit"
    BY <1>2, GotoType DEF Return, Labels, TypeOK
<1>3. CASE local[p].task \notin {"status", "exit"}
    BY <1>3, FinishType DEF Return
<1> QED
    BY <1>1, <1>2, <1>3

\* What may become of the history.
LEMMA CrossType ==
    ASSUME TypeOK, NEW kind \in Crossings, NEW happens, Cross(kind, happens)
    PROVE  crossed' \in SUBSET Crossings
BY DEF TypeOK, Cross

\* What may become of a session's wire.
LEMMA WireType ==
    ASSUME TypeOK, NEW s, NEW w \in {"up", "dead", "ended", "closed"}
    PROVE  [wire EXCEPT ![s] = w] \in [Sessions -> {"unopened", "up", "dead", "ended", "closed"}]
BY DEF TypeOK

-----------------------------------------------------------------------------
\* Every step keeps the types.
LEMMA ConnectType == ASSUME TypeOK, NEW p \in Procs, Connect(p) PROVE TypeOK'
<1> USE SessionAssumption DEF outside, controller
<1>1. CASE ConnectCheck(p)
    <2>1. local' \in [Procs -> Locals]
        BY <1>1 DEF ConnectCheck, Begin, Fresh, Locals, TypeOK, SessionOrNone, None, Failures
    <2> QED
        BY <1>1, <2>1, GotoType DEF ConnectCheck, Labels, States, TypeOK
<1>2. CASE DialSucceeds(p)
    <2>1. dialed + 1 \in Sessions
        BY <1>2 DEF DialSucceeds, Sessions, TypeOK
    <2>2. PICK caps \in Announcements :
              /\ announced' = [announced EXCEPT ![dialed + 1] = caps]
              /\ local' = [local EXCEPT ![p].held = dialed + 1, ![p].names = Allowed(caps)]
        BY <1>2 DEF DialSucceeds
    <2>3. announced' \in [Sessions -> SUBSET Capabilities]
        BY <2>2 DEF TypeOK
    <2>4. local' \in [Procs -> Locals]
        <3>1. dialed + 1 \in SessionOrNone /\ Allowed(caps) \in SUBSET Tools
            BY <2>1 DEF SessionOrNone, Allowed
        <3>2. local' = [local EXCEPT ![p] =
                          [local[p] EXCEPT !.held = dialed + 1, !.names = Allowed(caps)]]
            BY <2>2 DEF TypeOK
        <3>3. [local[p] EXCEPT !.held = dialed + 1, !.names = Allowed(caps)] \in Locals
            BY <3>1, LocalsType DEF Locals
        <3> QED
            BY <3>2, <3>3 DEF TypeOK
    <2>5. wire' \in [Sessions -> {"unopened", "up", "dead", "ended", "closed"}]
        BY <1>2, WireType DEF DialSucceeds
    <2>6. pc' \in [Procs -> Labels]
        BY <1>2, GotoType DEF DialSucceeds, Labels
    <2> QED
        BY <1>2, <2>1, <2>3, <2>4, <2>5, <2>6 DEF DialSucceeds, Sessions, TypeOK
<1>3. CASE DialFails(p)
    <2>1. local' \in [Procs -> Locals]
        BY <1>3 DEF DialFails, Failures, TypeOK, Locals
    <2> QED
        BY <1>3, <2>1, GotoType DEF DialFails, Labels, TypeOK
<1>4. CASE RecordFailure(p)
    <2>1. local[p].failure \in States
        BY LocalsType DEF Locals, Failures, States
    <2>2. crossed' \in SUBSET Crossings
        BY <1>4, CrossType DEF RecordFailure, Crossings
    <2>3. pc' \in [Procs -> Labels] /\ local' \in [Procs -> Locals]
        BY <1>4, FinishType, GotoType DEF RecordFailure, Labels, TypeOK
    <2> QED
        BY <1>4, <2>1, <2>2, <2>3 DEF RecordFailure, TypeOK
<1>5. CASE Install(p)
    <2>1. local[p].held \in SessionOrNone /\ local[p].names \in SUBSET Tools
        BY LocalsType DEF Locals
    <2>2. crossed' \in SUBSET Crossings
        BY <1>5, CrossType DEF Install, Crossings
    <2> QED
        BY <1>5, <2>1, <2>2, GotoType DEF Install, Labels, States, TypeOK
<1>6. CASE Publish(p)
    <2>1. local[p].names \in SUBSET Tools
        BY LocalsType DEF Locals
    <2>2. crossed' \in SUBSET Crossings
        BY <1>6, CrossType DEF Publish, Crossings
    <2> QED
        BY <1>6, <2>1, <2>2, FinishType DEF Publish, TypeOK
<1> QED
    BY <1>1, <1>2, <1>3, <1>4, <1>5, <1>6 DEF Connect

LEMMA DisconnectType == ASSUME TypeOK, NEW p \in Procs, Disconnect(p) PROVE TypeOK'
<1> USE DEF outside, controller
<1>0. /\ local[p].names \in SUBSET Tools
      /\ local[p].live \in {"absent", "yes", "no"}
      /\ local[p].proved \in SessionOrNone
    BY LocalsType DEF Locals
<1>1. CASE DisconnectCall(p)
    <2>1. local' \in [Procs -> Locals]
        BY <1>1 DEF DisconnectCall, Begin, Fresh, Locals, TypeOK, SessionOrNone, None, Failures
    <2> QED
        BY <1>1, <2>1, GotoType DEF DisconnectCall, Labels, TypeOK
<1>2. CASE Bye(p)
    BY <1>2, GotoType, WireType DEF Bye, Labels, TypeOK
<1>3. CASE CloseAfterBye(p)
    BY <1>3, GotoType, WireType DEF CloseAfterBye, CloseSession, Labels, TypeOK
<1>4. CASE Clear(p)
    <2>1. pc' \in [Procs -> Labels] /\ local' \in [Procs -> Locals]
        <3>1. CASE published # {}
            <4>1. Goto(p, "retract") /\ local' = [local EXCEPT ![p].names = published]
                BY <1>4, <3>1 DEF Clear, Drop
            <4>2. published \in SUBSET Tools
                BY DEF TypeOK
            <4> QED
                BY <4>1, <4>2, GotoType, LocalsType DEF Labels
        <3>2. CASE published = {}
            BY <1>0, <1>4, <3>2, ReturnType DEF Clear, Drop
        <3> QED
            BY <3>1, <3>2
    <2>2. crossed' \in SUBSET Crossings
        BY <1>4, CrossType DEF Clear, Crossings
    <2> QED
        BY <1>4, <2>1, <2>2 DEF Clear, Drop, States, SessionOrNone, TypeOK
<1>5. CASE Retract(p)
    <2>1. crossed' \in SUBSET Crossings
        BY <1>5, CrossType DEF Retract, Crossings
    <2> QED
        BY <1>0, <1>5, <2>1, ReturnType DEF Retract, TypeOK
<1> QED
    BY <1>1, <1>2, <1>3, <1>4, <1>5 DEF Disconnect

LEMMA VerifyType == ASSUME TypeOK, NEW p \in Procs, Verify(p) PROVE TypeOK'
<1> USE DEF outside, controller
<1>0. /\ local[p].held \in SessionOrNone /\ None \in SessionOrNone
      /\ local[p].live \in {"absent", "yes", "no"}
      /\ local[p].proved \in SessionOrNone
    BY LocalsType DEF Locals, SessionOrNone
<1>1. CASE VerifyRead(p)
    <2>1. CASE connection # None
        <3>1. Goto(p, "ping") /\ local' = [local EXCEPT ![p].held = connection]
            BY <1>1, <2>1 DEF VerifyRead
        <3>2. connection \in SessionOrNone
            BY DEF TypeOK
        <3>3. pc' \in [Procs -> Labels] /\ local' \in [Procs -> Locals]
            BY <3>1, <3>2, GotoType, LocalsType DEF Labels
        <3> QED
            BY <1>1, <3>3 DEF VerifyRead, TypeOK
    <2>2. CASE connection = None
        BY <1>0, <1>1, <2>2, ReturnType DEF VerifyRead, TypeOK
    <2> QED
        BY <2>1, <2>2
<1>2. CASE PingAnswered(p)
    BY <1>0, <1>2, ReturnType DEF PingAnswered, TypeOK
<1>3. CASE PingRefused(p)
    BY <1>0, <1>3, ReturnType DEF PingRefused, TypeOK
<1>4. CASE PingLost(p)
    <2>1. pc' \in [Procs -> Labels] /\ local' \in [Procs -> Locals]
        BY <1>0, <1>4, GotoType, LocalsType DEF PingLost, Labels
    <2> QED
        BY <1>4, <2>1 DEF PingLost, TypeOK
<1>5. CASE LoseRead(p)
    <2>1. CASE connection # None
        <3>1. Goto(p, "drop") /\ local' = [local EXCEPT ![p].held = connection]
            BY <1>5, <2>1 DEF LoseRead
        <3>2. connection \in SessionOrNone
            BY DEF TypeOK
        <3>3. pc' \in [Procs -> Labels] /\ local' \in [Procs -> Locals]
            BY <3>1, <3>2, GotoType, LocalsType DEF Labels
        <3> QED
            BY <1>5, <3>3 DEF LoseRead, TypeOK
    <2>2. CASE connection = None
        BY <1>0, <1>5, <2>2, ReturnType DEF LoseRead, TypeOK
    <2> QED
        BY <2>1, <2>2
<1>6. CASE LoseClose(p)
    BY <1>6, GotoType, WireType DEF LoseClose, CloseSession, Labels, TypeOK
<1> QED
    BY <1>1, <1>2, <1>3, <1>4, <1>5, <1>6 DEF Verify

LEMMA CallType ==
    ASSUME TypeOK, NEW p \in Procs, Dispatch(p) \/ Beat(p) PROVE TypeOK'
<1> USE DEF outside, controller
<1>1. \A t \in {"status", "use", "beat"}, s \in SessionOrNone :
          Begin(p, t, s) => local' \in [Procs -> Locals]
    <2> SUFFICES ASSUME NEW t \in {"status", "use", "beat"}, NEW s \in SessionOrNone,
                        Begin(p, t, s)
                 PROVE  local' \in [Procs -> Locals]
        OBVIOUS
    <2>1. [Fresh EXCEPT !.task = t, !.held = s] \in Locals
        BY LocalsType DEF Locals
    <2> QED
        BY <2>1 DEF Begin, TypeOK
<1>2. CASE StatusCall(p)
    BY <1>1, <1>2, GotoType DEF StatusCall, Labels, TypeOK
<1>3. CASE StatusReply(p)
    BY <1>3, FinishType DEF StatusReply, TypeOK
<1>4. CASE UseCall(p)
    BY <1>1, <1>4, GotoType DEF UseCall, Labels, TypeOK
<1>5. CASE UseReturns(p)
    <2>1. pc' \in [Procs -> Labels] /\ local' \in [Procs -> Locals]
        BY <1>5, FinishType, GotoType DEF UseReturns, Labels, TypeOK
    <2> QED
        BY <1>5, <2>1 DEF UseReturns, TypeOK
<1>6. CASE Beat(p)
    BY <1>1, <1>6, GotoType DEF Beat, Labels, TypeOK
<1> QED
    BY <1>2, <1>3, <1>4, <1>5, <1>6 DEF Dispatch

LEMMA TypeStep == TypeOK /\ [Next]_vars => TypeOK'
<1> SUFFICES ASSUME TypeOK, [Next]_vars PROVE TypeOK'
    OBVIOUS
<1> USE DEF outside, controller
<1>1. ASSUME NEW p \in Procs, Connect(p) \/ Disconnect(p) \/ Verify(p) \/ Dispatch(p) \/ Beat(p)
      PROVE  TypeOK'
    BY <1>1, ConnectType, DisconnectType, VerifyType, CallType
<1>2. CASE HostCloses
    <2>1. serving' \in BOOLEAN
        BY <1>2, Zenon DEF HostCloses
    <2> QED
        BY <1>2, <2>1 DEF HostCloses, TypeOK
<1>3. CASE Exit
    <2>1. local' \in [Procs -> Locals] /\ Main \in Procs
        BY <1>3 DEF Exit, Begin, Fresh, Locals, TypeOK, SessionOrNone, None, Failures, Procs
    <2>2. pc' \in [Procs -> Labels]
        BY <1>3, <2>1, GotoType DEF Exit, Labels
    <2> QED
        BY <1>3, <2>1, <2>2 DEF Exit, TypeOK
<1>4. ASSUME NEW s \in Sessions, PeerGone(s) PROVE TypeOK'
    BY <1>4, WireType DEF PeerGone, TypeOK
<1>5. CASE Exited \/ UNCHANGED vars
    BY <1>5 DEF Exited, vars, TypeOK
<1> QED
    BY <1>1, <1>2, <1>3, <1>4, <1>5 DEF Next


-----------------------------------------------------------------------------
(***************************************************************************)
(* One step of one goroutine: it moves that goroutine and no other.        *)
(***************************************************************************)
Step(p) == Connect(p) \/ Disconnect(p) \/ Verify(p) \/ Dispatch(p) \/ Beat(p)

OnlyMoves(p) ==
    \A q \in Procs \ {p} : pc'[q] = pc[q] /\ local'[q] = local[q]

LEMMA FinishMoves ==
    ASSUME TypeOK, NEW p \in Procs, Finish(p)
    PROVE  /\ OnlyMoves(p) /\ pc'[p] = "idle"
           /\ local'[p].held = None /\ local'[p].lost = None /\ local'[p].task = "none"
BY DEF TypeOK, Finish, Goto, OnlyMoves, Fresh

LEMMA BeginMoves ==
    ASSUME TypeOK, NEW p \in Procs, NEW t, NEW s, NEW label, Begin(p, t, s), Goto(p, label)
    PROVE  /\ OnlyMoves(p) /\ pc'[p] = label
           /\ local'[p].held = s /\ local'[p].lost = None /\ local'[p].task = t
BY DEF TypeOK, Begin, Goto, OnlyMoves, Fresh

LEMMA GotoMoves ==
    ASSUME TypeOK, NEW p \in Procs, NEW label, Goto(p, label), UNCHANGED local
    PROVE  OnlyMoves(p) /\ pc'[p] = label /\ local'[p] = local[p]
BY DEF TypeOK, Goto, OnlyMoves

\* A call goes on with one more session in its locals, with names, or with a
\* verdict on its dial.
LEMMA HeldMoves ==
    ASSUME TypeOK, NEW p \in Procs, NEW label, Goto(p, label), NEW s,
           local' = [local EXCEPT ![p].held = s]
    PROVE  /\ OnlyMoves(p) /\ pc'[p] = label /\ local'[p].held = s
           /\ local'[p].lost = local[p].lost /\ local'[p].task = local[p].task
BY DEF TypeOK, Goto, OnlyMoves, Locals

LEMMA NamesMoves ==
    ASSUME TypeOK, NEW p \in Procs, NEW label, Goto(p, label), NEW n,
           local' = [local EXCEPT ![p].names = n]
    PROVE  /\ OnlyMoves(p) /\ pc'[p] = label /\ local'[p].names = n
           /\ local'[p].held = local[p].held
           /\ local'[p].lost = local[p].lost /\ local'[p].task = local[p].task
BY DEF TypeOK, Goto, OnlyMoves, Locals

\* What a call's return does to its own place and locals.
LEMMA ReturnMoves ==
    ASSUME TypeOK, NEW p \in Procs, NEW live, NEW proved, Return(p, live, proved)
    PROVE  /\ OnlyMoves(p)
           /\ pc'[p] \in {"idle", "reply", "done"}
           /\ local'[p].held \in {local[p].held, None}
           /\ local'[p].lost \in {local[p].lost, None}
           /\ local'[p].task \in {local[p].task, "none"}
           /\ pc'[p] = "done" <=> local[p].task = "exit"
<1> USE DEF TypeOK, Goto, OnlyMoves
<1>0. local[p] \in Locals
    OBVIOUS
<1>1. CASE local[p].task = "status"
    <2>1. /\ pc' = [pc EXCEPT ![p] = "reply"]
          /\ local' = [local EXCEPT ![p] = [local[p] EXCEPT !.live = live, !.proved = proved]]
        BY <1>1 DEF Return
    <2> DEFINE l == [local[p] EXCEPT !.live = live, !.proved = proved]
    <2>2. l.held = local[p].held /\ l.lost = local[p].lost /\ l.task = local[p].task
        BY <1>0 DEF Locals
    <2>3. local'[p] = l
        BY <2>1
    <2> HIDE DEF l
    <2> QED
        BY <1>1, <2>1, <2>2, <2>3
<1>2. CASE local[p].task = "exit"
    BY <1>2 DEF Return
<1>3. CASE local[p].task \notin {"status", "exit"}
    BY <1>3 DEF Return, Finish, Fresh
<1> QED
    BY <1>1, <1>2, <1>3

\* The sessions and None are numbers.
LEMMA PlainTypes ==
    ASSUME TypeOK, NEW p \in Procs
    PROVE  /\ dialed \in Nat /\ connection \in Nat
           /\ local[p].held \in Nat /\ local[p].lost \in Nat
           /\ local[p].held \in SessionOrNone /\ local[p].lost \in SessionOrNone
           /\ Sessions = SessionOrNone \ {None} /\ Sessions \subseteq Nat
BY SessionAssumption DEF TypeOK, Locals, SessionOrNone, Sessions, None

-----------------------------------------------------------------------------
(***************************************************************************)
(* What is so of one goroutine, by the place it is at; and what every step *)
(* leaves so for the others.                                               *)
(***************************************************************************)
InPlace(p) ==
    /\ local[p].held <= dialed /\ local[p].lost <= dialed
    /\ pc[p] \in Holding => local[p].held # None
    /\ pc[p] \in {"install", "publish"} => local[p].names = Allowed(announced[local[p].held])
    /\ pc[p] = "clear" => wire[local[p].held] = "closed"
    /\ pc[p] \in {"lose", "drop"} => local[p].lost # None /\ wire[local[p].lost] # "up"

\* A session that was dialed keeps its announcement, and does not come back.
Stable ==
    /\ dialed <= dialed'
    /\ \A s \in 1 .. dialed :
          /\ announced'[s] = announced[s]
          /\ wire[s] = "closed" => wire'[s] = "closed"
          /\ wire[s] # "up" => wire'[s] # "up"

\* The wires that are unopened are those of the sessions yet to be dialed.
WiresOpen == connection <= dialed /\ \A s \in Sessions : wire[s] = "unopened" <=> s > dialed

LEMMA InPlaces ==
    Inv <=> /\ TypeOK /\ WiresOpen /\ (\A p \in Procs : InPlace(p))
            /\ ExitOrder /\ ToolsAccounted /\ PublishedIsAllowed
            /\ StatusMatchesUnlessLate /\ NoneAbandonedUnlessCrossed
BY DEF Inv, DialedOnly, HeldAllowed, LossesAreLost, InPlace, WiresOpen

LEMMA InPlacesNext ==
    (WiresOpen' /\ \A p \in Procs : InPlace(p)') =>
        DialedOnly' /\ HeldAllowed' /\ LossesAreLost'
BY DEF DialedOnly, HeldAllowed, LossesAreLost, InPlace, WiresOpen

\* What a goroutine could rely on it still can when another one has moved.
LEMMA OthersInPlace ==
    ASSUME TypeOK, NEW q \in Procs, InPlace(q), Stable,
           dialed' \in Nat, pc'[q] = pc[q], local'[q] = local[q]
    PROVE  InPlace(q)'
<1>1. /\ dialed \in Nat
      /\ local[q].held \in Nat /\ local[q].lost \in Nat
    BY PlainTypes
<1>2. local[q].held # None => local[q].held \in 1 .. dialed
    BY <1>1 DEF InPlace, None
<1>3. local[q].lost # None => local[q].lost \in 1 .. dialed
    BY <1>1 DEF InPlace, None
<1>4. /\ local'[q].held <= dialed' /\ local'[q].lost <= dialed'
      /\ pc'[q] \in Holding => local'[q].held # None
    BY <1>1 DEF InPlace, Stable
<1>5. pc'[q] \in {"install", "publish"} =>
          local'[q].names = Allowed(announced'[local'[q].held])
    BY <1>2 DEF InPlace, Stable, Holding
<1>6. pc'[q] = "clear" => wire'[local'[q].held] = "closed"
    BY <1>2 DEF InPlace, Stable, Holding
<1>7. pc'[q] \in {"lose", "drop"} => local'[q].lost # None /\ wire'[local'[q].lost] # "up"
    BY <1>3 DEF InPlace, Stable
<1> QED
    BY <1>4, <1>5, <1>6, <1>7 DEF InPlace, Allowed

\* The steps that touch no wire.
LEMMA WiresLeft ==
    ASSUME NEW p \in Procs, Step(p),
           ~(DialSucceeds(p) \/ Bye(p) \/ CloseAfterBye(p) \/ LoseClose(p))
    PROVE  UNCHANGED outside
BY DEF Step, Connect, ConnectCheck, DialFails, RecordFailure, Install, Publish,
       Disconnect, DisconnectCall, Clear, Retract,
       Verify, VerifyRead, PingAnswered, PingRefused, PingLost, LoseRead,
       Dispatch, StatusCall, StatusReply, UseCall, UseReturns, Beat

\* The step of a goroutine at a session it holds, which is not the next to be dialed.
LEMMA WireStep ==
    ASSUME TypeOK, WiresOpen, NEW s \in 1 .. dialed, NEW w \in {"dead", "ended", "closed"},
           wire[s] = "up" \/ w = "closed",
           wire' = [wire EXCEPT ![s] = w], UNCHANGED <<announced, dialed, connection>>
    PROVE  Stable /\ WiresOpen'
<1>1. dialed \in 0 .. MaxSessions /\ MaxSessions \in Nat /\ Sessions = 1 .. MaxSessions
    BY SessionAssumption DEF TypeOK, Sessions
<1>2. s \in Sessions /\ ~(s > dialed)
    BY <1>1
<1>3. wire \in [Sessions -> {"unopened", "up", "dead", "ended", "closed"}]
    BY DEF TypeOK
<1>4. \A r \in Sessions : wire'[r] = IF r = s THEN w ELSE wire[r]
    BY <1>3
<1>5. Stable
    BY <1>1, <1>4 DEF Stable
<1>6. WiresOpen'
    BY <1>2, <1>4 DEF WiresOpen
<1> QED
    BY <1>5, <1>6

LEMMA WiresStep ==
    ASSUME Inv, NEW p \in Procs, Step(p)
    PROVE  Stable /\ WiresOpen'
<1> USE DEF outside, controller
<1>0. TypeOK /\ WiresOpen /\ InPlace(p)
    BY InPlaces
<1>1. dialed \in 0 .. MaxSessions /\ MaxSessions \in Nat /\ Sessions = 1 .. MaxSessions
    BY <1>0, SessionAssumption DEF TypeOK, Sessions
<1>2. pc[p] \in Holding => local[p].held \in 1 .. dialed
    BY <1>0, <1>1, PlainTypes DEF InPlace, None
<1>3. CASE DialSucceeds(p)
    <2>1. dialed' = dialed + 1 /\ dialed + 1 \in Sessions /\ UNCHANGED connection
        BY <1>1, <1>3 DEF DialSucceeds
    <2>2. \A r \in Sessions : wire'[r] = IF r = dialed + 1 THEN "up" ELSE wire[r]
        BY <1>0, <1>3 DEF DialSucceeds, TypeOK
    <2>3. \A r \in 1 .. dialed : announced'[r] = announced[r]
        BY <1>0, <1>1, <1>3 DEF DialSucceeds, TypeOK
    <2>4. \A r \in 1 .. dialed : r \in Sessions /\ r # dialed + 1
        BY <1>1
    <2>5. Stable
        BY <1>1, <2>1, <2>2, <2>3, <2>4 DEF Stable
    <2>6. \A r \in Sessions : wire'[r] = "unopened" <=> r > dialed + 1
        BY <1>0, <1>1, <2>2 DEF WiresOpen
    <2>7. connection <= dialed + 1
        BY <1>0, <1>1, PlainTypes DEF WiresOpen
    <2> QED
        BY <2>1, <2>5, <2>6, <2>7 DEF WiresOpen
<1>4. CASE Bye(p)
    <2>1. CASE wire[local[p].held] = "up" /\ wire' = [wire EXCEPT ![local[p].held] = "ended"]
        BY <1>0, <1>2, <1>4, <2>1, WireStep DEF Bye, At, Holding
    <2>2. CASE UNCHANGED wire
        BY <1>0, <1>1, <1>4, <2>2 DEF Bye, Stable, WiresOpen
    <2> QED
        BY <1>4, <2>1, <2>2 DEF Bye
<1>5. CASE CloseAfterBye(p)
    BY <1>0, <1>2, <1>5, WireStep DEF CloseAfterBye, CloseSession, At, Holding
<1>6. CASE LoseClose(p)
    BY <1>0, <1>2, <1>6, WireStep DEF LoseClose, CloseSession, At, Holding
<1>7. CASE ~(DialSucceeds(p) \/ Bye(p) \/ CloseAfterBye(p) \/ LoseClose(p))
    <2>1. UNCHANGED <<wire, announced, dialed>>
        BY <1>7, WiresLeft
    <2>2. connection' <= dialed
        <3>1. CASE Install(p)
            BY <1>0, <3>1 DEF Install, InPlace
        <3>2. CASE Clear(p)
            <4>1. connection' = 0
                BY <3>2 DEF Clear, Drop, None
            <4> QED
                BY <1>1, <4>1
        <3>3. CASE ~(Install(p) \/ Clear(p))
            <4>1. UNCHANGED connection
                BY <3>3 DEF Step, Connect, ConnectCheck, DialSucceeds, DialFails, RecordFailure,
                   Publish, Disconnect, DisconnectCall, Bye, CloseAfterBye, Retract,
                   Verify, VerifyRead, PingAnswered, PingRefused, PingLost, LoseRead, LoseClose,
                   Dispatch, StatusCall, StatusReply, UseCall, UseReturns, Beat
            <4> QED
                BY <1>0, <4>1 DEF WiresOpen
        <3> QED
            BY <3>1, <3>2, <3>3
    <2> QED
        BY <1>0, <1>1, <2>1, <2>2 DEF Stable, WiresOpen
<1> QED
    BY <1>3, <1>4, <1>5, <1>6, <1>7

\* A goroutine that has moved to a place where little is asked of it.
LEMMA PlainPlace ==
    ASSUME TypeOK, WiresOpen, NEW p \in Procs, InPlace(p), UNCHANGED outside,
           pc'[p] \notin {"install", "publish", "clear", "lose", "drop"},
           local'[p].held \in {local[p].held, connection, None},
           local'[p].lost \in {local[p].lost, None},
           pc'[p] \in Holding => local'[p].held # None
    PROVE  InPlace(p)'
<1>1. dialed \in Nat /\ connection <= dialed /\ None <= dialed
    BY PlainTypes DEF WiresOpen, None
<1>2. local[p].held <= dialed /\ local[p].lost <= dialed
    BY DEF InPlace
<1>3. local'[p].held <= dialed /\ local'[p].lost <= dialed
    BY <1>1, <1>2
<1> QED
    BY <1>3 DEF InPlace, outside

LEMMA ConnectLands ==
    ASSUME Inv, NEW p \in Procs, Connect(p) PROVE OnlyMoves(p) /\ InPlace(p)'
<1> USE DEF controller
<1>0. TypeOK /\ WiresOpen /\ InPlace(p)
    BY InPlaces
<1>1. CASE ConnectCheck(p)
    <2>1. /\ OnlyMoves(p) /\ pc'[p] = "dial"
          /\ local'[p].held = None /\ local'[p].lost = None
        BY <1>0, <1>1, BeginMoves DEF ConnectCheck
    <2> QED
        BY <1>0, <1>1, <2>1, PlainPlace DEF ConnectCheck, Holding
<1>2. CASE DialSucceeds(p)
    <2> DEFINE new == dialed + 1
    <2>1. PICK caps \in Announcements :
              /\ announced' = [announced EXCEPT ![new] = caps]
              /\ local' = [local EXCEPT ![p].held = new, ![p].names = Allowed(caps)]
        BY <1>2 DEF DialSucceeds
    <2>2. /\ dialed \in Nat /\ local[p].lost \in Nat /\ new \in Sessions
          /\ local[p].lost <= dialed /\ dialed' = new
        BY <1>0, <1>2, PlainTypes, SessionAssumption DEF DialSucceeds, TypeOK, InPlace, Sessions
    <2>3. announced'[new] = caps
        BY <1>0, <2>1, <2>2 DEF TypeOK
    <2>4. /\ OnlyMoves(p) /\ pc'[p] = "install"
          /\ local'[p].held = new /\ local'[p].names = Allowed(caps)
          /\ local'[p].lost = local[p].lost
        BY <1>0, <1>2, <2>1 DEF DialSucceeds, Goto, OnlyMoves, TypeOK, Locals
    <2>5. new # None /\ new <= dialed' /\ local'[p].lost <= dialed'
        BY <2>2, <2>4 DEF None
    <2> HIDE DEF new
    <2> QED
        BY <2>3, <2>4, <2>5 DEF InPlace, Allowed
<1>3. CASE DialFails(p)
    <2>1. PICK verdict \in Failures : local' = [local EXCEPT ![p].failure = verdict]
        BY <1>3 DEF DialFails
    <2>2. /\ OnlyMoves(p) /\ pc'[p] = "record"
          /\ local'[p].held = local[p].held /\ local'[p].lost = local[p].lost
        BY <1>0, <1>3, <2>1 DEF DialFails, Goto, OnlyMoves, TypeOK, Locals
    <2> QED
        BY <1>0, <1>3, <2>2, PlainPlace DEF DialFails, Holding
<1>4. CASE RecordFailure(p)
    <2>1. /\ OnlyMoves(p) /\ pc'[p] \in {"idle", "verify"}
          /\ local'[p].held \in {local[p].held, None} /\ local'[p].lost \in {local[p].lost, None}
        BY <1>0, <1>4, FinishMoves, GotoMoves DEF RecordFailure
    <2> QED
        BY <1>0, <1>4, <2>1, PlainPlace DEF RecordFailure, Holding
<1>5. CASE Install(p)
    <2>1. OnlyMoves(p) /\ pc'[p] = "publish" /\ local'[p] = local[p]
        BY <1>0, <1>5, GotoMoves DEF Install
    <2>2. pc[p] = "install" /\ UNCHANGED outside
        BY <1>5 DEF Install, At
    <2> QED
        BY <1>0, <2>1, <2>2 DEF InPlace, Holding, Allowed, outside
<1>6. CASE Publish(p)
    <2>1. /\ OnlyMoves(p) /\ pc'[p] = "idle"
          /\ local'[p].held = None /\ local'[p].lost = None
        BY <1>0, <1>6, FinishMoves DEF Publish
    <2> QED
        BY <1>0, <1>6, <2>1, PlainPlace DEF Publish, Holding
<1> QED
    BY <1>1, <1>2, <1>3, <1>4, <1>5, <1>6 DEF Connect

LEMMA ClearMoves ==
    ASSUME TypeOK, NEW p \in Procs, Clear(p)
    PROVE  /\ OnlyMoves(p)
           /\ pc'[p] \in {"retract", "idle", "reply", "done"}
           /\ local'[p].held \in {local[p].held, None}
           /\ local'[p].lost \in {local[p].lost, None}
           /\ local'[p].task \in {local[p].task, "none"}
           /\ pc'[p] = "done" => local[p].task = "exit"
           /\ local[p].task = "exit" => pc'[p] \in {"retract", "done"}
           /\ published # {} => pc'[p] = "retract" /\ local'[p].names = published
<1>1. CASE published # {}
    <2>1. Goto(p, "retract") /\ local' = [local EXCEPT ![p].names = published]
        BY <1>1 DEF Clear
    <2>2. /\ OnlyMoves(p) /\ pc'[p] = "retract" /\ local'[p].names = published
          /\ local'[p].held = local[p].held
          /\ local'[p].lost = local[p].lost /\ local'[p].task = local[p].task
        BY <2>1, NamesMoves
    <2> QED
        BY <2>2
<1>2. CASE published = {}
    <2>1. Return(p, local[p].live, local[p].proved)
        BY <1>2 DEF Clear
    <2> QED
        BY <1>2, <2>1, ReturnMoves
<1> QED
    BY <1>1, <1>2

LEMMA DisconnectLands ==
    ASSUME Inv, NEW p \in Procs, Disconnect(p) PROVE OnlyMoves(p) /\ InPlace(p)'
<1> USE DEF controller
<1>0. TypeOK /\ WiresOpen /\ InPlace(p)
    BY InPlaces
<1>1. CASE DisconnectCall(p)
    <2>1. /\ OnlyMoves(p) /\ pc'[p] = "bye" /\ connection # None
          /\ local'[p].held = connection /\ local'[p].lost = None
        BY <1>0, <1>1, BeginMoves DEF DisconnectCall
    <2> QED
        BY <1>0, <1>1, <2>1, PlainPlace DEF DisconnectCall, Holding
<1>2. CASE Bye(p)
    <2>1. OnlyMoves(p) /\ pc'[p] = "close" /\ local'[p] = local[p]
        BY <1>0, <1>2, GotoMoves DEF Bye
    <2>2. pc[p] = "bye" /\ UNCHANGED dialed
        BY <1>2 DEF Bye, At
    <2> QED
        BY <1>0, <2>1, <2>2 DEF InPlace, Holding
<1>3. CASE CloseAfterBye(p)
    <2>1. OnlyMoves(p) /\ pc'[p] = "clear" /\ local'[p] = local[p]
        BY <1>0, <1>3, GotoMoves DEF CloseAfterBye
    <2>2. pc[p] = "close" /\ UNCHANGED dialed
        BY <1>3 DEF CloseAfterBye, At
    <2>3. local[p].held \in Sessions
        BY <1>0, <2>2, PlainTypes DEF InPlace, Holding
    <2>4. wire'[local[p].held] = "closed"
        BY <1>0, <1>3, <2>3 DEF CloseAfterBye, CloseSession, TypeOK
    <2> QED
        BY <1>0, <2>1, <2>2, <2>3, <2>4 DEF InPlace, Holding
<1>4. CASE Clear(p)
    <2>1. /\ OnlyMoves(p) /\ pc'[p] \in {"retract", "idle", "reply", "done"}
          /\ local'[p].held \in {local[p].held, None} /\ local'[p].lost \in {local[p].lost, None}
        BY <1>0, <1>4, ClearMoves
    <2> QED
        BY <1>0, <1>4, <2>1, PlainPlace DEF Clear, Holding
<1>5. CASE Retract(p)
    <2>1. /\ OnlyMoves(p) /\ pc'[p] \in {"idle", "reply", "done"}
          /\ local'[p].held \in {local[p].held, None} /\ local'[p].lost \in {local[p].lost, None}
        BY <1>0, <1>5, ReturnMoves DEF Retract
    <2> QED
        BY <1>0, <1>5, <2>1, PlainPlace DEF Retract, Holding
<1> QED
    BY <1>1, <1>2, <1>3, <1>4, <1>5 DEF Disconnect

LEMMA VerifyLands ==
    ASSUME Inv, NEW p \in Procs, Verify(p) PROVE OnlyMoves(p) /\ InPlace(p)'
<1> USE DEF controller
<1>0. TypeOK /\ WiresOpen /\ InPlace(p)
    BY InPlaces
<1>1. ASSUME NEW live, NEW proved, Return(p, live, proved), UNCHANGED outside
      PROVE  OnlyMoves(p) /\ InPlace(p)'
    <2>1. /\ OnlyMoves(p) /\ pc'[p] \in {"idle", "reply", "done"}
          /\ local'[p].held \in {local[p].held, None} /\ local'[p].lost \in {local[p].lost, None}
        BY <1>0, <1>1, ReturnMoves
    <2> QED
        BY <1>0, <1>1, <2>1, PlainPlace DEF Holding
<1>2. CASE VerifyRead(p)
    <2>1. CASE connection # None
        <3>1. Goto(p, "ping") /\ local' = [local EXCEPT ![p].held = connection]
            BY <1>2, <2>1 DEF VerifyRead
        <3>2. /\ OnlyMoves(p) /\ pc'[p] = "ping"
              /\ local'[p].held = connection /\ local'[p].lost = local[p].lost
            BY <1>0, <3>1, HeldMoves
        <3> QED
            BY <1>0, <1>2, <2>1, <3>2, PlainPlace DEF VerifyRead, Holding
    <2>2. CASE connection = None
        BY <1>1, <1>2, <2>2 DEF VerifyRead
    <2> QED
        BY <2>1, <2>2
<1>3. CASE PingAnswered(p) \/ PingRefused(p)
    BY <1>1, <1>3 DEF PingAnswered, PingRefused
<1>4. CASE PingLost(p)
    <2>1. pc[p] = "ping" /\ wire[local[p].held] # "up" /\ UNCHANGED outside
        BY <1>4 DEF PingLost, At
    <2>2. /\ OnlyMoves(p) /\ pc'[p] = "lose"
          /\ local'[p].held = local[p].held /\ local'[p].lost = local[p].held
        BY <1>0, <1>4 DEF PingLost, Goto, OnlyMoves, TypeOK, Locals
    <2> QED
        BY <1>0, <2>1, <2>2 DEF InPlace, Holding, outside
<1>5. CASE LoseRead(p)
    <2>1. CASE connection # None
        <3>1. Goto(p, "drop") /\ local' = [local EXCEPT ![p].held = connection]
            BY <1>5, <2>1 DEF LoseRead
        <3>2. /\ OnlyMoves(p) /\ pc'[p] = "drop"
              /\ local'[p].held = connection /\ local'[p].lost = local[p].lost
            BY <1>0, <3>1, HeldMoves
        <3>3. pc[p] = "lose" /\ UNCHANGED <<wire, dialed>>
            BY <1>5 DEF LoseRead, At, outside
        <3> QED
            BY <1>0, <2>1, <3>2, <3>3 DEF InPlace, Holding, WiresOpen
    <2>2. CASE connection = None
        BY <1>1, <1>5, <2>2 DEF LoseRead
    <2> QED
        BY <2>1, <2>2
<1>6. CASE LoseClose(p)
    <2>1. OnlyMoves(p) /\ pc'[p] = "clear" /\ local'[p] = local[p]
        BY <1>0, <1>6, GotoMoves DEF LoseClose
    <2>2. pc[p] = "drop" /\ UNCHANGED dialed
        BY <1>6 DEF LoseClose, At
    <2>3. local[p].held \in Sessions
        BY <1>0, <2>2, PlainTypes DEF InPlace, Holding
    <2>4. wire'[local[p].held] = "closed"
        BY <1>0, <1>6, <2>3 DEF LoseClose, CloseSession, TypeOK
    <2> QED
        BY <1>0, <2>1, <2>2, <2>3, <2>4 DEF InPlace, Holding
<1> QED
    BY <1>2, <1>3, <1>4, <1>5, <1>6 DEF Verify

LEMMA CallLands ==
    ASSUME Inv, NEW p \in Procs, Dispatch(p) \/ Beat(p) PROVE OnlyMoves(p) /\ InPlace(p)'
<1> USE DEF controller
<1>0. TypeOK /\ WiresOpen /\ InPlace(p)
    BY InPlaces
<1>1. CASE StatusCall(p)
    <2>1. /\ OnlyMoves(p) /\ pc'[p] = "verify"
          /\ local'[p].held = connection /\ local'[p].lost = None
        BY <1>0, <1>1, BeginMoves DEF StatusCall
    <2> QED
        BY <1>0, <1>1, <2>1, PlainPlace DEF StatusCall, Holding
<1>2. CASE StatusReply(p)
    <2>1. /\ OnlyMoves(p) /\ pc'[p] = "idle"
          /\ local'[p].held = None /\ local'[p].lost = None
        BY <1>0, <1>2, FinishMoves DEF StatusReply
    <2> QED
        BY <1>0, <1>2, <2>1, PlainPlace DEF StatusReply, Holding
<1>3. CASE UseCall(p)
    <2>1. /\ OnlyMoves(p) /\ pc'[p] = "roundtrip" /\ connection # None
          /\ local'[p].held = connection /\ local'[p].lost = None
        BY <1>0, <1>3, BeginMoves DEF UseCall
    <2> QED
        BY <1>0, <1>3, <2>1, PlainPlace DEF UseCall, Holding
<1>4. CASE UseReturns(p)
    <2>1. /\ OnlyMoves(p) /\ pc'[p] \in {"idle", "verify"}
          /\ local'[p].held \in {local[p].held, None} /\ local'[p].lost \in {local[p].lost, None}
        BY <1>0, <1>4, FinishMoves, GotoMoves DEF UseReturns
    <2> QED
        BY <1>0, <1>4, <2>1, PlainPlace DEF UseReturns, Holding
<1>5. CASE Beat(p)
    <2>1. /\ OnlyMoves(p) /\ pc'[p] = "ping" /\ connection # None
          /\ local'[p].held = connection /\ local'[p].lost = None
        BY <1>0, <1>5, BeginMoves DEF Beat
    <2> QED
        BY <1>0, <1>5, <2>1, PlainPlace DEF Beat, Holding
<1> QED
    BY <1>1, <1>2, <1>3, <1>4, <1>5 DEF Dispatch

\* The step of one goroutine leaves each of them in place.
LEMMA StepInPlace ==
    ASSUME Inv, TypeOK', NEW p \in Procs, Step(p)
    PROVE  OnlyMoves(p) /\ WiresOpen' /\ \A q \in Procs : InPlace(q)'
<1>1. OnlyMoves(p) /\ InPlace(p)'
    BY ConnectLands, DisconnectLands, VerifyLands, CallLands DEF Step
<1>2. Stable /\ WiresOpen'
    BY WiresStep
<1>3. dialed' \in Nat
    BY DEF TypeOK
<1>4. ASSUME NEW q \in Procs \ {p} PROVE InPlace(q)'
    <2>1. pc'[q] = pc[q] /\ local'[q] = local[q]
        BY <1>1 DEF OnlyMoves
    <2> QED
        BY <1>2, <1>3, <2>1, InPlaces, OthersInPlace
<1> QED
    BY <1>1, <1>2, <1>4

-----------------------------------------------------------------------------
(***************************************************************************)
(* The order of the exit.                                                  *)
(***************************************************************************)
Connecting == {"dial", "record", "install", "publish"}

\* What ExitOrder says of one goroutine.
Ordered(p) ==
    /\ pc[p] \in Connecting => p \in Agents
    /\ local[p].task = "exit" => p = Main
    /\ pc[p] = "done" => p = Main
    /\ p = Main => /\ pc[p] \in {"idle", "bye", "close", "clear", "retract", "done"}
                   /\ pc[p] \notin {"idle", "done"} => local[p].task = "exit"

LEMMA OrderedParts ==
    ExitOrder <=> /\ \A p \in Procs : Ordered(p)
                  /\ pc[Main] # "idle" => ~serving /\ \A a \in Agents : pc[a] = "idle"
                  /\ pc[Main] \in {"retract", "done"} => connection = None
BY DEF ExitOrder, Ordered, Connecting, Procs

\* The same of the next state.
LEMMA OrderedNext ==
    ASSUME \A p \in Procs : Ordered(p)',
           pc'[Main] # "idle" => ~serving' /\ \A a \in Agents : pc'[a] = "idle",
           pc'[Main] \in {"retract", "done"} => connection' = None
    PROVE  ExitOrder'
BY DEF ExitOrder, Ordered, Connecting, Procs

\* The main goroutine's own calls are those of Disconnect.
Leaves(p) == Bye(p) \/ CloseAfterBye(p) \/ Clear(p) \/ Retract(p)

LEMMA NotMain ==
    ASSUME Inv, NEW p \in Procs, Step(p), ~Leaves(p)
    PROVE  p # Main
<1>1. ExitOrder /\ p \in Procs
    BY InPlaces
<1>2. Main \notin Agents /\ Main \notin Heartbeats
    BY ProcessAssumption
<1>3. CASE Connect(p)
    BY <1>1, <1>2, <1>3 DEF ExitOrder, Connect, ConnectCheck, CanCall, DialSucceeds, DialFails,
       RecordFailure, Install, Publish, At
<1>4. CASE DisconnectCall(p)
    BY <1>2, <1>4 DEF DisconnectCall, CanCall
<1>5. CASE Verify(p)
    BY <1>1, <1>5 DEF ExitOrder, Verify, VerifyRead, PingAnswered, PingRefused, PingLost,
       LoseRead, LoseClose, At
<1>6. CASE Dispatch(p)
    BY <1>1, <1>2, <1>6 DEF ExitOrder, Dispatch, StatusCall, StatusReply, UseCall, UseReturns,
       CanCall, At
<1>7. CASE Beat(p)
    BY <1>2, <1>7 DEF Beat
<1> QED
    BY <1>3, <1>4, <1>5, <1>6, <1>7 DEF Step, Disconnect, Leaves

\* A goroutine whose task is not the exit returns to its caller or ends its call.
LEMMA ReturnOrdered ==
    ASSUME TypeOK, NEW p \in Procs, Ordered(p), p # Main,
           (\E live, proved : Return(p, live, proved)) \/ Finish(p)
    PROVE  Ordered(p)'
<1>1. local[p].task # "exit"
    BY DEF Ordered
<1>2. pc'[p] \in {"idle", "reply"} /\ local'[p].task # "exit"
    BY <1>1, ReturnMoves, FinishMoves
<1> QED
    BY <1>2 DEF Ordered, Connecting

\* It goes on with its task, connecting only if it is an agent's.
LEMMA GoneOn ==
    ASSUME NEW p \in Procs, Ordered(p), p # Main, pc'[p] # "done",
           pc'[p] \in Connecting => p \in Agents,
           local'[p].task \in {local[p].task, "none", "connect", "disconnect", "status", "use",
                                "beat"}
    PROVE  Ordered(p)'
BY DEF Ordered

LEMMA StepOrdered ==
    ASSUME Inv, NEW p \in Procs, Step(p)
    PROVE  Ordered(p)'
<1> USE DEF Connecting
<1>0. TypeOK /\ Ordered(p)
    BY InPlaces, OrderedParts
<1>1. CASE Connect(p)
    <2>0. p # Main
        BY <1>1, NotMain DEF Step, Leaves, Connect, Bye, CloseAfterBye, Clear, Retract, At,
           ConnectCheck, CanCall, DialSucceeds, DialFails, RecordFailure, Install, Publish
    <2>1. CASE ConnectCheck(p)
        <3>1. pc'[p] = "dial" /\ local'[p].task = "connect" /\ p \in Agents
            BY <1>0, <2>1, BeginMoves DEF ConnectCheck, CanCall
        <3> QED
            BY <1>0, <2>0, <3>1, GoneOn
    <2>2. CASE DialSucceeds(p)
        <3>1. pc[p] = "dial" /\ pc'[p] = "install" /\ local'[p].task = local[p].task
            BY <1>0, <2>2 DEF DialSucceeds, At, Goto, TypeOK, Locals
        <3> QED
            BY <1>0, <2>0, <3>1, GoneOn DEF Ordered
    <2>3. CASE DialFails(p)
        <3>1. pc[p] = "dial" /\ pc'[p] = "record" /\ local'[p].task = local[p].task
            BY <1>0, <2>3 DEF DialFails, At, Goto, TypeOK, Locals
        <3> QED
            BY <1>0, <2>0, <3>1, GoneOn DEF Ordered
    <2>4. CASE RecordFailure(p)
        <3>1. CASE Finish(p)
            BY <1>0, <2>0, <3>1, ReturnOrdered
        <3>2. CASE Goto(p, "verify") /\ UNCHANGED local
            BY <1>0, <2>0, <3>2, GotoMoves, GoneOn
        <3> QED
            BY <2>4, <3>1, <3>2 DEF RecordFailure
    <2>5. CASE Install(p)
        <3>1. pc[p] = "install" /\ pc'[p] = "publish" /\ local'[p] = local[p]
            BY <1>0, <2>5, GotoMoves DEF Install, At
        <3> QED
            BY <1>0, <2>0, <3>1, GoneOn DEF Ordered
    <2>6. CASE Publish(p)
        BY <1>0, <2>0, <2>6, ReturnOrdered DEF Publish
    <2> QED
        BY <1>1, <2>1, <2>2, <2>3, <2>4, <2>5, <2>6 DEF Connect
<1>2. CASE DisconnectCall(p)
    <2>1. /\ p \in Agents /\ p # Main
          /\ pc'[p] = "bye" /\ local'[p].task = "disconnect"
        BY <1>0, <1>2, BeginMoves, ProcessAssumption DEF DisconnectCall, CanCall
    <2> QED
        BY <1>0, <2>1, GoneOn
<1>3. CASE Bye(p)
    <2>1. pc[p] = "bye" /\ pc'[p] = "close" /\ local'[p] = local[p]
        BY <1>0, <1>3, GotoMoves DEF Bye, At
    <2> QED
        BY <1>0, <2>1 DEF Ordered
<1>4. CASE CloseAfterBye(p)
    <2>1. pc[p] = "close" /\ pc'[p] = "clear" /\ local'[p] = local[p]
        BY <1>0, <1>4, GotoMoves DEF CloseAfterBye, At
    <2> QED
        BY <1>0, <2>1 DEF Ordered
<1>5. CASE Clear(p)
    <2>1. /\ pc[p] = "clear" /\ pc'[p] \in {"retract", "idle", "reply", "done"}
          /\ local'[p].task \in {local[p].task, "none"}
          /\ pc'[p] = "done" => local[p].task = "exit"
          /\ local[p].task = "exit" => pc'[p] \in {"retract", "done"}
        BY <1>0, <1>5, ClearMoves DEF Clear, At
    <2>2. pc'[p] = "retract" => local'[p].task = local[p].task
        <3>1. CASE published # {}
            BY <1>0, <1>5, <3>1, NamesMoves DEF Clear
        <3>2. CASE published = {}
            BY <1>0, <1>5, <3>2, ReturnMoves DEF Clear
        <3> QED
            BY <3>1, <3>2
    <2> QED
        BY <1>0, <2>1, <2>2 DEF Ordered
<1>6. CASE Retract(p)
    <2>1. /\ pc[p] = "retract" /\ pc'[p] \in {"idle", "reply", "done"}
          /\ local'[p].task \in {local[p].task, "none"}
          /\ pc'[p] = "done" <=> local[p].task = "exit"
        BY <1>0, <1>6, ReturnMoves DEF Retract, At
    <2> QED
        BY <1>0, <2>1 DEF Ordered
<1>7. CASE Verify(p)
    <2>0. p # Main
        BY <1>7, NotMain DEF Step, Leaves, Bye, CloseAfterBye, Clear, Retract, At,
           Verify, VerifyRead, PingAnswered, PingRefused, PingLost, LoseRead, LoseClose
    <2>1. CASE \E live, proved : Return(p, live, proved)
        BY <1>0, <2>0, <2>1, ReturnOrdered
    <2>2. CASE VerifyRead(p) \/ LoseRead(p)
        <3>1. CASE connection # None
            <4>1. \E label \in {"ping", "drop"} :
                      Goto(p, label) /\ local' = [local EXCEPT ![p].held = connection]
                BY <2>2, <3>1 DEF VerifyRead, LoseRead
            <4>2. pc'[p] \in {"ping", "drop"} /\ local'[p].task = local[p].task
                BY <1>0, <4>1, HeldMoves
            <4> QED
                BY <1>0, <2>0, <4>2, GoneOn
        <3>2. CASE connection = None
            BY <2>1, <2>2, <3>2 DEF VerifyRead, LoseRead
        <3> QED
            BY <3>1, <3>2
    <2>3. CASE PingAnswered(p) \/ PingRefused(p)
        BY <2>1, <2>3 DEF PingAnswered, PingRefused
    <2>4. CASE PingLost(p)
        <3>1. pc'[p] = "lose" /\ local'[p].task = local[p].task
            BY <1>0, <2>4 DEF PingLost, Goto, TypeOK, Locals
        <3> QED
            BY <1>0, <2>0, <3>1, GoneOn
    <2>5. CASE LoseClose(p)
        BY <1>0, <2>0, <2>5, GotoMoves, GoneOn DEF LoseClose
    <2> QED
        BY <1>7, <2>2, <2>3, <2>4, <2>5 DEF Verify
<1>8. CASE Dispatch(p) \/ Beat(p)
    <2>0. p # Main
        BY <1>8, NotMain, ProcessAssumption
           DEF Step, Leaves, Bye, CloseAfterBye, Clear, Retract, At, Dispatch, StatusCall, StatusReply, UseCall, UseReturns, CanCall, Beat
    <2>1. CASE StatusCall(p)
        BY <1>0, <2>0, <2>1, BeginMoves, GoneOn DEF StatusCall
    <2>2. CASE StatusReply(p)
        BY <1>0, <2>0, <2>2, ReturnOrdered DEF StatusReply
    <2>3. CASE UseCall(p)
        BY <1>0, <2>0, <2>3, BeginMoves, GoneOn DEF UseCall
    <2>4. CASE UseReturns(p)
        <3>1. CASE Finish(p)
            BY <1>0, <2>0, <3>1, ReturnOrdered
        <3>2. CASE Goto(p, "verify") /\ UNCHANGED local
            BY <1>0, <2>0, <3>2, GotoMoves, GoneOn
        <3> QED
            BY <2>4, <3>1, <3>2 DEF UseReturns
    <2>5. CASE Beat(p)
        BY <1>0, <2>0, <2>5, BeginMoves, GoneOn DEF Beat
    <2> QED
        BY <1>8, <2>1, <2>2, <2>3, <2>4, <2>5 DEF Dispatch
<1> QED
    BY <1>1, <1>2, <1>3, <1>4, <1>5, <1>6, <1>7, <1>8 DEF Step, Disconnect

\* Only an install makes a connection, and only a clear drops one.
LEMMA ConnectionLeft ==
    ASSUME NEW p \in Procs, Step(p), ~(Install(p) \/ Clear(p))
    PROVE  UNCHANGED <<connection, published>>
BY DEF controller, Step, Connect, ConnectCheck, DialSucceeds, DialFails, RecordFailure,
       Publish, Disconnect, DisconnectCall, Bye, CloseAfterBye, Retract,
       Verify, VerifyRead, PingAnswered, PingRefused, PingLost, LoseRead, LoseClose,
       Dispatch, StatusCall, StatusReply, UseCall, UseReturns, Beat

\* No call starts, or goes on, for an agent that is idle once stdin is closed.
LEMMA ServingLeft ==
    ASSUME NEW p \in Procs, Step(p)
    PROVE  /\ UNCHANGED serving
           /\ pc[Main] # "done"
           /\ p \in Agents /\ pc[p] = "idle" => serving
<1>1. CASE Connect(p) \/ Disconnect(p)
    BY <1>1, ProcessAssumption
       DEF Running, At, CanCall, Connect, ConnectCheck, DialSucceeds, DialFails, RecordFailure,
       Install, Publish, Disconnect, DisconnectCall, Bye, CloseAfterBye, Clear, Retract
<1>2. CASE Verify(p)
    BY <1>2 DEF Running, At, Verify, VerifyRead, PingAnswered, PingRefused, PingLost,
       LoseRead, LoseClose
<1>3. CASE Dispatch(p) \/ Beat(p)
    BY <1>3, ProcessAssumption
       DEF Running, At, CanCall, Dispatch, StatusCall, StatusReply, UseCall, UseReturns, Beat
<1> QED
    BY <1>1, <1>2, <1>3 DEF Step

LEMMA ExitOrderStep ==
    ASSUME Inv, NEW p \in Procs, Step(p), OnlyMoves(p)
    PROVE  ExitOrder'
<1>0. TypeOK /\ ExitOrder /\ Main \in Procs /\ Agents \subseteq Procs
    BY InPlaces DEF Procs
<1>1. ASSUME NEW q \in Procs PROVE Ordered(q)'
    <2>1. CASE q = p
        BY <2>1, StepOrdered
    <2>2. CASE q # p
        <3>1. pc'[q] = pc[q] /\ local'[q] = local[q] /\ Ordered(q)
            BY <1>0, <2>2, OrderedParts DEF OnlyMoves
        <3> QED
            BY <3>1 DEF Ordered
    <2> QED
        BY <2>1, <2>2
<1>2. UNCHANGED serving /\ pc[Main] # "done" /\ (p \in Agents /\ pc[p] = "idle" => serving)
    BY ServingLeft
<1>3. CASE p = Main
    <2>1. Leaves(p)
        BY <1>3, NotMain
    <2>2. pc[Main] \in {"bye", "close", "clear", "retract"}
        BY <1>3, <2>1 DEF Leaves, Bye, CloseAfterBye, Clear, Retract, At
    <2>3. ~serving' /\ \A a \in Agents : pc'[a] = "idle"
        BY <1>0, <1>2, <1>3, <2>2, ProcessAssumption DEF ExitOrder, OnlyMoves
    <2>4. pc'[Main] \in {"retract", "done"} => connection' = None
        <3>1. CASE Bye(p) \/ CloseAfterBye(p)
            BY <1>0, <1>3, <3>1, GotoMoves DEF Bye, CloseAfterBye
        <3>2. CASE Clear(p)
            BY <3>2 DEF Clear, Drop
        <3>3. CASE Retract(p)
            BY <1>0, <1>3, <3>3 DEF Retract, controller, At, ExitOrder
        <3> QED
            BY <2>1, <3>1, <3>2, <3>3 DEF Leaves
    <2> QED
        BY <1>1, <2>3, <2>4, OrderedNext
<1>4. CASE p # Main
    <2>1. pc'[Main] = pc[Main]
        BY <1>0, <1>4 DEF OnlyMoves
    <2>2. pc[Main] # "idle" => p \notin Agents
        BY <1>0, <1>2 DEF ExitOrder
    <2>3. pc'[Main] # "idle" => ~serving' /\ \A a \in Agents : pc'[a] = "idle"
        BY <1>0, <1>2, <2>1, <2>2 DEF ExitOrder, OnlyMoves
    <2>4. pc'[Main] \in {"retract", "done"} => connection' = None
        <3>1. ASSUME pc[Main] # "idle" PROVE ~Install(p)
            BY <1>0, <2>2, <3>1 DEF Install, At, ExitOrder
        <3>2. CASE Clear(p)
            BY <3>2 DEF Clear, Drop
        <3>3. CASE ~Clear(p)
            BY <1>0, <2>1, <3>1, <3>3, ConnectionLeft DEF ExitOrder
        <3> QED
            BY <3>2, <3>3
    <2> QED
        BY <1>1, <2>3, <2>4, OrderedNext
<1> QED
    BY <1>3, <1>4

-----------------------------------------------------------------------------
(***************************************************************************)
(* What is so while nothing has crossed.                                   *)
(***************************************************************************)

\* The steps that leave the connection and the tools on offer as they are.
Passes(p) == ~(Install(p) \/ Publish(p) \/ Clear(p) \/ Retract(p))

LEMMA PassesBy ==
    ASSUME NEW p \in Procs, Step(p), Passes(p)
    PROVE  /\ UNCHANGED <<connection, published, advertised>>
           /\ pc[p] \notin {"install", "publish", "clear", "retract"}
<1>1. CASE Connect(p)
    BY <1>1 DEF Passes, controller, At, CanCall, Connect, ConnectCheck, DialSucceeds, DialFails,
       RecordFailure
<1>2. CASE Disconnect(p)
    BY <1>2 DEF Passes, controller, At, Disconnect, DisconnectCall, CanCall, Bye, CloseAfterBye
<1>3. CASE Verify(p)
    BY <1>3 DEF controller, At, Verify, VerifyRead, PingAnswered, PingRefused, PingLost, LoseRead,
       LoseClose
<1>4. CASE Dispatch(p) \/ Beat(p)
    BY <1>4 DEF controller, At, CanCall, Dispatch, StatusCall, StatusReply, UseCall, UseReturns,
       Beat
<1> QED
    BY <1>1, <1>2, <1>3, <1>4 DEF Step

\* Nothing undoes a crossing.
LEMMA CrossedStays ==
    ASSUME NEW p \in Procs, Step(p)
    PROVE  crossed \subseteq crossed'
<1>1. CASE RecordFailure(p) \/ Install(p) \/ Publish(p) \/ Clear(p) \/ Retract(p)
    BY <1>1 DEF RecordFailure, Install, Publish, Clear, Retract, Cross
<1>2. CASE ~(RecordFailure(p) \/ Install(p) \/ Publish(p) \/ Clear(p) \/ Retract(p))
    BY <1>2 DEF Step, Connect, ConnectCheck, DialSucceeds, DialFails, Disconnect,
       DisconnectCall, Bye, CloseAfterBye, Verify, VerifyRead, PingAnswered, PingRefused,
       PingLost, LoseRead, LoseClose, Dispatch, StatusCall, StatusReply, UseCall, UseReturns, Beat
<1> QED
    BY <1>1, <1>2

LEMMA PublishedStep ==
    ASSUME Inv, NEW p \in Procs, Step(p)
    PROVE  PublishedIsAllowed'
<1>0. TypeOK /\ WiresOpen /\ InPlace(p) /\ PublishedIsAllowed
    BY InPlaces
<1>1. CASE Install(p)
    BY <1>0, <1>1 DEF Install, At, InPlace, Holding, outside, PublishedIsAllowed, Allowed
<1>2. CASE Clear(p)
    BY <1>2 DEF Clear, Drop, PublishedIsAllowed
<1>3. CASE ~(Install(p) \/ Clear(p))
    <2>1. UNCHANGED <<connection, published>>
        BY <1>3, ConnectionLeft
    <2>2. connection # None => connection \in 1 .. dialed
        BY <1>0, PlainTypes DEF WiresOpen, None
    <2>3. connection # None => announced'[connection] = announced[connection]
        BY <2>2, WiresStep DEF Stable
    <2> QED
        BY <1>0, <2>1, <2>3 DEF PublishedIsAllowed, Allowed
<1> QED
    BY <1>1, <1>2, <1>3

LEMMA StatusStep ==
    ASSUME Inv, NEW p \in Procs, Step(p)
    PROVE  StatusMatchesUnlessLate'
<1>0. TypeOK /\ InPlace(p) /\ StatusMatchesUnlessLate
    BY InPlaces
<1>1. CASE ConnectCheck(p)
    BY <1>1 DEF ConnectCheck, StatusMatchesUnlessLate, StatusMatches
<1>2. CASE RecordFailure(p)
    <2>1. status' # "connected" /\ UNCHANGED connection
        BY <1>0, <1>2, LocalsType DEF RecordFailure, Locals, Failures
    <2>2. connection # None => "late failure" \in crossed'
        BY <1>2 DEF RecordFailure, Cross
    <2> QED
        BY <2>1, <2>2 DEF StatusMatchesUnlessLate, StatusMatches
<1>3. CASE Install(p)
    BY <1>0, <1>3 DEF Install, At, InPlace, Holding, StatusMatchesUnlessLate, StatusMatches
<1>4. CASE Clear(p)
    <2>1. status' = "disconnected" /\ connection' = None
        BY <1>4 DEF Clear, Drop
    <2> QED
        BY <2>1 DEF StatusMatchesUnlessLate, StatusMatches
<1>5. CASE ~(ConnectCheck(p) \/ RecordFailure(p) \/ Install(p) \/ Clear(p))
    <2>1. UNCHANGED <<status, connection>>
        BY <1>5 DEF controller, Step, Connect, DialSucceeds, DialFails,
           Publish, Disconnect, DisconnectCall, Bye, CloseAfterBye, Retract,
           Verify, VerifyRead, PingAnswered, PingRefused, PingLost, LoseRead, LoseClose,
           Dispatch, StatusCall, StatusReply, UseCall, UseReturns, Beat
    <2> QED
        BY <1>0, <2>1, CrossedStays DEF StatusMatchesUnlessLate, StatusMatches
<1> QED
    BY <1>1, <1>2, <1>3, <1>4, <1>5

\* An open session is the connection, or a goroutine is about to make it so.
Open(s) == wire[s] \in {"up", "dead", "ended"}
Kept(s) == s = connection \/ \E q \in Procs : pc[q] = "install" /\ local[q].held = s

LEMMA AbandonedStep ==
    ASSUME Inv, NEW p \in Procs, Step(p), OnlyMoves(p)
    PROVE  NoneAbandonedUnlessCrossed'
<1>0. TypeOK /\ WiresOpen /\ InPlace(p) /\ NoneAbandonedUnlessCrossed
    BY InPlaces
<1>1. SUFFICES ASSUME SessionsUncrossed', NEW s \in Sessions, Open(s)'
               PROVE  Kept(s)'
    BY DEF NoneAbandonedUnlessCrossed, NoneAbandoned, Open, Kept
<1>2. SessionsUncrossed
    BY <1>1, CrossedStays DEF SessionsUncrossed
<1>3. Open(s) => Kept(s)
    BY <1>0, <1>2 DEF NoneAbandonedUnlessCrossed, NoneAbandoned, Open, Kept
<1>4. ASSUME NEW q \in Procs \ {p}, pc[q] = "install", local[q].held = s PROVE Kept(s)'
    BY <1>4 DEF OnlyMoves, Kept
<1>5. CASE DialSucceeds(p)
    <2>1. s # dialed + 1 => wire'[s] = wire[s]
        BY <1>0, <1>5 DEF DialSucceeds, TypeOK
    <2>2. /\ pc[p] = "dial" /\ pc'[p] = "install" /\ local'[p].held = dialed + 1
          /\ UNCHANGED connection
        BY <1>0, <1>5 DEF DialSucceeds, At, Goto, TypeOK, Locals, controller
    <2> QED
        BY <1>1, <1>3, <1>4, <2>1, <2>2 DEF Open, Kept
<1>6. CASE Install(p)
    <2>1. UNCHANGED wire /\ connection' = local[p].held
        BY <1>6 DEF Install, outside
    <2>2. connection = None
        BY <1>1, <1>6 DEF Install, Cross, SessionsUncrossed
    <2>3. s # None
        BY <1>0, PlainTypes
    <2> QED
        BY <1>1, <1>3, <1>4, <2>1, <2>2, <2>3 DEF Open, Kept
<1>7. CASE Clear(p)
    <2>1. UNCHANGED wire /\ pc[p] = "clear"
        BY <1>7 DEF Clear, At, outside
    <2>2. connection \in {None, local[p].held}
        BY <1>1, <1>7 DEF Clear, Cross, SessionsUncrossed
    <2>3. s # None
        BY <1>0, PlainTypes
    <2>4. s # connection
        BY <1>0, <1>1, <2>1, <2>2, <2>3 DEF Open, InPlace
    <2> QED
        BY <1>1, <1>3, <1>4, <2>1, <2>4 DEF Open, Kept
<1>8. CASE ~(DialSucceeds(p) \/ Install(p) \/ Clear(p))
    <2>1. UNCHANGED connection
        BY <1>8, ConnectionLeft
    <2>2. pc[p] # "install"
        <3>1. CASE Passes(p)
            BY <3>1, PassesBy
        <3>2. CASE Publish(p) \/ Retract(p)
            BY <3>2 DEF Publish, Retract, At
        <3> QED
            BY <1>8, <3>1, <3>2 DEF Passes
    <2>3. Open(s)
        <3>1. CASE Bye(p) \/ CloseAfterBye(p) \/ LoseClose(p)
            <4>1. PICK w \in {"ended", "closed"} : \/ wire' = [wire EXCEPT ![local[p].held] = w]
                                                   \/ UNCHANGED wire
                BY <3>1 DEF Bye, CloseAfterBye, LoseClose, CloseSession
            <4>2. wire' = [wire EXCEPT ![local[p].held] = "closed"]
                  \/ wire[local[p].held] = "up" \/ UNCHANGED wire
                BY <3>1 DEF Bye, CloseAfterBye, LoseClose, CloseSession
            <4> QED
                BY <1>0, <1>1, <4>1, <4>2 DEF Open, TypeOK
        <3>2. CASE ~(Bye(p) \/ CloseAfterBye(p) \/ LoseClose(p))
            BY <1>1, <1>8, <3>2, WiresLeft DEF Open, outside
        <3> QED
            BY <3>1, <3>2
    <2> QED
        BY <1>3, <1>4, <2>1, <2>2, <2>3 DEF Kept
<1> QED
    BY <1>5, <1>6, <1>7, <1>8

\* A tool on offer is published, or a goroutine is about to retract it.
Leaving(t) == \E q \in Procs : pc[q] = "retract" /\ t \in local[q].names

LEMMA ToolsStep ==
    ASSUME Inv, NEW p \in Procs, Step(p), OnlyMoves(p)
    PROVE  ToolsAccounted'
<1>0. TypeOK /\ InPlace(p) /\ ToolsAccounted /\ PublishedIsAllowed
    BY InPlaces
<1>1. SUFFICES ASSUME ToolsUncrossed'
               PROVE  /\ (\A t \in advertised \ published : Leaving(t))'
                      /\ Offered' => published' \subseteq advertised'
    BY DEF ToolsAccounted, Leaving
<1>2. ToolsUncrossed
    BY <1>1, CrossedStays DEF ToolsUncrossed
<1>3. /\ \A t \in advertised \ published : Leaving(t)
      /\ Offered => published \subseteq advertised
    BY <1>0, <1>2 DEF ToolsAccounted, Leaving
<1>4. ASSUME NEW t, Leaving(t), ~(pc[p] = "retract" /\ t \in local[p].names) PROVE Leaving(t)'
    BY <1>4 DEF Leaving, OnlyMoves
<1>5. CASE Install(p)
    <2>1. /\ pc[p] = "install" /\ pc'[p] = "publish" /\ local'[p] = local[p]
          /\ connection' = local[p].held /\ UNCHANGED advertised
        BY <1>0, <1>5, GotoMoves DEF Install, At
    <2>2. connection = None
        BY <1>1, <1>5 DEF Install, Cross, ToolsUncrossed
    <2>3. published = {}
        BY <1>0, <2>2 DEF PublishedIsAllowed
    <2>4. \A t \in advertised' : Leaving(t)'
        BY <1>3, <1>4, <2>1, <2>3
    <2>5. ~Offered'
        BY <2>1 DEF Offered
    <2> QED
        BY <2>4, <2>5
<1>6. CASE Publish(p)
    <2>1. pc[p] = "publish" /\ advertised' = advertised \cup local[p].names
          /\ UNCHANGED published
        BY <1>6 DEF Publish, At, controller
    <2>2. connection = local[p].held
        BY <1>1, <1>6 DEF Publish, Cross, ToolsUncrossed
    <2>3. published = local[p].names
        BY <1>0, <2>1, <2>2 DEF PublishedIsAllowed, InPlace, Holding
    <2> QED
        BY <1>3, <1>4, <2>1, <2>3
<1>7. CASE Clear(p)
    <2>1. /\ pc[p] = "clear" /\ connection' = None /\ published' = {} /\ UNCHANGED advertised
        BY <1>7 DEF Clear, Drop, At
    <2>2. published # {} => pc'[p] = "retract" /\ local'[p].names = published
        BY <1>0, <1>7, ClearMoves
    <2>3. \A t \in published : Leaving(t)'
        BY <2>2 DEF Leaving
    <2>4. \A t \in advertised \ published : Leaving(t)'
        BY <1>3, <1>4, <2>1
    <2>5. ~Offered'
        BY <2>1 DEF Offered
    <2> QED
        BY <2>1, <2>3, <2>4, <2>5
<1>8. CASE Retract(p)
    <2>1. /\ pc[p] = "retract" /\ advertised' = advertised \ local[p].names
          /\ UNCHANGED <<connection, published>>
        BY <1>8 DEF Retract, At, controller
    <2>2. pc'[p] # "publish"
        BY <1>0, <1>8, ReturnMoves DEF Retract
    <2>3. ~Offered
        BY <1>1, <1>8 DEF Retract, Cross, ToolsUncrossed
    <2>4. ~Offered'
        BY <2>1, <2>2, <2>3 DEF Offered, OnlyMoves
    <2>5. \A t \in advertised' \ published' : Leaving(t)'
        BY <1>3, <1>4, <2>1
    <2> QED
        BY <2>4, <2>5
<1>9. CASE Passes(p)
    <2>1. /\ UNCHANGED <<connection, published, advertised>>
          /\ pc[p] \notin {"install", "publish", "clear", "retract"}
        BY <1>9, PassesBy
    <2>2. Offered' => Offered
        BY <2>1 DEF Offered, OnlyMoves
    <2> QED
        BY <1>3, <1>4, <2>1, <2>2
<1> QED
    BY <1>5, <1>6, <1>7, <1>8, <1>9 DEF Passes

-----------------------------------------------------------------------------
(***************************************************************************)
(* The invariant.                                                          *)
(***************************************************************************)
LEMMA InvInit == Init => Inv
<1> SUFFICES ASSUME Init PROVE Inv
    OBVIOUS
<1>1. TypeOK
    <2>1. Fresh \in Locals
        BY DEF Fresh, Locals, SessionOrNone, None, Failures
    <2>2. serving \in BOOLEAN
        BY Zenon DEF Init
    <2> QED
        BY <2>1, <2>2, SessionAssumption DEF Init, TypeOK, States, SessionOrNone, Labels
<1>2. WiresOpen
    BY DEF Init, WiresOpen, None, Sessions
<1>3. ASSUME NEW p \in Procs PROVE InPlace(p) /\ Ordered(p)
    BY DEF Init, InPlace, Ordered, Connecting, Holding, Fresh, None
<1>4. ExitOrder
    BY <1>3, OrderedParts DEF Init, Procs
<1>5. ToolsAccounted /\ PublishedIsAllowed /\ StatusMatchesUnlessLate
    BY DEF Init, ToolsAccounted, PublishedIsAllowed, StatusMatchesUnlessLate, StatusMatches
<1>6. NoneAbandonedUnlessCrossed
    BY DEF Init, NoneAbandonedUnlessCrossed, NoneAbandoned
<1> QED
    BY <1>1, <1>2, <1>3, <1>4, <1>5, <1>6, InPlaces

\* The exit begins, when no call is in progress.
LEMMA ExitStep == ASSUME Inv, TypeOK', Exit PROVE Inv'
<1>0. TypeOK /\ WiresOpen /\ Main \in Procs /\ Agents \subseteq Procs /\ ExitOrder
    BY InPlaces DEF Procs
<1> DEFINE label == IF connection # None THEN "bye" ELSE "done"
<1>1. /\ OnlyMoves(Main) /\ pc'[Main] = label
      /\ local'[Main].held = connection /\ local'[Main].lost = None
      /\ local'[Main].task = "exit"
    BY <1>0, BeginMoves DEF Exit
<1>2. /\ UNCHANGED <<status, connection, published, advertised, wire, announced, dialed,
                     serving, crossed>>
      /\ ~serving /\ pc[Main] = "idle" /\ \A a \in Agents : pc[a] = "idle"
    BY DEF Exit, At, controller, outside
<1>3. WiresOpen'
    BY <1>0, <1>2 DEF WiresOpen
<1>4. ASSUME NEW p \in Procs PROVE InPlace(p)' /\ Ordered(p)'
    <2>1. CASE p = Main
        <3>1. InPlace(p)'
            BY <1>0, <1>1, <1>2, <2>1, PlainTypes DEF InPlace, Holding, WiresOpen, None
        <3> QED
            BY <1>1, <2>1, <3>1 DEF Ordered, Connecting
    <2>2. CASE p # Main
        <3>1. pc'[p] = pc[p] /\ local'[p] = local[p]
            BY <1>1, <2>2 DEF OnlyMoves
        <3>2. InPlace(p) /\ Ordered(p)
            BY <1>0, InPlaces, OrderedParts
        <3> QED
            BY <1>2, <3>1, <3>2 DEF InPlace, Ordered, Allowed
    <2> QED
        BY <2>1, <2>2
<1>5. ExitOrder'
    <2>1. \A a \in Agents : pc'[a] = "idle"
        BY <1>0, <1>1, <1>2, ProcessAssumption DEF OnlyMoves
    <2>2. pc'[Main] \in {"retract", "done"} => connection' = None
        BY <1>1, <1>2
    <2> QED
        BY <1>2, <1>4, <2>1, <2>2, OrderedNext
<1>6. ToolsAccounted'
    <2>1. Offered' => Offered
        BY <1>1, <1>2 DEF Offered, OnlyMoves
    <2>2. ASSUME NEW t, Leaving(t) PROVE Leaving(t)'
        BY <1>1, <1>2, <2>2 DEF Leaving, OnlyMoves
    <2>3. ToolsAccounted
        BY InPlaces
    <2> QED
        BY <1>2, <2>1, <2>2, <2>3 DEF ToolsAccounted, ToolsUncrossed, Leaving
<1>7. PublishedIsAllowed' /\ StatusMatchesUnlessLate'
    BY <1>2, InPlaces DEF PublishedIsAllowed, StatusMatchesUnlessLate, StatusMatches, Allowed
<1>8. NoneAbandonedUnlessCrossed'
    <2>1. NoneAbandonedUnlessCrossed
        BY InPlaces
    <2>2. ASSUME NEW s, Kept(s) PROVE Kept(s)'
        BY <1>1, <1>2, <2>2 DEF Kept, OnlyMoves
    <2> QED
        BY <1>2, <2>1, <2>2 DEF NoneAbandonedUnlessCrossed, NoneAbandoned, SessionsUncrossed, Kept
<1> QED
    BY <1>3, <1>4, <1>5, <1>6, <1>7, <1>8, InPlacesNext DEF Inv

\* A session ends by itself.
LEMMA GoneStep == ASSUME Inv, TypeOK', NEW s \in Sessions, PeerGone(s) PROVE Inv'
<1>0. TypeOK /\ WiresOpen
    BY InPlaces
<1>1. /\ UNCHANGED <<status, connection, published, advertised, announced, dialed,
                     serving, crossed, pc, local>>
      /\ wire[s] = "up" /\ wire' = [wire EXCEPT ![s] = "dead"]
    BY DEF PeerGone, controller
<1>2. dialed \in Nat /\ dialed' \in Nat /\ s \in 1 .. dialed
    <2>1. dialed \in Nat /\ s \in Nat /\ s >= 1 /\ ~(s > dialed)
        BY <1>0, <1>1, SessionAssumption DEF WiresOpen, TypeOK, Sessions
    <2> QED
        BY <1>1, <2>1
<1>3. Stable /\ WiresOpen'
    BY <1>0, <1>1, <1>2, WireStep
<1>4. ASSUME NEW p \in Procs PROVE InPlace(p)'
    BY <1>0, <1>1, <1>2, <1>3, InPlaces, OthersInPlace
<1>5. ExitOrder' /\ ToolsAccounted' /\ PublishedIsAllowed' /\ StatusMatchesUnlessLate'
    BY <1>1, InPlaces DEF ExitOrder, ToolsAccounted, ToolsUncrossed, Offered,
       PublishedIsAllowed, StatusMatchesUnlessLate, StatusMatches, Allowed
<1>6. NoneAbandonedUnlessCrossed'
    <2>1. NoneAbandonedUnlessCrossed
        BY InPlaces
    <2>2. \A r \in Sessions : Open(r)' => Open(r)
        BY <1>0, <1>1 DEF Open, TypeOK
    <2>3. \A r : Kept(r) => Kept(r)'
        BY <1>1 DEF Kept
    <2> QED
        BY <1>1, <2>1, <2>2, <2>3
           DEF NoneAbandonedUnlessCrossed, NoneAbandoned, SessionsUncrossed, Open, Kept
<1> QED
    BY <1>3, <1>4, <1>5, <1>6, InPlacesNext DEF Inv

\* The host closes stdin, or nothing happens.
LEMMA StillStep ==
    ASSUME Inv, TypeOK', HostCloses \/ Exited \/ UNCHANGED vars PROVE Inv'
<1>1. /\ UNCHANGED <<status, connection, published, advertised, wire, announced, dialed,
                     crossed, pc, local>>
      /\ serving' = serving \/ ~serving'
    BY DEF HostCloses, Exited, vars, controller, outside
<1>2. DialedOnly' /\ HeldAllowed' /\ LossesAreLost'
    BY <1>1 DEF Inv, DialedOnly, HeldAllowed, LossesAreLost, Allowed
<1>3. ExitOrder'
    BY <1>1 DEF Inv, ExitOrder
<1>4. ToolsAccounted' /\ PublishedIsAllowed' /\ StatusMatchesUnlessLate'
    BY <1>1 DEF Inv, ToolsAccounted, ToolsUncrossed, Offered,
       PublishedIsAllowed, StatusMatchesUnlessLate, StatusMatches, Allowed
<1>5. NoneAbandonedUnlessCrossed'
    BY <1>1 DEF Inv, NoneAbandonedUnlessCrossed, NoneAbandoned, SessionsUncrossed
<1> QED
    BY <1>2, <1>3, <1>4, <1>5 DEF Inv

LEMMA InvStep == Inv /\ [Next]_vars => Inv'
<1> SUFFICES ASSUME Inv, [Next]_vars PROVE Inv'
    OBVIOUS
<1>0. TypeOK'
    BY TypeStep DEF Inv
<1>1. ASSUME NEW p \in Procs, Step(p) PROVE Inv'
    <2>1. OnlyMoves(p) /\ WiresOpen' /\ \A q \in Procs : InPlace(q)'
        BY <1>0, <1>1, StepInPlace
    <2>2. ExitOrder' /\ ToolsAccounted' /\ NoneAbandonedUnlessCrossed'
        BY <1>1, <2>1, ExitOrderStep, ToolsStep, AbandonedStep
    <2>3. PublishedIsAllowed' /\ StatusMatchesUnlessLate'
        BY <1>1, PublishedStep, StatusStep
    <2> QED
        BY <1>0, <2>1, <2>2, <2>3, InPlacesNext DEF Inv
<1> QED
    BY <1>0, <1>1, ExitStep, GoneStep, StillStep DEF Next, Step

\* However many tool calls, heartbeats and exits interleave, the types hold and
\* Connection's Inv with them.
THEOREM Invariance == Spec => []Inv
BY InvInit, InvStep, PTL DEF Spec

\* However they interleave, the names a later clear would retract are the ones
\* the gate allowed for the session that is live.
THEOREM PublishedIsAllowedHolds == Spec => []PublishedIsAllowed
<1>1. Inv => PublishedIsAllowed
    BY DEF Inv
<1> QED
    BY <1>1, Invariance, PTL

\* However they interleave, the recorded state is wrong about there being a
\* session only after a dial has failed beside one that succeeded.
THEOREM StatusMatchesUnlessLateHolds == Spec => []StatusMatchesUnlessLate
<1>1. Inv => StatusMatchesUnlessLate
    BY DEF Inv
<1> QED
    BY <1>1, Invariance, PTL

\* However they interleave, the tools on offer between calls are those of the
\* live session, unless a session was replaced or a publication or a retraction
\* came too late.
THEOREM ToolsMatchUnlessCrossedHolds == Spec => []ToolsMatchUnlessCrossed
<1>1. Inv => ToolsMatchUnlessCrossed
    <2> SUFFICES ASSUME Inv, ToolsUncrossed, Quiescent PROVE advertised = published
        BY DEF ToolsMatchUnlessCrossed, ToolsMatch
    <2>1. \A t \in advertised \ published :
              \E p \in Procs : pc[p] = "retract" /\ t \in local[p].names
        BY DEF Inv, ToolsAccounted
    <2>2. advertised \subseteq published
        BY <2>1 DEF Quiescent
    <2>3. CASE connection = None
        BY <2>2, <2>3 DEF Inv, PublishedIsAllowed
    <2>4. CASE connection # None
        <3>1. Offered
            BY <2>4 DEF Offered, Quiescent
        <3> QED
            BY <2>2, <3>1 DEF Inv, ToolsAccounted
    <2> QED
        BY <2>3, <2>4
<1> QED
    BY <1>1, Invariance, PTL

\* However they interleave, every open session is the connection or about to be,
\* unless a connect installed one over another or a clear dropped one it did not
\* close.
THEOREM NoneAbandonedUnlessCrossedHolds == Spec => []NoneAbandonedUnlessCrossed
<1>1. Inv => NoneAbandonedUnlessCrossed
    BY DEF Inv
<1> QED
    BY <1>1, Invariance, PTL

\* However many calls came before, and whatever the heartbeat does beside the
\* exit, no session outlives the process but an abandoned one.
THEOREM ExitEndsSessionUnlessCrossedHolds == Spec => []ExitEndsSessionUnlessCrossed
<1>1. Inv => ExitEndsSessionUnlessCrossed
    <2> SUFFICES ASSUME Inv, SessionsUncrossed, pc[Main] = "done",
                        NEW s \in Sessions, wire[s] = "up"
                 PROVE  FALSE
        BY DEF ExitEndsSessionUnlessCrossed, ExitEndsSession
    <2>1. s = connection \/ \E p \in Procs : pc[p] = "install" /\ local[p].held = s
        BY DEF Inv, NoneAbandonedUnlessCrossed, NoneAbandoned
    <2>2. connection = None /\ \A p \in Procs : pc[p] # "install"
        BY DEF Inv, ExitOrder
    <2>3. s # None
        BY DEF Sessions, None
    <2> QED
        BY <2>1, <2>2, <2>3
<1> QED
    BY <1>1, Invariance, PTL

\* However they interleave, a session that is up is closed only by a disconnect
\* that was asked for it, or by a teardown begun for another session that is
\* lost: never because of an answer, or a silence, of its own.
THEOREM HealthyKeptHolds == Spec => HealthyKept
<1> DEFINE Cause(s) ==
        \E p \in Procs :
            /\ local[p].held = s
            /\ \/ pc[p] = "close"
               \/ /\ pc[p] = "drop"
                  /\ local[p].lost \in Sessions \ {s}
                  /\ wire[local[p].lost] # "up"
<1>1. Inv /\ [Next]_vars =>
          [\A s \in Sessions : wire[s] = "up" /\ wire'[s] = "closed" => Cause(s)]_wire
    <2> SUFFICES ASSUME Inv, [Next]_vars, NEW s \in Sessions, wire[s] = "up", wire'[s] = "closed"
                 PROVE  Cause(s)
        OBVIOUS
    <2>0. TypeOK
        BY DEF Inv
    <2>1. ASSUME NEW p \in Procs, Step(p) PROVE Cause(s)
        <3>1. CASE DialSucceeds(p)
            BY <2>0, <3>1 DEF DialSucceeds, TypeOK
        <3>2. CASE Bye(p)
            BY <2>0, <3>2 DEF Bye, TypeOK
        <3>3. CASE CloseAfterBye(p)
            <4>1. pc[p] = "close" /\ local[p].held = s
                BY <2>0, <3>3 DEF CloseAfterBye, CloseSession, At, TypeOK
            <4> QED
                BY <4>1
        <3>4. CASE LoseClose(p)
            <4>1. pc[p] = "drop" /\ local[p].held = s
                BY <2>0, <3>4 DEF LoseClose, CloseSession, At, TypeOK
            <4>2. local[p].lost # None /\ wire[local[p].lost] # "up"
                BY <4>1 DEF Inv, LossesAreLost
            <4>3. local[p].lost \in Sessions
                BY <2>0, <4>2, PlainTypes
            <4> QED
                BY <4>1, <4>2, <4>3
        <3>5. CASE ~(DialSucceeds(p) \/ Bye(p) \/ CloseAfterBye(p) \/ LoseClose(p))
            BY <2>1, <3>5, WiresLeft DEF outside
        <3> QED
            BY <3>1, <3>2, <3>3, <3>4, <3>5
    <2>2. ASSUME NEW r \in Sessions, PeerGone(r) PROVE FALSE
        BY <2>0, <2>2 DEF PeerGone, TypeOK
    <2>3. ~(Exit \/ HostCloses \/ Exited \/ UNCHANGED vars)
        BY DEF Exit, HostCloses, Exited, vars, outside
    <2> QED
        BY <2>1, <2>2, <2>3 DEF Next, Step
<1> QED
    BY <1>1, Invariance, PTL DEF Spec, HealthyKept

-----------------------------------------------------------------------------
(***************************************************************************)
(* What a status call can say of the session it was called beside.         *)
(***************************************************************************)
StatusPlaces == {"verify", "ping", "lose", "drop", "clear", "retract", "reply"}

Shut(s) == s # None /\ wire[s] = "closed"

\* Until it has verified, that session is the connection, or has been closed
\* since; it answers live: true only as its last step.
LiveHeld(p) ==
    /\ local[p].task = "status" => pc[p] \in StatusPlaces
    /\ local[p].live = "yes" => local[p].task = "status" /\ pc[p] = "reply"
    /\ local[p].task = "status" /\ pc[p] = "verify" =>
          local[p].held # None /\ (connection = local[p].held \/ Shut(local[p].held))
    /\ local[p].live = "yes" /\ local[p].proved = None => Shut(local[p].held)

LiveInv == SessionsUncrossed => \A p \in Procs : LiveHeld(p)

\* A connection is let go only once its session is closed.
LEMMA LetGo ==
    ASSUME Inv, NEW p \in Procs, Step(p), SessionsUncrossed',
           connection # None, connection' # connection
    PROVE  wire[connection] = "closed"
<1>1. Install(p) \/ Clear(p)
    BY ConnectionLeft
<1>2. ~Install(p)
    BY DEF Install, Cross, SessionsUncrossed
<1>3. pc[p] = "clear" /\ connection = local[p].held
    BY <1>1, <1>2 DEF Clear, At, Cross, SessionsUncrossed
<1> QED
    BY <1>3 DEF Inv, HeldAllowed

\* A goroutine that has moved, and neither serves a status call that is still
\* to verify nor has its answer.
LEMMA QuietLive ==
    ASSUME NEW p \in Procs, local'[p].live # "yes",
           local'[p].task = "status" => pc'[p] \in StatusPlaces \ {"verify"}
    PROVE  LiveHeld(p)'
BY DEF LiveHeld

LEMMA FreshLive ==
    ASSUME TypeOK, NEW p \in Procs, Finish(p) PROVE LiveHeld(p)'
<1>1. local'[p] = Fresh
    BY DEF Finish, TypeOK
<1> QED
    BY <1>1, QuietLive DEF Fresh

LEMMA BeginLive ==
    ASSUME TypeOK, NEW p \in Procs, NEW t, NEW s, t # "status", Begin(p, t, s)
    PROVE  LiveHeld(p)'
<1>1. local'[p] = [Fresh EXCEPT !.task = t, !.held = s]
    BY DEF Begin, TypeOK
<1> QED
    BY <1>1, QuietLive DEF Fresh

\* A call that returns what it has found.
LEMMA ReturnLive ==
    ASSUME TypeOK, NEW p \in Procs, LiveHeld(p), pc[p] # "reply",
           NEW live, NEW proved, Return(p, live, proved),
           live = "yes" /\ proved = None /\ local[p].task = "status" => Shut(local[p].held)',
           local'[p].held = local[p].held \/ live # "yes" \/ local[p].task # "status"
    PROVE  LiveHeld(p)'
<1>0. local[p] \in Locals
    BY DEF TypeOK
<1>1. CASE local[p].task = "status"
    <2> DEFINE l == [local[p] EXCEPT !.live = live, !.proved = proved]
    <2>1. pc'[p] = "reply" /\ local'[p] = l
        BY <1>1 DEF Return, Goto, TypeOK
    <2>2. /\ l.task = "status" /\ l.held = local[p].held
          /\ l.live = live /\ l.proved = proved
        BY <1>0, <1>1 DEF Locals
    <2> HIDE DEF l
    <2> QED
        BY <1>1, <2>1, <2>2 DEF LiveHeld, StatusPlaces, Shut
<1>2. CASE local[p].task = "exit"
    BY <1>2, QuietLive DEF Return, LiveHeld
<1>3. CASE local[p].task \notin {"status", "exit"}
    BY <1>3, FreshLive DEF Return
<1> QED
    BY <1>1, <1>2, <1>3

\* A call that goes on with its task unchanged and nothing found yet.
LEMMA OnLive ==
    ASSUME NEW p \in Procs, LiveHeld(p), pc[p] # "reply",
           local'[p].task = local[p].task, local'[p].live \in {local[p].live, "no"},
           local[p].task = "status" => pc'[p] \in StatusPlaces \ {"verify"}
    PROVE  LiveHeld(p)'
BY QuietLive DEF LiveHeld

LEMMA ConnectLive ==
    ASSUME TypeOK, NEW p \in Procs, LiveHeld(p), Connect(p) PROVE LiveHeld(p)'
<1>1. CASE ConnectCheck(p)
    BY <1>1, BeginLive DEF ConnectCheck
<1>2. CASE DialSucceeds(p)
    <2>1. pc[p] = "dial" /\ local'[p].task = local[p].task /\ local'[p].live = local[p].live
        BY <1>2 DEF DialSucceeds, At, TypeOK, Locals
    <2> QED
        BY <2>1, OnLive DEF LiveHeld, StatusPlaces
<1>3. CASE DialFails(p)
    <2>1. pc[p] = "dial" /\ local'[p].task = local[p].task /\ local'[p].live = local[p].live
        BY <1>3 DEF DialFails, At, TypeOK, Locals
    <2> QED
        BY <2>1, OnLive DEF LiveHeld, StatusPlaces
<1>4. CASE RecordFailure(p)
    <2>1. CASE Finish(p)
        BY <2>1, FreshLive
    <2>2. CASE UNCHANGED local
        BY <1>4, <2>2, OnLive DEF RecordFailure, At, LiveHeld, StatusPlaces
    <2> QED
        BY <1>4, <2>1, <2>2 DEF RecordFailure
<1>5. CASE Install(p)
    BY <1>5, OnLive DEF Install, At, LiveHeld, StatusPlaces
<1>6. CASE Publish(p)
    BY <1>6, FreshLive DEF Publish
<1> QED
    BY <1>1, <1>2, <1>3, <1>4, <1>5, <1>6 DEF Connect

LEMMA DisconnectLive ==
    ASSUME TypeOK, NEW p \in Procs, LiveHeld(p), Disconnect(p) PROVE LiveHeld(p)'
<1>1. CASE DisconnectCall(p)
    BY <1>1, BeginLive DEF DisconnectCall
<1>2. CASE Bye(p) \/ CloseAfterBye(p)
    BY <1>2, OnLive DEF Bye, CloseAfterBye, At, LiveHeld, StatusPlaces
<1>3. CASE Clear(p) /\ published # {}
    <2>1. /\ pc[p] = "clear" /\ pc'[p] = "retract"
          /\ local'[p].task = local[p].task /\ local'[p].live = local[p].live
        BY <1>3 DEF Clear, At, Goto, TypeOK, Locals
    <2> QED
        BY <2>1, OnLive DEF StatusPlaces
<1>4. CASE (Clear(p) /\ published = {}) \/ Retract(p)
    <2>1. pc[p] \in {"clear", "retract"} /\ Return(p, local[p].live, local[p].proved)
        BY <1>4 DEF Clear, Retract, At
    <2> QED
        BY <2>1, ReturnLive DEF LiveHeld
<1> QED
    BY <1>1, <1>2, <1>3, <1>4 DEF Disconnect

LEMMA VerifyLive ==
    ASSUME TypeOK, HeldAllowed, NEW p \in Procs, LiveHeld(p), Verify(p) PROVE LiveHeld(p)'
<1>1. CASE (VerifyRead(p) \/ LoseRead(p)) /\ connection # None
    <2>1. pc[p] \in {"verify", "lose"} /\ pc'[p] \in {"ping", "drop"}
          /\ local'[p].task = local[p].task /\ local'[p].live = local[p].live
        BY <1>1 DEF VerifyRead, LoseRead, At, Goto, TypeOK, Locals
    <2> QED
        BY <2>1, OnLive DEF StatusPlaces
<1>2. CASE VerifyRead(p) /\ connection = None
    <2>1. pc[p] = "verify" /\ Return(p, "yes", None) /\ UNCHANGED wire
        BY <1>2 DEF VerifyRead, At, outside
    <2>2. local[p].task = "status" => Shut(local[p].held) /\ local'[p].held = local[p].held
        BY <1>2, <2>1 DEF LiveHeld, Return, TypeOK, Locals
    <2> QED
        BY <2>1, <2>2, ReturnLive DEF Shut
<1>3. CASE LoseRead(p) /\ connection = None
    BY <1>3, ReturnLive DEF LoseRead, At, LiveHeld
<1>4. CASE PingAnswered(p)
    <2>1. pc[p] = "ping" /\ Return(p, "yes", local[p].held) /\ local[p].held # None
        BY <1>4 DEF PingAnswered, At, HeldAllowed, Holding
    <2>2. local[p].task = "status" => local'[p].held = local[p].held
        BY <2>1 DEF Return, TypeOK, Locals
    <2> QED
        BY <2>1, <2>2, ReturnLive
<1>5. CASE PingRefused(p)
    BY <1>5, ReturnLive DEF PingRefused, At
<1>6. CASE PingLost(p)
    <2>1. /\ pc[p] = "ping" /\ pc'[p] = "lose"
          /\ local'[p].task = local[p].task /\ local'[p].live = "no"
        BY <1>6 DEF PingLost, At, Goto, TypeOK, Locals
    <2> QED
        BY <2>1, OnLive DEF StatusPlaces
<1>7. CASE LoseClose(p)
    <2>1. pc[p] = "drop" /\ pc'[p] = "clear" /\ UNCHANGED local
        BY <1>7 DEF LoseClose, At, Goto, TypeOK
    <2> QED
        BY <2>1, OnLive DEF StatusPlaces
<1> QED
    BY <1>1, <1>2, <1>3, <1>4, <1>5, <1>6, <1>7 DEF Verify, VerifyRead, LoseRead

LEMMA CallLive ==
    ASSUME TypeOK, NEW p \in Procs, LiveHeld(p), Dispatch(p) \/ Beat(p) PROVE LiveHeld(p)'
<1>1. CASE StatusCall(p)
    <2>1. /\ connection # None /\ connection' = connection
          /\ local'[p] = [Fresh EXCEPT !.task = "status", !.held = connection]
          /\ pc'[p] = "verify"
        BY <1>1 DEF StatusCall, Begin, Goto, TypeOK, controller
    <2> QED
        BY <2>1 DEF LiveHeld, StatusPlaces, Fresh
<1>2. CASE UseCall(p) \/ Beat(p)
    BY <1>2, BeginLive DEF UseCall, Beat
<1>3. CASE StatusReply(p)
    BY <1>3, FreshLive DEF StatusReply
<1>4. CASE UseReturns(p)
    <2>1. CASE Finish(p)
        BY <2>1, FreshLive
    <2>2. CASE UNCHANGED local
        BY <1>4, <2>2, OnLive DEF UseReturns, At, LiveHeld, StatusPlaces
    <2> QED
        BY <1>4, <2>1, <2>2 DEF UseReturns
<1> QED
    BY <1>1, <1>2, <1>3, <1>4 DEF Dispatch

LEMMA LiveInit == Init => LiveInv
<1> SUFFICES ASSUME Init, NEW p \in Procs PROVE LiveHeld(p)
    BY DEF LiveInv
<1>1. local[p] = Fresh
    BY DEF Init
<1> QED
    BY <1>1 DEF LiveHeld, Fresh

LEMMA LiveStep == Inv /\ LiveInv /\ [Next]_vars => LiveInv'
<1> SUFFICES ASSUME Inv, LiveInv, [Next]_vars, SessionsUncrossed' PROVE \A p \in Procs : LiveHeld(p)'
    BY DEF LiveInv
<1>0. TypeOK /\ TypeOK' /\ WiresOpen /\ HeldAllowed
    BY InPlaces, TypeStep DEF Inv
<1>1. ASSUME NEW p \in Procs, Step(p), NEW q \in Procs PROVE LiveHeld(q)'
    <2>0. \A r \in Procs : LiveHeld(r)
        BY <1>1, CrossedStays DEF SessionsUncrossed, LiveInv
    <2>1. OnlyMoves(p) /\ Stable
        BY <1>0, <1>1, StepInPlace, WiresStep
    <2>2. CASE q = p
        BY <1>0, <1>1, <2>0, <2>2, ConnectLive, DisconnectLive, VerifyLive, CallLive DEF Step
    <2>3. CASE q # p
        <3>1. pc'[q] = pc[q] /\ local'[q] = local[q] /\ LiveHeld(q)
            BY <2>0, <2>1, <2>3 DEF OnlyMoves
        <3>2. local[q].held # None => local[q].held \in 1 .. dialed
            <4>1. InPlace(q)
                BY InPlaces
            <4> QED
                BY <1>0, <4>1, PlainTypes DEF InPlace, None
        <3>3. Shut(local[q].held) => Shut(local[q].held)'
            BY <2>1, <3>1, <3>2 DEF Shut, Stable
        <3>4. local[q].held # None /\ connection = local[q].held =>
                  connection' = connection \/ Shut(local[q].held)
            BY <1>1, LetGo DEF Shut
        <3> QED
            BY <3>1, <3>3, <3>4 DEF LiveHeld
    <2> QED
        BY <2>2, <2>3
<1>2. CASE Exit
    <2>0. \A r \in Procs : LiveHeld(r)
        BY <1>2 DEF Exit, SessionsUncrossed, LiveInv
    <2>1. OnlyMoves(Main) /\ Main \in Procs /\ UNCHANGED <<connection, wire>>
        BY <1>0, <1>2, BeginMoves DEF Exit, controller, outside, Procs
    <2>2. LiveHeld(Main)'
        BY <1>0, <1>2, <2>1, BeginLive DEF Exit
    <2>3. ASSUME NEW q \in Procs \ {Main} PROVE LiveHeld(q)'
        <3>1. pc'[q] = pc[q] /\ local'[q] = local[q] /\ LiveHeld(q)
            BY <2>0, <2>1 DEF OnlyMoves
        <3> QED
            BY <2>1, <3>1 DEF LiveHeld, Shut
    <2> QED
        BY <2>2, <2>3
<1>3. CASE HostCloses \/ (\E s \in Sessions : PeerGone(s)) \/ Exited \/ UNCHANGED vars
    <2>1. UNCHANGED <<connection, crossed, pc, local>>
        BY <1>3 DEF HostCloses, PeerGone, Exited, vars, controller
    <2>2. \A s \in Sessions : wire[s] = "closed" => wire'[s] = "closed"
        BY <1>0, <1>3 DEF HostCloses, PeerGone, Exited, vars, outside, TypeOK
    <2>3. \A q \in Procs : Shut(local[q].held) => Shut(local[q].held)'
        BY <1>0, <2>1, <2>2, PlainTypes DEF Shut
    <2> QED
        BY <2>1, <2>3 DEF SessionsUncrossed, LiveInv, LiveHeld
<1> QED
    BY <1>1, <1>2, <1>3 DEF Next, Step

\* However they interleave, a status call that answers live: true without an
\* answer to a ping of its own was called beside a session that has been ended
\* and closed since, unless a session was abandoned.
THEOREM LiveIsProofUnlessEndedHolds == Spec => []LiveIsProofUnlessEnded
<1>1. LiveInv => LiveIsProofUnlessEnded
    BY DEF LiveInv, LiveHeld, LiveIsProofUnlessEnded, Shut
<1>2. Inv /\ LiveInv /\ [Next]_vars => LiveInv'
    BY LiveStep
<1> QED
    BY <1>1, <1>2, LiveInit, Invariance, PTL DEF Spec

-----------------------------------------------------------------------------
(***************************************************************************)
(* One agent.                                                              *)
(***************************************************************************)
OneAgent == \A a, b \in Agents : a = b

\* A connect is somewhere between its check and its end only by going on with it.
LEMMA ConnectPlaces ==
    ASSUME TypeOK, NEW p \in Procs, Step(p), pc'[p] \in {"dial", "record", "install"}
    PROVE  ConnectCheck(p) \/ DialSucceeds(p) \/ DialFails(p)
<1>1. \A label : Goto(p, label) => pc'[p] = label
    BY DEF Goto, TypeOK
<1>2. \A live, proved : ~Return(p, live, proved)
    BY ReturnMoves
<1>3. ~Finish(p)
    BY FinishMoves
<1>4. ~(RecordFailure(p) \/ Install(p) \/ Publish(p))
    BY <1>1, <1>3 DEF RecordFailure, Install, Publish
<1>5. ~Clear(p)
    BY ClearMoves
<1>6. ~(DisconnectCall(p) \/ Bye(p) \/ CloseAfterBye(p) \/ Retract(p))
    BY <1>1, <1>2 DEF DisconnectCall, Bye, CloseAfterBye, Retract
<1>7. ~Verify(p)
    BY <1>1, <1>2 DEF Verify, VerifyRead, PingAnswered, PingRefused, PingLost, LoseRead, LoseClose
<1>8. ~(Dispatch(p) \/ Beat(p))
    BY <1>1, <1>3 DEF Dispatch, StatusCall, StatusReply, UseCall, UseReturns, Beat
<1> QED
    BY <1>4, <1>5, <1>6, <1>7, <1>8 DEF Step, Connect, Disconnect

\* A failure is recorded, and a session installed, by the step that does so.
LEMMA NotedBy ==
    ASSUME NEW p \in Procs, Step(p)
    PROVE  /\ "late failure" \in crossed' \ crossed => RecordFailure(p) /\ connection # None
           /\ "replaced" \in crossed' \ crossed => Install(p) /\ connection # None
<1>1. CASE RecordFailure(p)
    BY <1>1 DEF RecordFailure, Cross
<1>2. CASE Install(p)
    BY <1>2 DEF Install, Cross
<1>3. CASE Publish(p) \/ Clear(p) \/ Retract(p)
    BY <1>3 DEF Publish, Clear, Retract, Cross
<1>4. CASE ~(RecordFailure(p) \/ Install(p) \/ Publish(p) \/ Clear(p) \/ Retract(p))
    <2>1. UNCHANGED crossed
        BY <1>4 DEF Step, Connect, ConnectCheck, DialSucceeds, DialFails, Disconnect,
           DisconnectCall, Bye, CloseAfterBye, Verify, VerifyRead, PingAnswered, PingRefused,
           PingLost, LoseRead, LoseClose, Dispatch, StatusCall, StatusReply, UseCall, UseReturns,
           Beat
    <2> QED
        BY <2>1
<1> QED
    BY <1>1, <1>2, <1>3, <1>4

LEMMA SoleInit == Init => SoleInv
<1> SUFFICES ASSUME Init PROVE SoleInv
    OBVIOUS
<1>1. ConnectHolds /\ crossed \cap {"late failure", "replaced"} = {}
    BY DEF Init, ConnectHolds
<1> QED
    BY <1>1, InvInit DEF SoleInv

LEMMA SoleStep ==
    ASSUME OneAgent
    PROVE  SoleInv /\ [Next]_vars => SoleInv'
<1> SUFFICES ASSUME SoleInv, [Next]_vars
             PROVE  ConnectHolds' /\ crossed' \cap {"late failure", "replaced"} = {}
    BY InvStep DEF SoleInv
<1>0. Inv /\ TypeOK /\ TypeOK'
    BY TypeStep DEF SoleInv, Inv
<1>1. ASSUME NEW p \in Procs, Step(p)
      PROVE  ConnectHolds' /\ crossed' \cap {"late failure", "replaced"} = {}
    <2>0. OnlyMoves(p)
        BY <1>0, <1>1, StepInPlace
    <2>1. ASSUME NEW q \in Procs, pc'[q] \in {"dial", "record", "install"}
          PROVE  q \in Agents /\ connection' = None
        <3>1. CASE q = p
            <4>1. /\ ConnectCheck(p) \/ DialSucceeds(p) \/ DialFails(p)
                  /\ UNCHANGED connection
                BY <1>0, <1>1, <2>1, <3>1, ConnectPlaces
                   DEF ConnectCheck, DialSucceeds, DialFails, controller
            <4> QED
                BY <3>1, <4>1 DEF ConnectCheck, CanCall, DialSucceeds, DialFails, At, SoleInv,
                   ConnectHolds
        <3>2. CASE q # p
            <4>1. q \in Agents /\ connection = None /\ pc[q] \in {"dial", "record", "install"}
                BY <2>0, <2>1, <3>2 DEF OnlyMoves, SoleInv, ConnectHolds
            <4>2. ~Install(p)
                BY <3>2, <4>1 DEF OneAgent, Install, At, SoleInv, ConnectHolds
            <4>3. CASE Clear(p)
                BY <4>1, <4>3 DEF Clear, Drop
            <4>4. CASE ~Clear(p)
                BY <1>1, <4>1, <4>2, <4>4, ConnectionLeft
            <4> QED
                BY <4>3, <4>4
        <3> QED
            BY <3>1, <3>2
    <2>2. ~(connection # None /\ (RecordFailure(p) \/ Install(p)))
        BY DEF RecordFailure, Install, At, SoleInv, ConnectHolds
    <2>3. "late failure" \notin crossed' /\ "replaced" \notin crossed'
        BY <1>1, <2>2, NotedBy DEF SoleInv
    <2> QED
        BY <2>1, <2>3 DEF ConnectHolds
<1>2. CASE Exit
    <2>1. UNCHANGED <<connection, crossed>> /\ pc'[Main] \in {"bye", "done"}
          /\ \A q \in Procs \ {Main} : pc'[q] = pc[q]
        BY <1>0, <1>2 DEF Exit, Goto, TypeOK, controller, Procs
    <2> QED
        BY <2>1 DEF SoleInv, ConnectHolds
<1>3. CASE HostCloses \/ (\E s \in Sessions : PeerGone(s)) \/ Exited \/ UNCHANGED vars
    <2>1. UNCHANGED <<connection, crossed, pc>>
        BY <1>3 DEF HostCloses, PeerGone, Exited, vars, controller
    <2> QED
        BY <2>1 DEF SoleInv, ConnectHolds
<1> QED
    BY <1>1, <1>2, <1>3 DEF Next, Step

\* While the agent makes one call at a time, whatever the heartbeat and the
\* exit do meanwhile, a check that found no connection still holds when the
\* connect it opened is over: no failure is recorded beside a session, and no
\* session is installed over another one.
THEOREM SoleInvariance == ASSUME OneAgent PROVE Spec => []SoleInv
<1>1. SoleInv /\ [Next]_vars => SoleInv'
    BY SoleStep
<1> QED
    BY <1>1, SoleInit, PTL DEF Spec

\* With one call at a time the recorded state and the connection agree.
THEOREM StatusMatchesHolds == ASSUME OneAgent PROVE Spec => []StatusMatches
<1>1. SoleInv => StatusMatches
    BY DEF SoleInv, Inv, StatusMatchesUnlessLate
<1> QED
    BY <1>1, SoleInvariance, PTL

\* With one call at a time a live connection is never replaced by another one.
THEOREM NeverSwitchedHolds == ASSUME OneAgent PROVE Spec => NeverSwitched
<1>1. SoleInv /\ [Next]_vars =>
          [connection # None => connection' \in {connection, None}]_connection
    <2> SUFFICES ASSUME SoleInv, [Next]_vars, connection # None, connection' # connection
                 PROVE  connection' = None
        OBVIOUS
    <2>1. ASSUME NEW p \in Procs, Step(p) PROVE Clear(p)
        <3>1. ~Install(p)
            BY DEF Install, At, SoleInv, ConnectHolds
        <3> QED
            BY <2>1, <3>1, ConnectionLeft
    <2>2. ~(\/ Exit \/ HostCloses \/ (\E s \in Sessions : PeerGone(s)) \/ Exited
            \/ UNCHANGED vars)
        BY DEF Exit, HostCloses, PeerGone, Exited, vars, controller
    <2> QED
        BY <2>1, <2>2 DEF Next, Step, Clear, Drop
<1> QED
    BY <1>1, SoleInvariance, PTL DEF Spec, NeverSwitched

=============================================================================
