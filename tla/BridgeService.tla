--------------------------- MODULE BridgeService ---------------------------
(***************************************************************************)
(* What the bridge's server promises whoever looks at its status: it is    *)
(* stopped, listening, or has a session; a session is only ever admitted   *)
(* from listening, one at a time, and a stopped server has none.           *)
(*                                                                         *)
(* This is the abstract specification BridgeServer implements.             *)
(***************************************************************************)
VARIABLES
    mode,   \* the state the status reports
    live    \* there is a session that may hold NVDA's speech

Init == mode = "stopped" /\ live = FALSE

Start == mode = "stopped" /\ mode' = "listening" /\ UNCHANGED live

Admit == mode = "listening" /\ ~live /\ mode' = "session-active" /\ live' = TRUE

\* The session is over, and the server listens again unless it is being stopped.
Release == live /\ live' = FALSE /\ mode' \in {mode, "listening"}

Stop == mode # "stopped" /\ ~live /\ mode' = "stopped" /\ UNCHANGED live

Next == Start \/ Admit \/ Release \/ Stop

Spec == Init /\ [][Next]_<<mode, live>>

=============================================================================
