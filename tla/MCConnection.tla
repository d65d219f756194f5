---------------------------- MODULE MCConnection ----------------------------
(***************************************************************************)
(* Connection for TLC: three gated tools over two capabilities, and readers*)
(* that announce one of them or both.                                      *)
(***************************************************************************)
EXTENDS Connection, TLC

\* Agents are interchangeable.
MCSymmetry == Permutations(Agents)

MCTools == {"get_speech", "wait_for_speech", "press_gesture"}
MCCapabilities == {"speech", "gestures"}
MCCapabilityOf ==
    [t \in MCTools |-> IF t = "press_gesture" THEN "gestures" ELSE "speech"]
MCAnnouncements == {{"speech"}, {"speech", "gestures"}}

=============================================================================
