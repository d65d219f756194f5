------------------------------ MODULE ToolTable ------------------------------
(***************************************************************************)
(* The sixteen tools of the server (server/domain/controllers/tools), by   *)
(* what tells them apart for a call: the capability a tool declares, which *)
(* gates its publication; the port its Execute asks the ToolContext for,   *)
(* before it looks at its arguments; the command the method of that port   *)
(* sends; and the arguments Execute refuses. Descriptions, schemas and the *)
(* shape of answers are left out.                                          *)
(*                                                                         *)
(* The arguments of a call are of one kind:                                *)
(*   absent      no arguments member at all, or none of the tool's own     *)
(*   unreadable  of the wrong type                                         *)
(*   blank       what must not be empty is empty, or blank where the tool  *)
(*               trims it                                                  *)
(*   partial     a second argument the tool may need is missing or wrong   *)
(*   good        everything the tool may need                              *)
(***************************************************************************)

ArgumentKinds == {"absent", "unreadable", "blank", "partial", "good"}

\* A tool: what it declares, what it asks for, what it sends, what it refuses.
Tool(capability, port, command, refuses) ==
    [capability |-> capability, port |-> port, command |-> command, refuses |-> refuses]

\* Always there. These have no port: they work on the connection itself.
ListReaders      == Tool("none", "none", "none", {})
ConnectReader    == Tool("none", "none", "none", {"absent", "unreadable", "blank", "partial"})
DisconnectReader == Tool("none", "none", "none", {})
Status           == Tool("none", "none", "none", {})

\* An absent since_index is zero, whatever the schema says.
GetSpeech          == Tool("speech", "speech", "getSpeech", {"unreadable"})
GetLastSpeech      == Tool("speech", "speech", "getLastSpeech", {})
GetNextSpeechIndex == Tool("speech", "speech", "getNextSpeechIndex", {})
WaitForSpeech      == Tool("speech", "speech", "waitForSpeech",
                           {"absent", "unreadable", "blank"})
WaitForSpeechToFinish == Tool("speech", "speech", "waitForSpeechToFinish", {"unreadable"})

\* Seeded fault: a tool that reaches for a port it does not declare.
GetBrailleOfSpeech == Tool("speech", "braille", "getBraille", {"unreadable"})

GetBraille   == Tool("braille", "braille", "getBraille", {"unreadable"})
PressGesture == Tool("gestures", "gestures", "pressGesture",
                     {"absent", "unreadable", "blank"})
Announce     == Tool("announce", "announce", "announce",
                     {"absent", "unreadable", "blank"})
GetFocusInfo == Tool("focus", "focus", "getFocusInfo", {})
GetState     == Tool("state", "state", "getState", {})
GetConfig    == Tool("config", "config", "getConfig", {"absent", "unreadable", "blank"})
SetConfig    == Tool("config", "config", "setConfig",
                     {"absent", "unreadable", "blank", "partial"})

\* The registry: the tools by name. The gate and the SDK's handlers are derived
\* from this one table.
Registry ==
    [list_readers |-> ListReaders, connect_reader |-> ConnectReader,
     disconnect_reader |-> DisconnectReader, status |-> Status,
     get_speech |-> GetSpeech, get_last_speech |-> GetLastSpeech,
     get_next_speech_index |-> GetNextSpeechIndex, wait_for_speech |-> WaitForSpeech,
     wait_for_speech_to_finish |-> WaitForSpeechToFinish,
     get_braille |-> GetBraille, press_gesture |-> PressGesture, announce |-> Announce,
     get_focus_info |-> GetFocusInfo, get_state |-> GetState,
     get_config |-> GetConfig, set_config |-> SetConfig]

Names == DOMAIN Registry

\* Lookup answers for the names of the table; any other name is nobody's tool.
Known(name) == name \in Names

GateOf(name) == Registry[name].capability

Ungated == {t \in Names : GateOf(t) = "none"}
Gated == {t \in Names : GateOf(t) # "none"}

\* The capabilities this server has tools for. A reader may announce others.
Capabilities == {GateOf(t) : t \in Gated}

\* The ports `hello` hands over, and the commands the methods of each send.
PortCommands ==
    [speech   |-> {"getSpeech", "getLastSpeech", "getNextSpeechIndex",
                   "waitForSpeech", "waitForSpeechToFinish"},
     braille  |-> {"getBraille"},
     gestures |-> {"pressGesture"},
     announce |-> {"announce"},
     focus    |-> {"getFocusInfo"},
     state    |-> {"getState"},
     config   |-> {"getConfig", "setConfig"}]

\* decodeParams and the checks after it.
Accepts(name, kind) == kind \notin Registry[name].refuses

=============================================================================
