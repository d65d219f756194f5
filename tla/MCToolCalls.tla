---------------------------- MODULE MCToolCalls ----------------------------
(***************************************************************************)
(* ToolCalls for TLC: one call uses the session, another one opens and     *)
(* ends it, and the process is started in each of a number of ways.        *)
(* What may be dialed is a pipe, 127.0.0.1 and the [::1] of IPv6.          *)
(***************************************************************************)
EXTENDS ToolCalls

MCLoopbackHosts == {<<"127.0.0.1">>, <<":", ":", "1">>}
MCLowerCase(address) ==
    IF address = <<"NvdaMcpBridge">> THEN <<"nvdamcpbridge">>
    ELSE IF address = <<"nvdaMcpBridge">> THEN <<"nvdamcpbridge">> ELSE address

NoFile == << >>
Pipe == <<"pipe", ":", "NvdaMcpBridge">>
Loopback == <<"tcp", ":", "[", ":", ":", "1", "]", ":", "9010">>
Unbracketed == <<"tcp", ":", ":", ":", "1", ":", "9010">>
Remote == <<"tcp", ":", "10.0.0.7", ":", "9010">>
Entry(name, specs) == [name |-> name, endpoints |-> specs]
Flag(name, spec) == [name |-> name, spec |-> spec]
Started(platform, readable, file, flags) ==
    [platform |-> platform,
     options |-> [readable |-> readable, file |-> file, flags |-> flags]]

\* The defaults on Windows, with a pipe and a socket to dial; elsewhere, a file
\* with a reader named twice, under flags that override the defaults, add a reader
\* and repeat its name; and five ways to be refused.
MCSetups ==
    {Started("windows", TRUE, NoFile, << >>),
     Started("other", TRUE,
             <<Entry("jaws", <<Pipe, Loopback>>), Entry("nvda", <<Pipe>>),
               Entry("jaws", <<Remote, Unbracketed>>)>>,
             <<Flag("orca", Pipe), Flag("nvda", Pipe), Flag("orca", Loopback)>>),
     Started("windows", FALSE, NoFile, << >>),
     Started("windows", TRUE, <<Entry("", <<Pipe>>)>>, << >>),
     Started("windows", TRUE, <<Entry("jaws", << >>)>>, << >>),
     Started("windows", TRUE, NoFile, <<Flag("nvda", <<"tcp", ":", "9010">>)>>),
     Started("windows", TRUE, NoFile, <<Flag("nvda", << >>)>>)}

MCAnnouncements == {{"speech", "screenCurtain"}, {"braille"}}
MCNamespaces == {{}, {<<"nvdamcpbridge">>}}

CONSTANTS c1, c2
MCAsks == [c \in {c1, c2} |->
    IF c = c1 THEN {"get_braille"}
              ELSE {"list_readers", "connect_reader", "disconnect_reader", "status",
                    "no_such_tool"}]

=============================================================================
