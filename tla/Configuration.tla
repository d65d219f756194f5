---------------------------- MODULE Configuration ----------------------------
(***************************************************************************)
(* Which readers the server knows, and what may be dialed for them: the    *)
(* endpoint syntax (server/domain/entities/endpoint.go), the three layers  *)
(* of settings (server/config/loader.go), the dialing policy               *)
(* (server/adapters/bridge/endpoint.go) and the listing that is made       *)
(* without dialing (server/adapters/discovery, reader_listing.go).         *)
(*                                                                         *)
(* All of it is pure, so this module has no variables. A spec is the       *)
(* sequence of its marks (":", "[" and "]") and of the texts between them, *)
(* none of them empty: "tcp:[::1]:9010" is                                 *)
(* <<"tcp", ":", "[", ":", ":", "1", "]", ":", "9010">>, and the spec with *)
(* nothing in it is << >>. A host is such a sequence too, and a --reader   *)
(* flag is a record of what stands around its first "=".                   *)
(***************************************************************************)
EXTENDS Naturals, SequencesExt

CONSTANTS
    LoopbackHosts,  \* the IP addresses, v4 and v6, that are loopback addresses
    LowerCase(_)    \* how Windows compares the names of pipes

\* The kinds of transport a spec may name.
TransportKinds == {"pipe", "tcp"}

\* The marks of the syntax.
Marks == {":", "[", "]"}

\* What the syntax accepts: a kind that is known, and an address after the first
\* colon; a socket's address has a colon of its own.
Parses(spec) ==
    /\ Len(spec) > 2
    /\ spec[1] \in TransportKinds /\ spec[2] = ":"
    /\ spec[1] = "tcp" => \E i \in 3 .. Len(spec) : spec[i] = ":"

\* Only the first colon separates.
ParseEndpoint(spec) == [kind |-> spec[1], address |-> SubSeq(spec, 3, Len(spec))]

-----------------------------------------------------------------------------
(***************************************************************************)
(* The three layers of settings.                                           *)
(***************************************************************************)

\* A document of readers is refused whole for one bad entry.
ReadsAsReaders(document) ==
    \A i \in DOMAIN document :
        /\ document[i].name # ""
        /\ document[i].endpoints # << >>
        /\ \A k \in DOMAIN document[i].endpoints : Parses(document[i].endpoints[k])

ToReaders(document) ==
    [i \in DOMAIN document |->
        [name |-> document[i].name,
         endpoints |-> [k \in DOMAIN document[i].endpoints |->
                            ParseEndpoint(document[i].endpoints[k])]]]

\* --reader name=spec: without a "=" there is neither a name nor a spec.
ReadsAsFlags(flags) ==
    \A i \in DOMAIN flags :
        /\ flags[i].name # ""
        /\ flags[i].spec # << >>
        /\ Parses(flags[i].spec)

\* A name is noted when it is first met.
Noted(order, name) == IF name \in Range(order) THEN order ELSE Append(order, name)

\* The names of the flags, each once, in the order they were first given.
NamesOf(flags) ==
    LET upTo[n \in 0 .. Len(flags)] ==
            IF n = 0 THEN << >> ELSE Noted(upTo[n - 1], flags[n].name)
    IN  upTo[Len(flags)]

\* The flags of one name, in the order they were given.
FlagsNamed(flags, name) ==
    LET upTo[n \in 0 .. Len(flags)] ==
            IF n = 0 THEN << >>
            ELSE IF flags[n].name = name THEN Append(upTo[n - 1], flags[n]) ELSE upTo[n - 1]
    IN  upTo[Len(flags)]

\* Repeating a name adds an endpoint to it, and a name has the place of its
\* first flag.
ReadersFromFlags(flags) ==
    [i \in DOMAIN NamesOf(flags) |->
        LET named == FlagsNamed(flags, NamesOf(flags)[i])
        IN  [name |-> NamesOf(flags)[i],
             endpoints |-> [k \in DOMAIN named |-> ParseEndpoint(named[k].spec)]]]

\* Seeded fault: an override adds to the endpoints below it.
MergeReader(readers, override) ==
    IF \E i \in DOMAIN readers : readers[i].name = override.name
    THEN [i \in DOMAIN readers |->
            IF readers[i].name = override.name
            THEN [readers[i] EXCEPT !.endpoints = override.endpoints \o @]
            ELSE readers[i]]
    ELSE Append(readers, override)

\* A reader of a higher layer takes the place of the first one of its name,
\* or comes last.
ReplaceReader(readers, override) ==
    LET same == {i \in DOMAIN readers : readers[i].name = override.name}
    IN  IF same = {}
        THEN Append(readers, override)
        ELSE [readers EXCEPT ![CHOOSE i \in same : \A j \in same : i <= j] = override]

\* A layer over the readers of those below it.
Override(readers, overrides) ==
    LET upTo[n \in 0 .. Len(overrides)] ==
            IF n = 0 THEN readers ELSE ReplaceReader(upTo[n - 1], overrides[n])
    IN  upTo[Len(overrides)]

\* The embedded defaults.
Defaults ==
    <<[name |-> "nvda",
       endpoints |-> <<<<"pipe", ":", "nvdaMcpBridge">>,
                       <<"tcp", ":", "127.0.0.1", ":", "8765">>>>]>>

\* Options: the readers of the --config file (none without one), whether that
\* file could be read as JSON, and the --reader flags.
Entries == [name : STRING, endpoints : Seq(Seq(STRING))]
Flags == [name : STRING, spec : Seq(STRING)]

Options == [readable : BOOLEAN, file : Seq(Entries), flags : Seq(Flags)]

\* One bad layer and the server does not start.
Loads(options) ==
    /\ options.readable
    /\ ReadsAsReaders(options.file)
    /\ ReadsAsFlags(options.flags)

\* The layers, lowest precedence first.
Load(options) ==
    Override(Override(ToReaders(Defaults), ToReaders(options.file)),
             ReadersFromFlags(options.flags))

\* What Load promises of its result, worked out another way than it does: every
\* name of a layer once, with the endpoints of the highest layer that has it (all
\* of its flags; else the last entry of the file; else the defaults), in the order
\* the names were first met.
Named(entries) == [i \in DOMAIN entries |-> entries[i].name]

AllNames(options) == Named(Defaults) \o Named(options.file) \o Named(options.flags)

FirstPlace(names, name) ==
    CHOOSE i \in DOMAIN names : names[i] = name /\ \A j \in 1 .. i - 1 : names[j] # name

LastEntry(entries, name) ==
    entries[CHOOSE i \in DOMAIN entries :
        entries[i].name = name /\ \A j \in i + 1 .. Len(entries) : entries[j].name # name]

Given(flags, name) == {i \in DOMAIN flags : flags[i].name = name}

Layered(options, result) ==
    /\ Range(Named(result)) = Range(AllNames(options))
    /\ \A i, j \in DOMAIN result : i < j =>
          FirstPlace(AllNames(options), result[i].name)
              < FirstPlace(AllNames(options), result[j].name)
    /\ \A i \in DOMAIN result :
          LET given == Given(options.flags, result[i].name)
              specs == LastEntry(Defaults \o options.file, result[i].name).endpoints
          IN  IF given = {}
              THEN result[i].endpoints = [k \in DOMAIN specs |-> ParseEndpoint(specs[k])]
              ELSE /\ Len(result[i].endpoints) = Cardinality(given)
                   /\ \A k \in given :
                         result[i].endpoints[Cardinality({j \in given : j <= k})] =
                             ParseEndpoint(options.flags[k].spec)

\* find takes the first reader of the name asked for.
Finds(readers, i) == \A j \in 1 .. i - 1 : readers[j].name # readers[i].name

-----------------------------------------------------------------------------
(***************************************************************************)
(* What may be dialed, and what can be said without dialing.               *)
(***************************************************************************)

\* How net.SplitHostPort reads an address: host:port, or [host]:port, and only a
\* host in brackets may have colons. An empty port is refused by the caller.
HostPort(address, host, port) ==
    /\ port \notin Marks
    /\ \/ /\ address = host \o <<":", port>>
          /\ Range(host) \cap Marks = {}
       \/ /\ address = <<"[">> \o host \o <<"]", ":", port>>
          /\ Range(host) \cap {"[", "]"} = {}

\* Only this machine: the host is named localhost or is a loopback address.
RequireLoopback(address) ==
    \E host \in LoopbackHosts \cup {<<"localhost">>} : \E port \in Range(address) :
        HostPort(address, host, port)

\* A pipe is dialed on Windows and nowhere else.
PipeDialable(platform) == platform = "windows"

DialerFor(platform, endpoint) ==
    IF endpoint.kind = "pipe"
    THEN PipeDialable(platform)
    ELSE RequireLoopback(endpoint.address)

\* The names in the pipe namespace, in lower case as the probe compares them.
\* Off Windows there is no namespace to read.
PipeNames(platform, listening) == IF platform = "windows" THEN listening ELSE {}

\* The candidates with a bridge listening, judged by one snapshot of the
\* namespace; a socket is never among them.
Live(candidates, names) ==
    {e \in candidates : e.kind = "pipe" /\ LowerCase(e.address) \in names}

Liveness(endpoint, live) ==
    IF endpoint.kind # "pipe" THEN "unknown"
    ELSE IF endpoint \in live THEN "listening" ELSE "not listening"

\* The configured readers, each with its endpoints in the order a connect
\* tries them. Nothing that is not configured appears.
BuildListing(readers, live) ==
    [i \in DOMAIN readers |->
        [name |-> readers[i].name,
         endpoints |-> [k \in DOMAIN readers[i].endpoints |->
             [endpoint |-> readers[i].endpoints[k],
              liveness |-> Liveness(readers[i].endpoints[k], live)]]]]

\* Every endpoint of every reader is a candidate of the one look.
List(readers, names) ==
    BuildListing(readers,
                 Live(UNION {Range(readers[i].endpoints) : i \in DOMAIN readers},
                      names))

=============================================================================
