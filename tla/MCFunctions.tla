----------------------------- MODULE MCFunctions -----------------------------
(***************************************************************************)
(* The pure functions of the panel and the agent over bounded inputs.  A   *)
(* behaviour takes one kind of input and builds it up, or changes one      *)
(* thing about it; the properties say what the functions make of it.       *)
(***************************************************************************)
EXTENDS PanelPolicy, Protocol, Presentation, Destinations

VARIABLES kind, in

vars == <<kind, in>>

-----------------------------------------------------------------------------
(* Bounds. *)

MaxBytes == 6      \* one more than a varint has
MaxText == 5
MaxEntries == 3
MaxMissing == 2    \* names that settings lack

\* Bytes that differ in whether they end a varint, and in their lowest and
\* highest bits; {4} and {3, 4} carry bits beyond the 32nd when they come fifth.
BytePatterns == {{}, {0}, {4}, {7}, {0, 7}, {3, 4, 7}}

\* All numbers whose bits are without a gap, and some with one.
NumberCases == {low..high : low, high \in Bits} \cup {{0, 14}, {7, 28}, {0, 31}}

Tails == {<<>>, <<{}>>, <<{7}, {0}>>}

BodyLengths == {0, 1, 2, 127, 128, 300}

Body(n) == [i \in 1..n |-> {i % 7}]

HandshakeCases ==
    [version: {{}, {0, 1, 8, 9}, Bits}, address: {<<>>, <<{1}>>, Body(130)},
     port: {<<{6, 7}, {0}>>, <<{}, {}>>}, next: {{0}, {1}}]

ColorLists == {<<0, 255>>, <<200, 10>>, <<0, 255, 128>>, <<7, 7, 90, 0>>}

Ips == [family: {4, 6}, host: {"any", "host"}]
Entries == [ip: Ips, port: {ListenPort, 25565, 25566}, running: BOOLEAN]
Destinations == [ip: [family: {4, 6}, host: {"host", "other"}],
                 port: {25565, 25566}]

GoodState == [descriptions |-> 2, players |-> 0]
BadStates == {[descriptions |-> 0, players |-> 0],
              [descriptions |-> 1, players |-> -1],
              [descriptions |-> 3, players |-> 20]}

DefaultSettings ==
    [interval |-> 5, states |-> [n \in StateNames |-> GoodState],
     colors |-> "hex", icon |-> "default"]

-----------------------------------------------------------------------------

Init ==
    \/ kind = "policy"    /\ in \in Observations
    \/ kind = "number"    /\ in \in [value: NumberCases, tail: {<<>>}]
    \/ kind = "bytes"     /\ in = <<>>
    \/ kind = "frames"    /\ in \in BodyLengths \X {0}
    \/ kind = "handshake" /\ in \in HandshakeCases
    \/ kind = "text"      /\ in = <<>>
    \/ kind = "settings"  /\ in = DefaultSettings
    \/ kind = "entries"   /\ in = <<>>

Changes(field, values) == \E v \in values : in' = [in EXCEPT ![field] = v]

Observe ==
    /\ kind = "policy"
    /\ \/ \E field \in {"suspended", "maintenance", "transferring",
                        "reachable", "enabled", "all", "serverOut", "eggOut",
                        "primary", "autostart"} : Changes(field, BOOLEAN)
       \/ Changes("status", Statuses)
       \/ Changes("wings", WingsStates)

Appends(k, symbols, limit) ==
    /\ kind = k
    /\ Len(in) < limit
    /\ \E s \in symbols : in' = Append(in, s)

LosesState(name) ==
    /\ Cardinality(StateNames \ DOMAIN in.states) < MaxMissing
    /\ in' = [in EXCEPT !.states = [n \in DOMAIN in.states \ {name} |->
                                        in.states[n]]]

GainsState(name) ==
    in' = [in EXCEPT !.states =
              [n \in DOMAIN in.states \cup {name} |->
                  IF n = name THEN GoodState ELSE in.states[n]]]

EditSettings ==
    /\ kind = "settings"
    /\ \/ \E name \in DOMAIN in.states : LosesState(name)
       \/ GainsState("running")
       \/ /\ \A name \in DOMAIN in.states : in.states[name] = GoodState
          /\ \E name \in DOMAIN in.states, bad \in BadStates :
                in' = [in EXCEPT !.states[name] = bad]
       \/ Changes("interval", {0, 1, 3, 3600, 3601})
       \/ Changes("colors", {"hex", "other"})
       \/ Changes("icon", {"default", "png_64", "png_32", "text", "too_long"})

Next ==
    /\ \/ Observe
       \/ Appends("bytes", BytePatterns, MaxBytes)
       \/ Appends("text", Characters, MaxText)
       \/ Appends("entries", Entries, MaxEntries)
       \/ EditSettings
       \/ kind = "number" /\ Changes("tail", Tails)
       \/ kind = "frames" /\ Changes(2, BodyLengths)
       \/ kind = "handshake" /\ Changes("next", {{0}, {1}})
    /\ UNCHANGED kind

Spec == Init /\ [][Next]_vars

-----------------------------------------------------------------------------
(* The panel's verdicts. *)

\* The agent, on its own since it lost the panel, shows what the panel would
\* show if it had lost the node: stale_state, in the agent, keeps exactly the
\* states that resolve_state, in the extension, ranks above node_unreachable.
StaleAgreesWithPanel ==
    kind = "policy" =>
        StaleState(ResolveState(in), TRUE)
            = ResolveState([in EXCEPT !.reachable = FALSE])

\* The agent asks for a wake exactly when the panel, in the same situation,
\* starts the server: the chain of checks in the wake endpoint and the one
\* that built the snapshot are written separately.
WakeAgreesWithSnapshot ==
    kind = "policy" =>
        (WakeVerdict(in) = "started"
            <=> InSnapshot(in) /\ ResolveState(in) = "offline" /\ in.autostart)

-----------------------------------------------------------------------------
(* The Minecraft protocol. *)

\* Every i32, negative ones included, is read back as it was written, and what
\* follows it in the buffer is left for the next reader.  And whatever bytes a
\* client sends, however it pads a number or sets bits beyond the 32nd: what is
\* accepted is the number they spell, no byte of them is taken for more than it
\* says, and writing it again never takes more bytes.
VarintsExact ==
    /\ kind = "number" =>
        LET code == EncodeVarint(in.value)
        IN  DecodeVarint(code \o in.tail, 1) = Decoded(in.value, Len(code) + 1)
    /\ kind = "bytes" =>
        LET read == DecodeVarint(in, 1)
            code == EncodeVarint(read.value)
        IN  read.ok =>
                /\ read.next <= Len(in) + 1
                /\ Len(code) < read.next
                /\ \A i \in 1..(read.next - 1) :
                    (IF i <= Len(code) THEN code[i] \ {Continued} ELSE {})
                        = in[i] \ ({Continued} \cup IF i = 5 THEN 4..6 ELSE {})

\* Two packets on one stream, wherever it is cut, are read as they were
\* written: a packet that has not arrived in full is not taken from what
\* follows it, and none is skipped.  So a client that sends its status request
\* and its ping at once reads two packets back, in step: the status text, then
\* the ping as it was sent.  A length below zero or above the limit is refused,
\* though the bytes of a body follow.
FramesInStep ==
    kind = "frames" =>
        LET one    == WriteBlock(Body(in[1]))
            stream == one \o WriteBlock(Body(in[2]))
            ping    == EncodeVarint({0}) \o Body(in[2])
            request == WriteBlock(EncodeVarint({}))
            answer  == ServeStatus(request \o WriteBlock(ping), Body(in[1]))
            status  == ReadPacket(answer, 1)
            negative == EncodeVarint(ToBits(in[1]) \cup {Sign})
        IN  /\ ReadPacket(stream, 1) = Decoded(Body(in[1]), Len(one) + 1)
            /\ ReadPacket(stream, Len(one) + 1)
                   = Decoded(Body(in[2]), Len(stream) + 1)
            /\ \A cut \in 0..(Len(stream) - 1) :
                  LET arrived == SubSeq(stream, 1, cut)
                  IN  /\ ReadPacket(arrived, 1).ok <=> cut >= Len(one)
                      /\ cut >= Len(one) =>
                            ~ReadPacket(arrived, Len(one) + 1).ok
            /\ ReadBlock(one, 1, in[1]).ok
            /\ in[1] > 0 => ~ReadBlock(one, 1, in[1] - 1).ok
            /\ ~ReadPacket(negative \o Body(in[1]), 1).ok
            /\ status.ok
            /\ DecodeVarint(status.value, 1) = Decoded({}, 2)
            /\ ReadString(status.value, 2)
                   = Decoded(Body(in[1]), Len(status.value) + 1)
            /\ ReadPacket(answer, status.next) = Decoded(ping, Len(answer) + 1)
            /\ ServeStatus(request, Body(in[1]))
                   = SubSeq(answer, 1, status.next - 1)

\* The handshake of a client is understood field by field, and none of its
\* strict prefixes is: neither a port nor a next state is made up.
HandshakeExact ==
    kind = "handshake" =>
        LET packet == EncodeVarint({}) \o EncodeVarint(in.version)
                          \o WriteBlock(in.address) \o in.port
                          \o EncodeVarint(in.next)
        IN  /\ ParseHandshake(packet) = Decoded(in, Len(packet) + 1)
            /\ \A cut \in 0..(Len(packet) - 1) :
                  ~ParseHandshake(SubSeq(packet, 1, cut)).ok

-----------------------------------------------------------------------------
(* What is shown. *)

\* Settings that the panel accepts leave the agent nothing to improvise: every
\* state a client can be told of, however old the snapshot, has a presentation
\* of its own.  The list of the extension and the agent's states are written
\* separately.  Its descriptions take turns: in a round of as many intervals as
\* there are descriptions, wherever it begins, each is shown, and none comes
\* back.
ValidatedIsPresentable ==
    kind = "settings" /\ Validate(in) =>
        \A st \in States, stale \in BOOLEAN :
            LET told  == ShownState(StaleState(st, stale))
                count == in.states[told].descriptions
            IN  /\ SelectedState(in, told) = told
                /\ in.interval <= 5 => \A start \in 0..7 :
                    LET shown(t) == Rotation(in, count, t)
                        round    == start..(start + count * in.interval - 1)
                    IN  /\ {shown(t) : t \in round} = 0..(count - 1)
                        /\ Cardinality({t \in round : shown(t + 1) # shown(t)})
                               = IF count = 1 THEN 0 ELSE count

\* Codes are understood once and whatever their case: no ampersand is left
\* that a code follows, nothing else changes, and reading the text again
\* changes nothing.  Two lines that change places do so without loss, and it
\* makes no difference whether codes are understood before or after: none
\* reaches across a line.
TextsKeepTheirParts ==
    kind = "text" =>
        LET n == Normalize(in)
        IN  /\ Len(n) = Len(in)
            /\ Normalize(n) = n
            /\ \A i \in 1..Len(in) :
                \/ n[i] = in[i]
                \/ in[i] = "amp" /\ n[i] = "section" /\ n[i + 1] = "code"
                \/ in[i] = "CODE" /\ n[i] = "code" /\ n[i - 1] = "section"
            /\ \A i \in 1..Len(in) :
                in[i] = "amp" /\ i < Len(in) /\ in[i + 1] \in {"code", "CODE"} =>
                    n[i] = "section" /\ n[i + 1] = "code"
            /\ SwapLines(SwapLines(in)) = in
            /\ SwapLines(n) = Normalize(SwapLines(in))

\* A gradient begins at its first colour, never leaves the two colours of its
\* segment, never goes back to an earlier segment, and ends at its last colour
\* if the text has no formatting codes: those are counted, but not coloured.
GradientSpansText ==
    kind = "text" =>
        \A colors \in ColorLists :
            LET color(i) == ColorAt(in, colors, i)
                at(i)    == GradientAt(in, colors, i)
            IN  /\ \A i \in Colored(in) :
                    /\ at(i).amount \in 0..GradientSteps(in)
                    /\ color(i) \in Smaller(colors[at(i).segment],
                                            colors[at(i).segment + 1])..
                                    Larger(colors[at(i).segment],
                                           colors[at(i).segment + 1])
                    /\ i = Min(Colored(in)) => color(i) = colors[1]
                /\ \A i, j \in Colored(in) :
                    i < j => at(i).segment <= at(j).segment
                /\ /\ Cardinality(Colored(in)) > 1
                   /\ \A i \in 1..Len(in) : ~OpensCode(in)[i]
                   => color(Max(Colored(in))) = colors[Len(colors)]

-----------------------------------------------------------------------------
(* Where connections go. *)

Distinct(sn) == \A i, j \in 1..Len(sn) :
    sn[i].ip = sn[j].ip /\ sn[i].port = sn[j].port => i = j

\* A connection that the firewall redirects is answered for the entry whose
\* rule redirected it, and always for one; only where an entry on a wildcard
\* address shares the port may another one be taken, as the kernel and
\* allocation_matches each have their own order and their own wildcards.
AnswersForItsRule ==
    kind = "entries" /\ Distinct(in) =>
        \A d \in Destinations :
            LET i == Lookup(in, d)
            IN  Redirected(in, d) =>
                    /\ i # 0
                    /\ \/ i \in DesiredEntries(in) /\ RuleRedirects(in[i], d)
                       \/ \E j \in 1..Len(in) \ {i} :
                            /\ in[j].port = d.port
                            /\ Unspecified(in[i].ip) \/ Unspecified(in[j].ip)

\* A server that listens on an address of its own is reached directly, whatever
\* becomes of the others: only one that is down on the wildcard address of its
\* family, on its port, takes its connections.
RunningPassesUnlessWildcard ==
    kind = "entries" /\ Distinct(in) =>
        \A i \in 1..Len(in) :
            LET d == [ip |-> in[i].ip, port |-> in[i].port]
            IN  in[i].running /\ ~Unspecified(d.ip) /\ Redirected(in, d) =>
                    \E j \in DesiredEntries(in) :
                        in[j].ip = [family |-> d.ip.family, host |-> "any"]
                            /\ in[j].port = d.port
=============================================================================
