------------------------------ MODULE Protocol ------------------------------
(***************************************************************************)
(* The agent's side of the Minecraft protocol: varints, strings, frames,   *)
(* the handshake and the status answer.                                    *)
(*                                                                         *)
(* An i32 is the set of its one bits (0 to 31), a byte the set of its own  *)
(* (0 to 7): shifts and masks of the code move and select positions, and   *)
(* what is shifted out of 32 bits is lost here as it is there.             *)
(***************************************************************************)
EXTENDS Integers, Sequences, FiniteSets, FiniteSetsExt

Bits == 0..31
Sign == 31           \* the bit of a negative i32
Continued == 7       \* the bit of a byte that says another one follows

MaxString == 32767
MaxPacket == 1048576

\* The number that the bits of an i32 without a sign stand for, and back.
Number(v) == MapThenSumSet(LAMBDA b : 2^b, v)
ToBits(n) == {b \in 0..30 : (n \div 2^b) % 2 = 1}

Failed == [ok |-> FALSE, value |-> {}, next |-> 0]
Decoded(value, next) == [ok |-> TRUE, value |-> value, next |-> next]

-----------------------------------------------------------------------------
(* Varints. *)

\* Mutant: the number is taken to end at its first empty group.
EncodeToGap(v) ==
    LET Group(g) == {b - 7 * g : b \in {c \in v : c \div 7 = g}}
        last == Min({g \in 0..4 : Group(g + 1) = {}})
    IN  [i \in 1..(last + 1) |->
            Group(i - 1) \cup IF i <= last THEN {Continued} ELSE {}]

\* encode_varint: groups of seven bits, the lowest first, as long as higher
\* bits are left.
EncodeVarint(v) ==
    LET last == IF v = {} THEN 0 ELSE Max(v) \div 7
    IN  [i \in 1..(last + 1) |->
            {b - 7 * (i - 1) : b \in {c \in v : c \div 7 = i - 1}}
                \cup IF i <= last THEN {Continued} ELSE {}]

\* decode_varint and read_varint: at most five bytes, the last of which is the
\* first that is not continued.
DecodeVarint(bytes, at) ==
    LET ends == {i \in at..(at + 4) : i <= Len(bytes) /\ Continued \notin bytes[i]}
    IN  IF ends = {} THEN Failed
        ELSE Decoded({b \in Bits : \E i \in at..Min(ends) :
                                       b - 7 * (i - at) \in bytes[i] \ {Continued}},
                     Min(ends) + 1)

-----------------------------------------------------------------------------
(* Strings and frames: both are a length and as many bytes. *)

\* Mutant: the length is taken to be a single byte.
ReadAfterOne(bytes, at, limit) ==
    LET length == DecodeVarint(bytes, at)
        n      == Number(length.value)
    IN  IF /\ length.ok /\ Sign \notin length.value
           /\ n <= limit /\ n <= Len(bytes) - at
        THEN Decoded(SubSeq(bytes, at + 1, at + n), at + n + 1)
        ELSE Failed

\* What fails is refused, and a position is never past what was read.
ReadBlock(bytes, at, limit) ==
    LET length == DecodeVarint(bytes, at)
        n      == Number(length.value)
    IN  IF /\ length.ok
           /\ Sign \notin length.value
           /\ n <= limit
           /\ n <= Len(bytes) + 1 - length.next
        THEN Decoded(SubSeq(bytes, length.next, length.next + n - 1),
                     length.next + n)
        ELSE Failed

ReadString(bytes, at) == ReadBlock(bytes, at, MaxString)

\* What arrives on the stream, from position at.  A frame that has not arrived
\* in full is waited for and never handed on.
ReadPacket(stream, at) == ReadBlock(stream, at, MaxPacket)

WriteBlock(bytes) == EncodeVarint(ToBits(Len(bytes))) \o bytes

-----------------------------------------------------------------------------
(* Messages. *)

\* Mutant: the port is not looked for before the next state.
ParseWithoutPort(packet) ==
    LET id      == DecodeVarint(packet, 1)
        version == DecodeVarint(packet, id.next)
        address == ReadString(packet, version.next)
        next    == DecodeVarint(packet, address.next)
    IN  IF id.ok /\ version.ok /\ address.ok /\ next.ok
        THEN Decoded([version |-> version.value, address |-> address.value,
                      port |-> <<>>, next |-> next.value], next.next)
        ELSE Failed

\* parse_handshake.  What follows the next state is not looked at.
ParseHandshake(packet) ==
    LET id      == DecodeVarint(packet, 1)
        version == DecodeVarint(packet, id.next)
        address == ReadString(packet, version.next)
        next    == DecodeVarint(packet, address.next + 2)
    IN  IF /\ id.ok /\ id.value = {}
           /\ version.ok
           /\ address.ok
           /\ address.next + 1 <= Len(packet)
           /\ next.ok /\ next.value \in {{0}, {1}}
        THEN Decoded([version |-> version.value, address |-> address.value,
                      port |-> SubSeq(packet, address.next, address.next + 1),
                      next |-> next.value], next.next)
        ELSE Failed

\* A text in a packet of its own, as serve_status and disconnect_login send it.
TextPacket(text) == WriteBlock(EncodeVarint({}) \o WriteBlock(text))

\* serve_status on a client's stream: the status request is answered with the
\* text, and what comes next is sent back if it is a ping.
ServeStatus(stream, text) ==
    LET request == ReadPacket(stream, 1)
        id      == DecodeVarint(request.value, 1)
        ping    == ReadPacket(stream, request.next)
        pong    == ping.ok /\ DecodeVarint(ping.value, 1).ok
                           /\ DecodeVarint(ping.value, 1).value = {0}
    IN  IF request.ok /\ id.ok /\ id.value = {}
        THEN TextPacket(text) \o IF pong THEN WriteBlock(ping.value) ELSE <<>>
        ELSE <<>>
=============================================================================
