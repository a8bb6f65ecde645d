----------------------------- MODULE ServerData -----------------------------
(***************************************************************************)
(* What lora_pkt_communicate does with the messages of the server: the     *)
(* receiver looks for their ends (0x7e) in each piece of the TCP stream,   *)
(* Server_Ack_Report_Data puts the parts of an answer together and cuts it *)
(* into packets a LoRaWAN frame can carry, Server_Class_C_Data and         *)
(* Debug_ClassA_Node pass theirs on, each to a UDP port of lora_pkt_fwd.   *)
(*                                                                         *)
(* A message is two cells of the stream, the second with its end.  The     *)
(* bytes of answer a are <<a, 1>>, <<a, 2>>, ...; None is any other byte.  *)
(* The specification is DataSpec: with the Spec of DataLink, whose         *)
(* variables are others, it makes up lora_pkt_communicate.                 *)
(***************************************************************************)
EXTENDS Integers, Sequences

CONSTANTS
    Shape,      \* lengths of answers and of the server's parts: <<length, part>>,
                \* the part 0 if the server sends it whole
    Uplinked,   \* frequency in Hz and data rate of confirmed uplinks
    Garbage,    \* what an uninitialised maxpayload may be
    Size,       \* bytes of ServerAckData, 5000
    LenMod,     \* values of sum_len, 65536
    MaxAnswers, \* bound on answers
    MaxOther,   \* bound on other messages
    MaxUplinks  \* bound on uplinks

ASSUME ServerDataAssumption ==
    /\ Shape \subseteq (Nat \ {0}) \X Nat
    /\ Uplinked \subseteq Nat \X Nat
    /\ Garbage \subseteq Int
    /\ Size \in Nat /\ LenMod \in Nat /\ Size < LenMod
    /\ MaxAnswers \in Nat /\ MaxOther \in Nat /\ MaxUplinks \in Nat

VARIABLES
    stream,     \* the TCP stream: cells the receiver has not dealt with yet
    piece,      \* how many of them it has received
    store,      \* ServerAckData
    sumLen,     \* sum_len
    confirmed,  \* Confirmed_Data: frequency and data rate of the last confirmed one
    out,        \* what was sent, per handled message: port, packets, max, fit
    clean,      \* no part of an answer has been dropped since the last clearing
    shapes,     \* the answers of the server so far
    running,      \* the process has not crashed; that it is started again is left out
    others, uplinks

serverVars == <<shapes, others, uplinks>>
dataVars == <<stream, piece, store, sumLen, confirmed, out, clean, running, serverVars>>

None == <<0, 0>>
Byte == ((1..MaxAnswers) \X (Nat \ {0})) \union {None}
Message == [kind : {"whole", "part", "classC", "debug", "other"}, ans : 0..MaxAnswers,
            type : 0..3, number : Nat, sum : Nat, bytes : Seq(Byte)]
Cell == [msg : Message, end : BOOLEAN]
Record == [port : {5557, 5558, 5560}, ans : 0..MaxAnswers,
           packets : Seq(Seq(Byte)), max : Int, fit : {"yes", "no", "last", "over"}]

DataTypeOK ==
    /\ stream \in Seq(Cell) /\ piece \in 0..Len(stream)
    /\ store \in [1..Size -> Byte] /\ sumLen \in 0..LenMod-1
    /\ confirmed \in Nat \X Nat
    /\ out \in Seq(Record)
    /\ clean \in BOOLEAN /\ running \in BOOLEAN
    /\ shapes \in Seq(Shape) /\ Len(shapes) <= MaxAnswers
    /\ others \in 0..MaxOther /\ uplinks \in 0..MaxUplinks

Empty == [i \in 1..Size |-> None]

DataInit ==
    /\ stream = << >> /\ piece = 0
    /\ store = Empty /\ sumLen = 0
    /\ confirmed = <<0, 0>>
    /\ out = << >> /\ clean = TRUE /\ running = TRUE
    /\ shapes = << >> /\ others = 0 /\ uplinks = 0

-----------------------------------------------------------------------------
(* CalculateDownlinkMaxpayload.  The tests of the frequency follow each    *)
(* other and the last that holds decides; 0 stands for a data rate, or a   *)
(* frequency, for which nothing is assigned.                               *)

Band == <<
    <<863000000, 870000000, <<51, 51, 51, 115, 222, 222, 222, 222>> >>,
    <<902000000, 928000000, <<11, 53, 125, 242, 242, 0, 0, 0, 33, 109, 222, 222, 222, 222>> >>,
    <<779000000, 787000000, <<51, 51, 51, 115, 222, 222, 242, 222>> >>,
    <<433000000, 433000000, <<51, 51, 51, 115, 222, 222, 222, 222>> >>,
    <<915000000, 928000000, <<51, 51, 51, 115, 222, 222, 222, 0, 33, 109, 222, 222, 222, 222>> >>,
    <<470000000, 510000000, <<51, 51, 51, 115, 222, 222>> >>,
    <<923000000, 923000000, <<59, 59, 59, 123, 250, 250, 250, 250>> >>,
    <<920000000, 922999999, <<51, 51, 51, 115, 222, 222>> >>,
    <<865000000, 867000000, <<59, 59, 59, 123, 250, 250, 250, 250>> >> >>

Region(f) == {i \in DOMAIN Band : Band[i][1] <= f /\ f <= Band[i][2]}

Assigned(f, dr) ==
    IF Region(f) = {} THEN 0
    ELSE LET sizes == Band[CHOOSE i \in Region(f) : \A j \in Region(f) : j <= i][3]
         IN  IF dr + 1 \in DOMAIN sizes THEN sizes[dr + 1] ELSE 0

MaxPayloads ==
    LET size == Assigned(confirmed[1], confirmed[2]) IN IF size = 0 THEN Garbage ELSE {size}

-----------------------------------------------------------------------------
(* The server and the uplinks.                                             *)

Msg(k, a, t, n, s, b) ==
    [kind |-> k, ans |-> a, type |-> t, number |-> n, sum |-> s, bytes |-> b]

Content(a, len) == [i \in 1..len |-> <<a, i>>]

Least(a, b) == IF a < b THEN a ELSE b

\* The pieces of at most n bytes of b.
Pieces(b, n) ==
    [k \in 1..((Len(b) + n - 1) \div n) |-> SubSeq(b, (k - 1) * n + 1, Least(k * n, Len(b)))]

Messages(a, shape, type) ==
    LET bytes == Content(a, shape[1])
        parts == Pieces(bytes, shape[2])
    IN  IF shape[2] = 0 THEN <<Msg("whole", a, type, 0, 0, bytes)>>
        ELSE [k \in DOMAIN parts |-> Msg("part", a, type, k, Len(parts), parts[k])]

InStream(msgs) ==
    stream' = stream \o [i \in 1..2 * Len(msgs) |->
                            [msg |-> msgs[(i + 1) \div 2], end |-> i % 2 = 0]]

ServerAnswers ==
    /\ Len(shapes) < MaxAnswers
    /\ \E shape \in Shape, type \in {2, 3} :
         /\ InStream(Messages(Len(shapes) + 1, shape, type))
         /\ shapes' = Append(shapes, shape)
    /\ UNCHANGED <<piece, store, sumLen, confirmed, out, clean, running, others, uplinks>>

\* Answers to joins (whole, no data), class C data, class A debug data, and
\* types nobody handles.
ServerSends ==
    /\ others < MaxOther
    /\ others' = others + 1
    /\ \E x \in {Msg("whole", 0, 1, 0, 0, << >>), Msg("whole", 0, 3, 0, 0, << >>),
                 Msg("classC", 0, 2, 0, 0, <<None>>), Msg("debug", 0, 0, 0, 0, <<None>>),
                 Msg("other", 0, 0, 0, 0, << >>)} :
         InStream(<<x>>)
    /\ UNCHANGED <<piece, store, sumLen, confirmed, out, clean, running, shapes, uplinks>>

\* Thread_Send_NodeData keeps frequency and data rate of a confirmed uplink,
\* not of an unconfirmed one.
UplinkPasses ==
    /\ running /\ uplinks < MaxUplinks
    /\ uplinks' = uplinks + 1
    /\ confirmed' \in Uplinked \/ UNCHANGED confirmed
    /\ UNCHANGED <<stream, piece, store, sumLen, out, clean, running, shapes, others>>

-----------------------------------------------------------------------------
(* The receiver.  It takes what has come when it has dealt with what came  *)
(* before, and handles one message after the other.                        *)

Receive ==
    /\ running /\ piece = 0
    /\ \E n \in 1..Len(stream) : stream[n].end /\ piece' = n
    /\ UNCHANGED <<stream, store, sumLen, confirmed, out, clean, running, serverVars>>

\* A piece that does not end with the end of a message is dropped.
RecvDataError ==
    /\ running /\ piece = 0
    /\ \E n \in 1..Len(stream) :
         /\ ~stream[n].end
         /\ stream' = SubSeq(stream, n + 1, Len(stream))
         /\ clean' = (clean /\ \A i \in 1..n : stream[i].msg.kind # "part")
    /\ UNCHANGED <<piece, store, sumLen, confirmed, out, running, serverVars>>

\* Mutant: head is not moved on.
HeadStays(n) ==
    stream' = SubSeq(stream, n + 1, Len(stream)) /\ piece' = piece

HeadMoves(n) ==
    stream' = SubSeq(stream, n + 1, Len(stream)) /\ piece' = piece - n

m == stream[1].msg

\* The rest of a message, whose first half was dropped, fails the check of the XOR.
MicError ==
    /\ running /\ piece > 0 /\ stream[1].end
    /\ HeadMoves(1)
    /\ clean' = (clean /\ m.kind # "part")
    /\ UNCHANGED <<store, sumLen, confirmed, out, running, serverVars>>

Handle_Message_Type(kind) ==
    /\ running /\ piece > 0 /\ ~stream[1].end /\ m.kind = kind
    /\ HeadMoves(2)

Passes(port, a, packets, max, fit) ==
    /\ out' = Append(out, [port |-> port, ans |-> a, packets |-> packets, max |-> max, fit |-> fit])
    /\ UNCHANGED running

\* n bytes cut by a maximum that is not positive: the division by 0 and copying
\* a negative number of bytes kill the process.
Crashes(n, max) ==
    n > 0 /\ (max = 0 \/ (max < 0 /\ LET size == 0 - max IN n % size = 0 \/ n > 2 * size))

\* packet_sum has 16 bits: a negative maximum gives one packet or none.
Packets(b, max) ==
    IF max > 0 THEN Pieces(b, max)
    ELSE IF b # << >> /\ Len(b) < 0 - max THEN <<b>>
    ELSE << >>

Cuts(b, max, fit) ==
    IF Crashes(Len(b), max) THEN running' = FALSE /\ UNCHANGED out
    ELSE Passes(5557, m.ans, Packets(b, max), max, fit)

\* data + 30 for an answer in one message, whose data starts at 26.
FromByte30 ==
    [i \in 1..Len(m.bytes) |-> IF i + 4 <= Len(m.bytes) THEN m.bytes[i + 4] ELSE None]

\* fits: the answer is within a frame.
Whole ==
    /\ Handle_Message_Type("whole")
    /\ \E max \in MaxPayloads :
         IF Len(m.bytes) > max
           THEN Cuts(FromByte30, max, "no")
           ELSE IF m.type \in {2, 3} /\ m.bytes # << >>
                  THEN Passes(5557, m.ans, <<m.bytes>>, max, "yes")
                  ELSE UNCHANGED <<out, running>>
    /\ UNCHANGED <<store, sumLen, confirmed, clean, serverVars>>

\* Mutant: the first part goes where the second belongs.
OffsetFrom1 == m.number * Len(m.bytes)

\* ServerAckData + (server_number - 1) * value_len
Offset == (m.number - 1) * Len(m.bytes)

\* What is written behind the end of ServerAckData is lost.
Copied ==
    [i \in 1..Size |-> IF i - 1 \in Offset..(Offset + Len(m.bytes) - 1)
                         THEN m.bytes[i - Offset] ELSE store[i]]

Total == (sumLen + Len(m.bytes)) % LenMod

Part ==
    /\ Handle_Message_Type("part") /\ m.number # m.sum
    /\ store' = Copied
    /\ sumLen' = Total
    /\ UNCHANGED <<confirmed, out, clean, running, serverVars>>

\* What is read as the first n bytes of ServerAckData.
FirstBytes(n) == [i \in 1..n |-> IF i <= Size THEN Copied[i] ELSE None]

\* All parts have the same length, none was dropped, and they fit ServerAckData.
Complete ==
    clean /\ m.sum * Len(m.bytes) = shapes[m.ans][1] /\ shapes[m.ans][1] <= Size

\* sum_len is less than what has come.
Overflows == sumLen + Len(m.bytes) >= LenMod

\* Of an answer that, by sum_len, is within a frame only the last part is sent,
\* also when all of its parts are there.
LastPart ==
    /\ Handle_Message_Type("part") /\ m.number = m.sum
    /\ \E max \in MaxPayloads :
         IF Total > max
           THEN Cuts(FirstBytes(Total), max, IF Complete /\ max > 0 THEN "yes" ELSE "no")
           ELSE Passes(5557, m.ans, <<m.bytes>>, max, IF Overflows THEN "over" ELSE "last")
    /\ store' = Empty /\ sumLen' = 0 /\ clean' = TRUE
    /\ UNCHANGED <<confirmed, serverVars>>

ClassC ==
    /\ Handle_Message_Type("classC")
    /\ Passes(5558, 0, <<m.bytes>>, 0, "no")
    /\ UNCHANGED <<store, sumLen, confirmed, clean, serverVars>>

\* send_len is not initialised: the data may be behind the device's DevEui,
\* where it belongs, or elsewhere.
Debug ==
    /\ Handle_Message_Type("debug")
    /\ \E hole \in {0, 1} : Passes(5560, 0, <<[i \in 1..hole |-> None] \o m.bytes>>, 0, "no")
    /\ UNCHANGED <<store, sumLen, confirmed, clean, serverVars>>

Unhandled ==
    /\ Handle_Message_Type("other")
    /\ UNCHANGED <<store, sumLen, confirmed, out, clean, running, serverVars>>

DataNext ==
    \/ ServerAnswers \/ ServerSends \/ UplinkPasses
    \/ Receive \/ RecvDataError \/ MicError
    \/ Whole \/ Part \/ LastPart \/ ClassC \/ Debug \/ Unhandled

DataSpec == DataInit /\ [][DataNext]_dataVars

-----------------------------------------------------------------------------

Passed == {k \in DOMAIN out : out[k].port = 5557}

\* Packet after packet, from its first byte to its last, is answer a.
IsAnswer(packets, max, a) ==
    /\ \A j \in DOMAIN packets : \A i \in DOMAIN packets[j] :
          packets[j][i] = <<a, (j - 1) * max + i>>
    /\ \A j \in 1..Len(packets) - 1 : Len(packets[j]) = max
    /\ (Len(packets) - 1) * max + Len(packets[Len(packets)]) = shapes[a][1]

\* The one packet is the end of answer a.
IsEnd(packets, a) ==
    /\ Len(packets) = 1
    /\ \A i \in DOMAIN packets[1] :
          packets[1][i] = <<a, shapes[a][1] - Len(packets[1]) + i>>

\* Whatever was received, in however many pieces and parts, before: an answer
\* that is sent whole and is within a frame, or that came in parts of one length
\* which all arrived and are longer than a frame, reaches lora_pkt_fwd with each
\* of its bytes once and in order.
DeliveredExactly ==
    \A k \in Passed : out[k].fit = "yes" => IsAnswer(out[k].packets, out[k].max, out[k].ans)

\* Of an answer in parts that together are within a frame its end is delivered,
\* as long as the last part.
EndDelivered ==
    \A k \in Passed : out[k].fit = "last" => IsEnd(out[k].packets, out[k].ans)

\* And no packet is longer than what the region and data rate of the last
\* confirmed uplink allow, unless sum_len, of 16 bits, has just overflowed or
\* the limit was never assigned and is not positive.
PacketsFit ==
    \A k \in Passed : out[k].fit # "over" /\ out[k].max > 0 =>
        \A j \in DOMAIN out[k].packets : Len(out[k].packets[j]) <= out[k].max

Delivered == DeliveredExactly /\ EndDelivered /\ PacketsFit
=============================================================================
