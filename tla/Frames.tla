-------------------------------- MODULE Frames --------------------------------
(***************************************************************************)
(* The frame that carries a message between a shell and its agent          *)
(* (ssm/agent-message.ts): fixed fields at fixed offsets, big-endian, then *)
(* the payload.  A byte is a digit below Base, so that a number that takes *)
(* two words stays small.                                                  *)
(*                                                                         *)
(* The agent sends a message, its frame may arrive cut short, the client   *)
(* reads it and acknowledges it in a frame of its own.                     *)
(***************************************************************************)
EXTENDS Integers, Sequences, FiniteSetsExt

CONSTANTS
    Base,      \* 256
    Messages,  \* what the agent sends: [type, schema, created, seq, flags, id, ptype, payload]
    Cuts       \* bound: the lengths a frame is cut to

\* Three of the digits, in texts.
Space == 0
Nul   == 1
Word  == Base * Base * Base * Base
Byte  == 0 .. Base - 1
U32   == 0 .. Word - 1
U64   == 0 .. Word * Word - 1

ASSUME FrameConstants ==
    /\ Base \in Nat /\ Base > 3 /\ Cuts \subseteq Nat
    /\ Messages \subseteq [type : Seq(Byte \ {Space, Nul}), schema : U32, created : U64, seq : U64, flags : U64,
                            id : Seq(Byte), ptype : U32, payload : Seq(Byte)]
    /\ \A msg \in Messages : Len(msg.type) <= 32 /\ Len(msg.id) = 16 /\ Len(msg.payload) \in U32

VARIABLES
    message,   \* what the agent sent
    wire,      \* its frame
    got,       \* what the client read, <<>> if nothing
    acked,     \* the acknowledgement the agent read, <<>> if none
    received   \* "sent", "cut", "read", "rejected", "acked"

frameVars == <<message, wire, got, acked, received>>
-----------------------------------------------------------------------------
\* Where each field is.
Offset == [HL |-> 0, MSGTYPE |-> 4, SCHEMA |-> 36, CREATED |-> 40, SEQ |-> 48, FLAGS |-> 56,
           MSGID |-> 64, DIGEST |-> 80, PTYPE |-> 112, PLEN |-> 116, PAYLOAD |-> 120]

\* setUint32, which keeps the low word, and getUint32 of the bytes before a payload.
SetU32(x) == LET low == x % Word IN
    <<low \div (Base * Base * Base), (low \div (Base * Base)) % Base, (low \div Base) % Base, low % Base>>
GetU32(bytes, o) ==
    ((bytes[o + 1] * Base + bytes[o + 2]) * Base + bytes[o + 3]) * Base + bytes[o + 4]

\* setU64 and getU64: two words.
SetU64(x)        == SetU32(x \div Word) \o SetU32(x)
GetU64(bytes, o) == GetU32(bytes, o) * Word + GetU32(bytes, o + 4)

\* writeUuidSwapped and readUuidSwapped: the last eight bytes first.
Swapped(id) == SubSeq(id, 9, 16) \o SubSeq(id, 1, 8)

\* SHA-256, which nobody checks on arrival: some 32 bytes.
Digest32(payload) == [n \in 1 .. 32 |-> Len(payload) % Base]

\* serialize: each write is of some bytes at an offset, and the last one stands.
WritesOf(msg) ==
    << <<Offset.HL, SetU32(Offset.PLEN)>>,
       <<Offset.MSGTYPE, [n \in 1 .. 32 |-> Space]>>, <<Offset.MSGTYPE, msg.type>>,
       <<Offset.SCHEMA, SetU32(msg.schema)>>, <<Offset.CREATED, SetU64(msg.created)>>,
       <<Offset.SEQ, SetU64(msg.seq)>>, <<Offset.FLAGS, SetU64(msg.flags)>>,
       <<Offset.MSGID, Swapped(msg.id)>>, <<Offset.DIGEST, Digest32(msg.payload)>>,
       <<Offset.PTYPE, SetU32(msg.ptype)>>, <<Offset.PLEN, SetU32(Len(msg.payload))>>,
       <<Offset.PAYLOAD, msg.payload>> >>

Serialize(msg) ==
    LET writes == WritesOf(msg)
        covers(k, n) == n \in writes[k][1] + 1 .. writes[k][1] + Len(writes[k][2])
    IN  [n \in 1 .. Offset.PAYLOAD + Len(msg.payload) |->
            LET over == {k \in DOMAIN writes : covers(k, n)} IN
            IF over = {} THEN 0 ELSE LET k == Max(over) IN writes[k][2][n - writes[k][1]]]

\* subarray, which stops at the end of what there is.
Slice(bytes, o, len) == SubSeq(bytes, o + 1, Min({o + len, Len(bytes)}))

\* The text without its padding, which no type has inside.
Trimmed(bytes) ==
    LET text == {n \in DOMAIN bytes : bytes[n] \notin {Space, Nul}}
    IN  IF text = {} THEN <<>> ELSE SubSeq(bytes, Min(text), Max(text))

\* A read beyond the end throws.
TooShort(bytes) == Len(bytes) < Offset.PAYLOAD

\* deserialize
Deserialize(bytes) ==
    [type |-> Trimmed(Slice(bytes, Offset.MSGTYPE, 32)), schema |-> GetU32(bytes, Offset.SCHEMA),
     created |-> GetU64(bytes, Offset.CREATED), seq |-> GetU64(bytes, Offset.SEQ), flags |-> GetU64(bytes, Offset.FLAGS),
     id |-> Swapped(Slice(bytes, Offset.MSGID, 16)), ptype |-> GetU32(bytes, Offset.PTYPE),
     payload |-> Slice(bytes, Offset.PAYLOAD, GetU32(bytes, Offset.PLEN))]

\* acknowledgeContent, as the agent reads it back.
AcknowledgeContent(msg) == [type |-> msg.type, id |-> msg.id, seq |-> msg.seq]
-----------------------------------------------------------------------------
FrameInit ==
    /\ message \in Messages /\ got = <<>> /\ acked = <<>> /\ received = "sent"
    /\ \E pad \in {Space, Nul} :    \* other senders fill the type with NULs
         wire = [n \in DOMAIN Serialize(message) |->
                    IF n \in Offset.MSGTYPE + Len(message.type) + 1 .. Offset.SCHEMA THEN pad ELSE Serialize(message)[n]]

\* What arrives is not the whole frame.
FrameCut(n) ==
    /\ received = "sent" /\ n < Len(wire)
    /\ wire' = SubSeq(wire, 1, n) /\ received' = "cut" /\ UNCHANGED <<message, got, acked>>

\* onMessage
FrameArrives ==
    /\ received \in {"sent", "cut"}
    /\ IF TooShort(wire) THEN received' = "rejected" /\ UNCHANGED got
       ELSE received' = "read" /\ got' = Deserialize(wire)
    /\ UNCHANGED <<message, wire, acked>>

\* sendAck, for output alone; its frame arrives whole.
FrameAcked ==
    /\ received = "read" /\ received' = "acked"
    /\ acked' = AcknowledgeContent(got) /\ UNCHANGED <<message, wire, got>>

FrameNext == (\E n \in Cuts : FrameCut(n)) \/ FrameArrives \/ FrameAcked
FrameSpec == FrameInit /\ [][FrameNext]_frameVars
-----------------------------------------------------------------------------
(***************************************************************************)
(* What is read is what was sent: every field, at the edges of its words   *)
(* too, and every byte of the payload; of a frame that was cut, nothing,   *)
(* or all fields and the payload's beginning.  The acknowledgement names   *)
(* the message it is for (agent-message.ts:108-156).                       *)
(***************************************************************************)
FramesAreFaithful ==
    /\ got # <<>> =>
         /\ [got EXCEPT !.payload = message.payload] = message
         /\ got.payload = SubSeq(message.payload, 1, Len(wire) - Offset.PAYLOAD)
    /\ received = "rejected" => Len(wire) < Offset.PAYLOAD
    /\ received = "acked" => acked = [type |-> message.type, id |-> message.id, seq |-> message.seq]
=============================================================================
