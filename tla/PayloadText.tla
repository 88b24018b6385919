----------------------------- MODULE PayloadText ----------------------------
(***************************************************************************)
(* Payloads travel as text where the broker wants text: Base64Encode,      *)
(* Base64Url and Base64Decode of PubSubUtil.cpp, EncodePayload and         *)
(* DecodePayload of SqsUtil.cpp, which leave the coding to the AWS SDK and *)
(* check the text themselves.                                              *)
(*                                                                         *)
(* A character is its value 0 .. 63 in the alphabet, Pad, Blank or Other;  *)
(* 62 and 63 stand for either of their two characters.  The loops of       *)
(* Base64Decode read a character in a step.                                *)
(***************************************************************************)
EXTENDS Integers, Sequences, SequencesExt

CONSTANTS
    Payloads,       \* the byte sequences sent
    MaxPayload,     \* the payload limit of Pub/Sub, in bytes
    MaxEncoded      \* MaxEncodedBodyBytes of SQS, in characters

Bytes == 0 .. 255

ASSUME PayloadsAreBytes == Payloads \subseteq Seq(Bytes)

VARIABLES
    coding,         \* which of the codings is used
    payload,        \* what is sent
    text,           \* what travels
    stage,          \* how far it has got
    unread,         \* what the loop at work has not read
    filtered,       \* the text without white space
    accumulator,    \* the bits shifted in
    bits,           \* how many of them have not been taken out
    decoded         \* the bytes taken out

shiftVars == <<accumulator, bits, decoded>>
textVars == <<coding, payload, text, stage, unread, filtered, shiftVars>>

Codings == {"Pub/Sub", "JWT", "SQS"}

Alphabet == 0 .. 63
Pad == 64
Blank == 65
Other == 66

-----------------------------------------------------------------------------
(* The sender                                                              *)

\* Three bytes as one number; missing bytes count as 0.
Group(data, g) ==
    LET Byte(i) == IF i <= Len(data) THEN data[i] ELSE 0
    IN  Byte(3 * g + 1) * 65536 + Byte(3 * g + 2) * 256 + Byte(3 * g + 3)

\* The sextet at a place of a group, which is shifted to the right by 18, 12,
\* 6 or 0.
Sextet(group, place) == (group \div <<262144, 4096, 64, 1>>[place + 1]) % 64

\* Mistake: the last group is always a whole one.
Base64EncodeWholeGroups(data) ==
    [k \in 1 .. 4 * ((Len(data) + 2) \div 3) |->
        Sextet(Group(data, (k - 1) \div 4), (k - 1) % 4)]

\* Three bytes make four characters; each byte missing from the last group
\* leaves "=".
Base64Encode(data) ==
    LET Char(g, place) ==
            IF place > 1 /\ 3 * g + place > Len(data) THEN Pad
            ELSE Sextet(Group(data, g), place)
    IN  [k \in 1 .. 4 * ((Len(data) + 2) \div 3) |-> Char((k - 1) \div 4, (k - 1) % 4)]

\* How many characters are left when "=" is removed from the end, again and
\* again.
Unpadded(chars) ==
    CHOOSE n \in 0 .. Len(chars) :
        /\ \A i \in n + 1 .. Len(chars) : chars[i] = Pad
        /\ n > 0 => chars[n] # Pad

WithoutPadding(chars) == SubSeq(chars, 1, Unpadded(chars))

\* The two characters that differ have the same values.
Base64Url(data) == WithoutPadding(Base64Encode(data))

PrefixSize == 17    \* of graftcode-base64:

\* HashingUtils of the AWS SDK codes in the common way (external).
Encoded(data) == IF coding = "JWT" THEN Base64Url(data) ELSE Base64Encode(data)

TooLong(data) ==
    \/ coding = "Pub/Sub" /\ Len(data) > MaxPayload
    \/ coding = "SQS" /\ PrefixSize + Len(Encoded(data)) > MaxEncoded

Encode ==
    /\ stage = "encoding"
    /\ IF TooLong(payload) THEN stage' = "refused" /\ UNCHANGED text
       ELSE stage' = "sent" /\ text' = Encoded(payload)
    /\ UNCHANGED <<coding, payload, unread, filtered, shiftVars>>

\* Another publisher breaks the lines of the same text (external).
EncodeInLines(place) ==
    /\ stage = "encoding" /\ coding = "Pub/Sub"
    /\ stage' = "sent"
    /\ text' = InsertAt(Base64Encode(payload), place, Blank)
    /\ UNCHANGED <<coding, payload, unread, filtered, shiftVars>>

-----------------------------------------------------------------------------
(* The receiver                                                            *)

IsValidBase64(chars) ==
    /\ Len(chars) % 4 = 0
    /\ \A i \in DOMAIN chars :
           /\ chars[i] \notin {Blank, Other}
           /\ chars[i] = Pad => \A j \in i .. Len(chars) : chars[j] = Pad

Receive ==
    /\ stage = "sent"
    /\ stage' = IF coding = "SQS" /\ ~IsValidBase64(text) THEN "rejected" ELSE "filtering"
    /\ unread' = text
    /\ UNCHANGED <<coding, payload, text, filtered, shiftVars>>

Filter ==
    /\ stage = "filtering" /\ unread # <<>>
    /\ stage' = IF Head(unread) = Other THEN "rejected" ELSE stage
    /\ filtered' = IF Head(unread) \in {Blank, Other} THEN filtered
                   ELSE Append(filtered, Head(unread))
    /\ unread' = Tail(unread)
    /\ UNCHANGED <<coding, payload, text, shiftVars>>

RemovePadding ==
    /\ stage = "filtering" /\ unread = <<>>
    /\ stage' = "decoding"
    /\ unread' = WithoutPadding(filtered)
    /\ UNCHANGED <<coding, payload, text, filtered, shiftVars>>

\* How far the next byte is from the right, when so many bits are left.
ByteAbove(left) == CASE left = 0 -> 1 [] left = 2 -> 4 [] left = 4 -> 16

\* Six bits are shifted in for each character and eight taken out when there
\* are as many; what is shifted further than 12 bits is not read again.
Shift ==
    /\ stage = "decoding" /\ unread # <<>>
    /\ IF Head(unread) = Pad
       THEN stage' = "rejected" /\ UNCHANGED shiftVars
       ELSE /\ accumulator' = (accumulator * 64 + Head(unread)) % 4096
            /\ bits' = IF bits + 6 < 8 THEN bits + 6 ELSE bits - 2
            /\ decoded' = IF bits + 6 < 8 THEN decoded
                          ELSE Append(decoded, (accumulator' \div ByteAbove(bits')) % 256)
            /\ UNCHANGED stage
    /\ unread' = Tail(unread)
    /\ UNCHANGED <<coding, payload, text, filtered>>

Return ==
    /\ stage = "decoding" /\ unread = <<>>
    /\ stage' = IF coding = "SQS" /\ decoded = <<>> /\ text # <<>>
                THEN "rejected" ELSE "decoded"
    /\ UNCHANGED <<coding, payload, text, unread, filtered, shiftVars>>

-----------------------------------------------------------------------------

TextInit ==
    /\ coding \in Codings
    /\ payload \in Payloads
    /\ text = <<>>
    /\ stage = "encoding"
    /\ unread = <<>>
    /\ filtered = <<>>
    /\ accumulator = 0
    /\ bits = 0
    /\ decoded = <<>>

TextNext ==
    \/ Encode
    \/ \E place \in 1 .. Len(Base64Encode(payload)) + 1 : EncodeInLines(place)
    \/ Receive \/ Filter \/ RemovePadding \/ Shift \/ Return

TextSpec == TextInit /\ [][TextNext]_textVars

-----------------------------------------------------------------------------

\* PreservesArbitraryBinaryData and SupportsEmptyPayloadAndMissingPadding, the
\* tests of both plugins: what was encoded is accepted and decoded to the same
\* bytes, for every remainder of the length by three, with padding or without,
\* and in broken lines.
DecodingInvertsEncoding ==
    /\ stage # "rejected"
    /\ stage = "decoded" => decoded = payload
=============================================================================
