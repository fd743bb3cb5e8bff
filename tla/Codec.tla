------------------------------- MODULE Codec -------------------------------
(***************************************************************************)
(* The frame decoders and encoders of src/channel/codec.go, and those of   *)
(* the Message of src/example/request_response.go, as operators on         *)
(* sequences of bytes.  A byte is a number below Base, which is 256 in the *)
(* code.  A Message is the sequence of its Seq, its Type and the bytes of  *)
(* its Value.                                                              *)
(*                                                                         *)
(* A codec is a record: its kind, the lengths and positions that its       *)
(* constructor is given, and its limit.  Decoding gives "more" when the    *)
(* decoder returns (nil, nil), "error" when it returns an error, and       *)
(* otherwise the message and the number of bytes it has read.              *)
(***************************************************************************)
EXTENDS Integers, Sequences, SequencesExt

CONSTANTS
  Base,       (* How many values a byte has.        *)
  CR, LF,     (* The bytes that end a line.         *)
  Delimiter   (* The delimiter of DelimiterDecoder. *)

Bytes == Seq(0..Base - 1)

ASSUME CodecAssumption ==
  /\ Base \in Nat \ {0, 1}
  /\ CR \in 0..Base - 1 /\ LF \in 0..Base - 1 /\ CR # LF
  /\ Delimiter \in Bytes /\ Delimiter # <<>>

More == [status |-> "more"]
TooLarge == [status |-> "error"]
Message(m, n) == [status |-> "message", msg |-> m, used |-> n]

-----------------------------------------------------------------------------
(* Big-endian integers of n bytes; what does not fit is cut off. *)
Power(n) ==
  LET power[i \in 0..n] == IF i = 0 THEN 1 ELSE Base * power[i - 1]
  IN power[n]
Digits(k, n) == [i \in 1..n |-> (k \div Power(n - i)) % Base]
Number(s) ==
  LET value[i \in 0..Len(s)] == IF i = 0 THEN 0 ELSE value[i - 1] * Base + s[i]
  IN value[Len(s)]

(* LengthFieldDecoder, where the length is not negative and the bytes to   *)
(* strip are no more than the frame has.                                   *)
(* LimitTooStrict is a mutant that refuses the largest frame.              *)
LimitTooStrict(c, u) ==
  LET header == c.offset + c.width
      length == Number(SubSeq(u, c.offset + 1, header)) + c.adjust
  IN IF Len(u) < header THEN More
     ELSE IF length >= c.max THEN TooLarge
     ELSE IF Len(u) < header + length THEN More
     ELSE Message(SubSeq(u, c.strip + 1, header + length), header + length)

LengthFieldDecode(c, u) ==
  LET header == c.offset + c.width
      length == Number(SubSeq(u, c.offset + 1, header)) + c.adjust
  IN IF Len(u) < header THEN More
     ELSE IF length > c.max THEN TooLarge
     ELSE IF Len(u) < header + length THEN More
     ELSE Message(SubSeq(u, c.strip + 1, header + length), header + length)

(* LengthFieldEncoder; a pipeline that uses an offset has an encoder of    *)
(* its own for the bytes before the length field.                          *)
LengthFieldEncode(c, m) ==
  LET length == Len(m) + (IF c.includes THEN c.width ELSE 0)
  IN [i \in 1..c.offset |-> 1] \o Digits(length, c.width) \o m

(* The scans of LineDecoder and DelimiterDecoder: the first position that  *)
(* holds the mark, or an error if the scan gets beyond the limit first.    *)
(* ScanUpToMark is a mutant that leaves the mark in the buffer.            *)
ScanUpToMark(u, mark, max) ==
  LET last == Len(u) - Len(mark)
      hits == {i \in 0..last : SubSeq(u, i + 1, i + Len(mark)) = mark}
      first == CHOOSE i \in hits : \A j \in hits : i <= j
  IN IF hits # {} /\ first <= max THEN Message(SubSeq(u, 1, first), first)
     ELSE IF last > max THEN TooLarge
     ELSE More

Scan(u, mark, max) ==
  LET last == Len(u) - Len(mark)
      hits == {i \in 0..last : SubSeq(u, i + 1, i + Len(mark)) = mark}
      first == CHOOSE i \in hits : \A j \in hits : i <= j
  IN IF hits # {} /\ first <= max THEN Message(SubSeq(u, 1, first), first + Len(mark))
     ELSE IF last > max THEN TooLarge
     ELSE More

DelimiterDecode(c, u) == Scan(u, Delimiter, c.max)

(* A carriage return before the line feed is dropped. *)
LineDecode(c, u) ==
  LET r == Scan(u, <<LF>>, c.max)
  IN IF r.status = "message" /\ r.msg # <<>> /\ Last(r.msg) = CR
     THEN Message(Front(r.msg), r.used)
     ELSE r

LineEncode(m) == m \o <<CR, LF>>

(* MessageEncoder and MessageDecoder: two signed integers of c.width bytes *)
(* and all that follows.                                                   *)
Signed(k, n) == IF 2 * k >= Power(n) THEN k - Power(n) ELSE k

MessageEncode(c, m) == Digits(m[1], c.width) \o Digits(m[2], c.width) \o SubSeq(m, 3, Len(m))

(* MessageDecodeUnsigned is a mutant that reads them without their sign.   *)
MessageDecodeUnsigned(c, u) ==
  LET field(i) == Number(SubSeq(u, i * c.width + 1, (i + 1) * c.width))
  IN IF Len(u) < 2 * c.width THEN More
     ELSE Message(<<field(0), field(1)>> \o SubSeq(u, 2 * c.width + 1, Len(u)), Len(u))

MessageDecode(c, u) ==
  LET field(i) == Signed(Number(SubSeq(u, i * c.width + 1, (i + 1) * c.width)), c.width)
  IN IF Len(u) < 2 * c.width THEN More
     ELSE Message(<<field(0), field(1)>> \o SubSeq(u, 2 * c.width + 1, Len(u)), Len(u))

-----------------------------------------------------------------------------
Decode(c, u) ==
  CASE c.kind = "length" -> LengthFieldDecode(c, u)
    [] c.kind = "line" -> LineDecode(c, u)
    [] c.kind = "delimiter" -> DelimiterDecode(c, u)
    [] c.kind = "message" -> MessageDecode(c, u)

(* Nothing in the code encodes delimited messages: the peer does. *)
Encode(c, m) ==
  CASE c.kind = "length" -> LengthFieldEncode(c, m)
    [] c.kind = "line" -> LineEncode(m)
    [] c.kind = "delimiter" -> m \o Delimiter
    [] c.kind = "message" -> MessageEncode(c, m)

(* The chain of decodeAndFire: the first decoder reads the buffer, every   *)
(* other one the bytes that its predecessor returned.  A line is a string  *)
(* and a Message a struct, which the other decoders do not touch.          *)
DecodeChain(codecs, u) ==
  LET Chained(r, c) ==
        LET q == Decode(c, r.msg)
        IN IF q.status = "message" THEN Message(q.msg, r.used) ELSE q
      result[i \in DOMAIN codecs] ==
        IF i = 1 THEN Decode(codecs[1], u)
        ELSE IF \/ result[i - 1].status # "message"
                \/ \E j \in 1..i - 1 : codecs[j].kind \in {"line", "message"}
             THEN result[i - 1]
        ELSE Chained(result[i - 1], codecs[i])
  IN result[Len(codecs)]

(* The encoders of Write, the last of the pipeline first. *)
EncodeChain(codecs, m) ==
  LET bytes[i \in 0..Len(codecs)] ==
        IF i = 0 THEN m ELSE Encode(codecs[Len(codecs) - i + 1], bytes[i - 1])
  IN bytes[Len(codecs)]
=============================================================================
