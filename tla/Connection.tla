----------------------------- MODULE Connection -----------------------------
(***************************************************************************)
(* One direction of a connection (src/channel/context.go): the goroutines  *)
(* of ChannelContext.Write at one end, the byte stream, and ReadLoop       *)
(* with decodeAndFire at the other, using the codecs of Codec.             *)
(*                                                                         *)
(* The stream delivers its bytes in chunks of any size.  Decoding is a     *)
(* step for each message, between which the reading goroutine runs the     *)
(* handlers.                                                               *)
(***************************************************************************)
EXTENDS Codec

CONSTANTS
  Msgs,       (* The messages that may be written, each once.     *)
  Pipelines   (* Sequences of codecs, the same at both ends.      *)

(* A message that the last encoder, which gets it first, does not take is  *)
(* not sent.                                                               *)
Encodable(cs, m) ==
  IF cs # <<>> /\ Last(cs).kind = "message"
  THEN Len(m) >= 2
  ELSE \A i \in DOMAIN m : m[i] \in 0..Base - 1

(* What the two ends have to agree on.  All codecs but the last pass bytes *)
(* on, and the first one finds the frames.  Only a single one may leave    *)
(* its header in the frame.  A length fits its field, a delimited message  *)
(* does not hold its delimiter, nor a line a line feed, and the numbers of *)
(* a Message fit theirs.                                                   *)
Codecs ==
  [kind : {"length"}, offset : Nat, width : Nat \ {0}, includes : BOOLEAN, adjust : Int,
   strip : Nat, max : Int]
  \cup [kind : {"line", "delimiter"}, max : Int]
  \cup [kind : {"message"}, width : Nat \ {0}]

Usable(cs) ==
  /\ cs \in Seq(Codecs)
  /\ \A i \in 1..Len(cs) :
       /\ cs[i].kind = "length" =>
            /\ cs[i].adjust = IF cs[i].includes THEN -cs[i].width ELSE 0
            /\ cs[i].strip = cs[i].offset + cs[i].width \/ (Len(cs) = 1 /\ cs[i].strip = 0)
       /\ cs[i].kind \in {"line", "message"} => i = Len(cs)
       /\ cs[i].kind = "message" => i # 1

Takes(c, x) ==
  CASE c.kind = "length" ->
         x \in Bytes /\ Len(x) + (IF c.includes THEN c.width ELSE 0) < Power(c.width)
    [] c.kind = "line" ->
         x \in Bytes /\ \A i \in 1..Len(x) : x[i] # LF
    [] c.kind = "delimiter" ->
         /\ x \in Bytes
         /\ \A i \in 0..Len(x) - 1 : SubSeq(x \o Delimiter, i + 1, i + Len(Delimiter)) # Delimiter
    [] c.kind = "message" ->
         /\ Len(x) >= 2
         /\ \A i \in 1..2 : -Power(c.width) <= 2 * x[i] /\ 2 * x[i] < Power(c.width)
         /\ \A i \in 3..Len(x) : x[i] \in 0..Base - 1

ASSUME ConnectionAssumption ==
  /\ Msgs \subseteq Seq(Int)
  /\ \A cs \in Pipelines :
       /\ Usable(cs)
       /\ \A m \in Msgs : Encodable(cs, m) =>
            \A i \in 1..Len(cs) : Takes(cs[i], EncodeChain(SubSeq(cs, i + 1, Len(cs)), m))

VARIABLES
  codecs,     (* The pipeline.                                           *)
  stream,     (* The bytes written and not read.                         *)
  buffer,     (* readBuffer: data and readIndex.                         *)
  reader,     (* Where ReadLoop is.                                      *)
  fired,      (* The messages that reached the handlers, in order.       *)
  errors,     (* How often OnError was called.                           *)
  sent        (* History: the messages written to the socket, in order.  *)

vars == <<codecs, stream, buffer, reader, fired, errors, sent>>

Init ==
  /\ codecs \in Pipelines
  /\ stream = <<>>
  /\ buffer = [data |-> <<>>, readIndex |-> 0]
  /\ reader = "reading"
  /\ fired = <<>>
  /\ errors = 0
  /\ sent = <<>>

-----------------------------------------------------------------------------
(* The goroutine that a Write started runs the encoders and conn.Write,    *)
(* which takes a message as a whole.  Nothing orders it after the          *)
(* goroutines of earlier Writes, and an outbound handler may fail or       *)
(* consume the message, which is then not sent.                            *)
Write(m) ==
  /\ ~Contains(sent, m)
  /\ Encodable(codecs, m)
  /\ stream' = stream \o EncodeChain(codecs, m)
  /\ sent' = Append(sent, m)
  /\ UNCHANGED <<codecs, buffer, reader, fired, errors>>

-----------------------------------------------------------------------------
Unread(b) == SubSeq(b.data, b.readIndex + 1, Len(b.data))
Skip(b, n) == [b EXCEPT !.readIndex = @ + n]

(* CompactHalf is a mutant that keeps the index. *)
CompactHalf(b) == [b EXCEPT !.data = Unread(b)]
Compact(b) == [data |-> Unread(b), readIndex |-> 0]

Reader(from, to) ==
  /\ reader = from
  /\ reader' = to
  /\ UNCHANGED <<codecs, sent>>

(* conn.Read returns some of the bytes. *)
Read ==
  /\ Reader("reading", "decoding")
  /\ \E n \in 1..Len(stream) :
       /\ buffer' = [buffer EXCEPT !.data = @ \o SubSeq(stream, 1, n)]
       /\ stream' = SubSeq(stream, n + 1, Len(stream))
  /\ UNCHANGED <<fired, errors>>

(* The peer has closed, or the connection broke; the latter calls OnError. *)
ReadEnds ==
  /\ Reader("reading", "ended")
  /\ errors' \in {errors, errors + 1}
  /\ UNCHANGED <<stream, buffer, fired>>

(* FireMessage calls the handlers, and ReadLoop goes on; or one of them    *)
(* fails, which calls OnError here and once more in ReadLoop.              *)
Fire(m, next) ==
  /\ reader = "decoding"
  /\ fired' = Append(fired, m)
  /\ \/ reader' = next /\ errors' = errors
     \/ reader' = "ended" /\ errors' = errors + 2
  /\ UNCHANGED <<codecs, sent, stream>>

(* Without decoders the unread bytes are the message.  Compact does        *)
(* nothing, since nothing has advanced the index.                          *)
PassRaw ==
  /\ codecs = <<>>
  /\ Fire(Unread(buffer), "reading")
  /\ buffer' = Compact(buffer)

(* The buffer is used up, or the decoders need more data.                  *)
(* WaitAtOnce is a mutant that also waits after every message.             *)
WaitAtOnce ==
  /\ codecs # <<>>
  /\ Unread(buffer) = <<>> \/ buffer.readIndex > 0 \/ DecodeChain(codecs, Unread(buffer)) = More
  /\ Reader("decoding", "reading")
  /\ buffer' = Compact(buffer)
  /\ UNCHANGED <<stream, fired, errors>>

NeedMore ==
  /\ codecs # <<>>
  /\ Unread(buffer) = <<>> \/ DecodeChain(codecs, Unread(buffer)) = More
  /\ Reader("decoding", "reading")
  /\ buffer' = Compact(buffer)
  /\ UNCHANGED <<stream, fired, errors>>

DecodeFails ==
  /\ codecs # <<>>
  /\ Unread(buffer) # <<>>
  /\ DecodeChain(codecs, Unread(buffer)) = TooLarge
  /\ Reader("decoding", "ended")
  /\ errors' = errors + 1
  /\ UNCHANGED <<stream, buffer, fired>>

DecodeMessage ==
  /\ codecs # <<>>
  /\ Unread(buffer) # <<>>
  /\ LET r == DecodeChain(codecs, Unread(buffer))
     IN /\ r.status = "message"
        /\ buffer' = Skip(buffer, r.used)
        /\ Fire(r.msg, "decoding")

-----------------------------------------------------------------------------
DecodeAndFire == PassRaw \/ NeedMore \/ DecodeFails \/ DecodeMessage

Next ==
  \/ \E m \in Msgs : Write(m)
  \/ Read \/ ReadEnds \/ DecodeAndFire

Spec == Init /\ [][Next]_vars

-----------------------------------------------------------------------------
TypeOK ==
  /\ codecs \in Pipelines
  /\ stream \in Bytes
  /\ buffer \in [data : Bytes, readIndex : Nat] /\ buffer.readIndex <= Len(buffer.data)
  /\ reader \in {"reading", "decoding", "ended"}
  /\ fired \in Seq(Seq(Int))
  /\ errors \in Nat
  /\ sent \in Seq(Msgs)

(* The bytes of the first k messages, how many they are, and how many      *)
(* messages have been read to their last byte.                             *)
Written(k) ==
  LET upTo[i \in 0..k] == IF i = 0 THEN <<>> ELSE upTo[i - 1] \o EncodeChain(codecs, sent[i])
  IN upTo[k]
Boundary(k) == Len(Written(k))
Received == Boundary(Len(sent)) - Len(stream)
Complete == CHOOSE k \in 0..Len(sent) :
              Boundary(k) <= Received /\ \A j \in k + 1..Len(sent) : Boundary(j) > Received

(* What the receiver's handlers should be given for a message, and whether *)
(* the limits of the decoders admit it.                                    *)
Expected(cs, m) ==
  IF cs[1].kind = "length" /\ cs[1].strip = 0
  THEN EncodeChain(cs, m)
  ELSE m

Fits(cs, m) ==
  \A i \in DOMAIN cs :
    LET rest == EncodeChain(SubSeq(cs, i + 1, Len(cs)), m)
    IN cs[i].kind # "message" =>
       Len(rest) + (IF cs[i].kind = "line" THEN 1 ELSE 0) <= cs[i].max

(* However the stream is cut into chunks, the handlers are given exactly   *)
(* the messages that were written, whole, once and in the order in which   *)
(* they were written to the socket, and never one that is too large.       *)
DeliveredAsSent ==
  codecs # <<>> =>
    /\ Len(fired) <= Complete
    /\ \A i \in DOMAIN fired : fired[i] = Expected(codecs, sent[i]) /\ Fits(codecs, sent[i])

(* When ReadLoop waits for more bytes, every message that has arrived as a *)
(* whole has been given to the handlers, and the buffer holds the bytes of *)
(* the incomplete one and no others: it does not grow with the connection. *)
(* Without decoders ("pass raw bytes") the handlers have just been given   *)
(* all bytes that ever arrived, in their order: none is lost, but those of *)
(* earlier reads come again with each read, because nothing takes them out *)
(* of the buffer.                                                          *)
Arrived == SubSeq(Written(Len(sent)), 1, Received)
NothingHeldBack ==
  reader = "reading" =>
    IF codecs # <<>>
    THEN /\ Len(fired) = Complete
         /\ buffer.readIndex = 0
         /\ Len(buffer.data) = Received - Boundary(Len(fired))
    ELSE Received > 0 => Last(fired) = Arrived

(* A decoder fails only on a message beyond its limit, at the latest when  *)
(* it has arrived.                                                         *)
FailsOnTooLargeOnly ==
  [][DecodeFails => ~ Fits(codecs, sent[Len(fired) + 1])]_vars

=============================================================================
