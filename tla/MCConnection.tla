--------------------------- MODULE MCConnection ---------------------------
(* Instances of Connection for TLC.  Bytes are numbers below 16, and every *)
(* length fits its field.                                                  *)
EXTENDS Connection

LengthField(offset, width, includes, strip, max) ==
  [kind |-> "length", offset |-> offset, width |-> width, includes |-> includes,
   adjust |-> IF includes THEN -width ELSE 0, strip |-> strip, max |-> max]
Lines(max) == [kind |-> "line", max |-> max]
Delimited(max) == [kind |-> "delimiter", max |-> max]
Messages(width) == [kind |-> "message", width |-> width]

MCDelimiter == <<4, 5>>

(* Messages of no, one and two bytes, one beyond every limit below, and a  *)
(* Message with a negative Seq; those of two and six are Messages as well. *)
MCMsgs == {<<>>, <<1>>, <<1, 2>>, <<1, 2, 3, 3, 2, 1>>, <<-1, 2, 3>>}

(* One pipeline for each kind of decoder, a frame with its header left in  *)
(* place, a chain, the pipeline of the request/response example and one    *)
(* without codecs.                                                         *)
MCPipelines ==
  { <<LengthField(0, 1, FALSE, 1, 2)>>,
    <<LengthField(1, 2, TRUE, 0, 3)>>,
    <<Lines(3)>>,
    <<Delimited(3)>>,
    <<LengthField(0, 1, TRUE, 1, 5), Delimited(3)>>,
    <<LengthField(0, 1, FALSE, 1, 6), Messages(2)>>,
    <<>> }
============================================================================
