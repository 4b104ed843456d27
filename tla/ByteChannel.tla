----------------------------- MODULE ByteChannel -----------------------------
(***************************************************************************)
(* What a buffered serial transmitter promises: the listener hears the     *)
(* bytes in the order in which they were written, each once; a byte may    *)
(* only be lost, the newest one, when more than Capacity are queued, and   *)
(* then lost says so for ever.  Writing, losing and hearing may coincide.  *)
(***************************************************************************)
EXTENDS Integers, Sequences

CONSTANTS
  Bytes,     (* what is sent                                                *)
  Capacity   (* bytes that can wait                                         *)

VARIABLES
  queue,   (* bytes written and not heard yet                               *)
  heard,   (* the byte heard last                                           *)
  tick,    (* flips with every byte heard                                   *)
  lost     (* whether a byte has been lost                                  *)

channelVars == << queue, heard, tick, lost >>

ChannelStep(hears, loses) ==
  LET left == IF hears THEN Tail(queue) ELSE queue
      kept == IF loses THEN SubSeq(left, 1, Len(left) - 1) ELSE left
  IN  /\ hears => queue # << >>
      /\ heard' = IF hears THEN Head(queue) ELSE heard
      /\ tick' = (tick # hears)
      /\ loses => Len(left) > Capacity
      /\ lost' = (lost \/ loses)
      /\ queue' = kept \/ \E b \in Bytes : queue' = Append(kept, b)

ChannelInit == queue = << >> /\ heard = << >> /\ tick = FALSE /\ lost = FALSE
ChannelNext == \E hears, loses \in BOOLEAN : ChannelStep(hears, loses)

(* The listener keeps hearing as long as something is queued.              *)
ChannelSpec ==
  /\ ChannelInit /\ [][ChannelNext]_channelVars
  /\ WF_channelVars(\E loses \in BOOLEAN : ChannelStep(TRUE, loses))
=============================================================================
