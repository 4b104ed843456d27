-------------------------------- MODULE Uart ---------------------------------
(***************************************************************************)
(* The serial port: the status and data registers of mmio.v behind their   *)
(* registered bus port, and the transmitter uart_tx.v with its FIFO.       *)
(*                                                                         *)
(* One action is one clock edge.  External are the software (the drivers   *)
(* of the benchmark ports: poll ready then write, poll busy to drain, or a *)
(* program that does not poll) and the listener on the line, which takes   *)
(* each bit in the middle.  Accesses are spaced as mmio.v answers them.    *)
(***************************************************************************)
EXTENDS Integers, Sequences

CONSTANTS
  Bits,      (* data bits of a frame, 8                                     *)
  Bytes,     (* the bytes software sends                                    *)
  Depth,     (* FIFO_DEPTH                                                  *)
  BaudDiv    (* BAUD_DIV, cycles of a bit                                   *)

ASSUME BitsAssumption == Bits \in Nat \ {0}
ASSUME BytesAssumption == Bytes \subseteq [1 .. Bits -> {0, 1}]
(* The depths whose pointers, FIFO_ADDR_WIDTH bits, come around with the   *)
(* memory; at any other one they would leave it.                           *)
ASSUME DepthAssumption ==
  Depth \in {2, 4, 8, 16, 32, 64, 128, 256, 512, 1024}
ASSUME BaudDivAssumption == BaudDiv \in Nat /\ BaudDiv >= 2

VARIABLES
  req,     (* mmio.v req_valid, req_we and req_addr as a kind, req_data     *)
  ack,     (* mmio.v bus_ack                                                *)
  status,  (* mmio.v r_data for the status register                         *)
  push,    (* mmio.v uart_valid and uart_data: << >> or one byte            *)
  fifo,    (* uart_tx.v fifo_mem, with wr, rd and count                     *)
  ser,     (* uart_tx.v tx_active, shifter, bit_count, baud_cnt, tx         *)
  overflow,(* uart_tx.v overflow                                            *)
  polls,   (* software: whether it polls ready before it writes, for ever    *)
  step,    (* software: "idle", "ready", "write" or "drain"                 *)
  out,     (* software: its access is on the bus                            *)
  rx,      (* listener: within a frame, cycles since its start, bits taken  *)
  heard,   (* history: the byte the listener took last                      *)
  tick,    (* history: flips with every byte it takes                       *)
  queue    (* history: bytes written, not heard and not dropped             *)

hwVars == << req, ack, status, push, fifo, ser, overflow >>
uartVars == << hwVars, polls, step, out, rx, heard, tick, queue >>

NoRequest == [kind |-> "none", byte |-> << >>]

(***************************************************************************)
(* uart_tx.v.                                                              *)
(***************************************************************************)
(* Mutant: one byte too many is let in. *)
NotFullLate == fifo.count <= Depth
NotFull == fifo.count < Depth
NotEmpty == fifo.count # 0

(* Mutant: busy forgets the bytes that wait. *)
TxBusyActive == ser.active
TxBusy == ser.active \/ NotEmpty

PushReq == push # << >> /\ NotFull
PopReq == ~ser.active /\ NotEmpty

NextFifo ==
  [mem   |-> IF PushReq THEN [fifo.mem EXCEPT ![fifo.wr] = push] ELSE fifo.mem,
   wr    |-> IF PushReq THEN (fifo.wr + 1) % Depth ELSE fifo.wr,
   rd    |-> IF PopReq THEN (fifo.rd + 1) % Depth ELSE fifo.rd,
   count |-> fifo.count + (IF PushReq THEN 1 ELSE 0) - (IF PopReq THEN 1 ELSE 0)]

(* Mutant: the frame ends with its last data bit. *)
LastBitShort == Bits
LastBit == Bits + 1

(* A frame, low bit first: start bit 0, data, stop bit 1.                  *)
Frame(b) == << 0 >> \o b \o << 1 >>
NextSer ==
  IF PopReq THEN
    [active |-> TRUE, shifter |-> Frame(fifo.mem[fifo.rd]), bit |-> 0,
     baud |-> 0, tx |-> 0]
  ELSE IF ~ser.active THEN [ser EXCEPT !.tx = 1]
  ELSE IF ser.baud < BaudDiv - 1 THEN [ser EXCEPT !.baud = @ + 1]
  ELSE [active  |-> ser.bit # LastBit,
        shifter |-> Append(Tail(ser.shifter), 1),
        bit     |-> IF ser.bit = LastBit THEN ser.bit ELSE ser.bit + 1,
        baud    |-> 0,
        tx      |-> IF ser.bit = LastBit THEN 1 ELSE ser.shifter[2]]

(***************************************************************************)
(* mmio.v: one edge with the access strobed in this cycle, or NoRequest.   *)
(***************************************************************************)
(* Mutant: the request is answered before it is executed. *)
HardwareEarly(strobe) ==
  /\ req' = strobe
  /\ ack' = (strobe.kind # "none")
  /\ status' = [ready |-> NotFull, busy |-> TxBusy]
  /\ push' = IF req.kind = "write" THEN req.byte ELSE << >>
  /\ fifo' = NextFifo
  /\ ser' = NextSer
  /\ overflow' = (overflow \/ (push # << >> /\ ~NotFull))

Hardware(strobe) ==
  /\ req' = strobe
  /\ ack' = (req.kind # "none")
  /\ status' = [ready |-> NotFull, busy |-> TxBusy]
  /\ push' = IF req.kind = "write" THEN req.byte ELSE << >>
  /\ fifo' = NextFifo
  /\ ser' = NextSer
  /\ overflow' = (overflow \/ (push # << >> /\ ~NotFull))

(***************************************************************************)
(* The listener.                                                           *)
(***************************************************************************)
Deaf == [on |-> FALSE, n |-> 0, bits |-> << >>]
Samples == rx.on /\ rx.n >= BaudDiv /\ rx.n % BaudDiv = BaudDiv \div 2
Hears == Samples /\ Len(rx.bits) = Bits

Listen ==
  /\ rx' = IF ~rx.on THEN IF ser.tx = 0 THEN [on |-> TRUE, n |-> 1, bits |-> << >>]
                          ELSE Deaf
           ELSE IF Hears THEN Deaf
           ELSE [on |-> TRUE, n |-> rx.n + 1,
                 bits |-> IF Samples THEN Append(rx.bits, ser.tx) ELSE rx.bits]
  (* without its stop bit a frame is no byte *)
  /\ heard' = IF ~Hears THEN heard ELSE IF ser.tx = 1 THEN rx.bits ELSE << >>
  /\ tick' = (tick # Hears)

(***************************************************************************)
(* Software, which sees the answer of its access in the cycle of ack.      *)
(***************************************************************************)
After ==
  CASE step = "ready" -> IF status.ready THEN "write" ELSE "ready"
    [] step = "drain" -> IF status.busy THEN "drain" ELSE "idle"
    [] OTHER          -> "idle"
At == IF ack THEN After ELSE step
Free == ~out \/ ack

(* What has been heard leaves the queue, what is dropped as well; what is  *)
(* written (<< >> or one byte) joins it.                                   *)
Account(new) ==
  LET left == IF Hears /\ queue # << >> THEN Tail(queue) ELSE queue
      kept == IF push # << >> /\ ~NotFull /\ left # << >>
              THEN SubSeq(left, 1, Len(left) - 1) ELSE left
  IN  queue' = kept \o new

Quiet ==
  /\ Hardware(NoRequest) /\ Listen /\ Account(<< >>)
  /\ step' = At /\ out' = (out /\ ~ack) /\ UNCHANGED polls

(* A read of the status, to begin with or again.                           *)
Poll(s) ==
  /\ Free /\ At \in {"idle", s}
  /\ Hardware([kind |-> "status", byte |-> << >>])
  /\ Listen /\ Account(<< >>)
  /\ step' = s /\ out' = TRUE /\ UNCHANGED polls

WriteByte(b) ==
  /\ Free /\ (At = "write" \/ (At = "idle" /\ ~polls))
  /\ Hardware([kind |-> "write", byte |-> b])
  /\ Listen /\ Account(<< b >>)
  /\ step' = "write" /\ out' = TRUE /\ UNCHANGED polls

UartInit ==
  /\ req = NoRequest /\ ack = FALSE /\ push = << >> /\ overflow = FALSE
  /\ status = [ready |-> FALSE, busy |-> FALSE]
  /\ fifo = [mem |-> [i \in 0 .. Depth - 1 |-> [k \in 1 .. Bits |-> 0]],
             wr |-> 0, rd |-> 0, count |-> 0]
  /\ ser = [active |-> FALSE, shifter |-> [k \in 1 .. Bits + 2 |-> 1], bit |-> 0,
            baud |-> 0, tx |-> 1]
  /\ polls \in BOOLEAN /\ step = "idle" /\ out = FALSE
  /\ rx = Deaf /\ heard = << >> /\ tick = FALSE /\ queue = << >>

UartNext ==
  \/ Quiet
  \/ polls /\ Poll("ready")
  \/ Poll("drain")
  \/ \E b \in Bytes : WriteByte(b)

(* The clock runs.                                                         *)
UartSpec == UartInit /\ [][UartNext]_uartVars /\ WF_uartVars(UartNext)

(***************************************************************************)
(* Properties.                                                             *)
(***************************************************************************)

(* Types of the registers; the counters stay within their widths.          *)
UartTypeOK ==
  /\ req \in [kind : {"none", "status", "write"}, byte : {<< >>} \cup Bytes]
  /\ push \in {<< >>} \cup Bytes
  /\ fifo.wr \in 0 .. Depth - 1 /\ fifo.rd \in 0 .. Depth - 1
  /\ fifo.count \in 0 .. Depth
  /\ ser.bit \in 0 .. LastBit /\ ser.baud \in 0 .. BaudDiv - 1
  /\ ser.tx \in {0, 1} /\ Len(ser.shifter) = Bits + 2
  /\ \A i \in DOMAIN fifo.mem : Len(fifo.mem[i]) = Bits

(* The status software polls is several cycles older than the push it      *)
(* allows, and yet a driver that polls before each write never overflows   *)
(* the FIFO.                                                               *)
NoOverflow == polls => ~overflow

(* Why: the inductive invariant.  From the answer "ready" on, through the  *)
(* strobe, the request and the push of the write it allows, there is room  *)
(* for one more byte, and no other byte is on its way.                     *)
Room == fifo.count < Depth /\ push = << >>
PollInv ==
  /\ fifo.count \in Nat /\ out \in BOOLEAN /\ ack \in BOOLEAN
  /\ req.kind # "none" => out /\ ~ack
  /\ ack => out
  /\ out /\ ~ack => req.kind # "none"
  /\ req.kind = "write" => step = "write"
  /\ push # << >> => ack /\ step = "write"
  /\ polls => /\ overflow = FALSE
              /\ push # << >> => fifo.count < Depth
              /\ req.kind = "write" => Room
              /\ ~out /\ step = "write" => Room
              /\ ack /\ step = "ready" /\ status.ready => Room

(* A driver that reads "not busy" knows that the listener has heard every  *)
(* byte, those on their way through mmio.v included.                       *)
DrainMeansSent == ack /\ step = "drain" /\ ~status.busy => queue = << >>

(* The listener hears what is written, in order, once and in the end; what *)
(* a full FIFO drops is the newest byte, and overflow tells.               *)
C == INSTANCE ByteChannel WITH Capacity <- Depth, lost <- overflow
ImplementsChannel == C!ChannelSpec
=============================================================================
