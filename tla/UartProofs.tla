----------------------------- MODULE UartProofs ------------------------------
(***************************************************************************)
(* A polling driver never overflows the FIFO, a drained port has sent      *)
(* everything, and the transmitter is the byte channel, for every depth,   *)
(* baud rate, frame length and byte.  PollInv, which follows the room for  *)
(* one byte from the status register to the push, is inductive as it       *)
(* stands; DrainInv adds the registers' types, the state of the line and   *)
(* the number of bytes on their way; OrderInv which bytes they are.        *)
(***************************************************************************)
EXTENDS Uart, SequenceTheorems, TLAPS

(* The FIFO only grows by a push, and never beyond Depth.                  *)
LEMMA CountStep ==
  ASSUME PollInv
  PROVE  /\ NextFifo.count \in Nat
         /\ push = << >> => NextFifo.count <= fifo.count
         /\ PopReq => fifo.count >= 1
BY DEF PollInv, NextFifo, PushReq, PopReq, NotEmpty, NotFull

LEMMA PollInitially == UartInit => PollInv
<1> SUFFICES ASSUME UartInit PROVE PollInv
  OBVIOUS
<1>1. fifo.count = 0
  BY DEF UartInit
<1>2. req.kind = "none"
  BY DEF UartInit, NoRequest
<1>3. ~ack /\ ~out /\ ack \in BOOLEAN /\ out \in BOOLEAN
  BY DEF UartInit
<1>4. push = << >> /\ overflow = FALSE /\ step = "idle"
  BY DEF UartInit
<1>5. fifo.count \in Nat
  BY <1>1
<1>6. req.kind # "write" /\ step # "write"
  BY <1>2, <1>4
<1> QED
  BY <1>2, <1>3, <1>4, <1>5, <1>6, Zenon DEF PollInv

(* The bus side of an edge: what is on its way afterwards.                 *)
LEMMA HardwareStep ==
  ASSUME PollInv, NEW strobe, Hardware(strobe)
  PROVE  /\ fifo'.count \in Nat
         /\ ack' = (req.kind # "none")
         /\ push' # << >> => req.kind = "write"
         /\ polls => overflow' = FALSE
         /\ push = << >> => fifo'.count <= fifo.count
<1>1. fifo'.count \in Nat /\ (push = << >> => fifo'.count <= fifo.count)
  BY CountStep DEF Hardware
<1>2. ack' = (req.kind # "none") /\ (push' # << >> => req.kind = "write")
  BY DEF Hardware
<1>3. ASSUME polls PROVE overflow' = FALSE
  <2>1. push # << >> => NotFull
    BY <1>3 DEF PollInv, NotFull
  <2>2. overflow = FALSE
    BY <1>3 DEF PollInv
  <2> QED
    BY <2>1, <2>2, Zenon DEF Hardware
<1> QED
  BY <1>1, <1>2, <1>3

LEMMA QuietStep == ASSUME PollInv, Quiet PROVE PollInv'
<1>1. /\ Hardware(NoRequest) /\ req' = NoRequest
      /\ step' = At /\ out' = (out /\ ~ack) /\ polls' = polls
  BY DEF Quiet, Hardware
<1>2. /\ fifo'.count \in Nat
      /\ ack' = (req.kind # "none")
      /\ push' # << >> => req.kind = "write"
      /\ polls => overflow' = FALSE
      /\ push = << >> => fifo'.count <= fifo.count
  BY <1>1, HardwareStep
<1>3. req'.kind = "none"
  BY <1>1 DEF NoRequest
<1>4. out' \in BOOLEAN /\ ack' \in BOOLEAN
  BY <1>1, <1>2
<1>5. ack' => out'
  BY <1>1, <1>2 DEF PollInv
<1>6. ~(out' /\ ~ack')
  BY <1>1, <1>2 DEF PollInv
<1>7. push' # << >> => ack' /\ step' = "write"
  BY <1>1, <1>2 DEF PollInv, At
<1>8. ASSUME polls, push' # << >> PROVE fifo'.count < Depth
  <2>1. Room
    BY <1>2, <1>8 DEF PollInv
  <2> QED
    BY <1>2, <2>1, DepthAssumption DEF Room, PollInv
<1>9. ASSUME polls, ~out', step' = "write" PROVE Room'
  <2>1. ~ack' /\ push' = << >>
    BY <1>2, <1>5, <1>7, <1>9
  <2>2. Room
    <3>1. CASE ack
      <4>1. step = "ready" /\ status.ready
        BY <1>1, <1>9, <3>1 DEF At, After
      <4> QED
        BY <1>9, <3>1, <4>1 DEF PollInv
    <3>2. CASE ~ack
      <4>1. ~out /\ step = "write"
        BY <1>1, <1>9, <3>2 DEF At, PollInv
      <4> QED
        BY <1>9, <4>1 DEF PollInv
    <3> QED
      BY <3>1, <3>2
  <2> QED
    BY <1>2, <2>1, <2>2, DepthAssumption DEF Room, PollInv
<1>10. ASSUME polls, ack', step' = "ready", status'.ready PROVE Room'
  <2>1. req.kind # "none" /\ ~ack /\ step = "ready"
    BY <1>1, <1>2, <1>10 DEF At, PollInv
  <2>2. push = << >> /\ push' = << >>
    BY <1>2, <2>1 DEF PollInv
  <2>3. NotFull
    BY <1>1, <1>10 DEF Hardware
  <2> QED
    BY <1>2, <2>2, <2>3, DepthAssumption DEF NotFull, Room, PollInv
<1> QED
  BY <1>1, <1>2, <1>3, <1>4, <1>5, <1>6, <1>7, <1>8, <1>9, <1>10 DEF PollInv

(* An access is issued.                                                    *)
LEMMA IssueStep ==
  ASSUME PollInv, Free, NEW strobe, NEW s, Hardware(strobe),
         strobe.kind \in {"status", "write"},
         (strobe.kind = "write") = (s = "write"),
         step' = s, out' = TRUE, polls' = polls,
         polls /\ s = "write" => At = "write"
  PROVE  PollInv'
<1>1. req' = strobe
  BY DEF Hardware
<1>2. req.kind = "none"
  BY DEF Free, PollInv
<1>3. /\ fifo'.count \in Nat
      /\ ack' = FALSE
      /\ push' = << >>
      /\ polls => overflow' = FALSE
      /\ push = << >> => fifo'.count <= fifo.count
  BY <1>2, HardwareStep
<1>4. ASSUME polls, req'.kind = "write" PROVE Room'
  <2>1. At = "write"
    BY <1>1, <1>4
  <2>2. Room
    <3>1. CASE ack
      <4>1. step = "ready" /\ status.ready
        BY <2>1, <3>1 DEF At, After
      <4> QED
        BY <1>4, <3>1, <4>1 DEF PollInv
    <3>2. CASE ~ack
      BY <1>4, <2>1, <3>2 DEF At, Free, PollInv
    <3> QED
      BY <3>1, <3>2
  <2> QED
    BY <1>3, <2>2, DepthAssumption DEF Room, PollInv
<1> QED
  BY <1>1, <1>3, <1>4 DEF PollInv

LEMMA PollStep == PollInv /\ [UartNext]_uartVars => PollInv'
<1> SUFFICES ASSUME PollInv, [UartNext]_uartVars PROVE PollInv'
  OBVIOUS
<1>1. CASE Quiet
  BY <1>1, QuietStep
<1>2. ASSUME NEW s \in {"ready", "drain"}, Poll(s) PROVE PollInv'
  BY <1>2, IssueStep DEF Poll
<1>3. ASSUME NEW b \in Bytes, WriteByte(b) PROVE PollInv'
  <2>1. polls => At = "write"
    BY <1>3 DEF WriteByte
  <2> QED
    BY <1>3, <2>1, IssueStep DEF WriteByte
<1>4. CASE UNCHANGED uartVars
  BY <1>4 DEF uartVars, hwVars, PollInv, Room
<1> QED
  BY <1>1, <1>2, <1>3, <1>4 DEF UartNext

(* Between the status a driver polls and the push it allows there is       *)
(* always room for exactly that byte.                                      *)
THEOREM UartPollInvariant == UartSpec => []PollInv
BY PollInitially, PollStep, PTL DEF UartSpec

(* uart_tx.v's overflow is never set by the drivers' polling protocol.     *)
THEOREM UartNoOverflow == UartSpec => []NoOverflow
<1>1. PollInv => NoOverflow
  BY DEF PollInv, NoOverflow
<1> QED
  BY <1>1, UartPollInvariant, PTL

(***************************************************************************)
(* Types.                                                                  *)
(***************************************************************************)
Bit   == {0, 1}
Octet == [1 .. Bits -> Bit]

(* What UartTypeOK says of each register, with their structure.            *)
Registers ==
  /\ req \in [kind : {"none", "status", "write"}, byte : {<< >>} \cup Bytes]
  /\ req.kind = "write" => req.byte \in Bytes
  /\ push \in {<< >>} \cup Bytes
  /\ fifo \in [mem : [0 .. Depth - 1 -> Octet], wr : 0 .. Depth - 1,
               rd : 0 .. Depth - 1, count : 0 .. Depth]
  /\ ser \in [active : BOOLEAN, shifter : Seq(Bit), bit : 0 .. LastBit,
              baud : 0 .. BaudDiv - 1, tx : Bit]
  /\ Len(ser.shifter) = Bits + 2

LEMMA OctetLength ==
  ASSUME NEW b \in Octet
  PROVE  b \in Seq(Bit) /\ Len(b) = Bits /\ b # << >>
<1>1. Bits \in Nat /\ Bits # 0
  BY BitsAssumption
<1>2. b \in Seq(Bit)
  BY <1>1 DEF Octet
<1>3. Len(b) \in Nat /\ DOMAIN b = 1 .. Len(b) /\ DOMAIN b = 1 .. Bits
  BY <1>2, LenProperties DEF Octet
<1>4. \A n \in Nat : n \in 1 .. n \/ n = 0
  OBVIOUS
<1>5. Len(b) \in 1 .. Bits \/ Len(b) = 0
  BY <1>3, <1>4
<1>6. Bits \in 1 .. Len(b)
  BY <1>1, <1>3, <1>4
<1>7. ASSUME NEW n \in Nat, NEW m \in Nat, m # 0, n \in 1 .. m \/ n = 0, m \in 1 .. n
      PROVE  n = m
  BY <1>7
<1>8. Len(b) = Bits
  BY <1>1, <1>3, <1>5, <1>6, <1>7
<1> QED
  BY <1>1, <1>2, <1>8

LEMMA FrameShape ==
  ASSUME NEW b \in Octet
  PROVE  /\ Frame(b) \in Seq(Bit) /\ Len(Frame(b)) = Bits + 2
         /\ Frame(b)[1] = 0 /\ Frame(b)[Bits + 2] = 1
         /\ \A k \in 1 .. Bits : Frame(b)[k + 1] = b[k]
<1>1. b \in Seq(Bit) /\ Len(b) = Bits /\ Bits \in Nat
  BY OctetLength, BitsAssumption
<1>2. << 0 >> \in Seq(Bit) /\ << 1 >> \in Seq(Bit) /\ Len(<< 0 >>) = 1 /\ Len(<< 1 >>) = 1
      /\ << 0 >>[1] = 0 /\ << 1 >>[1] = 1
  BY DEF Bit
<1>3. /\ << 0 >> \o b \in Seq(Bit) /\ Len(<< 0 >> \o b) = Bits + 1
      /\ (<< 0 >> \o b)[1] = 0
      /\ \A k \in 1 .. Bits : (<< 0 >> \o b)[k + 1] = b[k]
  BY <1>1, <1>2, ConcatProperties
<1>4. /\ (<< 0 >> \o b) \o << 1 >> \in Seq(Bit)
      /\ Len((<< 0 >> \o b) \o << 1 >>) = Bits + 2
      /\ ((<< 0 >> \o b) \o << 1 >>)[1] = 0 /\ ((<< 0 >> \o b) \o << 1 >>)[Bits + 2] = 1
      /\ \A k \in 1 .. Bits : ((<< 0 >> \o b) \o << 1 >>)[k + 1] = (<< 0 >> \o b)[k + 1]
  BY <1>1, <1>2, <1>3, ConcatProperties
<1> QED
  BY <1>3, <1>4 DEF Frame

LEMMA Shifted ==
  ASSUME NEW s \in Seq(Bit), Len(s) = Bits + 2
  PROVE  /\ Append(Tail(s), 1) \in Seq(Bit) /\ Len(Append(Tail(s), 1)) = Bits + 2
         /\ Append(Tail(s), 1)[Bits + 2] = 1
         /\ \A k \in 1 .. Bits + 1 : Append(Tail(s), 1)[k] = s[k + 1]
<1>1. Bits \in Nat /\ s # << >> /\ 1 \in Bit
  BY BitsAssumption DEF Bit
<1>2. Tail(s) \in Seq(Bit) /\ Len(Tail(s)) = Bits + 1
      /\ \A k \in 1 .. Bits + 1 : Tail(s)[k] = s[k + 1]
  BY <1>1, HeadTailProperties
<1> QED
  BY <1>1, <1>2, AppendProperties

LEMMA FifoType == ASSUME Registers PROVE NextFifo \in
  [mem : [0 .. Depth - 1 -> Octet], wr : 0 .. Depth - 1, rd : 0 .. Depth - 1,
   count : 0 .. Depth]
<1> USE DEF Registers
<1>1. Depth \in Nat /\ Depth >= 2
  BY DepthAssumption
<1>2. PushReq => push \in Octet
  BY BytesAssumption DEF PushReq, Octet, Bit
<1>3. NextFifo.mem \in [0 .. Depth - 1 -> Octet]
  BY <1>2 DEF NextFifo
<1>4. \A n \in 0 .. Depth - 1 : (n + 1) % Depth \in 0 .. Depth - 1
  BY <1>1
<1>5. NextFifo.wr \in 0 .. Depth - 1 /\ NextFifo.rd \in 0 .. Depth - 1
  BY <1>4 DEF NextFifo
<1>6. NextFifo.count \in 0 .. Depth
  BY <1>1 DEF NextFifo, PushReq, PopReq, NotFull, NotEmpty
<1> QED
  BY <1>3, <1>5, <1>6 DEF NextFifo

LEMMA SerType ==
  ASSUME Registers
  PROVE  /\ NextSer \in [active : BOOLEAN, shifter : Seq(Bit), bit : 0 .. LastBit,
                         baud : 0 .. BaudDiv - 1, tx : Bit]
         /\ Len(NextSer.shifter) = Bits + 2
<1> USE DEF Registers
<1>1. Bits \in Nat /\ Bits >= 1 /\ BaudDiv \in Nat /\ BaudDiv >= 2
  BY BitsAssumption, BaudDivAssumption
<1>2. fifo.mem[fifo.rd] \in Octet
  OBVIOUS
<1>3. CASE PopReq
  BY <1>1, <1>2, <1>3, FrameShape DEF NextSer, LastBit, Bit
<1>4. CASE ~PopReq /\ ~ser.active
  <2>1. NextSer = [ser EXCEPT !.tx = 1] /\ 1 \in Bit
    BY <1>4, Zenon DEF NextSer, Bit
  <2>2. [ser EXCEPT !.tx = 1] \in [active : BOOLEAN, shifter : Seq(Bit),
          bit : 0 .. LastBit, baud : 0 .. BaudDiv - 1, tx : Bit]
    BY <2>1
  <2>3. [ser EXCEPT !.tx = 1].shifter = ser.shifter
    OBVIOUS
  <2> QED
    BY <2>1, <2>2, <2>3, Zenon
<1>5. CASE ~PopReq /\ ser.active /\ ser.baud < BaudDiv - 1
  <2>1. NextSer = [ser EXCEPT !.baud = @ + 1]
    BY <1>5, Zenon DEF NextSer
  <2>2. ser.baud + 1 \in 0 .. BaudDiv - 1
    BY <1>1, <1>5
  <2>3. [ser EXCEPT !.baud = @ + 1] \in [active : BOOLEAN, shifter : Seq(Bit),
          bit : 0 .. LastBit, baud : 0 .. BaudDiv - 1, tx : Bit]
    BY <2>2
  <2>4. [ser EXCEPT !.baud = @ + 1].shifter = ser.shifter
    OBVIOUS
  <2> QED
    BY <2>1, <2>3, <2>4, Zenon
<1>6. CASE ~PopReq /\ ser.active /\ ~(ser.baud < BaudDiv - 1)
  <2>1. ser.shifter[2] \in Bit
    BY <1>1
  <2>2. Append(Tail(ser.shifter), 1) \in Seq(Bit)
        /\ Len(Append(Tail(ser.shifter), 1)) = Bits + 2
    BY Shifted
  <2>3. 1 \in Bit /\ 0 \in 0 .. BaudDiv - 1 /\ LastBit \in Nat
    BY <1>1 DEF Bit, LastBit
  <2>4. (IF ser.bit = LastBit THEN ser.bit ELSE ser.bit + 1) \in 0 .. LastBit
    BY <2>3
  <2> QED
    BY <1>6, <2>1, <2>2, <2>3, <2>4 DEF NextSer
<1> QED
  BY <1>3, <1>4, <1>5, <1>6

LEMMA RegistersStep == Registers /\ [UartNext]_uartVars => Registers'
<1> SUFFICES ASSUME Registers, [UartNext]_uartVars PROVE Registers'
  OBVIOUS
<1>1. ASSUME NEW strobe \in [kind : {"none", "status", "write"}, byte : {<< >>} \cup Bytes],
             strobe.kind = "write" => strobe.byte \in Bytes, Hardware(strobe)
      PROVE  Registers'
  <2>1. push' \in {<< >>} \cup Bytes
    BY <1>1 DEF Hardware, Registers
  <2> QED
    BY <1>1, <2>1, FifoType, SerType DEF Hardware, Registers
<1>2. CASE Quiet
  BY <1>1, <1>2 DEF Quiet, NoRequest
<1>3. ASSUME NEW s \in {"ready", "drain"}, Poll(s) PROVE Registers'
  BY <1>1, <1>3 DEF Poll
<1>4. ASSUME NEW b \in Bytes, WriteByte(b) PROVE Registers'
  BY <1>1, <1>4 DEF WriteByte
<1>5. CASE UNCHANGED uartVars
  BY <1>5 DEF uartVars, hwVars, Registers
<1> QED
  BY <1>2, <1>3, <1>4, <1>5 DEF UartNext

LEMMA RegistersInitially == UartInit => Registers
<1> SUFFICES ASSUME UartInit PROVE Registers
  OBVIOUS
<1>1. Bits \in Nat /\ BaudDiv \in Nat /\ BaudDiv >= 2 /\ Depth \in Nat /\ Depth >= 2
  BY BitsAssumption, BaudDivAssumption, DepthAssumption
<1>2. [k \in 1 .. Bits + 2 |-> 1] \in Seq(Bit) /\ Len([k \in 1 .. Bits + 2 |-> 1]) = Bits + 2
  BY <1>1 DEF Bit
<1>3. ser \in [active : BOOLEAN, shifter : Seq(Bit), bit : 0 .. LastBit,
               baud : 0 .. BaudDiv - 1, tx : Bit] /\ Len(ser.shifter) = Bits + 2
  BY <1>1, <1>2 DEF UartInit, LastBit, Bit
<1>4. [k \in 1 .. Bits |-> 0] \in Octet
  BY DEF Octet, Bit
<1>5. fifo \in [mem : [0 .. Depth - 1 -> Octet], wr : 0 .. Depth - 1,
                rd : 0 .. Depth - 1, count : 0 .. Depth]
  BY <1>1, <1>4 DEF UartInit
<1> QED
  BY <1>3, <1>5 DEF UartInit, NoRequest, Registers

(* Types, for every FIFO depth, frame length and baud rate: no counter of  *)
(* uart_tx.v leaves its range, and the pointers stay in the memory.        *)
THEOREM UartTypeCorrect == UartSpec => []UartTypeOK
<1>1. Registers => UartTypeOK
  <2> SUFFICES ASSUME Registers PROVE UartTypeOK
    OBVIOUS
  <2>1. \A i \in DOMAIN fifo.mem : Len(fifo.mem[i]) = Bits
    BY OctetLength DEF Registers
  <2> QED
    BY <2>1 DEF Registers, UartTypeOK, Bit
<1> QED
  BY <1>1, RegistersInitially, RegistersStep, PTL DEF UartSpec

(***************************************************************************)
(* Draining.  Every byte of the queue is in one of four places: in the     *)
(* request register, on its way to the FIFO, in the FIFO, or on the line   *)
(* and not yet heard; the listener is exactly as far as the shifter.       *)
(***************************************************************************)
LEMMA Times ==
  ASSUME NEW d \in Nat, d >= 2, NEW c \in Nat, c >= 1
  PROVE  c * d \in Nat /\ c * d >= d
<1>1. c * d = d + (c - 1) * d
  OBVIOUS
<1>2. (c - 1) * d \in Nat
  OBVIOUS
<1> QED
  BY <1>1, <1>2

LEMMA ModLemma ==
  ASSUME NEW d \in Nat, d >= 2, NEW b \in Nat, NEW u \in 0 .. d - 1
  PROVE  /\ b * d + u \in Nat
         /\ (b * d + u) % d = u
         /\ b * d + u >= d <=> b >= 1
<1> DEFINE n == b * d + u
           q == n \div d
           r == n % d
<1>1. n \in Nat
  OBVIOUS
<1>2. q \in Nat /\ r \in 0 .. d - 1 /\ n = q * d + r
  OBVIOUS
<1>3. q = b
  <2>1. CASE q > b
    <3>1. (q - b) * d >= d
      BY <2>1, <1>2, Times
    <3> QED
      BY <3>1, <1>2
  <2>2. CASE b > q
    <3>1. (b - q) * d >= d
      BY <2>2, <1>2, Times
    <3> QED
      BY <3>1, <1>2
  <2> QED
    BY <2>1, <2>2, <1>2
<1>4. b >= 1 => n >= d
  BY Times
<1>5. b = 0 => n < d
  OBVIOUS
<1> QED
  BY <1>1, <1>2, <1>3, <1>4, <1>5

Half == BaudDiv \div 2

(* A byte is on the line until its last bit is taken; Taken are its bits   *)
(* that the listener has.                                                  *)
Sounding == ser.active /\ (ser.bit < LastBit \/ ser.baud <= Half)
Taken == IF ser.bit = 0 THEN 0 ELSE IF ser.baud <= Half THEN ser.bit - 1 ELSE ser.bit

Line ==
  /\ ser.tx = IF ser.active THEN ser.shifter[1] ELSE 1
  /\ ser.active =>
       \A k \in 1 .. Bits + 2 : k >= Bits + 2 - ser.bit => ser.shifter[k] = 1
  /\ ser.active /\ ser.bit = 0 => ser.shifter[1] = 0
  /\ rx.on \in BOOLEAN /\ rx.bits \in Seq(Bit)
  /\ rx.on => /\ Sounding /\ rx.n > 0 /\ rx.n = ser.bit * BaudDiv + ser.baud
              /\ Len(rx.bits) = Taken
  /\ ~rx.on /\ Sounding => ser.bit = 0 /\ ser.baud = 0

One(b) == IF b THEN 1 ELSE 0
Owed == One(req.kind = "write") + One(push # << >>) + fifo.count + One(Sounding)
Owing == queue \in Seq(Bytes) /\ Len(queue) = Owed

Drained == ack /\ step = "drain" /\ ~status.busy => ~ser.active /\ fifo.count = 0

LEMMA Sizes ==
  /\ Bits \in Nat /\ Bits >= 1 /\ BaudDiv \in Nat /\ BaudDiv >= 2
  /\ LastBit = Bits + 1 /\ Half \in Nat /\ Half >= 1 /\ Half < BaudDiv
BY BitsAssumption, BaudDivAssumption DEF LastBit, Half

(* Within a frame the listener takes a bit in the middle of each bit but   *)
(* the start bit.                                                          *)
LEMMA SampleTime ==
  ASSUME Registers, Line
  PROVE  /\ Samples <=> rx.on /\ ser.bit >= 1 /\ ser.baud = Half
         /\ Hears <=> rx.on /\ ser.bit = LastBit /\ ser.baud = Half
<1>1. ser.bit \in Nat /\ ser.bit <= LastBit /\ ser.baud \in 0 .. BaudDiv - 1
  BY Sizes DEF Registers
<1>2. ASSUME rx.on
      PROVE  /\ rx.n >= BaudDiv <=> ser.bit >= 1
             /\ rx.n % BaudDiv = ser.baud
  <2>1. rx.n = ser.bit * BaudDiv + ser.baud
    BY <1>2 DEF Line
  <2>2. /\ (ser.bit * BaudDiv + ser.baud) % BaudDiv = ser.baud
        /\ ser.bit * BaudDiv + ser.baud >= BaudDiv <=> ser.bit >= 1
    BY <1>1, ModLemma, Sizes
  <2> QED
    BY <2>1, <2>2
<1>3. Samples <=> rx.on /\ ser.bit >= 1 /\ ser.baud = Half
  BY <1>2 DEF Samples, Half
<1>4. ASSUME rx.on PROVE Len(rx.bits) = Taken
  BY <1>4 DEF Line
<1>5. Hears <=> rx.on /\ ser.bit = LastBit /\ ser.baud = Half
  BY <1>1, <1>3, <1>4, Sizes DEF Hears, Taken
<1> QED
  BY <1>3, <1>5

(* The four moves of the serialiser.                                       *)
LEMMA SerMoves ==
  ASSUME Registers
  PROVE  /\ PopReq =>
              /\ ~ser.active /\ NextSer.active /\ NextSer.bit = 0 /\ NextSer.baud = 0
              /\ NextSer.tx = 0 /\ NextSer.shifter = Frame(fifo.mem[fifo.rd])
         /\ ~PopReq /\ ~ser.active => ~NextSer.active /\ NextSer.tx = 1
         /\ ser.active /\ ser.baud < BaudDiv - 1 =>
              /\ NextSer.active /\ NextSer.bit = ser.bit /\ NextSer.baud = ser.baud + 1
              /\ NextSer.tx = ser.tx /\ NextSer.shifter = ser.shifter
         /\ ser.active /\ ser.baud >= BaudDiv - 1 =>
              /\ NextSer.active = (ser.bit # LastBit) /\ NextSer.baud = 0
              /\ NextSer.shifter = Append(Tail(ser.shifter), 1)
              /\ ser.bit # LastBit => /\ NextSer.bit = ser.bit + 1
                                      /\ NextSer.tx = ser.shifter[2]
              /\ ser.bit = LastBit => NextSer.tx = 1
<1> USE DEF Registers
<1>1. CASE PopReq
  BY <1>1 DEF NextSer, PopReq
<1>2. CASE ~PopReq /\ ~ser.active
  BY <1>2 DEF NextSer
<1>3. CASE ser.active /\ ser.baud < BaudDiv - 1
  <2>1. ~PopReq
    BY <1>3 DEF PopReq
  <2>2. NextSer = [ser EXCEPT !.baud = @ + 1]
    BY <1>3, <2>1, Zenon DEF NextSer
  <2> DEFINE S == [ser EXCEPT !.baud = @ + 1]
  <2>3. /\ S.active = ser.active /\ S.bit = ser.bit /\ S.baud = ser.baud + 1
        /\ S.tx = ser.tx /\ S.shifter = ser.shifter
    OBVIOUS
  <2>4. /\ NextSer.active /\ NextSer.bit = ser.bit /\ NextSer.baud = ser.baud + 1
        /\ NextSer.tx = ser.tx /\ NextSer.shifter = ser.shifter
    BY <1>3, <2>2, <2>3
  <2>5. ~(ser.baud >= BaudDiv - 1)
    BY <1>3, Sizes
  <2> QED
    BY <1>3, <2>1, <2>4, <2>5
<1>4. CASE ser.active /\ ser.baud >= BaudDiv - 1
  BY <1>4, Sizes DEF NextSer, PopReq
<1>5. PopReq \/ (~PopReq /\ ~ser.active)
        \/ (ser.active /\ ser.baud < BaudDiv - 1)
        \/ (ser.active /\ ser.baud >= BaudDiv - 1)
  BY Sizes
<1> QED
  BY <1>1, <1>2, <1>3, <1>4, <1>5, Zenon

(* The edge on the line: whatever the bus side does, shifter and listener  *)
(* stay together, and a byte leaves the line when it is heard.             *)
LEMMA LineStep ==
  ASSUME Registers, Line, ser' = NextSer, Listen
  PROVE  /\ Line'
         /\ Hears => Sounding
         /\ One(Sounding') = One(Sounding) - One(Hears) + One(PopReq)
<1>1. /\ ser.bit \in Nat /\ ser.bit <= LastBit /\ ser.baud \in 0 .. BaudDiv - 1
      /\ ser.active \in BOOLEAN /\ ser.shifter \in Seq(Bit) /\ Len(ser.shifter) = Bits + 2
      /\ ser.tx \in Bit
  BY Sizes DEF Registers
<1>2. rx.on \in BOOLEAN /\ rx.bits \in Seq(Bit)
  BY DEF Line
<1>3. /\ Samples <=> rx.on /\ ser.bit >= 1 /\ ser.baud = Half
      /\ Hears <=> rx.on /\ ser.bit = LastBit /\ ser.baud = Half
  BY SampleTime
<1>4. rx.on => /\ ser.active /\ (ser.bit < LastBit \/ ser.baud <= Half)
               /\ rx.n > 0 /\ rx.n = ser.bit * BaudDiv + ser.baud
               /\ Len(rx.bits) = Taken
  BY DEF Line, Sounding
<1>5. /\ ser.tx = IF ser.active THEN ser.shifter[1] ELSE 1
      /\ ser.active =>
           \A k \in 1 .. Bits + 2 : k >= Bits + 2 - ser.bit => ser.shifter[k] = 1
      /\ ser.active /\ ser.bit = 0 => ser.shifter[1] = 0
      /\ ~rx.on /\ Sounding => ser.bit = 0 /\ ser.baud = 0
  BY DEF Line
<1>6. rx' = IF ~rx.on THEN IF ser.tx = 0 THEN [on |-> TRUE, n |-> 1, bits |-> << >>]
                           ELSE Deaf
            ELSE IF Hears THEN Deaf
            ELSE [on |-> TRUE, n |-> rx.n + 1,
                  bits |-> IF Samples THEN Append(rx.bits, ser.tx) ELSE rx.bits]
  BY DEF Listen
<1>7. rx'.on \in BOOLEAN /\ rx'.bits \in Seq(Bit)
  BY <1>1, <1>2, <1>6 DEF Deaf
<1>8. Hears => Sounding
  BY <1>3, <1>4 DEF Sounding
<1>9. rx.on /\ ~Hears =>
        /\ rx'.on /\ rx'.n = rx.n + 1
        /\ Len(rx'.bits) = Len(rx.bits) + (IF Samples THEN 1 ELSE 0)
  <2> SUFFICES ASSUME rx.on, ~Hears
               PROVE  /\ rx'.on /\ rx'.n = rx.n + 1
                      /\ Len(rx'.bits) = Len(rx.bits) + (IF Samples THEN 1 ELSE 0)
    OBVIOUS
  <2>1. rx' = [on |-> TRUE, n |-> rx.n + 1,
               bits |-> IF Samples THEN Append(rx.bits, ser.tx) ELSE rx.bits]
    BY <1>6, Zenon
  <2>2. Len(Append(rx.bits, ser.tx)) = Len(rx.bits) + 1 /\ Len(rx.bits) \in Nat
    BY <1>1, <1>2, AppendProperties, LenProperties
  <2>3. rx'.bits = IF Samples THEN Append(rx.bits, ser.tx) ELSE rx.bits
    BY <2>1
  <2>4. Len(rx'.bits) = Len(rx.bits) + (IF Samples THEN 1 ELSE 0)
    <3>1. CASE Samples
      <4>1. rx'.bits = Append(rx.bits, ser.tx)
        BY <2>3, <3>1, Zenon
      <4> QED
        BY <2>2, <3>1, <4>1
    <3>2. CASE ~Samples
      <4>1. rx'.bits = rx.bits
        BY <2>3, <3>2, Zenon
      <4> QED
        BY <2>2, <3>2, <4>1
    <3> QED
      BY <3>1, <3>2
  <2> QED
    BY <2>1, <2>4
<1>10. rx.on /\ Hears => ~rx'.on
  BY <1>6 DEF Deaf
<1>11. ~rx.on => (rx'.on <=> ser.tx = 0) /\ (rx'.on => rx'.n = 1 /\ Len(rx'.bits) = 0)
  BY <1>6 DEF Deaf
<1>12. CASE PopReq
  <2>1. /\ ~ser.active /\ ser'.active /\ ser'.bit = 0 /\ ser'.baud = 0
        /\ ser'.tx = 0 /\ ser'.shifter = Frame(fifo.mem[fifo.rd])
    BY <1>12, SerMoves
  <2>2. /\ ser'.shifter[1] = 0 /\ ser'.shifter[Bits + 2] = 1
    <3>1. fifo.mem[fifo.rd] \in Octet
      BY DEF Registers
    <3>2. Frame(fifo.mem[fifo.rd])[1] = 0 /\ Frame(fifo.mem[fifo.rd])[Bits + 2] = 1
      BY <3>1, FrameShape
    <3> QED
      BY <2>1, <3>2
  <2>3. ~rx.on /\ ~rx'.on /\ ~Sounding /\ ~Hears
    BY <1>2, <1>3, <1>4, <1>5, <1>11, <2>1 DEF Sounding
  <2>4. Sounding'
    BY <2>1, Sizes DEF Sounding
  <2>5. Line'
    BY <1>7, <2>1, <2>2, <2>3, Sizes DEF Line
  <2> QED
    BY <1>8, <1>12, <2>3, <2>4, <2>5 DEF One
<1>13. CASE ~PopReq /\ ~ser.active
  <2>1. ~ser'.active /\ ser'.tx = 1
    BY <1>13, SerMoves
  <2>2. ~rx.on /\ ~rx'.on /\ ~Sounding /\ ~Hears /\ ~Sounding'
    BY <1>2, <1>3, <1>4, <1>5, <1>11, <1>13, <2>1 DEF Sounding
  <2>3. Line'
    BY <1>7, <2>1, <2>2 DEF Line
  <2> QED
    BY <1>8, <1>13, <2>2, <2>3 DEF One
<1>14. CASE ser.active /\ ser.baud < BaudDiv - 1
  <2>1. /\ ser'.active /\ ser'.bit = ser.bit /\ ser'.baud = ser.baud + 1
        /\ ser'.tx = ser.tx /\ ser'.shifter = ser.shifter
    BY <1>14, SerMoves
  <2>2. ~PopReq
    BY <1>14 DEF PopReq
  <2>3. CASE rx.on /\ Hears
    <3>1. Sounding /\ ~Sounding' /\ ~rx'.on
      BY <1>1, <1>3, <1>8, <1>10, <2>1, <2>3, Sizes DEF Sounding
    <3>2. Line'
      BY <1>5, <1>7, <1>14, <2>1, <3>1 DEF Line
    <3> QED
      BY <2>2, <2>3, <3>1, <3>2 DEF One
  <2>4. CASE rx.on /\ ~Hears
    <3>1. Sounding /\ Sounding' /\ rx'.on /\ rx'.n = rx.n + 1
      BY <1>1, <1>3, <1>4, <1>9, <2>1, <2>4, Sizes DEF Sounding
    <3>2. rx'.n > 0 /\ rx'.n = ser'.bit * BaudDiv + ser'.baud
      BY <1>1, <1>4, <2>1, <2>4, <3>1, Sizes
    <3>3. Len(rx'.bits) = Taken'
      <4>1. Len(rx.bits) = Taken
            /\ Len(rx'.bits) = Len(rx.bits) + (IF Samples THEN 1 ELSE 0)
            /\ (Samples <=> ser.bit >= 1 /\ ser.baud = Half)
        BY <1>3, <1>4, <1>9, <2>4
      <4>2. Taken' = IF ser.bit = 0 THEN 0
                     ELSE IF ser.baud + 1 <= Half THEN ser.bit - 1 ELSE ser.bit
        BY <2>1 DEF Taken, Half
      <4>3. CASE ser.bit = 0
        BY <4>1, <4>2, <4>3 DEF Taken
      <4>4. CASE ser.bit >= 1
        BY <1>1, <4>1, <4>2, <4>4, Sizes DEF Taken
      <4> QED
        BY <1>1, <4>3, <4>4
    <3>4. Line'
      BY <1>5, <1>7, <1>14, <2>1, <3>1, <3>2, <3>3 DEF Line
    <3> QED
      BY <1>8, <2>2, <2>4, <3>1, <3>4 DEF One
  <2>5. CASE ~rx.on /\ Sounding
    <3>1. ser.bit = 0 /\ ser.baud = 0 /\ ser.tx = 0 /\ ~Hears
      BY <1>3, <1>5, <1>14, <2>5
    <3>2. Sounding' /\ rx'.on /\ rx'.n = 1 /\ Len(rx'.bits) = 0
      BY <1>1, <1>11, <2>1, <2>5, <3>1, Sizes DEF Sounding
    <3>3. rx'.n = ser'.bit * BaudDiv + ser'.baud /\ Taken' = 0
      BY <2>1, <3>1, <3>2, Sizes DEF Taken
    <3>4. Line'
      BY <1>5, <1>7, <1>14, <2>1, <3>2, <3>3 DEF Line
    <3> QED
      BY <1>8, <2>2, <2>5, <3>1, <3>2, <3>4 DEF One
  <2>6. CASE ~rx.on /\ ~Sounding
    <3>1. ser.bit = LastBit /\ ser.baud > Half /\ ~Hears
      BY <1>1, <1>3, <1>14, <2>6, Sizes DEF Sounding
    <3>2. ser.shifter[1] = 1
      BY <1>5, <1>14, <3>1, Sizes
    <3>3. ~Sounding' /\ ~rx'.on
      BY <1>1, <1>5, <1>11, <1>14, <2>1, <2>6, <3>1, <3>2, Sizes DEF Sounding
    <3>4. Line'
      BY <1>5, <1>7, <1>14, <2>1, <3>3 DEF Line
    <3> QED
      BY <1>8, <2>2, <2>6, <3>1, <3>3, <3>4 DEF One
  <2> QED
    BY <1>2, <2>3, <2>4, <2>5, <2>6
<1>15. CASE ser.active /\ ser.baud >= BaudDiv - 1
  <2>1. /\ ser'.active = (ser.bit # LastBit) /\ ser'.baud = 0
        /\ ser'.shifter = Append(Tail(ser.shifter), 1)
        /\ ser.bit # LastBit => /\ ser'.bit = ser.bit + 1
                                /\ ser'.tx = ser.shifter[2]
        /\ ser.bit = LastBit => ser'.tx = 1
    BY <1>15, SerMoves
  <2>2. ~PopReq /\ ser.baud = BaudDiv - 1
    BY <1>1, <1>15, Sizes DEF PopReq
  <2>3. CASE ser.bit = LastBit
    <3>1. ~ser'.active /\ ser'.tx = 1 /\ ~Sounding'
      BY <2>1, <2>3 DEF Sounding
    <3>2. rx.on => Hears
      BY <1>1, <1>3, <1>4, <2>2, <2>3, Sizes
    <3>3. ~rx.on => ~Sounding /\ ser.tx = 1
      BY <1>1, <1>5, <1>15, <2>3, Sizes
    <3>4. ~rx'.on
      BY <1>2, <1>10, <1>11, <3>2, <3>3
    <3>5. Line'
      BY <1>7, <3>1, <3>4 DEF Line
    <3>6. Sounding <=> Hears
      BY <1>2, <1>3, <1>8, <3>2, <3>3
    <3> QED
      BY <1>8, <2>2, <3>1, <3>5, <3>6 DEF One
  <2>4. CASE ser.bit # LastBit
    <3>1. /\ ser'.active /\ ser'.bit = ser.bit + 1 /\ ser'.baud = 0
          /\ ser'.tx = ser.shifter[2]
      BY <2>1, <2>4
    <3>2. /\ ser'.shifter[Bits + 2] = 1
          /\ \A k \in 1 .. Bits + 1 : ser'.shifter[k] = ser.shifter[k + 1]
      <4>1. /\ Append(Tail(ser.shifter), 1)[Bits + 2] = 1
            /\ \A k \in 1 .. Bits + 1 :
                 Append(Tail(ser.shifter), 1)[k] = ser.shifter[k + 1]
        BY <1>1, Shifted
      <4> QED
        BY <2>1, <4>1
    <3>3. ser'.tx = ser'.shifter[1]
      BY <3>1, <3>2, Sizes
    <3>4. \A k \in 1 .. Bits + 2 : k >= Bits + 2 - ser'.bit => ser'.shifter[k] = 1
      <4> SUFFICES ASSUME NEW k \in 1 .. Bits + 2, k >= Bits + 2 - ser'.bit
                   PROVE  ser'.shifter[k] = 1
        OBVIOUS
      <4>1. CASE k = Bits + 2
        BY <3>2, <4>1
      <4>2. CASE k # Bits + 2
        <5>1. k \in 1 .. Bits + 1 /\ k + 1 \in 1 .. Bits + 2
              /\ k + 1 >= Bits + 2 - ser.bit
          BY <1>1, <3>1, <4>2, Sizes
        <5> QED
          BY <1>5, <1>15, <3>2, <5>1
      <4> QED
        BY <4>1, <4>2
    <3>5. Sounding /\ Sounding' /\ ~Hears
      BY <1>1, <1>3, <1>15, <2>4, <3>1, Sizes DEF Sounding
    <3>10. rx.on
      BY <1>2, <1>5, <2>2, <3>5, Sizes
    <3>6. rx.on /\ rx'.on /\ rx'.n = rx.n + 1
      BY <1>9, <3>5, <3>10
    <3>7. rx'.n > 0 /\ rx'.n = ser'.bit * BaudDiv + ser'.baud
      <4>1. (ser.bit + 1) * BaudDiv = ser.bit * BaudDiv + BaudDiv
        BY <1>1, Sizes
      <4>2. rx.n = ser.bit * BaudDiv + (BaudDiv - 1) /\ rx.n > 0
        BY <1>4, <2>2, <3>6
      <4>3. ser.bit * BaudDiv \in Nat
        BY <1>1, Sizes
      <4> QED
        BY <3>1, <3>6, <4>1, <4>2, <4>3, Sizes
    <3>8. Len(rx'.bits) = Taken'
      <4>1. Len(rx.bits) = Taken
            /\ Len(rx'.bits) = Len(rx.bits) + (IF Samples THEN 1 ELSE 0)
            /\ (Samples <=> ser.bit >= 1 /\ ser.baud = Half)
        BY <1>3, <1>4, <1>9, <3>5, <3>6
      <4>2. Taken' = ser.bit
        BY <1>1, <3>1, Sizes DEF Taken, Half
      <4>3. CASE ser.bit = 0
        BY <4>1, <4>2, <4>3 DEF Taken
      <4>4. CASE ser.bit >= 1
        BY <1>1, <2>2, <4>1, <4>2, <4>4, Sizes DEF Taken
      <4> QED
        BY <1>1, <4>3, <4>4
    <3>9. Line'
      BY <1>1, <1>7, <3>1, <3>3, <3>4, <3>5, <3>6, <3>7, <3>8 DEF Line
    <3> QED
      BY <1>8, <2>2, <3>5, <3>9 DEF One
  <2> QED
    BY <2>3, <2>4
<1>16. PopReq \/ (~PopReq /\ ~ser.active)
         \/ (ser.active /\ ser.baud < BaudDiv - 1)
         \/ (ser.active /\ ser.baud >= BaudDiv - 1)
  BY <1>1, Sizes
<1> QED
  BY <1>12, <1>13, <1>14, <1>15, <1>16, Zenon

(* The edge in the queue: what is heard or dropped leaves it.              *)
LEMMA AccountStep ==
  ASSUME Registers, Line, Owing, NEW new \in Seq(Bytes), Account(new)
  PROVE  /\ queue' \in Seq(Bytes)
         /\ Hears => Sounding
         /\ Len(queue') = Owed - One(Hears) - One(push # << >> /\ ~NotFull) + Len(new)
         /\ \A k \in 1 .. Owed - One(Hears) - One(push # << >> /\ ~NotFull) :
              queue'[k] = queue[k + One(Hears)]
         /\ \A k \in 1 .. Len(new) :
              queue'[Owed - One(Hears) - One(push # << >> /\ ~NotFull) + k] = new[k]
<1> DEFINE left == IF Hears /\ queue # << >> THEN Tail(queue) ELSE queue
           drops == push # << >> /\ ~NotFull
           kept == IF drops /\ left # << >> THEN SubSeq(left, 1, Len(left) - 1) ELSE left
<1>1. queue \in Seq(Bytes) /\ Len(queue) \in Nat /\ Len(queue) = Owed /\ fifo.count \in Nat
  BY LenProperties DEF Owing, Registers
<1>2. Hears => Sounding
  <2>1. Hears => rx.on
    BY DEF Hears, Samples
  <2> QED
    BY <2>1 DEF Line
<1>3. Owed \in Nat /\ One(Hears) \in {0, 1} /\ One(drops) \in {0, 1}
      /\ Owed >= One(Hears) + One(drops)
  <2>1. One(Hears) <= One(Sounding) /\ One(drops) <= One(push # << >>)
    BY <1>2 DEF One
  <2>2. /\ One(Hears) \in {0, 1} /\ One(Sounding) \in {0, 1} /\ One(drops) \in {0, 1}
        /\ One(push # << >>) \in {0, 1} /\ One(req.kind = "write") \in {0, 1}
    BY DEF One
  <2>3. Owed = One(req.kind = "write") + One(push # << >>) + fifo.count + One(Sounding)
    BY DEF Owed
  <2> HIDE DEF drops
  <2> QED
    BY <1>1, <2>1, <2>2, <2>3
<1>4. /\ left \in Seq(Bytes) /\ Len(left) = Owed - One(Hears)
      /\ \A k \in 1 .. Len(left) : left[k] = queue[k + One(Hears)]
  <2>1. CASE Hears
    <3>1. queue # << >>
      BY <1>1, <1>3, <2>1, EmptySeq DEF One
    <3>2. /\ Tail(queue) \in Seq(Bytes) /\ Len(Tail(queue)) = Len(queue) - 1
          /\ \A k \in 1 .. Len(Tail(queue)) : Tail(queue)[k] = queue[k + 1]
      BY <1>1, <3>1, HeadTailProperties
    <3> QED
      BY <1>1, <2>1, <3>1, <3>2 DEF One
  <2>2. CASE ~Hears
    BY <1>1, <2>2 DEF One
  <2> QED
    BY <2>1, <2>2
<1> HIDE DEF left
<1>5. /\ kept \in Seq(Bytes) /\ Len(kept) = Owed - One(Hears) - One(drops)
      /\ \A k \in 1 .. Len(kept) : kept[k] = queue[k + One(Hears)]
  <2>1. CASE drops
    <3>0. One(drops) = 1 /\ Len(left) \in Nat
      BY <1>4, <2>1, LenProperties DEF One
    <3>1. Len(left) \in Nat /\ Len(left) >= 1
      BY <1>3, <1>4, <3>0
    <3>2. left # << >>
      BY <3>1
    <3>3. \A k \in 1 .. Len(left) - 1 : left[k] \in Bytes
      BY <1>4, <3>1, ElementOfSeq
    <3>4. SubSeq(left, 1, Len(left) - 1) \in Seq(Bytes)
          /\ Len(SubSeq(left, 1, Len(left) - 1)) = Len(left) - 1
          /\ \A k \in 1 .. Len(left) - 1 : SubSeq(left, 1, Len(left) - 1)[k] = left[k]
      BY <1>4, <3>1, <3>3, SubSeqProperties
    <3> QED
      BY <1>4, <2>1, <3>1, <3>2, <3>4 DEF One
  <2>2. CASE ~drops
    <3>1. One(drops) = 0 /\ kept = left
      BY <2>2 DEF One
    <3> QED
      BY <1>1, <1>4, <3>1 DEF One
  <2> QED
    BY <2>1, <2>2
<1>6. queue' = kept \o new
  BY DEF Account, left
<1> HIDE DEF kept
<1>7. /\ queue' \in Seq(Bytes) /\ Len(queue') = Len(kept) + Len(new)
      /\ Len(kept) \in Nat /\ Len(new) \in Nat
      /\ \A k \in 1 .. Len(kept) : queue'[k] = kept[k]
      /\ \A k \in 1 .. Len(new) : queue'[Len(kept) + k] = new[k]
  <2>1. /\ Len(kept) \in Nat /\ Len(new) \in Nat
        /\ queue' \in Seq(Bytes) /\ Len(queue') = Len(kept) + Len(new)
        /\ \A k \in 1 .. Len(kept) + Len(new) :
             queue'[k] = IF k <= Len(kept) THEN kept[k] ELSE new[k - Len(kept)]
    BY <1>5, <1>6, ConcatProperties, LenProperties
  <2>2. ASSUME NEW k \in 1 .. Len(kept) PROVE queue'[k] = kept[k]
    BY <2>1, <2>2
  <2>3. ASSUME NEW k \in 1 .. Len(new) PROVE queue'[Len(kept) + k] = new[k]
    <3>1. Len(kept) + k \in 1 .. Len(kept) + Len(new) /\ ~(Len(kept) + k <= Len(kept))
          /\ (Len(kept) + k) - Len(kept) = k
      BY <2>1, <2>3
    <3> QED
      BY <2>1, <3>1
  <2> QED
    BY <2>1, <2>2, <2>3
<1> QED
  BY <1>2, <1>5, <1>7

(* What came in, went on and left adds up.                                 *)
LEMMA Balance ==
  ASSUME NEW new \in Int, NEW asked \in Int, NEW pushed \in Int, NEW dropped \in Int,
         NEW stored \in Int, NEW popped \in Int, NEW listened \in Int,
         NEW now \in Int, NEW then \in Int, NEW c \in Int,
         then = now - listened + popped, stored + dropped = pushed
  PROVE  (asked + pushed + c + now) - listened - dropped + new
           = new + asked + (c + stored - popped) + then
OBVIOUS

(* The edge as a whole, with the access that is strobed in it.             *)
LEMMA OwingStep ==
  ASSUME Registers, Line, Owing, NEW strobe, NEW new \in Seq(Bytes),
         Len(new) = One(strobe.kind = "write"),
         Hardware(strobe), Listen, Account(new)
  PROVE  Line' /\ Owing'
<1>1. /\ Line'
      /\ One(Sounding') = One(Sounding) - One(Hears) + One(PopReq)
  BY LineStep DEF Hardware
<1>2. /\ queue' \in Seq(Bytes)
      /\ Len(queue') = Owed - One(Hears) - One(push # << >> /\ ~NotFull) + Len(new)
  BY AccountStep
<1>3. req' = strobe
  BY DEF Hardware
<1>4. push' # << >> <=> req.kind = "write"
  <2>1. req.kind = "write" => req.byte # << >>
    <3>1. req.kind = "write" => req.byte \in Octet
      BY BytesAssumption DEF Registers, Octet, Bit
    <3> QED
      BY <3>1, OctetLength
  <2> QED
    BY <2>1 DEF Hardware
<1>5. fifo'.count = fifo.count + One(PushReq) - One(PopReq) /\ fifo.count \in Nat
  BY DEF Hardware, NextFifo, Registers, One
<1>6. One(PushReq) + One(push # << >> /\ ~NotFull) = One(push # << >>)
  BY DEF PushReq, One
<1>7. Owed' = One(strobe.kind = "write") + One(req.kind = "write") + fifo'.count
              + One(Sounding')
  BY <1>3, <1>4 DEF Owed, One
<1>8. /\ One(strobe.kind = "write") \in {0, 1} /\ One(req.kind = "write") \in {0, 1}
      /\ One(push # << >>) \in {0, 1} /\ One(push # << >> /\ ~NotFull) \in {0, 1}
      /\ One(PushReq) \in {0, 1} /\ One(PopReq) \in {0, 1} /\ One(Hears) \in {0, 1}
      /\ One(Sounding) \in {0, 1} /\ One(Sounding') \in {0, 1}
  BY DEF One
<1>9. Len(queue') = Owed'
  <2>1. Owed = One(req.kind = "write") + One(push # << >>) + fifo.count + One(Sounding)
    BY DEF Owed
  <2>2. Len(queue') =
          (One(req.kind = "write") + One(push # << >>) + fifo.count + One(Sounding))
            - One(Hears) - One(push # << >> /\ ~NotFull) + One(strobe.kind = "write")
    BY <1>2, <2>1
  <2>3. Owed' = One(strobe.kind = "write") + One(req.kind = "write")
                  + (fifo.count + One(PushReq) - One(PopReq)) + One(Sounding')
    BY <1>5, <1>7
  <2>4. (One(req.kind = "write") + One(push # << >>) + fifo.count + One(Sounding))
            - One(Hears) - One(push # << >> /\ ~NotFull) + One(strobe.kind = "write")
        = One(strobe.kind = "write") + One(req.kind = "write")
            + (fifo.count + One(PushReq) - One(PopReq)) + One(Sounding')
    BY <1>1, <1>5, <1>6, <1>8, Balance
  <2> QED
    BY <2>2, <2>3, <2>4
<1> QED
  BY <1>1, <1>2, <1>9 DEF Owing

(* When the answer "not busy" is on the bus, nothing has entered the FIFO  *)
(* since it was read.                                                      *)
LEMMA DrainedStep ==
  ASSUME Registers, PollInv, NEW strobe, Hardware(strobe)
  PROVE  Drained'
<1> SUFFICES ASSUME ack', step' = "drain", ~status'.busy
             PROVE  ~ser'.active /\ fifo'.count = 0
  BY DEF Drained
<1>1. req.kind # "none" /\ ~TxBusy
  BY DEF Hardware
<1>2. push = << >>
  BY <1>1 DEF PollInv
<1>3. ~ser.active /\ fifo.count = 0
  BY <1>1 DEF TxBusy, NotEmpty
<1>4. ~PopReq /\ ~PushReq
  BY <1>2, <1>3 DEF PopReq, PushReq, NotEmpty
<1>5. fifo'.count = 0
  BY <1>3, <1>4 DEF Hardware, NextFifo
<1>6. ~ser'.active
  BY <1>3, <1>4, SerMoves DEF Hardware
<1> QED
  BY <1>5, <1>6

DrainInv == Registers /\ PollInv /\ Line /\ Owing /\ Drained

LEMMA DrainInitially == UartInit => DrainInv
<1> SUFFICES ASSUME UartInit PROVE DrainInv
  OBVIOUS
<1>1. /\ ~ser.active /\ ser.tx = 1 /\ ~ack /\ queue = << >> /\ req.kind = "none"
      /\ push = << >> /\ fifo.count = 0 /\ ~rx.on /\ rx.bits = << >> /\ rx.on \in BOOLEAN
  BY DEF UartInit, NoRequest, Deaf
<1>2. Line
  BY <1>1 DEF Line, Sounding
<1>3. Owing
  BY <1>1 DEF Owing, Owed, One, Sounding
<1> QED
  BY <1>1, <1>2, <1>3, RegistersInitially, PollInitially DEF DrainInv, Drained

LEMMA DrainStep == DrainInv /\ [UartNext]_uartVars => DrainInv'
<1> SUFFICES ASSUME DrainInv, [UartNext]_uartVars PROVE DrainInv'
  OBVIOUS
<1> USE DEF DrainInv
<1>1. Registers' /\ PollInv'
  BY RegistersStep, PollStep
<1>2. ASSUME NEW strobe, NEW new \in Seq(Bytes), Len(new) = One(strobe.kind = "write"),
             Hardware(strobe), Listen, Account(new)
      PROVE  Line' /\ Owing' /\ Drained'
  BY <1>2, OwingStep, DrainedStep
<1>3. << >> \in Seq(Bytes) /\ Len(<< >>) = 0
  OBVIOUS
<1>4. CASE Quiet
  <2>1. Len(<< >>) = One(NoRequest.kind = "write")
    BY DEF NoRequest, One
  <2> QED
    BY <1>1, <1>2, <1>3, <1>4, <2>1 DEF Quiet
<1>5. ASSUME NEW s \in {"ready", "drain"}, Poll(s) PROVE DrainInv'
  <2> DEFINE strobe == [kind |-> "status", byte |-> << >>]
  <2>1. Len(<< >>) = One(strobe.kind = "write")
    BY DEF One
  <2>2. Hardware(strobe) /\ Listen /\ Account(<< >>)
    BY <1>5 DEF Poll
  <2> HIDE DEF strobe
  <2> QED
    BY <1>1, <1>2, <1>3, <2>1, <2>2
<1>6. ASSUME NEW b \in Bytes, WriteByte(b) PROVE DrainInv'
  <2> DEFINE strobe == [kind |-> "write", byte |-> b]
  <2>1. << b >> \in Seq(Bytes) /\ Len(<< b >>) = One(strobe.kind = "write")
    BY DEF One
  <2>2. Hardware(strobe) /\ Listen /\ Account(<< b >>)
    BY <1>6 DEF WriteByte
  <2> HIDE DEF strobe
  <2> QED
    BY <1>1, <1>2, <2>1, <2>2
<1>7. CASE UNCHANGED uartVars
  BY <1>1, <1>7 DEF uartVars, hwVars, Line, Owing, Owed, Drained, Sounding, Taken, One
<1> QED
  BY <1>4, <1>5, <1>6, <1>7 DEF UartNext

(* A driver that has read "not busy" knows that the listener has heard     *)
(* every byte it wrote, for every depth, baud rate and frame length.       *)
THEOREM UartDrainMeansSent == UartSpec => []DrainMeansSent
<1>1. DrainInv => DrainMeansSent
  <2> SUFFICES ASSUME DrainInv, ack, step = "drain", ~status.busy PROVE queue = << >>
    BY DEF DrainMeansSent
  <2>1. ~ser.active /\ fifo.count = 0
    BY DEF DrainInv, Drained
  <2>2. req.kind = "none" /\ push = << >>
    BY DEF DrainInv, PollInv
  <2>3. Owed = 0
    BY <2>1, <2>2 DEF Owed, One, Sounding
  <2> QED
    BY <2>3, EmptySeq DEF DrainInv, Owing
<1> QED
  BY <1>1, DrainInitially, DrainStep, PTL DEF UartSpec

(***************************************************************************)
(* The bytes themselves.  The queue of the byte channel is, from its head, *)
(* the byte on the line, the FIFO from rd to wr, the byte that is pushed   *)
(* and the byte that is requested.                                         *)
(***************************************************************************)
Wrap(n) == IF n < Depth THEN n ELSE n - Depth
Slot(k) == Wrap(fifo.rd + k)

(* The shifter still holds the rest of the frame, the listener the bits    *)
(* before.                                                                 *)
LineHolds(b) ==
  /\ \A k \in 1 .. Bits + 2 : k + ser.bit <= Bits + 2 =>
       ser.shifter[k] = Frame(b)[k + ser.bit]
  /\ rx.on => \A k \in 1 .. Len(rx.bits) : rx.bits[k] = b[k]

InOrder ==
  /\ fifo.wr = Slot(fifo.count)
  /\ Sounding => LineHolds(queue[1])
  /\ \A k \in 0 .. Depth - 1 : k < fifo.count =>
       queue[One(Sounding) + 1 + k] = fifo.mem[Slot(k)]
  /\ push # << >> => queue[One(Sounding) + fifo.count + 1] = push
  /\ req.kind = "write" =>
       queue[One(Sounding) + fifo.count + One(push # << >>) + 1] = req.byte

(* The byte that is on the line stays there, bit by bit, and is the byte   *)
(* the listener hears.                                                     *)
LEMMA LineHoldsStep ==
  ASSUME Registers, Line, ser' = NextSer, Listen, NEW b \in Octet,
         Sounding => LineHolds(b), PopReq => b = fifo.mem[fifo.rd]
  PROVE  /\ Sounding' => LineHolds(b)'
         /\ Hears => heard' = b
<1>1. /\ ser.bit \in Nat /\ ser.bit <= LastBit /\ ser.baud \in 0 .. BaudDiv - 1
      /\ ser.active \in BOOLEAN /\ ser.shifter \in Seq(Bit) /\ Len(ser.shifter) = Bits + 2
      /\ ser.tx \in Bit /\ rx.on \in BOOLEAN /\ rx.bits \in Seq(Bit)
  BY Sizes DEF Registers, Line
<1>2. /\ Samples <=> rx.on /\ ser.bit >= 1 /\ ser.baud = Half
      /\ Hears <=> rx.on /\ ser.bit = LastBit /\ ser.baud = Half
  BY SampleTime
<1>3. /\ rx.on => Sounding /\ Len(rx.bits) = Taken
      /\ ser.tx = IF ser.active THEN ser.shifter[1] ELSE 1
  BY DEF Line
<1>4. /\ Frame(b)[Bits + 2] = 1
      /\ \A k \in 1 .. Bits : Frame(b)[k + 1] = b[k]
  BY FrameShape
<1>5. rx' = IF ~rx.on THEN IF ser.tx = 0 THEN [on |-> TRUE, n |-> 1, bits |-> << >>]
                           ELSE Deaf
            ELSE IF Hears THEN Deaf
            ELSE [on |-> TRUE, n |-> rx.n + 1,
                  bits |-> IF Samples THEN Append(rx.bits, ser.tx) ELSE rx.bits]
  BY DEF Listen
<1>6. Sounding => /\ \A k \in 1 .. Bits + 2 : k + ser.bit <= Bits + 2 =>
                        ser.shifter[k] = Frame(b)[k + ser.bit]
                  /\ rx.on => \A k \in 1 .. Len(rx.bits) : rx.bits[k] = b[k]
  BY DEF LineHolds
<1>7. ASSUME rx'.on
      PROVE  \A k \in 1 .. Len(rx'.bits) : rx'.bits[k] = b[k]
  <2>1. CASE ~rx.on
    <3>1. rx'.bits = << >>
      BY <1>5, <1>7, <2>1 DEF Deaf
    <3> QED
      BY <3>1
  <2>2. CASE rx.on /\ Hears
    BY <1>5, <1>7, <2>2 DEF Deaf
  <2>3. CASE rx.on /\ ~Hears /\ ~Samples
    <3>1. rx'.bits = rx.bits
      BY <1>5, <2>3
    <3> QED
      BY <1>3, <1>6, <2>3, <3>1
  <2>4. CASE rx.on /\ ~Hears /\ Samples
    <3>1. rx'.bits = Append(rx.bits, ser.tx)
      BY <1>5, <2>4
    <3>2. /\ Len(rx'.bits) = Len(rx.bits) + 1 /\ Len(rx.bits) \in Nat
          /\ \A k \in 1 .. Len(rx.bits) : rx'.bits[k] = rx.bits[k]
          /\ rx'.bits[Len(rx.bits) + 1] = ser.tx
      BY <1>1, <3>1, AppendProperties, LenProperties
    <3>3. /\ ser.bit >= 1 /\ ser.bit <= Bits /\ ser.baud = Half
          /\ Len(rx.bits) = ser.bit - 1
      BY <1>1, <1>2, <1>3, <2>4, Sizes DEF Taken
    <3>4. ser.tx = b[ser.bit]
      <4>1. ser.tx = ser.shifter[1]
        BY <1>3, <2>4 DEF Sounding
      <4>2. ser.shifter[1] = Frame(b)[1 + ser.bit]
        <5>1. 1 \in 1 .. Bits + 2 /\ 1 + ser.bit <= Bits + 2
          BY <1>1, <3>3, Sizes
        <5>2. Sounding
          BY <1>3, <2>4
        <5> QED
          BY <1>6, <5>1, <5>2
      <4>3. Frame(b)[ser.bit + 1] = b[ser.bit]
        BY <1>1, <1>4, <3>3
      <4> QED
        BY <1>1, <4>1, <4>2, <4>3
    <3>5. \A k \in 1 .. Len(rx.bits) : rx.bits[k] = b[k]
      BY <1>3, <1>6, <2>4
    <3>6. Len(rx.bits) + 1 = ser.bit
      BY <1>1, <3>2, <3>3
    <3> SUFFICES ASSUME NEW k \in 1 .. Len(rx'.bits)
                 PROVE  rx'.bits[k] = b[k]
      OBVIOUS
    <3>7. CASE k = Len(rx.bits) + 1
      <4>1. k = ser.bit /\ rx'.bits[k] = ser.tx
        BY <3>2, <3>6, <3>7
      <4> QED
        BY <3>4, <4>1
    <3>8. CASE k # Len(rx.bits) + 1
      <4>1. k \in 1 .. Len(rx.bits)
        BY <3>2, <3>8
      <4> QED
        BY <3>2, <3>5, <4>1
    <3> QED
      BY <3>7, <3>8
  <2> QED
    BY <1>1, <2>1, <2>2, <2>3, <2>4
<1>8. ASSUME Sounding'
      PROVE  \A k \in 1 .. Bits + 2 : k + ser'.bit <= Bits + 2 =>
               ser'.shifter[k] = Frame(b)[k + ser'.bit]
  <2>1. CASE PopReq
    <3>1. ser'.bit = 0 /\ ser'.shifter = Frame(b)
      BY <2>1, SerMoves
    <3> QED
      BY <3>1, Sizes
  <2>2. CASE ~PopReq /\ ~ser.active
    BY <1>8, <2>2, SerMoves DEF Sounding
  <2>3. CASE ser.active /\ ser.baud < BaudDiv - 1
    <3>1. /\ ser'.bit = ser.bit /\ ser'.shifter = ser.shifter
          /\ ser'.baud = ser.baud + 1
      BY <2>3, SerMoves
    <3>2. Sounding
      BY <1>1, <1>8, <2>3, <3>1, Sizes DEF Sounding
    <3> QED
      BY <1>6, <3>1, <3>2
  <2>4. CASE ser.active /\ ser.baud >= BaudDiv - 1
    <3>1. ser'.active = (ser.bit # LastBit)
          /\ ser'.shifter = Append(Tail(ser.shifter), 1)
      BY <2>4, SerMoves
    <3>2. ser.bit # LastBit /\ ser'.bit = ser.bit + 1
      BY <1>8, <2>4, <3>1, SerMoves DEF Sounding
    <3>3. Sounding
      BY <1>1, <2>4, <3>2, Sizes DEF Sounding
    <3>4. \A k \in 1 .. Bits + 1 : ser'.shifter[k] = ser.shifter[k + 1]
      BY <1>1, <3>1, Shifted
    <3> SUFFICES ASSUME NEW k \in 1 .. Bits + 2, k + ser'.bit <= Bits + 2
                 PROVE  ser'.shifter[k] = Frame(b)[k + ser'.bit]
      OBVIOUS
    <3>5. k \in 1 .. Bits + 1 /\ k + 1 \in 1 .. Bits + 2
          /\ (k + 1) + ser.bit <= Bits + 2 /\ (k + 1) + ser.bit = k + ser'.bit
      BY <1>1, <3>2, Sizes
    <3> QED
      BY <1>6, <3>3, <3>4, <3>5
  <2> QED
    BY <1>1, <2>1, <2>2, <2>3, <2>4, Sizes
<1>9. ASSUME Hears PROVE heard' = b
  <2>1. /\ rx.on /\ Sounding /\ ser.bit = LastBit /\ ser.baud = Half
        /\ Len(rx.bits) = Bits
    BY <1>2, <1>3, <1>9, Sizes DEF Taken
  <2>2. ser.tx = 1
    <3>1. ser.tx = ser.shifter[1]
      BY <1>3, <2>1 DEF Sounding
    <3>2. ser.shifter[1] = Frame(b)[1 + ser.bit] /\ 1 + ser.bit = Bits + 2
      BY <1>6, <2>1, Sizes
    <3> QED
      BY <1>4, <3>1, <3>2
  <2>3. heard' = rx.bits
    BY <1>9, <2>2 DEF Listen
  <2>4. b \in Seq(Bit) /\ Len(b) = Bits
    BY OctetLength
  <2>5. \A k \in 1 .. Len(rx.bits) : rx.bits[k] = b[k]
    BY <1>6, <2>1
  <2> QED
    BY <1>1, <2>1, <2>3, <2>4, <2>5, SeqEqual
<1>10. Sounding' => LineHolds(b)'
  BY <1>7, <1>8 DEF LineHolds
<1> QED
  BY <1>9, <1>10

LEMMA WrapNext ==
  ASSUME NEW n \in Nat, n < Depth + Depth - 1
  PROVE  /\ Wrap(n) \in 0 .. Depth - 1
         /\ Wrap(n + 1) = IF Wrap(n) + 1 < Depth THEN Wrap(n) + 1 ELSE 0
<1>1. Depth \in Nat /\ Depth >= 2
  BY DepthAssumption
<1> QED
  BY <1>1 DEF Wrap

LEMMA WrapTwice ==
  ASSUME NEW r \in 0 .. Depth - 1, NEW q \in {0, 1}, NEW k \in Nat, k + q <= Depth
  PROVE  Wrap(Wrap(r + q) + k) = Wrap(r + (k + q))
<1>1. Depth \in Nat /\ Depth >= 2
  BY DepthAssumption
<1>2. CASE q = 0
  BY <1>1, <1>2 DEF Wrap
<1>3. CASE q = 1
  BY <1>1, <1>3 DEF Wrap
<1> QED
  BY <1>2, <1>3

LEMMA WrapApart ==
  ASSUME NEW r \in 0 .. Depth - 1, NEW j \in Nat, NEW c \in Nat, j < c, c < Depth
  PROVE  Wrap(r + j) # Wrap(r + c)
<1>1. Depth \in Nat /\ Depth >= 2
  BY DepthAssumption
<1> QED
  BY <1>1 DEF Wrap

(* The ring: what is stored moves up by what is popped, and what is pushed *)
(* is behind it.                                                           *)
LEMMA FifoStep ==
  ASSUME Registers, fifo' = NextFifo, fifo.wr = Slot(fifo.count)
  PROVE  /\ (fifo.wr = Slot(fifo.count))'
         /\ fifo'.count = fifo.count + One(PushReq) - One(PopReq)
         /\ \A k \in 0 .. Depth - 1 : k < fifo'.count =>
              fifo'.mem[Slot(k)'] = IF k + One(PopReq) < fifo.count
                                    THEN fifo.mem[Slot(k + One(PopReq))] ELSE push
<1> DEFINE rd == fifo.rd
           c  == fifo.count
           w  == One(PushReq)
           q  == One(PopReq)
<1>1. Depth \in Nat /\ Depth >= 2
  BY DepthAssumption
<1>2. /\ rd \in 0 .. Depth - 1 /\ c \in 0 .. Depth
      /\ fifo.mem \in [0 .. Depth - 1 -> Octet]
  BY DEF Registers
<1>3. fifo.wr = Wrap(rd + c)
  BY DEF Slot
<1>4. w \in {0, 1} /\ q \in {0, 1} /\ (PushReq <=> w = 1) /\ (PopReq <=> q = 1)
  BY DEF One
<1>5. fifo'.count = c + w - q
  BY DEF NextFifo, One
<1>6. (w = 1 => c < Depth) /\ (q = 1 => c >= 1)
  BY <1>2, <1>4 DEF PushReq, PopReq, NotFull, NotEmpty
<1>7. \A n \in 0 .. Depth - 1 : (n + 1) % Depth = IF n + 1 < Depth THEN n + 1 ELSE 0
  BY <1>1
<1>8. fifo'.rd = Wrap(rd + q)
  <2>1. Wrap(rd) = rd
    BY <1>1, <1>2 DEF Wrap
  <2>2. rd < Depth + Depth - 1 /\ rd \in Nat
    BY <1>1, <1>2
  <2>3. fifo'.rd = IF q = 1 THEN (rd + 1) % Depth ELSE rd
    BY <1>4, Zenon DEF NextFifo
  <2>4. CASE q = 0
    BY <1>2, <2>1, <2>3, <2>4
  <2>5. CASE q = 1
    BY <1>2, <1>7, <2>1, <2>2, <2>3, <2>5, WrapNext
  <2> QED
    BY <1>4, <2>4, <2>5
<1>9. fifo'.wr = Wrap(rd + (c + w))
  <2>1. fifo'.wr = IF w = 1 THEN (fifo.wr + 1) % Depth ELSE fifo.wr
    BY <1>4, Zenon DEF NextFifo
  <2>2. CASE w = 0
    BY <1>2, <1>3, <2>1, <2>2
  <2>3. CASE w = 1
    <3>1. rd + c \in Nat /\ rd + c < Depth + Depth - 1
      BY <1>1, <1>2, <1>6, <2>3
    <3>2. Wrap(rd + c) \in 0 .. Depth - 1
      BY <3>1, WrapNext
    <3>3. fifo'.wr = Wrap((rd + c) + 1)
      BY <1>3, <1>7, <2>1, <2>3, <3>1, <3>2, WrapNext
    <3> QED
      BY <1>2, <2>3, <3>3
  <2> QED
    BY <1>4, <2>2, <2>3
<1>10. (fifo.wr = Slot(fifo.count))'
  <2>1. c + w - q \in Nat /\ (c + w - q) + q <= Depth /\ (c + w - q) + q = c + w
    BY <1>1, <1>2, <1>4, <1>6
  <2>2. Wrap(fifo'.rd + fifo'.count) = Wrap(rd + (c + w))
    BY <1>2, <1>4, <1>5, <1>8, <2>1, WrapTwice
  <2> QED
    BY <1>9, <2>2 DEF Slot
<1>11. ASSUME NEW k \in 0 .. Depth - 1, k < fifo'.count
       PROVE  fifo'.mem[Slot(k)'] = IF k + q < c THEN fifo.mem[Slot(k + q)] ELSE push
  <2>1. k + q < c + w /\ k + q \in Nat /\ k + q <= Depth
    BY <1>1, <1>2, <1>4, <1>5, <1>6, <1>11
  <2>2. Slot(k)' = Wrap(rd + (k + q))
    BY <1>2, <1>4, <1>8, <2>1, WrapTwice DEF Slot
  <2>3. fifo'.mem = IF w = 1 THEN [fifo.mem EXCEPT ![fifo.wr] = push] ELSE fifo.mem
    BY <1>4, Zenon DEF NextFifo
  <2>4. CASE k + q < c
    <3>1. rd + (k + q) \in Nat /\ rd + (k + q) < Depth + Depth - 1
      BY <1>1, <1>2, <2>1, <2>4
    <3>2. Wrap(rd + (k + q)) \in 0 .. Depth - 1
      BY <3>1, WrapNext
    <3>3. w = 1 => Wrap(rd + (k + q)) # fifo.wr
      BY <1>2, <1>3, <1>6, <2>1, <2>4, WrapApart
    <3>4. fifo'.mem[Wrap(rd + (k + q))] = fifo.mem[Wrap(rd + (k + q))]
      BY <1>2, <2>3, <3>2, <3>3
    <3> QED
      BY <2>2, <2>4, <3>4 DEF Slot
  <2>5. CASE ~(k + q < c)
    <3>1. w = 1 /\ k + q = c
      BY <1>2, <1>4, <2>1, <2>5
    <3>2. Slot(k)' = fifo.wr
      BY <1>3, <2>2, <3>1
    <3>3. fifo.wr \in 0 .. Depth - 1
      BY DEF Registers
    <3>4. fifo'.mem[fifo.wr] = push
      BY <1>2, <2>3, <3>1, <3>3
    <3> QED
      BY <2>5, <3>2, <3>4
  <2> QED
    BY <2>4, <2>5
<1> QED
  BY <1>5, <1>10, <1>11

(* Where the bytes are in the queue, before and after the edge.            *)
LEMMA Places ==
  ASSUME NEW s \in {0, 1}, NEW h \in {0, 1}, NEW p \in {0, 1}, NEW d \in {0, 1},
         NEW w \in {0, 1}, NEW q \in {0, 1}, NEW a \in {0, 1}, NEW c \in Nat,
         NEW z \in Int, NEW e \in Int, NEW owed \in Int,
         p = w + d, z = s - h + q, e = c + w - q, owed = a + p + c + s,
         h <= s, q <= c
  PROVE  /\ \A k \in Nat : k < e => z + 1 + k \in 1 .. owed - h - d
         /\ \A k \in Nat : (z + 1 + k) + h = s + 1 + (k + q)
         /\ a = 1 /\ p = 0 => z + e + 1 \in 1 .. owed - h - d
         /\ p = 0 => (z + e + 1) + h = s + c + p + 1
         /\ owed - h - d + 1 = z + e + a + 1
<1>1. z >= 0 /\ e >= 0
  OBVIOUS
<1>2. owed - h - d = z + e + a
  OBVIOUS
<1>3. \A k \in Nat : k < e => z + 1 + k \in 1 .. z + e + a
  BY <1>1
<1>4. a = 1 => z + e + 1 \in 1 .. z + e + a
  BY <1>1
<1>5. \A k \in Nat : (z + 1 + k) + h = s + 1 + (k + q)
  OBVIOUS
<1>6. p = 0 => (z + e + 1) + h = s + c + p + 1
  OBVIOUS
<1> QED
  BY <1>2, <1>3, <1>4, <1>5, <1>6

LEMMA InOrderStep ==
  ASSUME Registers, PollInv, Line, Owing, InOrder, NEW strobe, NEW new \in Seq(Bytes),
         Len(new) = One(strobe.kind = "write"),
         strobe.kind = "write" => new[1] = strobe.byte,
         Hardware(strobe), Listen, Account(new)
  PROVE  /\ InOrder'
         /\ Hears => Owed >= 1 /\ heard' = queue[1]
<1> DEFINE s == One(Sounding)
           h == One(Hears)
           c == fifo.count
           p == One(push # << >>)
           d == One(push # << >> /\ ~NotFull)
           w == One(PushReq)
           q == One(PopReq)
           a == One(req.kind = "write")
           z == One(Sounding')
           e == fifo'.count
<1>1. Depth \in Nat /\ Depth >= 2
  BY DepthAssumption
<1>2. fifo' = NextFifo /\ ser' = NextSer /\ req' = strobe
      /\ push' = IF req.kind = "write" THEN req.byte ELSE << >>
  BY DEF Hardware
<1>3. /\ s \in {0, 1} /\ h \in {0, 1} /\ p \in {0, 1} /\ d \in {0, 1} /\ w \in {0, 1}
      /\ q \in {0, 1} /\ a \in {0, 1} /\ z \in {0, 1} /\ p = w + d
  BY DEF One, PushReq
<1>4. c \in 0 .. Depth
  BY DEF Registers
<1>5. z = s - h + q
  BY <1>2, LineStep
<1>6. /\ (fifo.wr = Slot(fifo.count))'
      /\ e = c + w - q
      /\ \A k \in 0 .. Depth - 1 : k < e =>
           fifo'.mem[Slot(k)'] = IF k + q < c THEN fifo.mem[Slot(k + q)] ELSE push
  BY <1>2, FifoStep DEF InOrder
<1>7. /\ \A k \in 1 .. Owed - h - d : queue'[k] = queue[k + h]
      /\ \A k \in 1 .. Len(new) : queue'[Owed - h - d + k] = new[k]
      /\ queue \in Seq(Bytes) /\ Len(queue) = Owed
  BY AccountStep DEF Owing
<1>8. Owed = a + p + c + s
  BY DEF Owed
<1>9. /\ (q = 1 => s = 0 /\ h = 0 /\ c >= 1) /\ (h = 1 => s = 1)
      /\ (w = 1 => c < Depth) /\ e \in 0 .. Depth
  <2>1. PopReq => ~Sounding /\ c >= 1
    BY <1>4 DEF PopReq, NotEmpty, Sounding
  <2>2. Hears => Sounding
    BY <1>2, LineStep
  <2>3. PushReq => c < Depth
    BY DEF PushReq, NotFull
  <2>4. e \in 0 .. Depth
    BY <1>2, FifoType
  <2> QED
    BY <2>1, <2>2, <2>3, <2>4 DEF One
<1>10. a = 0 \/ p = 0
  BY DEF PollInv, One
<1>11. /\ s = 1 => LineHolds(queue[1])
       /\ \A k \in 0 .. Depth - 1 : k < c => queue[s + 1 + k] = fifo.mem[Slot(k)]
       /\ p = 1 => queue[s + c + 1] = push
       /\ a = 1 => queue[s + c + p + 1] = req.byte
  BY DEF InOrder, One
<1>12. (Sounding <=> s = 1) /\ (Hears <=> h = 1) /\ (PopReq <=> q = 1) /\ (Sounding' <=> z = 1)
       /\ (req.kind = "write" <=> a = 1)
  BY DEF One
<1> HIDE DEF s, h, c, p, d, w, q, a, z, e
<1>20. /\ \A k \in Nat : k < e => z + 1 + k \in 1 .. Owed - h - d
       /\ \A k \in Nat : (z + 1 + k) + h = s + 1 + (k + q)
       /\ a = 1 /\ p = 0 => z + e + 1 \in 1 .. Owed - h - d
       /\ p = 0 => (z + e + 1) + h = s + c + p + 1
       /\ Owed - h - d + 1 = z + e + a + 1
  <2>1. h <= s /\ q <= c /\ c \in Nat
    BY <1>3, <1>4, <1>9
  <2>2. z \in Int /\ e \in Int /\ Owed \in Int
    BY <1>3, <1>4, <1>6, <1>8
  <2> QED
    BY <1>3, <1>5, <1>6, <1>8, <2>1, <2>2, Places
(* the line *)
<1>13. /\ (Sounding' => LineHolds(queue[1])')
       /\ (Hears => Owed >= 1 /\ heard' = queue[1])
  <2>1. CASE z = 0 /\ h = 0
    BY <1>12, <2>1
  <2>2. CASE z = 1 \/ h = 1
    <3>1. Owed >= 1 /\ Owed \in Nat
      BY <1>3, <1>4, <1>5, <1>8, <1>9, <2>2
    <3>2. PICK b \in Bytes : b = queue[1]
      BY <1>7, <3>1, ElementOfSeq
    <3>3. b \in Octet
      BY BytesAssumption DEF Octet, Bit
    <3>4. q = 1 => b = fifo.mem[fifo.rd]
      <4>1. Slot(0) = fifo.rd
        BY <1>1 DEF Slot, Wrap, Registers
      <4>2. q = 1 => queue[0 + 1 + 0] = fifo.mem[Slot(0)]
        BY <1>1, <1>4, <1>9, <1>11
      <4> QED
        BY <3>2, <4>1, <4>2
    <3>5. (Sounding' => LineHolds(b)') /\ (Hears => heard' = b)
      BY <1>2, <1>11, <1>12, <3>2, <3>3, <3>4, LineHoldsStep
    <3>6. z = 1 => queue'[1] = b
      <4>1. z = 1 => h = 0 /\ 1 \in 1 .. Owed - h - d
        BY <1>3, <1>4, <1>5, <1>8, <1>9, <1>10
      <4>2. z = 1 => queue'[1] = queue[1 + h] /\ 1 + h = 1
        BY <1>7, <4>1
      <4> QED
        BY <3>2, <4>2
    <3>7. Sounding' => LineHolds(queue[1])'
      BY <1>12, <3>5, <3>6 DEF LineHolds
    <3> QED
      BY <3>1, <3>2, <3>5, <3>7
  <2> QED
    BY <1>3, <2>1, <2>2
(* the FIFO *)
<1>14. ASSUME NEW k \in 0 .. Depth - 1, k < e
       PROVE  queue'[z + 1 + k] = fifo'.mem[Slot(k)']
  <2>1. /\ z + 1 + k \in 1 .. Owed - h - d
        /\ (z + 1 + k) + h = s + 1 + (k + q)
    BY <1>14, <1>20
  <2>2. queue'[z + 1 + k] = queue[s + 1 + (k + q)]
    BY <1>7, <2>1
  <2>3. CASE k + q < c
    <3>1. k + q \in 0 .. Depth - 1
      BY <1>1, <1>3, <1>4, <2>3
    <3> QED
      BY <1>6, <1>11, <1>14, <2>2, <2>3, <3>1
  <2>4. CASE ~(k + q < c)
    <3>1. k + q = c /\ p = 1 /\ s + 1 + (k + q) = s + c + 1
      BY <1>3, <1>4, <1>6, <1>14, <2>4
    <3> QED
      BY <1>6, <1>11, <1>14, <2>2, <2>4, <3>1
  <2> QED
    BY <2>3, <2>4
(* what follows it *)
<1>15. ASSUME a = 1 PROVE queue'[z + e + 1] = push'
  <2>1. /\ z + e + 1 \in 1 .. Owed - h - d
        /\ (z + e + 1) + h = s + c + p + 1
    BY <1>10, <1>15, <1>20
  <2>2. push' = req.byte
    BY <1>2, <1>12, <1>15
  <2>3. queue'[z + e + 1] = queue[s + c + p + 1]
    BY <1>7, <2>1
  <2> QED
    BY <1>11, <1>15, <2>2, <2>3
<1>16. ASSUME strobe.kind = "write" PROVE queue'[z + e + a + 1] = strobe.byte
  <2>1. Len(new) = 1 /\ Owed - h - d + 1 = z + e + a + 1
    <3>1. Len(new) = 1
      BY <1>16 DEF One
    <3> QED
      BY <1>20, <3>1
  <2>2. queue'[Owed - h - d + 1] = new[1]
    <3>1. 1 \in 1 .. Len(new)
      BY <2>1
    <3> QED
      BY <1>7, <3>1
  <2> QED
    BY <1>16, <2>1, <2>2
<1>17. push' # << >> => a = 1
  BY <1>2, <1>12
<1>18. One(push' # << >>) = a
  <2>1. a = 1 => req.byte # << >>
    <3>1. req.kind = "write" => req.byte \in Octet
      BY BytesAssumption DEF Registers, Octet, Bit
    <3> QED
      BY <1>12, <3>1, OctetLength
  <2> QED
    BY <1>2, <1>3, <1>12, <2>1 DEF One
<1>19. /\ One(Sounding)' = z /\ fifo'.count = e
       /\ \A k \in 0 .. Depth - 1 : k < e => queue'[z + 1 + k] = fifo'.mem[Slot(k)']
  BY <1>14 DEF z, e, One
<1> QED
  BY <1>2, <1>6, <1>13, <1>15, <1>16, <1>17, <1>18, <1>19 DEF InOrder

OrderInv == DrainInv /\ InOrder

LEMMA OrderInitially == UartInit => OrderInv
<1> SUFFICES ASSUME UartInit PROVE InOrder
  BY DrainInitially DEF OrderInv
<1>1. /\ fifo.wr = 0 /\ fifo.rd = 0 /\ fifo.count = 0 /\ ~ser.active
      /\ push = << >> /\ req.kind = "none"
  BY DEF UartInit, NoRequest
<1>2. fifo.wr = Slot(fifo.count)
  BY <1>1, DepthAssumption DEF Slot, Wrap
<1>3. ~Sounding /\ \A k \in 0 .. Depth - 1 : ~(k < fifo.count)
  BY <1>1 DEF Sounding
<1> QED
  BY <1>1, <1>2, <1>3 DEF InOrder

(* An edge is one step of the channel: what the listener hears is the head *)
(* of the queue, and only a full FIFO loses, the newest byte.              *)
LEMMA ChannelEdge ==
  ASSUME OrderInv, NEW strobe, NEW new \in Seq(Bytes),
         Len(new) = One(strobe.kind = "write"),
         strobe.kind = "write" => new[1] = strobe.byte,
         new = << >> \/ \E b \in Bytes : new = << b >>,
         Hardware(strobe), Listen, Account(new)
  PROVE  InOrder' /\ C!ChannelNext
<1> USE DEF OrderInv, DrainInv
<1> DEFINE loses == push # << >> /\ ~NotFull
           left == IF Hears THEN Tail(queue) ELSE queue
           kept == IF loses THEN SubSeq(left, 1, Len(left) - 1) ELSE left
<1>1. InOrder' /\ (Hears => Owed >= 1 /\ heard' = queue[1])
  BY InOrderStep
<1>2. queue \in Seq(Bytes) /\ Len(queue) = Owed /\ Owed \in Nat
  BY LenProperties DEF Owing
<1>3. Hears => queue # << >>
  BY <1>1, <1>2, EmptySeq
<1>4. heard' = IF Hears THEN Head(queue) ELSE heard
  BY <1>1, <1>3 DEF Listen
<1>5. tick' = (tick # Hears)
  BY DEF Listen
<1>6. left \in Seq(Bytes) /\ Len(left) = Owed - One(Hears)
  BY <1>2, <1>3, HeadTailProperties DEF One
<1>7. overflow' = (overflow \/ loses)
  BY DEF Hardware
<1>8. loses => Len(left) > Depth
  <2>1. Hears => Sounding
    BY LineStep DEF Hardware
  <2>2. ASSUME loses PROVE Owed >= One(Hears) + 1 + Depth
    <3>1. fifo.count \in Nat /\ fifo.count >= Depth /\ Depth \in Nat
      BY <2>2, DepthAssumption DEF NotFull, Registers
    <3>2. One(push # << >>) = 1
      BY <2>2 DEF One
    <3>3. /\ One(req.kind = "write") \in {0, 1} /\ One(Sounding) \in {0, 1}
          /\ One(Hears) \in {0, 1} /\ One(Hears) <= One(Sounding)
      BY <2>1 DEF One
    <3> QED
      BY <3>1, <3>2, <3>3 DEF Owed
  <2>3. One(Hears) \in {0, 1} /\ Depth \in Nat
    BY DepthAssumption DEF One
  <2> QED
    BY <1>2, <1>6, <2>2, <2>3
<1>9. loses => left # << >>
  <2>1. Len(<< >>) = 0 /\ Depth \in Nat
    BY DepthAssumption
  <2> HIDE DEF left
  <2> QED
    BY <1>8, <2>1
<1>10. queue' = kept \o new
  BY <1>3, <1>9 DEF Account
<1>11. kept \in Seq(Bytes)
  <2>1. CASE loses
    <3>1. Len(left) \in Nat /\ Len(left) >= 1
      BY <1>6, <1>8, <2>1, DepthAssumption, LenProperties
    <3>2. SubSeq(left, 1, Len(left) - 1) \in Seq(Bytes)
      <4>1. \A k \in 1 .. Len(left) - 1 : left[k] \in Bytes
        BY <1>6, <3>1, ElementOfSeq
      <4> HIDE DEF left
      <4> QED
        BY <1>6, <3>1, <4>1, SubSeqProperties
    <3> QED
      BY <2>1, <3>2
  <2>2. CASE ~loses
    BY <1>6, <2>2
  <2> QED
    BY <2>1, <2>2
<1>12. queue' = kept \/ \E b \in Bytes : queue' = Append(kept, b)
  <2> HIDE DEF kept
  <2>1. CASE new = << >>
    BY <1>10, <1>11, <2>1, ConcatEmptySeq
  <2>2. CASE \E b \in Bytes : new = << b >>
    BY <1>10, <1>11, <2>2, AppendIsConcat
  <2> QED
    BY <2>1, <2>2
<1>13. Hears \in BOOLEAN /\ loses \in BOOLEAN
  BY DEF Hears, Samples
<1>14. C!ChannelStep(Hears, loses)
  BY <1>3, <1>4, <1>5, <1>7, <1>8, <1>12 DEF C!ChannelStep
<1> QED
  BY <1>1, <1>13, <1>14 DEF C!ChannelNext

LEMMA ChannelMoves ==
  OrderInv /\ [UartNext]_uartVars => OrderInv' /\ [C!ChannelNext]_(C!channelVars)
<1> SUFFICES ASSUME OrderInv, [UartNext]_uartVars
             PROVE  InOrder' /\ [C!ChannelNext]_(C!channelVars)
  BY DrainStep DEF OrderInv
<1>1. CASE Quiet
  <2> DEFINE new == << >>
  <2>1. new \in Seq(Bytes) /\ Len(new) = One(NoRequest.kind = "write")
        /\ NoRequest.kind # "write"
    BY DEF NoRequest, One
  <2>2. Hardware(NoRequest) /\ Listen /\ Account(new)
    BY <1>1 DEF Quiet
  <2>3. InOrder' /\ C!ChannelNext
    BY <2>1, <2>2, ChannelEdge
  <2> QED
    BY <2>3
<1>2. ASSUME NEW s \in {"ready", "drain"}, Poll(s) PROVE InOrder' /\ C!ChannelNext
  <2> DEFINE strobe == [kind |-> "status", byte |-> << >>]
             new == << >>
  <2>1. new \in Seq(Bytes) /\ Len(new) = One(strobe.kind = "write")
        /\ strobe.kind # "write"
    BY DEF One
  <2>2. Hardware(strobe) /\ Listen /\ Account(new)
    BY <1>2 DEF Poll
  <2>3. new = << >> \/ \E b \in Bytes : new = << b >>
    OBVIOUS
  <2> HIDE DEF strobe, new
  <2> QED
    BY <2>1, <2>2, <2>3, ChannelEdge
<1>3. ASSUME NEW b \in Bytes, WriteByte(b) PROVE InOrder' /\ C!ChannelNext
  <2> DEFINE strobe == [kind |-> "write", byte |-> b]
             new == << b >>
  <2>1. new \in Seq(Bytes) /\ Len(new) = One(strobe.kind = "write")
        /\ new[1] = strobe.byte
    BY DEF One
  <2>2. Hardware(strobe) /\ Listen /\ Account(new)
    BY <1>3 DEF WriteByte
  <2>3. new = << >> \/ \E x \in Bytes : new = << x >>
    OBVIOUS
  <2> HIDE DEF strobe, new
  <2> QED
    BY <2>1, <2>2, <2>3, ChannelEdge
<1>4. CASE UNCHANGED uartVars
  <2>1. UNCHANGED C!channelVars
    BY <1>4 DEF uartVars, hwVars, C!channelVars
  <2>2. InOrder'
    BY <1>4 DEF OrderInv, InOrder, uartVars, hwVars, Slot, Sounding, LineHolds, One
  <2> QED
    BY <2>1, <2>2
<1> QED
  BY <1>1, <1>2, <1>3, <1>4 DEF UartNext

(* The transmitter is the channel: whatever the software does, the         *)
(* listener hears the bytes in the order of their writes, each once and    *)
(* unchanged, and the only byte that can be lost is the newest one, when   *)
(* the FIFO is full, with overflow set; for every depth, baud rate, frame  *)
(* length and byte.  (ChannelSpec says also that the listener goes on.)    *)
THEOREM UartIsChannel ==
  UartSpec => C!ChannelInit /\ [][C!ChannelNext]_(C!channelVars)
<1>1. UartInit => C!ChannelInit
  BY DEF UartInit, C!ChannelInit
<1> QED
  BY <1>1, OrderInitially, ChannelMoves, PTL DEF UartSpec
=============================================================================
