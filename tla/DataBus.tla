------------------------------ MODULE DataBus ------------------------------
(***************************************************************************)
(* The data side of the memories: bus_interconnect.v, the byte lanes of    *)
(* dmem.v, the read port that imem.v shares with the prefetch, and the     *)
(* two-cycle register port of mmio.v.  The requests are those cpu.v makes: *)
(* legal widths, any address, and only when the bus is ready.              *)
(*                                                                         *)
(* One action is one rising clock edge.  In each cycle the pipeline may    *)
(* strobe a request, also in the cycle in which the previous one is        *)
(* answered, and the front end may prefetch or stall.  The registers of a  *)
(* request and of a read are kept only while they are in use.              *)
(***************************************************************************)
EXTENDS Integers

CONSTANTS
  ByteSize,    (* 256: values of a byte                                     *)
  ImemWords,   (* words of program memory, from address 0                   *)
  DmemWords,   (* words of data memory behind them                          *)
  Data,        (* words a store may write                                   *)
  Requested,   (* addresses the pipeline may ask for                        *)
  Rom          (* the words of program memory                               *)

Bytes == 0 .. ByteSize - 1
Words == [0 .. 3 -> Bytes]

ASSUME DataBusAssumption ==
  /\ ByteSize \in Nat /\ ByteSize >= 2
  /\ ImemWords \in Nat \ {0} /\ DmemWords \in Nat \ {0}
  /\ Data \subseteq Words
  /\ Requested \subseteq 0 .. 4 * (ImemWords + DmemWords + 2) - 1
  /\ Rom \in [0 .. ImemWords - 1 -> Words]

VARIABLES
  pending, selection, error_q,     (* bus_interconnect.v                    *)
  request,                         (* its we_q, op_q, addr_q and data_q     *)
  lanes,                           (* dmem0 to dmem3                        *)
  d_read, d_ack,                   (* dmem.v: the read and the answer       *)
  portb, i_read,                   (* imem.v: second port and data read     *)
  req, device, r_data, m_ack       (* mmio.v: request, a register, answer   *)

bus     == << pending, selection, error_q, request >>
memory  == << lanes, d_read, d_ack, portb, i_read >>
mmio    == << req, device, r_data, m_ack >>
busVars == << bus, memory, mmio >>

Zero   == [k \in 0 .. 3 |-> 0]
NoRequest == [we |-> FALSE, op |-> 2, addr |-> 0, data |-> Zero]
NoRead == [valid |-> FALSE, op |-> 2, low |-> 0, word |-> Zero]
NoReq  == [valid |-> FALSE, we |-> FALSE, data |-> Zero]

(***************************************************************************)
(* Requests and their decoding.  op is funct3; the word behind data memory *)
(* is a device register and the last one nobody's.                         *)
(***************************************************************************)
DeviceWord == ImemWords + DmemWords
Addresses == 0 .. 4 * (DeviceWord + 2) - 1
Requests ==
  [we : {FALSE}, op : {0, 1, 2, 4, 5}, addr : Requested, data : {Zero}]
  \cup [we : {TRUE}, op : {0, 1, 2}, addr : Requested, data : Data]

Select(a) ==
  IF a < 4 * ImemWords THEN "imem"
  ELSE IF a < 4 * DeviceWord THEN "dmem"
  ELSE IF a < 4 * (DeviceWord + 1) THEN "mmio" ELSE "none"
Aligned(r) ==
  \/ r.op \in {0, 4}
  \/ r.op \in {1, 5} /\ r.addr % 2 = 0
  \/ r.op = 2 /\ r.addr % 4 = 0

BadRequest(r) ==
  \/ Select(r.addr) = "none" \/ ~Aligned(r)
  \/ Select(r.addr) = "imem" /\ r.we
  \/ Select(r.addr) = "mmio" /\ r.op # 2

(* Mutant: an error waits for the slave. *)
ResponseSlave ==
  \/ selection = "dmem" /\ d_ack
  \/ selection = "imem" /\ i_read.valid
  \/ selection = "mmio" /\ m_ack

response ==
  \/ error_q
  \/ selection = "dmem" /\ d_ack
  \/ selection = "imem" /\ i_read.valid
  \/ selection = "mmio" /\ m_ack
bus_m_ack   == pending /\ response
bus_m_ready == ~pending \/ bus_m_ack

(* Mutant: a bad request reaches its slave. *)
StrobesAlways(r, s) == Select(r.addr) = s

Strobes(r, s) == Select(r.addr) = s /\ ~BadRequest(r)
Index(r) == r.addr \div 4 - ImemWords

(***************************************************************************)
(* Byte lanes.                                                             *)
(***************************************************************************)
byte_en(r) ==
  CASE r.op = 0 -> {r.addr % 4}
    [] r.op = 1 -> IF r.addr % 4 >= 2 THEN {2, 3} ELSE {0, 1}
    [] r.op = 2 -> 0 .. 3

(* Mutant: lane 3 of a halfword gets its low byte. *)
WdataLow(r) ==
  [k \in 0 .. 3 |-> CASE r.op = 0 -> r.data[0]
                      [] r.op = 1 -> r.data[IF k = 1 THEN 1 ELSE 0]
                      [] r.op = 2 -> r.data[k]]

wdata(r) ==
  [k \in 0 .. 3 |-> CASE r.op = 0 -> r.data[0]
                      [] r.op = 1 -> r.data[k % 2]
                      [] r.op = 2 -> r.data[k]]

(* Mutant: the sign is extended by one bit too many. *)
ExtendWide(b, op) == IF op >= 4 \/ b < ByteSize \div 2 THEN 0 ELSE ByteSize

Extend(b, op) == IF op >= 4 \/ b < ByteSize \div 2 THEN 0 ELSE ByteSize - 1

(* The read multiplexer of dmem.v and of imem.v.                           *)
ReadMux(read, w) ==
  LET hi == 2 * (read.low \div 2)
  IN IF ~read.valid THEN Zero
     ELSE CASE read.op \in {0, 4} ->
                 [k \in 0 .. 3 |-> IF k = 0 THEN w[read.low]
                                   ELSE Extend(w[read.low], read.op)]
            [] read.op \in {1, 5} ->
                 [k \in 0 .. 3 |-> IF k < 2 THEN w[hi + k]
                                   ELSE Extend(w[hi + 1], read.op)]
            [] read.op = 2 -> w

bus_m_dat_o ==
  IF error_q THEN Zero
  ELSE CASE selection = "imem" -> ReadMux(i_read, portb)
         [] selection = "dmem" -> ReadMux(d_read, d_read.word)
         [] selection = "mmio" -> r_data
         [] OTHER -> Zero

(***************************************************************************)
(* Clock edges.                                                            *)
(***************************************************************************)
Reads(r, word) == [valid |-> TRUE, op |-> r.op, low |-> r.addr % 4, word |-> word]

(* The second port serves the prefetch unless a data read takes it.        *)
Prefetch == portb' \in {portb} \cup {Rom[w] : w \in 0 .. ImemWords - 1}

(* mmio.v answers one cycle after it has executed the captured request.    *)
Device ==
  /\ device' = IF req.valid /\ req.we THEN req.data ELSE device
  /\ r_data' = device
  /\ m_ack' = req.valid

Strobe(r) ==
  /\ bus_m_ready
  /\ pending' = TRUE /\ selection' = Select(r.addr) /\ error_q' = BadRequest(r)
  /\ request' = r
  /\ lanes' = IF Strobes(r, "dmem") /\ r.we
              THEN [k \in 0 .. 3 |->
                      IF k \in byte_en(r)
                      THEN [lanes[k] EXCEPT ![Index(r)] = wdata(r)[k]]
                      ELSE lanes[k]]
              ELSE lanes
  /\ d_read' = IF Strobes(r, "dmem") /\ ~r.we
               THEN Reads(r, [k \in 0 .. 3 |-> lanes[k][Index(r)]]) ELSE NoRead
  /\ d_ack' = Strobes(r, "dmem")
  /\ IF Strobes(r, "imem")
     THEN portb' = Rom[r.addr \div 4] /\ i_read' = Reads(r, Zero)
     ELSE Prefetch /\ i_read' = NoRead
  /\ req' = IF Strobes(r, "mmio")
            THEN [valid |-> TRUE, we |-> r.we, data |-> r.data] ELSE NoReq
  /\ Device

NoStrobe ==
  /\ pending' = (pending /\ ~bus_m_ack)
  /\ selection' = IF bus_m_ack THEN "none" ELSE selection
  /\ error_q' = (error_q /\ ~bus_m_ack)
  /\ request' = IF bus_m_ack THEN NoRequest ELSE request
  /\ d_read' = NoRead /\ d_ack' = FALSE
  /\ Prefetch /\ i_read' = NoRead
  /\ req' = NoReq /\ Device
  /\ UNCHANGED lanes

(* Reset cancels the request, the answer on its way and a captured device  *)
(* access; data memory keeps what it has.                                  *)
Reset ==
  /\ pending' = FALSE /\ selection' = "none" /\ error_q' = FALSE
  /\ request' = NoRequest
  /\ d_read' = NoRead /\ d_ack' = FALSE
  /\ Prefetch /\ i_read' = NoRead
  /\ req' = NoReq /\ m_ack' = FALSE /\ device' = Zero /\ r_data' = device
  /\ UNCHANGED lanes

(* Data memory is cleared when the device is configured.                   *)
BusInit ==
  /\ pending = FALSE /\ selection = "none" /\ error_q = FALSE
  /\ request = NoRequest
  /\ lanes = [k \in 0 .. 3 |-> [w \in 0 .. DmemWords - 1 |-> 0]]
  /\ d_read = NoRead /\ d_ack = FALSE
  /\ portb = Rom[0] /\ i_read = NoRead
  /\ req = NoReq /\ device = Zero /\ r_data = Zero /\ m_ack = FALSE

BusNext == NoStrobe \/ Reset \/ \E r \in Requests : Strobe(r)
BusSpec == BusInit /\ [][BusNext]_busVars

(***************************************************************************)
(* Properties.                                                             *)
(***************************************************************************)
Read == [valid : BOOLEAN, op : {0, 1, 2, 4, 5}, low : 0 .. 3, word : Words]

(* Types; what is read is a word of bytes.                                 *)
BusTypeOK ==
  /\ pending \in BOOLEAN /\ error_q \in BOOLEAN
  /\ selection \in {"imem", "dmem", "mmio", "none"}
  /\ request \in Requests \cup {NoRequest}
  /\ lanes \in [0 .. 3 -> [0 .. DmemWords - 1 -> Bytes]]
  /\ d_read \in Read /\ i_read \in Read /\ d_ack \in BOOLEAN /\ m_ack \in BOOLEAN
  /\ portb \in Words /\ device \in Words /\ r_data \in Words
  /\ req \in [valid : BOOLEAN, we : BOOLEAN, data : Words]
  /\ bus_m_dat_o \in Words

(* A slave works on or answers only what the interconnect waits for: no    *)
(* answer comes twice, late, or for a request that was refused.            *)
AnswersBelong ==
  /\ d_ack => pending /\ selection = "dmem" /\ ~error_q
  /\ i_read.valid => pending /\ selection = "imem" /\ ~error_q
  /\ d_read.valid => d_ack
  /\ req.valid \/ m_ack => pending /\ selection = "mmio" /\ ~error_q
  /\ ~(req.valid /\ m_ack)

(* "Invalid accesses are completed with an error, never ... left hanging": *)
(* without a reset every request is answered in its first or second cycle. *)
AnswersInTwoCycles == [][pending /\ ~bus_m_ack /\ ~Reset => bus_m_ack']_busVars

(* The lanes, multiplexers, registered ports and errors are a memory of    *)
(* bytes: each access takes effect where it was accepted, behind all       *)
(* earlier ones, and its answer is the one it was entitled to then,        *)
(* whatever is strobed or prefetched in the cycle of the answer; a reset   *)
(* leaves no answer behind for the next request.                           *)
Byte(a) ==
  LET w == a \div 4
      k == a % 4
  IN CASE Select(a) = "imem" -> Rom[w][k]
       [] Select(a) = "dmem" -> lanes[k][w - ImemWords]
       [] Select(a) = "mmio" -> IF req.valid /\ req.we THEN req.data[k] ELSE device[k]
       [] OTHER -> 0

B == INSTANCE ByteMemory WITH
       bytes <- [a \in Addresses |-> Byte(a)],
       asked <- request,
       promise <- IF pending
                  THEN [err |-> error_q,
                        data |-> IF req.valid THEN device ELSE bus_m_dat_o]
                  ELSE [err |-> FALSE, data |-> << >>],
       due <- bus_m_ack

ImplementsByteMemory == B!MemorySpec
=============================================================================
