--------------------------- MODULE DataBusProofs ---------------------------
(***************************************************************************)
(* Proofs about DataBus: types, one answer per request, within two cycles, *)
(* and that it is the memory of bytes of ByteMemory.  RegistersOK and      *)
(* BusInv are the inductive invariant.                                     *)
(***************************************************************************)
EXTENDS DataBus, TLAPS

(* Between its strobe and its answer a request is in exactly one place.    *)
BusInv ==
  /\ AnswersBelong
  /\ pending => \/ error_q
                \/ selection = "dmem" /\ d_ack
                \/ selection = "imem" /\ i_read.valid
                \/ selection = "mmio" /\ (req.valid \/ m_ack)

(* What a request is made of.                                              *)
LEMMA RequestType ==
  ASSUME NEW r \in Requests
  PROVE  /\ r.we \in BOOLEAN /\ r.op \in {0, 1, 2, 4, 5}
         /\ r.addr \in Requested /\ r.addr \in Nat
         /\ r.we => r.op \in {0, 1, 2} /\ r.data \in Data
<1>1. /\ r.we \in BOOLEAN /\ r.op \in {0, 1, 2, 4, 5} /\ r.addr \in Requested
      /\ r.we => r.op \in {0, 1, 2} /\ r.data \in Data
  BY DEF Requests
<1>2. Requested \subseteq Nat
  BY DataBusAssumption
<1>3. QED
  BY <1>1, <1>2

(* An enabled request works on a word of its slave.                        *)
LEMMA IndexInRange ==
  ASSUME NEW r \in Requests
  PROVE  /\ Strobes(r, "dmem") => Index(r) \in 0 .. DmemWords - 1
         /\ Strobes(r, "imem") => r.addr \div 4 \in 0 .. ImemWords - 1
<1>1. r.addr \in Nat /\ ImemWords \in Nat /\ DmemWords \in Nat
  BY RequestType, DataBusAssumption
<1>2. QED
  BY <1>1 DEF Strobes, Index, Select, DeviceWord

(* The multiplexer yields a word of bytes.                                 *)
LEMMA ReadMuxType ==
  ASSUME NEW read \in Read, NEW w \in Words
  PROVE  ReadMux(read, w) \in Words
<1>1. ASSUME NEW b \in Bytes, NEW op PROVE Extend(b, op) \in Bytes
  BY <1>1, DataBusAssumption DEF Extend, Bytes
<1>2. /\ read.low \in 0 .. 3 /\ 2 * (read.low \div 2) \in {0, 2}
      /\ \A k \in 0 .. 3 : w[k] \in Bytes
  BY DEF Read, Words
<1>3. Zero \in Words
  BY DataBusAssumption DEF Zero, Words, Bytes
<1>4. CASE ~read.valid
  BY <1>3, <1>4 DEF ReadMux
<1>5. CASE read.valid /\ read.op \in {0, 4}
  BY <1>1, <1>2, <1>5 DEF ReadMux, Words
<1>6. CASE read.valid /\ read.op \in {1, 5}
  <2> DEFINE hi == 2 * (read.low \div 2)
  <2>1. hi \in 0 .. 2 /\ hi + 1 \in 0 .. 3 /\ w[hi + 1] \in Bytes
    BY <1>2
  <2>2. \A k \in 0 .. 3 : k < 2 => w[hi + k] \in Bytes
    BY <1>2
  <2>3. Extend(w[hi + 1], read.op) \in Bytes
    BY <1>1, <2>1
  <2>4. ReadMux(read, w) = [k \in 0 .. 3 |-> IF k < 2 THEN w[hi + k]
                                             ELSE Extend(w[hi + 1], read.op)]
    BY <1>6 DEF ReadMux
  <2> HIDE DEF hi
  <2>5. QED
    BY <2>2, <2>3, <2>4 DEF Words
<1>7. CASE read.valid /\ read.op = 2
  BY <1>7 DEF ReadMux
<1>8. QED
  BY <1>4, <1>5, <1>6, <1>7 DEF Read

(* What a store writes to the lanes are bytes.                             *)
LEMMA WdataType ==
  ASSUME NEW r \in Requests, r.we
  PROVE  wdata(r) \in Words /\ r.data \in Words
<1>1. r.op \in {0, 1, 2} /\ r.data \in Words
  BY DataBusAssumption DEF Requests
<1>2. \A k \in 0 .. 3 : k % 2 \in 0 .. 3
  OBVIOUS
<1>3. \A k \in 0 .. 3 : r.data[k] \in Bytes
  BY <1>1 DEF Words
<1>4. CASE r.op = 0
  <2>1. wdata(r) = [k \in 0 .. 3 |-> r.data[0]]
    BY <1>4 DEF wdata
  <2>2. QED
    BY <1>1, <1>3, <2>1 DEF Words
<1>5. CASE r.op = 1
  <2>1. wdata(r) = [k \in 0 .. 3 |-> r.data[k % 2]]
    BY <1>5 DEF wdata
  <2>2. QED
    BY <1>1, <1>2, <1>3, <2>1 DEF Words
<1>6. CASE r.op = 2
  <2>1. wdata(r) = [k \in 0 .. 3 |-> r.data[k]]
    BY <1>6 DEF wdata
  <2>2. QED
    BY <1>1, <1>3, <2>1 DEF Words
<1>7. QED
  BY <1>1, <1>4, <1>5, <1>6

(* The data answered to the pipeline are a word, whatever is selected.     *)
LEMMA AnswerType ==
  ASSUME selection \in {"imem", "dmem", "mmio", "none"}, error_q \in BOOLEAN,
         d_read \in Read, i_read \in Read, portb \in Words, r_data \in Words
  PROVE  bus_m_dat_o \in Words
<1>1. Zero \in Words
  BY DataBusAssumption DEF Zero, Words, Bytes
<1>2. d_read.word \in Words
  BY DEF Read
<1>3. ReadMux(i_read, portb) \in Words /\ ReadMux(d_read, d_read.word) \in Words
  BY <1>2, ReadMuxType
<1>4. QED
  BY <1>1, <1>3 DEF bus_m_dat_o

(* The types of the registers, without the answer that is made of them.    *)
RegistersOK ==
  /\ pending \in BOOLEAN /\ error_q \in BOOLEAN
  /\ selection \in {"imem", "dmem", "mmio", "none"}
  /\ request \in Requests \cup {NoRequest}
  /\ lanes \in [0 .. 3 -> [0 .. DmemWords - 1 -> Bytes]]
  /\ d_read \in Read /\ i_read \in Read /\ d_ack \in BOOLEAN /\ m_ack \in BOOLEAN
  /\ portb \in Words /\ device \in Words /\ r_data \in Words
  /\ req \in [valid : BOOLEAN, we : BOOLEAN, data : Words]

LEMMA RegistersInit == BusInit => RegistersOK
<1>1. Zero \in Words /\ 0 \in Bytes /\ Rom[0] \in Words
  <2>1. 0 \in Bytes
    BY DataBusAssumption DEF Bytes
  <2>2. 0 \in 0 .. ImemWords - 1
    BY DataBusAssumption
  <2>3. QED
    BY <2>1, <2>2, DataBusAssumption DEF Zero, Words
<1>2. NoRead \in Read /\ NoReq \in [valid : BOOLEAN, we : BOOLEAN, data : Words]
  BY <1>1 DEF NoRead, NoReq, Read
<1>3. [k \in 0 .. 3 |-> [w \in 0 .. DmemWords - 1 |-> 0]]
        \in [0 .. 3 -> [0 .. DmemWords - 1 -> Bytes]]
  BY <1>1
<1>4. QED
  BY <1>1, <1>2, <1>3 DEF BusInit, RegistersOK

LEMMA RegistersStep == RegistersOK /\ [BusNext]_busVars => RegistersOK'
<1> SUFFICES ASSUME RegistersOK, [BusNext]_busVars PROVE RegistersOK'
  OBVIOUS
<1>1. Zero \in Words /\ \A w \in 0 .. ImemWords - 1 : Rom[w] \in Words
  BY DataBusAssumption DEF Zero, Words, Bytes
<1>2. NoRead \in Read /\ NoReq \in [valid : BOOLEAN, we : BOOLEAN, data : Words]
  BY <1>1 DEF NoRead, NoReq, Read
<1>3. Prefetch => portb' \in Words
  BY <1>1 DEF Prefetch, RegistersOK
<1>4. Device => device' \in Words /\ r_data' \in Words /\ m_ack' \in BOOLEAN
  BY DEF Device, RegistersOK
<1>5. CASE NoStrobe
  <2>1. pending' \in BOOLEAN /\ error_q' \in BOOLEAN
    BY <1>5 DEF NoStrobe
  <2>2. /\ selection' \in {"imem", "dmem", "mmio", "none"}
        /\ request' \in Requests \cup {NoRequest}
    BY <1>5 DEF NoStrobe, RegistersOK
  <2>3. QED
    BY <1>2, <1>3, <1>4, <1>5, <2>1, <2>2 DEF NoStrobe, RegistersOK
<1>6. CASE Reset
  BY <1>1, <1>2, <1>3, <1>6 DEF Reset, RegistersOK
<1>7. ASSUME NEW r \in Requests, Strobe(r) PROVE RegistersOK'
  <2>1. r.we \in BOOLEAN /\ r.op \in {0, 1, 2, 4, 5} /\ r.addr \in Nat
    BY RequestType
  <2>2. /\ pending' \in BOOLEAN /\ error_q' \in BOOLEAN
        /\ selection' \in {"imem", "dmem", "mmio", "none"}
        /\ request' \in Requests \cup {NoRequest}
    BY <1>7 DEF Strobe, BadRequest, Aligned, Select
  <2>3. lanes' \in [0 .. 3 -> [0 .. DmemWords - 1 -> Bytes]]
    <3>1. CASE Strobes(r, "dmem") /\ r.we
      <4>1. /\ wdata(r) \in Words /\ Index(r) \in 0 .. DmemWords - 1
        BY <3>1, WdataType, IndexInRange
      <4>2. \A k \in 0 .. 3 : wdata(r)[k] \in Bytes
        BY <4>1 DEF Words
      <4>3. lanes' = [k \in 0 .. 3 |-> IF k \in byte_en(r)
                         THEN [lanes[k] EXCEPT ![Index(r)] = wdata(r)[k]]
                         ELSE lanes[k]]
        BY <1>7, <3>1 DEF Strobe
      <4>4. \A k \in 0 .. 3 : [lanes[k] EXCEPT ![Index(r)] = wdata(r)[k]]
                              \in [0 .. DmemWords - 1 -> Bytes]
        BY <4>1, <4>2 DEF RegistersOK
      <4>5. \A k \in 0 .. 3 : lanes[k] \in [0 .. DmemWords - 1 -> Bytes]
        BY DEF RegistersOK
      <4>6. QED
        BY <4>3, <4>4, <4>5
    <3>2. CASE ~(Strobes(r, "dmem") /\ r.we)
      BY <1>7, <3>2 DEF Strobe, RegistersOK
    <3>3. QED
      BY <3>1, <3>2
  <2>4. d_read' \in Read /\ d_ack' \in BOOLEAN
    <3>1. CASE Strobes(r, "dmem") /\ ~r.we
      <4>1. Index(r) \in 0 .. DmemWords - 1
        BY <3>1, IndexInRange
      <4>2. \A k \in 0 .. 3 : lanes[k][Index(r)] \in Bytes
        BY <4>1 DEF RegistersOK
      <4>3. [k \in 0 .. 3 |-> lanes[k][Index(r)]] \in Words
        BY <4>2 DEF Words
      <4>4. r.addr % 4 \in 0 .. 3
        BY <2>1
      <4>5. d_read' = Reads(r, [k \in 0 .. 3 |-> lanes[k][Index(r)]])
        BY <1>7, <3>1 DEF Strobe
      <4>6. d_read' \in Read
        BY <2>1, <4>3, <4>4, <4>5 DEF Reads, Read
      <4>7. d_ack' = TRUE
        BY <1>7, <3>1 DEF Strobe
      <4>8. QED
        BY <4>6, <4>7
    <3>2. CASE ~(Strobes(r, "dmem") /\ ~r.we)
      BY <1>2, <1>7, <3>2 DEF Strobe, Strobes
    <3>3. QED
      BY <3>1, <3>2
  <2>5. portb' \in Words /\ i_read' \in Read
    <3>1. CASE Strobes(r, "imem")
      <4>1. portb' = Rom[r.addr \div 4] /\ i_read' = Reads(r, Zero)
        BY <1>7, <3>1 DEF Strobe
      <4>2. r.addr % 4 \in 0 .. 3
        BY <2>1
      <4>3. i_read' \in Read
        BY <1>1, <2>1, <4>1, <4>2 DEF Reads, Read
      <4>4. QED
        BY <1>1, <3>1, <4>1, <4>3, IndexInRange
    <3>2. CASE ~Strobes(r, "imem")
      BY <1>2, <1>3, <1>7, <3>2 DEF Strobe
    <3>3. QED
      BY <3>1, <3>2
  <2>6. req' \in [valid : BOOLEAN, we : BOOLEAN, data : Words]
    <3>1. r.data \in Words
      <4>1. CASE r.we
        BY <4>1, WdataType
      <4>2. CASE ~r.we
        BY <1>1, <4>2 DEF Requests
      <4>3. QED
        BY <4>1, <4>2
    <3>2. QED
      BY <1>2, <1>7, <2>1, <3>1 DEF Strobe
  <2>7. QED
    BY <1>4, <1>7, <2>2, <2>3, <2>4, <2>5, <2>6 DEF Strobe, RegistersOK
<1>8. CASE UNCHANGED busVars
  BY <1>8 DEF RegistersOK, busVars, bus, memory, mmio
<1>9. QED
  BY <1>5, <1>6, <1>7, <1>8 DEF BusNext

(* Types: what is stored and answered are words of bytes.                  *)
THEOREM BusTypeCorrect == BusSpec => []BusTypeOK
<1>1. RegistersOK => BusTypeOK
  <2>1. SUFFICES ASSUME RegistersOK PROVE BusTypeOK
    OBVIOUS
  <2>2. bus_m_dat_o \in Words
    BY <2>1, AnswerType DEF RegistersOK
  <2>3. QED
    BY <2>1, <2>2 DEF RegistersOK, BusTypeOK
<1>2. QED
  BY <1>1, RegistersInit, RegistersStep, PTL DEF BusSpec

(***************************************************************************)
(* One answer for each request.                                            *)
(***************************************************************************)
LEMMA BusInvInit == BusInit => BusInv
BY DEF BusInit, BusInv, AnswersBelong, NoRead, NoReq

LEMMA BusInvStep ==
  RegistersOK /\ BusInv /\ [BusNext]_busVars => BusInv'
<1> SUFFICES ASSUME RegistersOK, BusInv, [BusNext]_busVars PROVE BusInv'
  OBVIOUS
<1> USE DEF BusInv, AnswersBelong
<1>1. CASE NoStrobe
  <2>1. /\ ~d_ack' /\ ~d_read'.valid /\ ~i_read'.valid /\ ~req'.valid
        /\ m_ack' = req.valid
    BY <1>1 DEF NoStrobe, NoRead, NoReq, Device
  <2>2. CASE req.valid
    <3>1. ~bus_m_ack
      BY <2>2 DEF bus_m_ack, response
    <3>2. pending' = TRUE /\ selection' = "mmio" /\ ~error_q'
      BY <1>1, <2>2, <3>1 DEF NoStrobe
    <3>3. QED
      BY <2>1, <2>2, <3>2
  <2>3. CASE ~req.valid
    <3>1. pending => bus_m_ack
      BY <2>3 DEF bus_m_ack, response
    <3>2. ~pending'
      BY <1>1, <3>1 DEF NoStrobe
    <3>3. QED
      BY <2>1, <2>3, <3>2
  <2>4. QED
    BY <2>2, <2>3
<1>2. CASE Reset
  BY <1>2 DEF Reset, NoRead, NoReq
<1>3. ASSUME NEW r \in Requests, Strobe(r) PROVE BusInv'
  <2>1. ~req.valid /\ m_ack' = req.valid
    BY <1>3 DEF Strobe, Device, bus_m_ready, bus_m_ack, response
  <2>2. /\ pending' = TRUE /\ selection' = Select(r.addr)
        /\ error_q' = BadRequest(r) /\ d_ack' = Strobes(r, "dmem")
    BY <1>3 DEF Strobe
  <2>3. /\ d_read'.valid => Strobes(r, "dmem")
        /\ i_read'.valid <=> Strobes(r, "imem")
        /\ req'.valid <=> Strobes(r, "mmio")
    BY <1>3 DEF Strobe, NoRead, NoReq, Reads
  <2>4. Select(r.addr) \in {"imem", "dmem", "mmio"} \/ BadRequest(r)
    BY DEF Select, BadRequest
  <2>5. QED
    BY <2>1, <2>2, <2>3, <2>4 DEF Strobes
<1>4. CASE UNCHANGED busVars
  BY <1>4 DEF busVars, bus, memory, mmio
<1>5. QED
  BY <1>1, <1>2, <1>3, <1>4 DEF BusNext

(* A slave works on or answers only what the interconnect waits for.       *)
THEOREM BusAnswersBelong == BusSpec => []AnswersBelong
<1>1. BusInv => AnswersBelong
  BY DEF BusInv
<1>2. QED
  BY <1>1, RegistersInit, RegistersStep, BusInvInit, BusInvStep, PTL DEF BusSpec

(* Every request that is not reset is answered in its first or second      *)
(* cycle, refused ones included.                                           *)
THEOREM BusAnswersInTwoCycles == BusSpec => AnswersInTwoCycles
<1>1. ASSUME RegistersOK, BusInv, [BusNext]_busVars
      PROVE  [pending /\ ~bus_m_ack /\ ~Reset => bus_m_ack']_busVars
  <2>1. SUFFICES ASSUME BusNext, pending, ~bus_m_ack, ~Reset PROVE bus_m_ack'
    BY <1>1
  <2>2. NoStrobe
    BY <2>1 DEF BusNext, Strobe, bus_m_ready
  <2>3. req.valid /\ selection = "mmio"
    BY <1>1, <2>1 DEF BusInv, AnswersBelong, bus_m_ack, response
  <2>4. pending' = TRUE /\ selection' = "mmio" /\ m_ack' = TRUE
    BY <1>1, <2>1, <2>2, <2>3 DEF NoStrobe, Device, RegistersOK
  <2>5. QED
    BY <2>4 DEF bus_m_ack, response
<1>2. QED
  BY <1>1, RegistersInit, RegistersStep, BusInvInit, BusInvStep, PTL
     DEF BusSpec, AnswersInTwoCycles

(***************************************************************************)
(* The memory of bytes.                                                    *)
(***************************************************************************)
LEMMA Division ==
  \A a \in Nat : a = 4 * (a \div 4) + (a % 4) /\ a % 4 \in 0 .. 3 /\ a \div 4 \in Nat
OBVIOUS

LEMMA EvenLow == \A a \in Nat : a % 2 = 0 => a % 4 \in {0, 2}
<1> SUFFICES ASSUME NEW a \in Nat, a % 2 = 0 PROVE a % 4 \in {0, 2}
  OBVIOUS
<1>1. PICK q \in Nat, m \in 0 .. 3 : a = 4 * q + m
  BY Division
<1>2. m \in {0, 2}
  BY <1>1
<1>3. a % 4 = m
  BY <1>1
<1>4. QED
  BY <1>2, <1>3

LEMMA SelectIsRegion == \A a \in Nat : Select(a) = B!Region(a)
BY DataBusAssumption DEF Select, B!Region, B!DeviceWord, B!WordOf, DeviceWord

(* The interconnect refuses exactly what must not be done.                 *)
LEMMA RefusedIsForbidden ==
  ASSUME NEW r \in Requests
  PROVE  BadRequest(r) <=> ~B!Allowed(r)
<1>1. Select(r.addr) = B!Region(r.addr)
  BY RequestType, SelectIsRegion
<1>2. Aligned(r) <=> r.addr % B!Size(r.op) = 0
  BY RequestType DEF Aligned, B!Size
<1>3. Select(r.addr) \in {"imem", "dmem", "mmio", "none"}
  BY DEF Select
<1>4. QED
  BY <1>1, <1>2, <1>3 DEF BadRequest, B!Allowed

(* A granted access stays in its word, which exists.                       *)
LEMMA GrantedAddress ==
  ASSUME NEW r \in Requests, ~BadRequest(r)
  PROVE  /\ Aligned(r) /\ r.addr + B!Size(r.op) - 1 \in Addresses
         /\ \A k \in 0 .. 3 : 4 * (r.addr \div 4) + k \in Addresses
<1>1. /\ Select(r.addr) # "none" /\ Aligned(r) /\ r.addr \in Nat
      /\ r.op \in {0, 1, 2, 4, 5}
  BY RequestType DEF BadRequest
<1>2. r.addr < 4 * (DeviceWord + 1) /\ DeviceWord \in Nat
  BY <1>1, DataBusAssumption DEF Select, DeviceWord
<1>3. 4 * (r.addr \div 4) + 3 < 4 * (DeviceWord + 1)
  BY <1>1, <1>2
<1>4. r.addr + B!Size(r.op) - 1 <= 4 * (r.addr \div 4) + 3
  BY <1>1 DEF Aligned, B!Size
<1>5. B!Size(r.op) \in {1, 2, 4} /\ r.addr \div 4 \in Nat
  BY <1>1 DEF B!Size
<1>6. QED
  BY <1>1, <1>2, <1>3, <1>4, <1>5 DEF Addresses

(* The multiplexer takes the bytes a load asks for out of its word.        *)
LEMMA ReadIsValue ==
  ASSUME NEW r \in Requests, ~BadRequest(r), NEW w \in Words, NEW x,
         \A k \in 0 .. 3 : w[k] = Byte(4 * (r.addr \div 4) + k)
  PROVE  ReadMux(Reads(r, x), w) = B!Value(r)
<1> DEFINE bytes == [a \in Addresses |-> Byte(a)]
           base  == 4 * (r.addr \div 4)
           low   == r.addr % 4
<1>1. /\ r.addr \in Nat /\ r.addr = base + low /\ low \in 0 .. 3 /\ base \in Nat
      /\ r.op \in {0, 1, 2, 4, 5} /\ Aligned(r)
  BY RequestType, Division, GrantedAddress
<1>2. \A k \in 0 .. 3 : bytes[base + k] = w[k]
  BY GrantedAddress
<1>3. ReadMux(Reads(r, x), w) =
        CASE r.op \in {0, 4} -> [k \in 0 .. 3 |-> IF k = 0 THEN w[low]
                                                 ELSE Extend(w[low], r.op)]
          [] r.op \in {1, 5} -> [k \in 0 .. 3 |->
                                   IF k < 2 THEN w[2 * (low \div 2) + k]
                                   ELSE Extend(w[2 * (low \div 2) + 1], r.op)]
          [] r.op = 2 -> w
  BY DEF ReadMux, Reads
<1>4. \A b \in Bytes :
        /\ r.op \in {4, 5} => Extend(b, r.op) = 0
        /\ r.op \in {0, 1} => Extend(b, r.op) = B!Extension(b)
  <2> SUFFICES ASSUME NEW b \in Bytes
               PROVE  /\ r.op \in {4, 5} => Extend(b, r.op) = 0
                      /\ r.op \in {0, 1} => Extend(b, r.op) = B!Extension(b)
    OBVIOUS
  <2>1. ByteSize \in Nat /\ b \in Nat /\ ByteSize \div 2 \in Nat
    BY DataBusAssumption DEF Bytes
  <2>2. r.op \in {4, 5} => Extend(b, r.op) = 0
    BY DEF Extend
  <2>3. r.op \in {0, 1} => Extend(b, r.op) = B!Extension(b)
    BY <2>1 DEF Extend, B!Extension
  <2>4. QED
    BY <2>2, <2>3
<1>9. \A k \in 0 .. 3 : w[k] \in Bytes
  BY DEF Words
<1> HIDE DEF bytes, base, low
<1>5. CASE r.op \in {0, 4}
  <2>1. B!Size(r.op) = 1
    BY <1>5 DEF B!Size
  <2>2. bytes[r.addr + 0] = w[low] /\ bytes[r.addr + 1 - 1] = w[low]
    BY <1>1, <1>2
  <2>3. B!Value(r) = [k \in 0 .. 3 |-> IF k < 1 THEN bytes[r.addr + k]
                      ELSE IF r.op \in {4, 5} THEN 0
                      ELSE B!Extension(bytes[r.addr + 1 - 1])]
    BY <2>1 DEF B!Value, bytes
  <2>4. ReadMux(Reads(r, x), w) = [k \in 0 .. 3 |-> IF k = 0 THEN w[low]
                                                    ELSE Extend(w[low], r.op)]
    BY <1>3, <1>5
  <2>5. \A k \in 0 .. 3 : k < 1 <=> k = 0
    OBVIOUS
  <2>6. QED
    BY <1>1, <1>4, <1>9, <1>5, <2>2, <2>3, <2>4, <2>5
<1>6. CASE r.op \in {1, 5}
  <2>1. B!Size(r.op) = 2
    BY <1>6 DEF B!Size
  <2>2. low = 2 * (low \div 2) /\ low \in {0, 2}
    <3>1. r.addr % 2 = 0 /\ r.addr \in Nat
      BY <1>1, <1>6 DEF Aligned
    <3>2. low \in {0, 2}
      BY <3>1, EvenLow DEF low
    <3>3. QED
      BY <3>2
  <2>3. /\ \A k \in 0 .. 3 : k < 2 => bytes[r.addr + k] = w[low + k]
        /\ bytes[r.addr + 2 - 1] = w[low + 1]
    <3>1. \A k \in 0 .. 3 : k < 2 => low + k \in 0 .. 3 /\ r.addr + k = base + (low + k)
      BY <1>1, <2>2
    <3>2. low + 1 \in 0 .. 3 /\ r.addr + 2 - 1 = base + (low + 1)
      BY <1>1, <2>2
    <3>3. QED
      BY <1>2, <3>1, <3>2
  <2>4. B!Value(r) = [k \in 0 .. 3 |-> IF k < 2 THEN bytes[r.addr + k]
                      ELSE IF r.op \in {4, 5} THEN 0
                      ELSE B!Extension(bytes[r.addr + 2 - 1])]
    BY <2>1 DEF B!Value, bytes
  <2>5. ReadMux(Reads(r, x), w) = [k \in 0 .. 3 |-> IF k < 2 THEN w[low + k]
                                                    ELSE Extend(w[low + 1], r.op)]
    BY <1>3, <1>6, <2>2
  <2>6. low + 1 \in 0 .. 3
    BY <2>2
  <2>7. Extend(w[low + 1], r.op) = IF r.op \in {4, 5} THEN 0
                                   ELSE B!Extension(bytes[r.addr + 2 - 1])
    BY <1>4, <1>6, <1>9, <2>3, <2>6
  <2>8. QED
    BY <2>3, <2>4, <2>5, <2>7
<1>7. CASE r.op = 2
  <2>1. B!Size(r.op) = 4
    BY <1>7 DEF B!Size
  <2>2. low = 0
    BY <1>1, <1>7 DEF Aligned, low
  <2>3. \A k \in 0 .. 3 : k < 4 /\ bytes[r.addr + k] = w[k]
    BY <1>1, <1>2, <2>2
  <2>4. B!Value(r) = [k \in 0 .. 3 |-> IF k < 4 THEN bytes[r.addr + k]
                      ELSE IF r.op \in {4, 5} THEN 0
                      ELSE B!Extension(bytes[r.addr + 4 - 1])]
    BY <2>1 DEF B!Value, bytes
  <2>5. ReadMux(Reads(r, x), w) = w
    BY <1>3, <1>7
  <2>6. w = [k \in 0 .. 3 |-> w[k]]
    BY DEF Words
  <2>7. QED
    BY <2>3, <2>4, <2>5, <2>6
<1>8. QED
  BY <1>1, <1>5, <1>6, <1>7

(* The enabled lanes are the bytes the store names, and get their values.  *)
LEMMA StoredBytes ==
  ASSUME NEW r \in Requests, r.we, ~BadRequest(r), NEW a \in Nat
  PROVE  /\ a \div 4 = r.addr \div 4 /\ a % 4 \in byte_en(r)
              <=> a \in r.addr .. r.addr + B!Size(r.op) - 1
         /\ a \in r.addr .. r.addr + B!Size(r.op) - 1
              => wdata(r)[a % 4] = r.data[a - r.addr]
<1> DEFINE aq == a \div 4
           am == a % 4
           rq == r.addr \div 4
           rm == r.addr % 4
<1>1. /\ r.addr \in Nat /\ r.op \in {0, 1, 2} /\ Aligned(r)
      /\ a = 4 * aq + am /\ am \in 0 .. 3 /\ aq \in Nat
      /\ r.addr = 4 * rq + rm /\ rm \in 0 .. 3 /\ rq \in Nat
  BY RequestType, Division, GrantedAddress
<1>2. r.op = 1 => rm \in {0, 2}
  BY <1>1, EvenLow DEF Aligned
<1>3. r.op = 2 => rm = 0
  BY <1>1 DEF Aligned
<1>4. byte_en(r) = CASE r.op = 0 -> {rm}
                     [] r.op = 1 -> IF rm >= 2 THEN {2, 3} ELSE {0, 1}
                     [] r.op = 2 -> 0 .. 3
  BY DEF byte_en
<1>5. wdata(r)[am] = CASE r.op = 0 -> r.data[0]
                       [] r.op = 1 -> r.data[am % 2]
                       [] r.op = 2 -> r.data[am]
  BY <1>1 DEF wdata
<1> HIDE DEF aq, am, rq, rm
<1>6. CASE r.op = 0
  <2>1. B!Size(r.op) = 1
    BY <1>6 DEF B!Size
  <2>2. byte_en(r) = {rm} /\ wdata(r)[am] = r.data[0]
    BY <1>4, <1>5, <1>6
  <2>3. a \in r.addr .. r.addr + 1 - 1 <=> aq = rq /\ am = rm
    BY <1>1
  <2>4. a \in r.addr .. r.addr + 1 - 1 => a - r.addr = 0
    BY <1>1
  <2>5. QED
    BY <2>1, <2>2, <2>3, <2>4 DEF aq, am, rq
<1>7. CASE r.op = 1
  <2>1. B!Size(r.op) = 2
    BY <1>7 DEF B!Size
  <2>2. byte_en(r) = {rm, rm + 1} /\ wdata(r)[am] = r.data[am % 2]
    BY <1>2, <1>4, <1>5, <1>7
  <2>3. a \in r.addr .. r.addr + 2 - 1 <=> aq = rq /\ am \in {rm, rm + 1}
    BY <1>1, <1>2, <1>7
  <2>4. a \in r.addr .. r.addr + 2 - 1 => a - r.addr = am % 2
    BY <1>1, <1>2, <1>7, <2>3
  <2>5. QED
    BY <2>1, <2>2, <2>3, <2>4 DEF aq, am, rq
<1>8. CASE r.op = 2
  <2>1. B!Size(r.op) = 4
    BY <1>8 DEF B!Size
  <2>2. byte_en(r) = 0 .. 3 /\ wdata(r)[am] = r.data[am]
    BY <1>4, <1>5, <1>8
  <2>3. a \in r.addr .. r.addr + 4 - 1 <=> aq = rq /\ am \in 0 .. 3
    BY <1>1, <1>3, <1>8
  <2>4. a \in r.addr .. r.addr + 4 - 1 => a - r.addr = am
    BY <1>1, <1>3, <1>8, <2>3
  <2>5. QED
    BY <2>1, <2>2, <2>3, <2>4 DEF aq, am, rq
<1>9. QED
  BY <1>1, <1>6, <1>7, <1>8

(* What B's variables stand for.                                           *)
Memory  == [a \in Addresses |-> Byte(a)]
Promise == IF pending
           THEN [err |-> error_q, data |-> IF req.valid THEN device ELSE bus_m_dat_o]
           ELSE [err |-> FALSE, data |-> << >>]

LEMMA PromiseOpen == RegistersOK /\ pending => Promise # B!None
<1> SUFFICES ASSUME RegistersOK, pending PROVE Promise # B!None
  OBVIOUS
<1>1. Promise.data \in Words
  BY AnswerType DEF Promise, RegistersOK
<1>2. 0 \in DOMAIN Promise.data
  BY <1>1 DEF Words
<1>3. B!None.data = << >>
  BY DEF B!None
<1>4. DOMAIN << >> = {}
  OBVIOUS
<1>5. QED
  BY <1>2, <1>3, <1>4

LEMMA AddressesAreNat == Addresses \subseteq Nat
BY DataBusAssumption DEF Addresses, DeviceWord

LEMMA MemoryStartsRight == BusInit => B!MemoryInit
<1> SUFFICES ASSUME BusInit PROVE B!MemoryInit
  OBVIOUS
<1>1. ASSUME NEW a \in Addresses PROVE Byte(a) \in Bytes
  <2>1. a \in Nat /\ a \div 4 \in Nat /\ a % 4 \in 0 .. 3
    BY AddressesAreNat, Division
  <2>2. 0 \in Bytes
    BY DataBusAssumption DEF Bytes
  <2>3. CASE Select(a) = "imem"
    <3>1. a \div 4 \in 0 .. ImemWords - 1
      BY <2>1, <2>3, DataBusAssumption DEF Select
    <3>2. Rom[a \div 4] \in Words
      BY <3>1, DataBusAssumption
    <3>3. QED
      BY <2>1, <2>3, <3>2 DEF Byte, Words
  <2>4. CASE Select(a) = "dmem"
    <3>1. a \div 4 - ImemWords \in 0 .. DmemWords - 1
      BY <2>1, <2>4, DataBusAssumption DEF Select, DeviceWord
    <3>2. QED
      BY <2>1, <2>2, <2>4, <3>1 DEF Byte, BusInit
  <2>5. CASE Select(a) = "mmio"
    BY <2>1, <2>2, <2>5 DEF Byte, BusInit, NoReq, Zero
  <2>6. CASE Select(a) = "none"
    BY <2>2, <2>6 DEF Byte
  <2>7. QED
    BY <2>3, <2>4, <2>5, <2>6 DEF Select
<1>2. Memory \in [Addresses -> Bytes]
  BY <1>1 DEF Memory
<1>3. request = B!Nothing /\ Promise = B!None /\ bus_m_ack = FALSE
  BY DEF BusInit, NoRequest, Zero, Promise, bus_m_ack, B!Nothing, B!None
<1>4. Addresses = B!Addresses /\ Bytes = B!Bytes
  BY DEF Addresses, B!Addresses, DeviceWord, B!DeviceWord, Bytes, B!Bytes
<1>5. QED
  BY <1>2, <1>3, <1>4 DEF B!MemoryInit, Memory, Promise

(* An edge without a strobe ends the request, or brings its answer.        *)
LEMMA NoStrobeStep ==
  ASSUME RegistersOK, BusInv, NoStrobe
  PROVE  [B!MemoryNext]_(B!memoryVars)
<1> USE DEF BusInv, AnswersBelong
<1>1. /\ ~d_ack' /\ ~d_read'.valid /\ ~i_read'.valid /\ ~req'.valid
      /\ m_ack' = req.valid /\ lanes' = lanes
  BY DEF NoStrobe, NoRead, NoReq, Device
<1>2. Memory' = Memory
  <2>1. device' = IF req.valid /\ req.we THEN req.data ELSE device
    BY DEF NoStrobe, Device
  <2>2. \A a \in Addresses : Byte(a)' = Byte(a)
    BY <1>1, <2>1 DEF Byte
  <2>3. QED
    BY <2>2 DEF Memory
<1>3. CASE ~pending
  <2>1. ~pending' /\ request' = request /\ bus_m_ack = FALSE /\ bus_m_ack' = FALSE
    BY <1>3 DEF NoStrobe, bus_m_ack
  <2>2. Promise' = Promise
    BY <1>3, <2>1 DEF Promise
  <2>3. QED
    BY <1>2, <2>1, <2>2 DEF B!memoryVars, Memory, Promise
<1>4. CASE pending /\ bus_m_ack
  <2>1. pending' = FALSE /\ request' = NoRequest /\ bus_m_ack' = FALSE
    BY <1>4 DEF NoStrobe, bus_m_ack
  <2>2. Promise' = B!None /\ NoRequest = B!Nothing
    BY <2>1 DEF Promise, B!None, NoRequest, B!Nothing, Zero
  <2>3. B!Idle
    BY <1>2, <1>4, <2>1, <2>2 DEF B!Idle, Memory, Promise
  <2>4. QED
    BY <2>3 DEF B!MemoryNext
<1>5. CASE pending /\ ~bus_m_ack
  <2>1. req.valid /\ selection = "mmio" /\ ~error_q
    BY <1>5 DEF bus_m_ack, response
  <2>2. /\ pending' = TRUE /\ selection' = "mmio" /\ error_q' = FALSE
        /\ request' = request /\ r_data' = device
    BY <1>5, <2>1 DEF NoStrobe, Device, RegistersOK
  <2>3. bus_m_ack' = TRUE
    BY <1>1, <2>1, <2>2 DEF bus_m_ack, response
  <2>4. error_q = FALSE /\ error_q' = error_q
    BY <2>1, <2>2 DEF RegistersOK
  <2>5. bus_m_dat_o' = device
    BY <2>2 DEF bus_m_dat_o
  <2>6. Promise' = Promise
    BY <1>1, <1>5, <2>1, <2>2, <2>4, <2>5 DEF Promise
  <2>7. bus_m_ack = FALSE
    BY <1>5 DEF bus_m_ack
  <2>8. B!Answer
    BY <1>2, <1>5, <2>2, <2>3, <2>6, <2>7, PromiseOpen DEF B!Answer, Memory, Promise
  <2>9. QED
    BY <2>8 DEF B!MemoryNext
<1>6. QED
  BY <1>3, <1>4, <1>5

(* A reset forgets the request and clears the device.                      *)
LEMMA ResetStep ==
  ASSUME RegistersOK, Reset
  PROVE  B!MemoryNext
<1>1. /\ request' = B!Nothing /\ Promise' = B!None /\ bus_m_ack' = FALSE
  BY DEF Reset, NoRequest, Zero, Promise, bus_m_ack, B!Nothing, B!None
<1>2. Memory' = [a \in Addresses |-> IF B!Region(a) = "mmio" THEN 0 ELSE Memory[a]]
  <2>1. ASSUME NEW a \in Addresses
        PROVE  Byte(a)' = IF B!Region(a) = "mmio" THEN 0 ELSE Byte(a)
    <3>1. a \in Nat /\ a % 4 \in 0 .. 3 /\ Select(a) = B!Region(a)
      BY AddressesAreNat, Division, SelectIsRegion
    <3>2. lanes' = lanes /\ ~req'.valid /\ device' = Zero
      BY DEF Reset, NoReq
    <3>3. QED
      BY <3>1, <3>2 DEF Byte, Zero
  <2>2. QED
    BY <2>1 DEF Memory
<1>3. Addresses = B!Addresses
  BY DEF Addresses, B!Addresses, DeviceWord, B!DeviceWord
<1>4. B!Reset
  BY <1>1, <1>2, <1>3 DEF B!Reset, Memory, Promise
<1>5. QED
  BY <1>4 DEF B!MemoryNext

(* The bytes of a word belong to the same slave.                           *)
LEMMA WordBytes ==
  \A a, b \in Nat : a \div 4 = b \div 4 => Select(a) = Select(b)
BY DataBusAssumption DEF Select, DeviceWord

LEMMA ByteOfWord ==
  ASSUME NEW q \in Nat, NEW k \in 0 .. 3
  PROVE  (4 * q + k) \div 4 = q /\ (4 * q + k) % 4 = k
OBVIOUS

(* What a strobe does whatever it asks for.                                *)
LEMMA StrobeCommon ==
  ASSUME RegistersOK, BusInv, NEW r \in Requests, Strobe(r)
  PROVE  /\ ~req.valid /\ device' = device
         /\ pending' = TRUE /\ selection' = Select(r.addr)
         /\ error_q' = BadRequest(r) /\ request' = r
         /\ (Promise = B!None \/ bus_m_ack) /\ bus_m_ack' \in BOOLEAN
         /\ request' \in B!Requests
<1>1. ~req.valid
  BY DEF Strobe, bus_m_ready, bus_m_ack, response, BusInv, AnswersBelong
<1>2. device' = device
  BY <1>1 DEF Strobe, Device
<1>3. /\ pending' = TRUE /\ selection' = Select(r.addr)
      /\ error_q' = BadRequest(r) /\ request' = r
  BY DEF Strobe
<1>4. Promise = B!None \/ bus_m_ack
  BY DEF Strobe, bus_m_ready, Promise, B!None
<1>5. bus_m_ack' \in BOOLEAN
  BY DEF bus_m_ack
<1>6. Addresses = B!Addresses /\ Requests = B!Requests
  BY DEF Addresses, B!Addresses, DeviceWord, B!DeviceWord, Requests, B!Requests,
         B!Loads, B!Stores, Zero
<1>7. QED
  BY <1>1, <1>2, <1>3, <1>4, <1>5, <1>6

LEMMA RefusedStep ==
  ASSUME RegistersOK, BusInv, NEW r \in Requests, Strobe(r), BadRequest(r)
  PROVE  B!Refuse(r)
<1>1. \A s : ~Strobes(r, s)
  BY DEF Strobes
<1>2. lanes' = lanes /\ req' = NoReq /\ error_q' = TRUE
  BY <1>1 DEF Strobe, BadRequest
<1>3. Memory' = Memory
  <2>1. \A a \in Addresses : Byte(a)' = Byte(a)
    BY <1>2, StrobeCommon DEF Byte, NoReq
  <2>2. QED
    BY <2>1 DEF Memory
<1>4. Promise' = B!Error
  <2>1. bus_m_dat_o' = Zero
    BY <1>2 DEF bus_m_dat_o
  <2>2. QED
    BY <1>2, <2>1, StrobeCommon DEF Promise, NoReq, Zero, B!Error
<1>5. ~B!Allowed(r)
  BY RefusedIsForbidden
<1>6. QED
  BY <1>3, <1>4, <1>5 DEF B!Refuse, Memory, Promise

LEMMA LoadStep ==
  ASSUME RegistersOK, BusInv, NEW r \in Requests, Strobe(r), ~BadRequest(r), ~r.we
  PROVE  B!Load(r)
<1> DEFINE q == r.addr \div 4
<1>1. r.addr \in Nat /\ q \in Nat
  BY RequestType, Division
<1>2. \A k \in 0 .. 3 : /\ (4 * q + k) \div 4 = q /\ (4 * q + k) % 4 = k
                       /\ Select(4 * q + k) = Select(r.addr)
  BY <1>1, ByteOfWord, WordBytes
<1>3. lanes' = lanes /\ (req'.valid => ~req'.we) /\ error_q' = FALSE
  BY DEF Strobe, NoReq, BadRequest
<1>4. Memory' = Memory
  <2>1. \A a \in Addresses : Byte(a)' = Byte(a)
    BY <1>3, StrobeCommon DEF Byte
  <2>2. QED
    BY <2>1 DEF Memory
<1>5. Promise'.data = B!Value(r)
  <2>1. CASE Select(r.addr) = "imem"
    <3>1. /\ portb' = Rom[q] /\ i_read' = Reads(r, Zero) /\ ~req'.valid
          /\ Rom[q] \in Words
      BY <2>1, IndexInRange, DataBusAssumption DEF Strobe, Strobes, NoReq
    <3>2. bus_m_dat_o' = ReadMux(Reads(r, Zero), Rom[q])
      <4>1. bus_m_dat_o' = ReadMux(i_read', portb')
        BY <1>3, <2>1, StrobeCommon DEF bus_m_dat_o, ReadMux
      <4>2. QED
        BY <3>1, <4>1
    <3>3. \A k \in 0 .. 3 : Rom[q][k] = Byte(4 * q + k)
      BY <1>2, <2>1 DEF Byte
    <3>4. bus_m_dat_o' = B!Value(r)
      BY <3>1, <3>2, <3>3, ReadIsValue
    <3>5. QED
      BY <3>1, <3>4, StrobeCommon DEF Promise
  <2>2. CASE Select(r.addr) = "dmem"
    <3> DEFINE W == [k \in 0 .. 3 |-> lanes[k][Index(r)]]
    <3>1. d_read' = Reads(r, W) /\ ~req'.valid
      BY <2>2 DEF Strobe, Strobes, NoReq
    <3>2. W \in Words
      <4>1. Index(r) \in 0 .. DmemWords - 1
        BY <2>2, IndexInRange DEF Strobes
      <4>2. \A k \in 0 .. 3 : lanes[k][Index(r)] \in Bytes
        BY <4>1 DEF RegistersOK
      <4>3. QED
        BY <4>2 DEF Words
    <3>3. bus_m_dat_o' = ReadMux(Reads(r, W), W)
      <4>1. bus_m_dat_o' = ReadMux(d_read', d_read'.word)
        BY <1>3, <2>2, StrobeCommon DEF bus_m_dat_o, ReadMux
      <4>2. d_read'.word = W
        BY <3>1 DEF Reads
      <4>3. QED
        BY <3>1, <4>1, <4>2
    <3>4. \A k \in 0 .. 3 : W[k] = Byte(4 * q + k)
      BY <1>2, <2>2 DEF Byte, Index
    <3> HIDE DEF W
    <3>5. bus_m_dat_o' = B!Value(r)
      BY <3>2, <3>3, <3>4, ReadIsValue
    <3>6. QED
      BY <3>1, <3>5, StrobeCommon DEF Promise
  <2>3. CASE Select(r.addr) = "mmio"
    <3>1. req'.valid
      BY <2>3 DEF Strobe, Strobes
    <3>2. r.op = 2 /\ device \in Words
      BY <2>3 DEF BadRequest, RegistersOK
    <3>3. \A k \in 0 .. 3 : device[k] = Byte(4 * q + k)
      BY <1>2, <2>3, StrobeCommon DEF Byte
    <3>4. ReadMux(Reads(r, Zero), device) = B!Value(r)
      BY <3>2, <3>3, ReadIsValue
    <3>5. ReadMux(Reads(r, Zero), device) = device
      BY <3>2 DEF ReadMux, Reads
    <3>6. QED
      BY <3>1, <3>4, <3>5, StrobeCommon DEF Promise
  <2>4. QED
    BY <2>1, <2>2, <2>3 DEF BadRequest, Select
<1>6. Promise' = [err |-> FALSE, data |-> B!Value(r)]
  BY <1>3, <1>5, StrobeCommon DEF Promise
<1>7. B!Allowed(r)
  BY RefusedIsForbidden
<1>8. QED
  BY <1>4, <1>6, <1>7 DEF B!Load, Memory, Promise

LEMMA StoreStep ==
  ASSUME RegistersOK, BusInv, NEW r \in Requests, Strobe(r), ~BadRequest(r), r.we
  PROVE  B!Store(r)
<1> DEFINE named == r.addr .. r.addr + B!Size(r.op) - 1
<1>1. /\ r.addr \in Nat /\ Select(r.addr) \in {"dmem", "mmio"} /\ error_q' = FALSE
      /\ Select(r.addr) = "mmio" => r.op = 2
  BY RequestType, StrobeCommon DEF BadRequest, Select
<1>2. Promise' \in [err : {FALSE}, data : Words]
  <2>1. CASE Select(r.addr) = "dmem"
    <3>1. d_read' = NoRead /\ ~req'.valid /\ Zero \in Words
      BY <2>1, DataBusAssumption DEF Strobe, Strobes, NoReq, Zero, Words, Bytes
    <3>2. bus_m_dat_o' = Zero
      BY <1>1, <2>1, <3>1, StrobeCommon DEF bus_m_dat_o, ReadMux, NoRead
    <3>3. QED
      BY <1>1, <3>1, <3>2, StrobeCommon DEF Promise
  <2>2. CASE Select(r.addr) = "mmio"
    <3>1. req'.valid /\ device \in Words
      BY <2>2 DEF Strobe, Strobes, RegistersOK
    <3>2. QED
      BY <1>1, <3>1, StrobeCommon DEF Promise
  <2>3. QED
    BY <1>1, <2>1, <2>2
<1>3. ASSUME NEW a \in Addresses
      PROVE  Byte(a)' = IF a \in named THEN r.data[a - r.addr] ELSE Byte(a)
  <2> DEFINE aq == a \div 4
             am == a % 4
  <2>1. a \in Nat /\ aq \in Nat /\ am \in 0 .. 3
    BY AddressesAreNat, Division
  <2>2. /\ aq = r.addr \div 4 /\ am \in byte_en(r) <=> a \in named
        /\ a \in named => wdata(r)[am] = r.data[a - r.addr]
    BY <2>1, StoredBytes
  <2>3. a \in named => Select(a) = Select(r.addr)
    BY <1>1, <2>1, <2>2, WordBytes
  <2> HIDE DEF named
  <2>4. CASE Select(a) \in {"imem", "none"}
    BY <1>1, <2>3, <2>4 DEF Byte
  <2>5. CASE Select(a) = "dmem"
    <3>1. Byte(a) = lanes[am][aq - ImemWords] /\ Byte(a)' = lanes'[am][aq - ImemWords]
      BY <2>5 DEF Byte
    <3>2. CASE Select(r.addr) = "mmio"
      <4>1. lanes' = lanes
        BY <3>2 DEF Strobe, Strobes
      <4>2. QED
        BY <2>3, <2>5, <3>1, <3>2, <4>1
    <3>3. CASE Select(r.addr) = "dmem"
      <4>1. lanes' = [k \in 0 .. 3 |-> IF k \in byte_en(r)
                         THEN [lanes[k] EXCEPT ![Index(r)] = wdata(r)[k]]
                         ELSE lanes[k]]
        BY <3>3 DEF Strobe, Strobes
      <4>2. aq - ImemWords \in 0 .. DmemWords - 1
        BY <2>1, <2>5, DataBusAssumption DEF Select, DeviceWord
      <4>3. aq - ImemWords = Index(r) <=> aq = r.addr \div 4
        BY <1>1, <2>1, Division, DataBusAssumption DEF Index
      <4>4. lanes[am] \in [0 .. DmemWords - 1 -> Bytes]
        BY <2>1 DEF RegistersOK
      <4>5. lanes'[am] = IF am \in byte_en(r)
                         THEN [lanes[am] EXCEPT ![Index(r)] = wdata(r)[am]]
                         ELSE lanes[am]
        BY <2>1, <4>1
      <4> HIDE DEF aq, am
      <4>6. lanes'[am][aq - ImemWords] =
              IF am \in byte_en(r) /\ aq - ImemWords = Index(r)
              THEN wdata(r)[am] ELSE lanes[am][aq - ImemWords]
        BY <4>2, <4>4, <4>5
      <4>7. QED
        BY <2>2, <3>1, <4>3, <4>6
    <3>4. QED
      BY <1>1, <3>2, <3>3
  <2>6. CASE Select(a) = "mmio"
    <3>1. Byte(a) = device[am]
      BY <2>6, StrobeCommon DEF Byte
    <3>2. CASE Select(r.addr) = "dmem"
      <4>1. ~req'.valid
        BY <3>2 DEF Strobe, Strobes, NoReq
      <4>2. Byte(a)' = device'[am]
        BY <2>6, <4>1 DEF Byte
      <4>3. QED
        BY <2>3, <2>6, <3>1, <3>2, <4>2, StrobeCommon
    <3>3. CASE Select(r.addr) = "mmio"
      <4>1. req'.valid /\ req'.we /\ req'.data = r.data
        BY <3>3 DEF Strobe, Strobes
      <4>2. Byte(a)' = r.data[am]
        BY <2>6, <4>1 DEF Byte
      <4>3. r.op = 2 /\ byte_en(r) = 0 .. 3 /\ wdata(r)[am] = r.data[am]
        BY <1>1, <2>1, <3>3 DEF byte_en, wdata
      <4>4. aq = r.addr \div 4
        BY <1>1, <2>1, <2>6, <3>3, DataBusAssumption DEF Select, DeviceWord
      <4>5. QED
        BY <2>1, <2>2, <4>2, <4>3, <4>4
    <3>4. QED
      BY <1>1, <3>2, <3>3
  <2>7. QED
    BY <2>4, <2>5, <2>6 DEF Select
<1>4. Memory' = [a \in Addresses |-> IF a \in named THEN r.data[a - r.addr]
                                    ELSE Memory[a]]
  BY <1>3 DEF Memory
<1>5. B!Allowed(r) /\ Words = B!Words /\ Addresses = B!Addresses
  BY RefusedIsForbidden DEF Words, B!Words, Bytes, B!Bytes,
     Addresses, B!Addresses, DeviceWord, B!DeviceWord
<1>6. QED
  BY <1>2, <1>4, <1>5 DEF B!Store, Memory, Promise

(* Lanes, multiplexers, the shared port, the registered device port and    *)
(* the error path are a memory of bytes that answers each request once,    *)
(* in order, with what it was entitled to when it was accepted.            *)
THEOREM BusIsByteMemory == BusSpec => ImplementsByteMemory
<1>1. ASSUME RegistersOK, BusInv, [BusNext]_busVars
      PROVE  [B!MemoryNext]_(B!memoryVars)
  <2>1. CASE NoStrobe
    BY <1>1, <2>1, NoStrobeStep
  <2>2. CASE Reset
    BY <1>1, <2>2, ResetStep
  <2>3. ASSUME NEW r \in Requests, Strobe(r) PROVE B!MemoryNext
    <3>1. B!Refuse(r) \/ B!Load(r) \/ B!Store(r)
      BY <1>1, <2>3, RefusedStep, LoadStep, StoreStep
    <3>2. request' = r
      BY <1>1, <2>3, StrobeCommon
    <3>3. B!Refuse(request') \/ B!Load(request') \/ B!Store(request')
      BY <3>1, <3>2
    <3>4. B!Accept
      BY <1>1, <2>3, <3>3, StrobeCommon DEF B!Accept, Promise
    <3>5. QED
      BY <3>4 DEF B!MemoryNext
  <2>4. CASE UNCHANGED busVars
    <3>1. \A a \in Addresses : Byte(a)' = Byte(a)
      BY <2>4 DEF busVars, bus, memory, mmio, Byte
    <3>2. Memory' = Memory
      BY <3>1 DEF Memory
    <3>3. request' = request /\ bus_m_ack' = bus_m_ack /\ bus_m_dat_o' = bus_m_dat_o
      BY <2>4 DEF busVars, bus, memory, mmio, bus_m_ack, response, bus_m_dat_o, ReadMux
    <3>4. Promise' = Promise
      BY <2>4, <3>3 DEF busVars, bus, memory, mmio, Promise
    <3>5. QED
      BY <3>2, <3>3, <3>4 DEF B!memoryVars, Memory, Promise
  <2>5. QED
    BY <1>1, <2>1, <2>2, <2>3, <2>4 DEF BusNext
<1>2. QED
  BY <1>1, MemoryStartsRight, RegistersInit, RegistersStep, BusInvInit, BusInvStep, PTL
     DEF BusSpec, ImplementsByteMemory, B!MemorySpec
=============================================================================
