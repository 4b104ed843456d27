----------------------------- MODULE ByteMemory -----------------------------
(***************************************************************************)
(* What the data bus promises the pipeline: a memory of bytes, little      *)
(* endian, in which a load or a store of one, two or four bytes takes      *)
(* effect when it is accepted and is answered later, one at a time and in  *)
(* order.  An access that must not be made is answered with an error and   *)
(* changes nothing.                                                        *)
(***************************************************************************)
EXTENDS Integers

CONSTANTS
  ByteSize,    (* 256: values of a byte                                     *)
  ImemWords,   (* words of program memory, from address 0                   *)
  DmemWords,   (* words of data memory behind them                          *)
  Data,        (* words a store may write                                   *)
  Requested    (* addresses the pipeline may ask for                        *)

Bytes == 0 .. ByteSize - 1
Words == [0 .. 3 -> Bytes]

(* The memory map: program memory, data memory, one device register and a  *)
(* word that nobody answers for.                                           *)
DeviceWord == ImemWords + DmemWords
WordAddresses == 0 .. DeviceWord + 1
Addresses == 0 .. 4 * (DeviceWord + 2) - 1
WordOf(a) == a \div 4
Region(a) ==
  IF WordOf(a) < ImemWords THEN "imem"
  ELSE IF WordOf(a) < DeviceWord THEN "dmem"
  ELSE IF WordOf(a) = DeviceWord THEN "mmio" ELSE "none"

(* op is funct3: 0, 1 and 2 for one, two and four bytes, 4 and 5 for       *)
(* unsigned loads of one and two.                                          *)
Loads  == {0, 1, 2, 4, 5}
Stores == {0, 1, 2}
Size(op) == IF op \in {0, 4} THEN 1 ELSE IF op \in {1, 5} THEN 2 ELSE 4
Requests ==
  [we : {FALSE}, op : Loads, addr : Requested, data : {[k \in 0 .. 3 |-> 0]}]
  \cup [we : {TRUE}, op : Stores, addr : Requested, data : Data]

Allowed(r) ==
  /\ r.addr % Size(r.op) = 0
  /\ \/ Region(r.addr) = "imem" /\ ~r.we
     \/ Region(r.addr) = "dmem"
     \/ Region(r.addr) = "mmio" /\ r.op = 2

VARIABLES
  bytes,   (* the memory                                                    *)
  asked,   (* the request in progress, or Nothing                           *)
  promise, (* its answer, or None                                           *)
  due      (* it is given in this cycle                                     *)

memoryVars == << bytes, asked, promise, due >>

Nothing == [we |-> FALSE, op |-> 2, addr |-> 0, data |-> [k \in 0 .. 3 |-> 0]]
None  == [err |-> FALSE, data |-> << >>]
Error == [err |-> TRUE, data |-> [k \in 0 .. 3 |-> 0]]
Extension(b) == IF b >= ByteSize \div 2 THEN ByteSize - 1 ELSE 0

Value(r) ==
  LET n == Size(r.op)
      top == bytes[r.addr + n - 1]
  IN [k \in 0 .. 3 |-> IF k < n THEN bytes[r.addr + k]
                       ELSE IF r.op \in {4, 5} THEN 0 ELSE Extension(top)]

Refuse(r) ==
  /\ ~Allowed(r) /\ promise' = Error /\ UNCHANGED bytes

Load(r) ==
  /\ Allowed(r) /\ ~r.we
  /\ promise' = [err |-> FALSE, data |-> Value(r)]
  /\ UNCHANGED bytes

(* The data of the answer to a store means nothing. *)
Store(r) ==
  /\ Allowed(r) /\ r.we
  /\ promise' \in [err : {FALSE}, data : Words]
  /\ bytes' = [a \in Addresses |-> IF a \in r.addr .. r.addr + Size(r.op) - 1
                                  THEN r.data[a - r.addr] ELSE bytes[a]]

(* A request is taken when nothing is in progress or as it is answered. *)
Accept ==
  /\ promise = None \/ due
  /\ asked' \in Requests
  /\ Refuse(asked') \/ Load(asked') \/ Store(asked')
  /\ due' \in BOOLEAN

Answer ==
  /\ promise # None /\ ~due
  /\ due' = TRUE /\ UNCHANGED << bytes, asked, promise >>

Idle ==
  /\ due /\ due' = FALSE /\ promise' = None /\ asked' = Nothing
  /\ UNCHANGED bytes

(* The request is forgotten and the device register cleared. *)
Reset ==
  /\ asked' = Nothing /\ promise' = None /\ due' = FALSE
  /\ bytes' = [a \in Addresses |-> IF Region(a) = "mmio" THEN 0 ELSE bytes[a]]

MemoryInit ==
  /\ bytes \in [Addresses -> Bytes]
  /\ asked = Nothing /\ promise = None /\ due = FALSE

MemoryNext == Accept \/ Answer \/ Idle \/ Reset
MemorySpec == MemoryInit /\ [][MemoryNext]_memoryVars
=============================================================================
