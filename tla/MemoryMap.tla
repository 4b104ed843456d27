------------------------------ MODULE MemoryMap ------------------------------
(***************************************************************************)
(* What a data access meets behind bus_interconnect.v: each word of the    *)
(* address space belongs to IMEM (read-only for data), to data memory, to  *)
(* the device registers, or to nothing.                                    *)
(***************************************************************************)
EXTENDS Rv

CONSTANTS
  Region,      (* the memory map, one kind a word                           *)
  LoadValues,  (* what reading ROM or a device register may return          *)
  SentLimit    (* device writes are counted modulo this bound               *)

ASSUME RegionAssumption ==
  /\ Region \in [Address -> {"imem", "dmem", "mmio", "none"}]
  /\ \A a \in Address : Region[a] = "imem" <=> InImem(a)
ASSUME LoadValuesAssumption == LoadValues \subseteq Address
ASSUME SentLimitAssumption == SentLimit \in Nat \ {0}

DataAddress == {a \in Address : Region[a] = "dmem"}

(* The request errors of bus_interconnect.v at word granularity.           *)
BadRequest(op, a) ==
  Region[a] = "none" \/ (Region[a] = "imem" /\ op = "store")
=============================================================================
