------------------------------- MODULE MCUart --------------------------------
(***************************************************************************)
(* Two data bits, three cycles a bit, the four FIFO entries of the code:   *)
(* the FIFO fills while a frame is on the line, overflows when software    *)
(* does not poll, and its pointers come around.                            *)
(***************************************************************************)
EXTENDS Uart

MCBytes == { << 0, 1 >>, << 1, 0 >> }
=============================================================================
