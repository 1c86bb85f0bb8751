------------------------------ MODULE Package ------------------------------
(***************************************************************************)
(* The packages of the protocol between DSControl and a DSServer,          *)
(* network/NetDefine.h.                                                    *)
(*                                                                         *)
(* A package is a begin mark, a command, the length of the payload in two  *)
(* bytes, in a multi package the index in two bytes and a complete flag,   *)
(* the payload, and an end mark.  The payload itself is not modelled, only *)
(* how many bytes of it the receiver copies out.  C++ integers keep their  *)
(* width: short has 16 bits, and a comparison with a size_t turns the      *)
(* other side into an unsigned number.                                     *)
(***************************************************************************)
EXTENDS Integers

MAX_BUF == 4096
ADDITIONAL_SIZE == 7
MULTI_ADDITIONAL_SIZE == 10

Byte(n) == n % 256
\* The value a short gets from an int.
Short(n) == ((n + 32768) % 65536) - 32768

\* max < d with max of type size_t: a negative d becomes a huge number.
LessSizeT(max, d) == d < 0 \/ max < d

----------------------------------------------------------------------------
(* SendCommand *)

\* constructSendBuffer, of a plain package and of one of a series.  A payload
\* that does not fit gives an empty datagram.
Fits(size) == ADDITIONAL_SIZE + size <= MAX_BUF

Plain(size) ==
  [lenHigh |-> Byte(size \div 256), lenLow |-> Byte(size),
   total |-> IF Fits(size) THEN size + ADDITIONAL_SIZE ELSE 0]

Multi(size, index) ==
  [lenHigh |-> Byte(size \div 256), lenLow |-> Byte(size),
   indexHigh |-> Byte(index \div 256), indexLow |-> Byte(index),
   total |-> IF Fits(size) THEN size + MULTI_ADDITIONAL_SIZE ELSE 0]

----------------------------------------------------------------------------
(* RecieveCommand *)

\* getData: the number of payload bytes copied.
Data(p) ==
  IF LessSizeT(MAX_BUF, p.total - ADDITIONAL_SIZE)
    THEN 0 ELSE p.total - ADDITIONAL_SIZE

\* getMultiPakageContent, and the form that subtracts one byte too many.
ContentOffByOne(p) ==
  LET size == Short(256 * p.lenHigh + p.lenLow)
  IN  IF LessSizeT(MAX_BUF, size - MULTI_ADDITIONAL_SIZE - 1) THEN 0 ELSE size
Content(p) ==
  LET size == Short(256 * p.lenHigh + p.lenLow)
  IN  IF LessSizeT(MAX_BUF, size - MULTI_ADDITIONAL_SIZE) THEN 0 ELSE size

\* getMultiIndex, and the form without the shift of the first byte.
MultiIndexNoShift(p) == Short(p.indexHigh + p.indexLow)
MultiIndex(p) == Short(256 * p.indexHigh + p.indexLow)

\* The index of the package onReHeartBeat asks for next.
NextIndex(index) == Short(index + 1)
============================================================================
