-------------------------------- MODULE Crc16 --------------------------------
(***************************************************************************)
(* The checksum of a frame, Transport::crc16() in                          *)
(* wsg50_driver/src/transport.cpp.  Numbers are the unsigned 16 bit values *)
(* of the code, its loops are recursive functions of the rounds they made. *)
(***************************************************************************)
EXTENDS Naturals, Sequences

\* ^, the exclusive or, of numbers of 1, 2, 4, 8 and 16 bits.
xor1(a, b)  == (a + b) % 2
xor2(a, b)  == xor1(a % 2, b % 2) + 2 * xor1(a \div 2, b \div 2)
xor4(a, b)  == xor2(a % 4, b % 4) + 4 * xor2(a \div 4, b \div 4)
xor8(a, b)  == xor4(a % 16, b % 16) + 16 * xor4(a \div 16, b \div 16)
xor16(a, b) == xor8(a % 256, b % 256) + 256 * xor8(a \div 256, b \div 256)

\* One bit of the table value: shift left, and divide by the polynomial.
Shift(value) ==
  LET shifted == (2 * value) % 65536
  IN  IF value >= 32768 THEN xor16(shifted, 4129) ELSE shifted  \* 0x1021

\* The table value of each low byte, which the code computes on the fly.
TableValue ==
  [low \in 0..255 |->
     LET value[bit \in 0..8] ==
           IF bit = 0 THEN 256 * low ELSE Shift(value[bit - 1])
     IN  value[8]]

\* What a byte makes of the checksum of the bytes before it.
Absorb(crc, byte) ==
  xor16(TableValue[xor8(crc % 256, byte)], crc \div 256)

initial_crc == 65535  \* 0xffff

crc16(data) ==
  LET crc[offset \in 0..Len(data)] ==
        IF offset = 0 THEN initial_crc ELSE Absorb(crc[offset - 1], data[offset])
  IN  crc[Len(data)]
=============================================================================
