----------------------------- MODULE LengthCodec ----------------------------
(***************************************************************************)
(* The lengths in an RDB file (writeLength and readLength in               *)
(* pkg/persistence/rdb.go): one byte, two bytes, or a mark and four bytes, *)
(* told apart by the top two bits of the first byte.                       *)
(*                                                                         *)
(* A byte has Base values, 256 in the code.  Its top two bits are its      *)
(* quarter: 0x40 is Quarter and 0x80 is 2 * Quarter.                       *)
(***************************************************************************)
EXTENDS Naturals, Sequences

CONSTANT Base

ASSUME BaseAssumption == Base \in Nat /\ Base >= 4 /\ Base % 4 = 0

Quarter == Base \div 4

\* The first number that uint32 cannot hold.
Limit == Base * Base * Base * Base

\* binary.BigEndian of uint32(n).
BigEndian(n) ==
  <<(n \div (Base * Base * Base)) % Base, (n \div (Base * Base)) % Base,
    (n \div Base) % Base, n % Base>>

\* Mutant: the boundary of the short form is a bit too far.
writeLengthWide(n) ==
  IF n <= Quarter THEN <<n>>
  ELSE IF n < Quarter * Base THEN <<(n \div Base) + Quarter, n % Base>>
  ELSE <<2 * Quarter>> \o BigEndian(n)

writeLength(n) ==
  IF n < Quarter THEN <<n>>
  ELSE IF n < Quarter * Base THEN <<(n \div Base) + Quarter, n % Base>>
  ELSE <<2 * Quarter>> \o BigEndian(n)

\* What readLength takes off the front of some bytes: used is how many, 0 if
\* the file ends too early.
Length(n, used) == [n |-> n, used |-> used]

Short(bytes) == Length(bytes[1] % Quarter, 1)

TwoBytes(bytes) ==
  IF Len(bytes) < 2 THEN Length(0, 0)
  ELSE Length((bytes[1] % Quarter) * Base + bytes[2], 2)

FiveBytes(bytes) ==
  IF Len(bytes) < 5 THEN Length(0, 0)
  ELSE Length(bytes[2] * (Base * Base * Base) + bytes[3] * (Base * Base)
                + bytes[4] * Base + bytes[5], 5)

readLength(bytes) ==
  IF bytes = << >> THEN Length(0, 0)
  ELSE CASE bytes[1] \div Quarter = 0 -> Short(bytes)
         [] bytes[1] \div Quarter = 1 -> TwoBytes(bytes)
         [] OTHER -> FiveBytes(bytes)
=============================================================================
