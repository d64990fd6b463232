------------------------------- MODULE IntText ------------------------------
(***************************************************************************)
(* The integers in hash fields (parseInt, intToString and Hash.HIncrBy in  *)
(* pkg/datastruct/datastruct.go).  They are stored as text and are Go      *)
(* ints, which wrap around.                                                *)
(*                                                                         *)
(* A text is a sign and digits; any other string is NotInt.                *)
(***************************************************************************)
EXTENDS GoInt, Sequences

CONSTANT NotInt   \* a text that parseInt refuses

Text(sign, digits) == [sign |-> sign, digits |-> digits]

\* The decimal digits of a positive int.
Digits[m \in 0 .. Half - 1] == IF m = 0 THEN << >> ELSE Append(Digits[m \div 10], m % 10)

\* Mutant: the sign is forgotten.
intToStringAbs(n) ==
  IF n = 0 THEN Text("", <<0>>)
  ELSE LET m == IF n < 0 THEN Wrap(-n) ELSE n
       IN  Text("", Digits[IF m > 0 THEN m ELSE 0])

\* The smallest int is its own negation, so its loop over the digits ends at
\* once and the text is a sign alone.
intToString(n) ==
  IF n = 0 THEN Text("", <<0>>)
  ELSE LET m == IF n < 0 THEN Wrap(-n) ELSE n
       IN  Text(IF n < 0 THEN "-" ELSE "", Digits[IF m > 0 THEN m ELSE 0])

\* parseInt's loop; after[i] is the result after i digits.  No digits are
\* zero, and too many wrap around.
Accumulate(digits) ==
  LET after[i \in 0 .. Len(digits)] == IF i = 0 THEN 0 ELSE Wrap(after[i - 1] * 10 + digits[i])
  IN  after[Len(digits)]

parseInt(text) ==
  LET result == Accumulate(text.digits)
  IN  IF text.sign = "-" THEN Wrap(-result) ELSE result

\* The field and the reply after HINCRBY; an error changes nothing.
HIncrBy(field, increment) ==
  IF field = NotInt THEN [field |-> field, reply |-> NotInt]
  ELSE LET new == Wrap(parseInt(field) + increment)
       IN  [field |-> intToString(new), reply |-> new]
=============================================================================
