----------------------------- MODULE Conversions ----------------------------
(***************************************************************************)
(* Functions of the core that keep no state between calls: itoa() and its  *)
(* relatives (itoa.c), shiftOut() and shiftIn() (Shift.cpp), transfer16()  *)
(* (SPI.cpp), random() (Random.cpp), the scaling of analogRead()           *)
(* (analog_io.c).  A step is a call, remembered with its arguments and its *)
(* result.                                                                 *)
(*                                                                         *)
(* A digit character is its value; integers are as wide as Bits says, and  *)
(* ints are as wide as longs.                                              *)
(***************************************************************************)
EXTENDS Integers, Sequences

CONSTANTS
  Bits,     \* the width of a long, 32
  Longs,    \* the values of a long considered
  Radices,  \* the values of the radix arguments
  Readings, \* the values of the ADC, of 11 bits
  Bytes     \* the bytes an SPI transfers

ASSUME ConversionsAssumption ==
  /\ Bits \in Nat \ {0}
  /\ Longs \subseteq -(2 ^ (Bits - 1)) .. 2 ^ (Bits - 1) - 1
  /\ Radices \subseteq Int
  /\ Readings \subseteq 0 .. 2047 /\ Bytes \subseteq 0 .. 255

VARIABLE call   \* the last call

Count == 2 ^ Bits
ULongs == 0 .. Count - 1
MaxLong == 2 ^ (Bits - 1) - 1

\* A number modulo the width, as an unsigned and as a signed integer.
AsUnsigned(n) == n % Count
AsSigned(n) == IF n % Count > MaxLong THEN (n % Count) - Count ELSE n % Count

ConversionsInit == call = [fun |-> "none"]

-----------------------------------------------------------------------------
(* itoa.c                                                                  *)

NullString == [minus |-> FALSE, digits |-> <<>>]

\* Mutant of Digits: the loop runs while v is not zero.
Digits_Zero(v0, radix) ==
  LET digits[v \in ULongs] ==
        IF v = 0 THEN <<>> ELSE Append(digits[v \div radix], v % radix)
  IN  digits[v0]

\* The loop that takes the remainders and the one that turns them round.
Digits(v0, radix) ==
  LET digits[v \in ULongs] ==
        IF v < radix THEN <<v>> ELSE Append(digits[v \div radix], v % radix)
  IN  digits[v0]

LtoaString(value, radix) ==
  IF radix > 36 \/ radix <= 1 THEN NullString
  ELSE LET minus == radix = 10 /\ value < 0
       IN  [minus |-> minus,
            digits |-> Digits(AsUnsigned(IF minus THEN -value ELSE value), radix)]

\* ltoa(), and itoa(), which calls it.
Ltoa == \E value \in Longs, radix \in Radices :
  call' = [fun |-> "ltoa", value |-> value, radix |-> radix,
           result |-> LtoaString(value, radix)]

\* ultoa() and utoa().
Ultoa == \E value \in Longs, radix \in Radices :
  call' = [fun |-> "ultoa", value |-> AsUnsigned(value), radix |-> radix,
           result |-> IF radix > 36 \/ radix <= 1 THEN NullString
                      ELSE [minus |-> FALSE, digits |-> Digits(AsUnsigned(value), radix)]]

-----------------------------------------------------------------------------
(* Shift.cpp                                                               *)

Orders == {"LSBFIRST", "MSBFIRST"}

\* The bit that the i-th clock pulse carries.
BitAt(order, i) == IF order = "LSBFIRST" THEN i ELSE 7 - i

\* The level of the data pin at each clock pulse: !!(ulVal & (1 << n)).
ShiftOut == \E order \in Orders, val \in 0 .. 255 :
  call' = [fun |-> "shiftOut", order |-> order, val |-> val,
           levels |-> [i \in 0 .. 7 |-> (val \div 2 ^ BitAt(order, i)) % 2]]

\* value |= level << n at each pulse; the bits differ, so that is their sum.
Gathered(order, levels) ==
  LET value[i \in 0 .. 8] ==
        IF i = 0 THEN 0 ELSE value[i - 1] + levels[i - 1] * 2 ^ BitAt(order, i - 1)
  IN  value[8]

ShiftIn == \E order \in Orders, levels \in [0 .. 7 -> 0 .. 1] :
  call' = [fun |-> "shiftIn", order |-> order, levels |-> levels,
           val |-> Gathered(order, levels)]

-----------------------------------------------------------------------------
(* SPI.cpp and analog_io.c                                                 *)

\* transfer16(): two transfers that succeed, each replaces its byte of the union.
Transfer16 == \E order \in Orders : \E hi, lo, first, second \in Bytes :
  call' = [fun |-> "transfer16", order |-> order, data |-> 256 * hi + lo,
           sent |-> IF order = "LSBFIRST" THEN <<lo, hi>> ELSE <<hi, lo>>,
           answer |-> <<first, second>>,
           result |-> IF order = "LSBFIRST" THEN 256 * second + first ELSE 256 * first + second]

\* map_adc_value(): bits are dropped from the reading, or zeros appended to it.
MapAdcValue(value, bits) ==
  IF bits < 11 THEN value \div 2 ^ (11 - bits) ELSE value * 2 ^ (bits - 11)

\* analogReadResolution(res) before analogRead().
ScaledReading == \E value \in Readings, res \in -1 .. 16 :
  LET bits == IF res < 1 THEN 1 ELSE res
  IN  call' = [fun |-> "analogRead", value |-> value, bits |-> bits,
               result |-> MapAdcValue(value, bits)]

-----------------------------------------------------------------------------
(* Random.cpp.  The generator may fail to be set up, and is tried again.   *)

\* rnd_num % max, where max is converted to unsigned.
Remainder(rnd, max) == rnd % AsUnsigned(max)

\* What random(max) may return.
Randoms(max) ==
  {0} \union (IF max <= 0 THEN {} ELSE {Remainder(rnd, max) : rnd \in ULongs})

Random == \E max \in Longs : \E r \in Randoms(max) :
  call' = [fun |-> "random", min |-> 0, max |-> max, result |-> r]

\* random(min, max).  The subtraction may overflow, which C++ leaves undefined:
\* it wraps around, and random() then finds that the result is not positive, or
\* a compiler that knows min < max leaves that test out.
RandomBetween == \E min, max \in Longs :
  \E r \in IF min >= max THEN {min}
           ELSE {AsSigned(min + n) :
                   n \in Randoms(AsSigned(max - min))
                         \union {Remainder(rnd, max - min) : rnd \in ULongs}} :
    call' = [fun |-> "random", min |-> min, max |-> max, result |-> r]

-----------------------------------------------------------------------------

ConversionsNext ==
  call.fun = "none" /\ (\/ Ltoa \/ Ultoa \/ ShiftOut \/ ShiftIn \/ Transfer16 \/ ScaledReading
                        \/ Random \/ RandomBetween)

ConversionsSpec == ConversionsInit /\ [][ConversionsNext]_call

-----------------------------------------------------------------------------
(* Properties.                                                             *)

\* The number that digits stand for, read from the left.
Number(digits, radix) ==
  LET value[k \in 0 .. Len(digits)] ==
        IF k = 0 THEN 0 ELSE radix * value[k - 1] + digits[k]
  IN  value[Len(digits)]

ReadBack(s, radix) ==
  IF s.minus THEN -Number(s.digits, radix) ELSE Number(s.digits, radix)

\* For every number, the least and zero among them, the string is not empty, has
\* digits of its radix and no leading zero, fits the 33 characters of tmp (a digit
\* per bit, and one more), and reads back as the number: with its sign in base 10,
\* as an unsigned one in the others.
DigitsReadBack ==
  call.fun \in {"ltoa", "ultoa"} /\ call.radix \in 2 .. 36 =>
    LET digits == call.result.digits
    IN  /\ Len(digits) \in 1 .. Bits
        /\ \A k \in DOMAIN digits : digits[k] \in 0 .. call.radix - 1
        /\ digits[1] = 0 => Len(digits) = 1
        /\ ReadBack(call.result, call.radix) =
             IF call.radix = 10 THEN call.value ELSE AsUnsigned(call.value)

\* What shiftOut() puts on the wire, and what shiftIn() takes from it, is the
\* byte in binary, written from the left for MSBFIRST and from the right for
\* LSBFIRST: so what is sent in an order and read in the same is unchanged.
ShiftIsBinary ==
  call.fun \in {"shiftOut", "shiftIn"} =>
    LET binary == [k \in 1 .. 8 |->
                     call.levels[IF call.order = "MSBFIRST" THEN k - 1 ELSE 8 - k]]
    IN  call.val = Number(binary, 2)

\* random() stays within its bounds, even when their difference does not fit a
\* long; an empty range gives its lower bound.
RandomInRange ==
  call.fun = "random" =>
    IF call.min < call.max THEN call.result \in call.min .. call.max - 1
    ELSE call.result = call.min

\* A transfer16() sends and receives the more significant byte first exactly when
\* the bits are sent so.
HalvesInOrder ==
  call.fun = "transfer16" =>
    LET Halfword(bytes) == IF call.order = "MSBFIRST" THEN 256 * bytes[1] + bytes[2]
                           ELSE 256 * bytes[2] + bytes[1]
    IN  call.data = Halfword(call.sent) /\ call.result = Halfword(call.answer)

\* A number of so many bits in proportion to a reading of 11, rounded down.
InProportion(number, bits, reading) ==
  /\ number * 2048 <= reading * 2 ^ bits
  /\ (number + 1) * 2048 > reading * 2 ^ bits

\* analogRead() returns the reading in proportion, rounded down to the resolution.
ReadingIsScaled ==
  call.fun = "analogRead" => InProportion(call.result, call.bits, call.value)

\* Every function of the core without a state returns what its caller may expect, at
\* the ends of its ranges too.
ResultsAreRight ==
  DigitsReadBack /\ ShiftIsBinary /\ RandomInRange /\ HalvesInOrder /\ ReadingIsScaled
=============================================================================
