---------------------------- MODULE MagicDivision ----------------------------
(***************************************************************************)
(* Division by multiplication, magic_div.hpp: the host computes a          *)
(* multiplier and a shift for a divisor, kernels divide with them.  Every  *)
(* index the tensor descriptors merge or split goes through it.            *)
(*                                                                         *)
(* The two variants of the file differ in the width of the magic shift and *)
(* of the registers: magic_division32_bit_range is Bits = RegBits = 32,    *)
(* magic_division16_bit_range is Bits = 16, RegBits = 32.  Products are    *)
(* formed in 2 * Bits bits by both.                                        *)
(*                                                                         *)
(* An operator X_What in front of X is X with a defect (What says which):  *)
(* the variant that the property guarding against it must reject.          *)
(***************************************************************************)
EXTENDS Integers

CONSTANTS
  Bits,        \* bits the magic product is shifted by
  RegBits,     \* width of multiplier, dividend, sum and quotient
  MaxDivisor,  \* divisors and dividends that the comments allow
  MaxDividend

\* 1U << n
Pow2[n \in Nat] == IF n = 0 THEN 1 ELSE 2 * Pow2[n - 1]

ASSUME WidthAssumption ==
  /\ Bits \in Nat \ {0}
  /\ RegBits \in {Bits, 2 * Bits}
  /\ MaxDivisor \in 1 .. Pow2[RegBits] - 1
  /\ MaxDividend \in 0 .. Pow2[RegBits] - 1

VARIABLES
  pc,       \* calculate_magic_numbers: its loop, or finished
  divisor, shift, multiplier,
  dividend, quotient

vars == <<pc, divisor, shift, multiplier, dividend, quotient>>

Reg == 0 .. Pow2[RegBits] - 1

TypeOK ==
  /\ pc \in {"shift", "ready", "divided"}
  /\ divisor \in 1 .. MaxDivisor
  /\ shift \in 0 .. RegBits - 1
  /\ multiplier \in Reg /\ dividend \in Reg /\ quotient \in Reg

Init ==
  /\ pc = "shift"
  /\ divisor \in 1 .. MaxDivisor
  /\ shift = 0 /\ multiplier = 0
  /\ dividend = 0 /\ quotient = 0

\* while((1U << shift_u32) < divisor) shift_u32++
ShiftTooSmall_Late  == Pow2[shift] < 2 * divisor
ShiftTooSmall_Equal == Pow2[shift] <= divisor
ShiftTooSmall       == Pow2[shift] < divisor

IncShift ==
  /\ pc = "shift"
  /\ ShiftTooSmall
  /\ shift' = shift + 1
  /\ UNCHANGED <<pc, divisor, multiplier, dividend, quotient>>

MagicMultiplier ==
  /\ pc = "shift"
  /\ ~ShiftTooSmall
  /\ LET tmp == ((Pow2[shift] - divisor) * Pow2[Bits]) % Pow2[2 * Bits]
     IN  multiplier' = (tmp \div divisor + 1) % Pow2[RegBits]
  /\ pc' = "ready"
  /\ UNCHANGED <<divisor, shift, dividend, quotient>>

\* do_magic_division
do_magic_division(d) ==
  LET tmp == ((d * multiplier) % Pow2[2 * Bits]) \div Pow2[Bits]
  IN  ((tmp + d) % Pow2[RegBits]) \div Pow2[shift]

Divide ==
  /\ pc = "ready"
  /\ \E d \in 0 .. MaxDividend :
       /\ dividend' = d
       /\ quotient' = do_magic_division(d)
  /\ pc' = "divided"
  /\ UNCHANGED <<divisor, shift, multiplier>>

\* the magic numbers are used for any number of divisions
DivideAgain ==
  /\ pc = "divided"
  /\ pc' = "ready"
  /\ UNCHANGED <<divisor, shift, multiplier, dividend, quotient>>

Next == IncShift \/ MagicMultiplier \/ Divide \/ DivideAgain

Spec == Init /\ [][Next]_vars

\* The quotient is that of the division, for every divisor and dividend in
\* the range that the comments of the variant give.
QuotientCorrect == pc = "divided" => quotient = dividend \div divisor
=============================================================================
