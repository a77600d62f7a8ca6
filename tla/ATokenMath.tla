------------------------------ MODULE ATokenMath ------------------------------
(***************************************************************************)
(* The two conversions of the aToken bridge.  An aToken's value grows with *)
(* the liquidity index of its pool; the child token, the maToken, counts   *)
(* units that do not grow.  p27Div turns aTokens into units, p27Mul turns  *)
(* units into aTokens, both in fixed point, both rounding half up, on      *)
(* machine words with checks of their own.                                 *)
(*                                                                         *)
(* A call returns or reverts: an operator is the set of what it returns,   *)
(* which is empty if it reverts.                                           *)
(***************************************************************************)
EXTENDS Naturals

CONSTANTS
  P27,      \* the number 1 in fixed point, 10^27
  Word      \* how many values a uint256 has

ASSUME WordAssumption ==
  /\ P27 \in Nat \ {0} /\ P27 % 2 = 0
  /\ Word \in Nat /\ P27 < Word

HALF_P27 == P27 \div 2
Uint == 0..(Word - 1)
Wrap(n) == n % Word

p27Div(a, b) ==
  LET c == Wrap(a * P27)
      d == Wrap(c + b \div 2)
  IN  IF b # 0 /\ a = c \div P27 /\ d >= b \div 2 THEN {d \div b} ELSE {}

\* Plausible bugs, not the code: the product is rounded down, rounded up.
p27MulDown(a, b) ==
  LET c == Wrap(a * b)
  IN  IF c = 0 THEN {0} ELSE IF b = c \div a THEN {c \div P27} ELSE {}

p27MulUp(a, b) ==
  LET c == Wrap(a * b)
      d == Wrap(c + P27 - 1)
  IN  IF c = 0 THEN {0}
      ELSE IF b = c \div a /\ d >= P27 - 1 THEN {d \div P27} ELSE {}

p27Mul(a, b) ==
  LET c == Wrap(a * b)
      d == Wrap(c + HALF_P27)
  IN  IF c = 0 THEN {0}
      ELSE IF b = c \div a /\ d >= HALF_P27 THEN {d \div P27} ELSE {}

-----------------------------------------------------------------------------
\* n / d to the nearest integer, a half going up.
HalfUp(n, d) == (2 * n + d) \div (2 * d)

\* "Divides two 27 decimal percision values, rounding half up to the nearest
\* decimal": p27Div returns that quotient, and reverts exactly if it cannot be
\* computed in words.
DivIsHalfUp(a, b) ==
  p27Div(a, b) = IF b # 0 /\ a * P27 + b \div 2 < Word THEN {HalfUp(a * P27, b)} ELSE {}

\* "Multiplies two 27 decimal percision values, rounding half up to the nearest
\* decimal", "p27 multiplication overflow": p27Mul returns that product, and
\* reverts exactly if it cannot be computed in words; but for one overflow that
\* its checks miss, a product that wraps to zero, for which it returns zero.
MulIsHalfUp(a, b) ==
  p27Mul(a, b) = IF a * b + HALF_P27 < Word THEN {HalfUp(a * b, P27)}
                 ELSE IF Wrap(a * b) = 0 THEN {0} ELSE {}

\* Units that are converted to aTokens and back are the same units, as long as
\* the index has not fallen below 1: what an exit pays out is worth exactly the
\* units that were burned, in spite of two roundings.
RoundTrip(units, index) ==
  index >= P27 /\ units * index < Word =>
    \A value \in p27Mul(units, index) :
      p27Div(value, index) \subseteq {units}
=============================================================================
