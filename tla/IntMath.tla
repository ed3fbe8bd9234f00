------------------------------ MODULE IntMath ------------------------------
(***************************************************************************)
(* The integer arithmetic power_model.c measures with.                     *)
(***************************************************************************)
EXTENDS Integers

CONSTANT RootDigits     \* the base-4 digits of a radicand: 32, for 64 bits
ASSUME RootAssumption == RootDigits \in Nat \ {0}

\* Division in C, and division to the nearest, halves away from zero.
Truncated(x, d) == IF x >= 0 THEN x \div d ELSE -((-x) \div d)
DivRound(x, d) == IF x >= 0 THEN (x + d \div 2) \div d ELSE -((-x + d \div 2) \div d)

PowerOf4[k \in 0..RootDigits] == IF k = 0 THEN 1 ELSE 4 * PowerOf4[k - 1]

\* The square root, digit by digit from the highest; the leading zeros that the
\* code skips would not change the state but for one.
RootDigit(s) ==
    LET fits == s.op >= s.res + s.one
    IN  [op |-> IF fits THEN s.op - (s.res + s.one) ELSE s.op,
         res |-> IF fits THEN s.res \div 2 + s.one ELSE s.res \div 2,
         one |-> s.one \div 4]

Isqrt(x) ==
    LET after[k \in 0..RootDigits] ==
            IF k = 0 THEN [op |-> x, res |-> 0, one |-> PowerOf4[RootDigits - 1]]
            ELSE RootDigit(after[k - 1])
    IN  after[RootDigits].res
=============================================================================
