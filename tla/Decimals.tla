------------------------------- MODULE Decimals -------------------------------
(***************************************************************************)
(* The decimal arithmetic every adapter shares (scale.rs, the same text in *)
(* each crate): exchanges name prices, quantities and steps as decimal     *)
(* strings, the pipeline works on integers at a scale.  A decimal is its   *)
(* integer part and the digits after the point as they were written, so    *)
(* "0.10" and "0.1" are different decimals of the same value; a string     *)
(* that is empty, negative or not a number is Malformed.                   *)
(***************************************************************************)
EXTENDS Integers, Sequences, SequencesExt, FiniteSetsExt

CONSTANT MaxI64      \* stands for i64::MAX, small enough to be met

Decimal(int, frac) == [ok |-> TRUE, int |-> int, frac |-> frac]
Malformed == [ok |-> FALSE, int |-> 1, frac |-> <<>>]
Absent == [ok |-> FALSE, int |-> 0, frac |-> <<>>]     \* the field is not there
OrElse(d, default) == IF d = Absent THEN default ELSE d

\* A failed parse.  Amounts are never negative, so no amount is this.
Err == -1

Digits(s) ==
  LET upTo[n \in 0..Len(s)] == IF n = 0 THEN 0 ELSE 10 * upTo[n - 1] + s[n]
  IN upTo[Len(s)]
\* The decimal without its point, over 10^Len(frac).
Numerator(d) == d.int * 10^Len(d.frac) + Digits(d.frac)

CountSignificant(d) ==
  LET nonzero == {i \in 1..Len(d.frac) : d.frac[i] # 0}
  IN IF nonzero = {} THEN 0 ELSE Max(nonzero)

\* Trailing zeros do not count: "0.10" has one decimal, "1.0" none.
count_decimals_trimmed(d) == CountSignificant(d)

\* The digits after the point are padded with zeros or cut at the scale, and every
\* product and sum is checked.
parse_scaled(d, scale) ==
  LET frac == [i \in 1..scale |-> IF i <= Len(d.frac) THEN d.frac[i] ELSE 0]
      value == d.int * 10^scale + Digits(frac)
  IN IF ~d.ok \/ 10^scale > MaxI64 \/ value > MaxI64 THEN Err ELSE value

\* unwrap_or(1).max(1) around a parse.
AtLeastOne(v) == IF v = Err \/ v = 0 THEN 1 ELSE v

DigitsOf(v, n) == [i \in 1..n |-> (v \div 10^(n - i)) % 10]

\* The exact product, written without trailing zeros; what is not a number counts
\* as 1, which is also what Malformed holds.
multiply_decimal_strs(a, b) ==
  LET places == Len(a.frac) + Len(b.frac)
      product == Numerator(a) * Numerator(b)
      full == Decimal(product \div 10^places, DigitsOf(product % 10^places, places))
  IN Decimal(full.int, SubSeq(full.frac, 1, CountSignificant(full)))

gcd(a, b) == Max({x \in 1..Min({a, b}) : a % x = 0 /\ b % x = 0})

\* A contract's size as a reduced fraction <<numerator, denominator>>.
ct_val_fraction(d) ==
  LET g == gcd(Max({Numerator(d), 1}), 10^Len(d.frac))
  IN <<Numerator(d) \div g, 10^Len(d.frac) \div g>>

\* A JSON number as serde_json writes it: shortest, and with an exponent below 10^-5.
HasExponent(d) ==
  d.ok /\ d.int = 0 /\ CountSignificant(d) > 5 /\ \A i \in 1..5 : d.frac[i] = 0

\* "3e-6" and "1.5e-6" are no numbers to the functions above, which still count the
\* characters after the point (exponents of one digit).
json_number(d) ==
  LET last == CountSignificant(d)
      first == Min({i \in 1..last : d.frac[i] # 0})
      places == IF first = last THEN 0 ELSE last - first + 3
  IN IF ~d.ok THEN d
     ELSE IF HasExponent(d)
     THEN [ok |-> FALSE, int |-> IF places = 0 THEN 1 ELSE 0, frac |-> DigitsOf(1, places)]
     ELSE Decimal(d.int, SubSeq(d.frac, 1, last))

\* "value" is a whole multiple of "step": both are read on the finer of their
\* scales.
OnGrid(value, step) ==
  Numerator(step) > 0 /\
    (Numerator(value) * 10^Len(step.frac)) % (Numerator(step) * 10^Len(value.frac)) = 0

\* The integer v at this scale is exactly a times b.
IsExactly(v, scale, a, b) ==
  v # Err /\ v * 10^(Len(a.frac) + Len(b.frac)) = Numerator(a) * Numerator(b) * 10^scale
=============================================================================
