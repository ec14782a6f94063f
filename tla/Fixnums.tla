------------------------------- MODULE Fixnums -------------------------------
(* Numbers and characters in the virtual machine of scheme48vm.c (compiled     *)
(* from vm/arith.scm and vm/prim.scm): what the instructions do with fixnums   *)
(* in the words of the machine, and when they raise an exception so that the   *)
(* run-time library does the work with bignums.  A descriptor is an integer    *)
(* whose low two bits are its tag; a fixnum is a word of the machine less the  *)
(* tag.                                                                        *)
EXTENDS Integers, Sequences, FiniteSets

CONSTANTS BitsPerCell,   \* 32 in the code
          Characters,    \* codes of characters that are operands
          OverflowWraps  \* signed overflow wraps (the C compiler may assume that there is none)

ASSUME WordAssumption ==
  /\ BitsPerCell \in Nat /\ BitsPerCell >= 6 /\ BitsPerCell % 2 = 0
  /\ Characters \subseteq 0 .. 255
  /\ OverflowWraps \in BOOLEAN

BitsPerFixnum == BitsPerCell - 2
HalfWord      == BitsPerCell \div 2

\* Powers of two; as a recursive function, since the provers know no exponents.
TwoTo[n \in 0 .. BitsPerCell] == IF n = 0 THEN 1 ELSE 2 * TwoTo[n - 1]

Greatest == TwoTo[BitsPerFixnum - 1] - 1
Least    == -TwoTo[BitsPerFixnum - 1]

\* A C long from the integer that the operation means.
Unsigned(n) == n % TwoTo[BitsPerCell]
Long(n) == LET u == Unsigned(n) IN IF u >= TwoTo[BitsPerCell - 1] THEN u - TwoTo[BitsPerCell] ELSE u

PS_SHIFT_RIGHT(x, n) == IF n >= BitsPerCell THEN IF x < 0 THEN -1 ELSE 0 ELSE x \div TwoTo[n]
PS_SHIFT_LEFT(x, n)  == IF n >= BitsPerCell THEN 0 ELSE Long(x * TwoTo[n])

Bit(n, i) == (n \div TwoTo[i]) % 2
\* The word with these bits.
WordOf(bits) ==
  LET w[i \in 0 .. BitsPerCell] == IF i = 0 THEN 0 ELSE w[i - 1] + bits[i - 1] * TwoTo[i - 1]
  IN  w[BitsPerCell]

extract_fixnum(d) == PS_SHIFT_RIGHT(d, 2)
enter_fixnum(n)   == PS_SHIFT_LEFT(n, 2)
Abs(n) == IF n < 0 THEN Long(0 - n) ELSE n

True  == 5
False == 1
Eof   == 21
enter_char(c) == 9 + 256 * c

\* Stored objects: a descriptor for one of each type of number, and a pair.
StobTypes == <<"bignum", "ratnum", "double", "extended-number", "pair">>
StobType(d) == StobTypes[(d + 1) \div 4]
HasType(d, type) == d % 4 = 3 /\ StobType(d) = type

IsFixnum(d)  == d % 4 = 0
IsChar(d)    == d % 256 = 9
Enter(truth) == IF truth THEN True ELSE False

Fixnums     == {enter_fixnum(n) : n \in Least .. Greatest}
Descriptors == Fixnums \cup {True, False, Eof} \cup {enter_char(c) : c \in Characters}
                 \cup {4 * i - 1 : i \in DOMAIN StobTypes}

\* The outcome of an instruction: a value, or an exception.
Value(d)  == [exception |-> "none", value |-> d]
WrongType == [exception |-> "wrong-type-argument", value |-> False]
Overflow  == [exception |-> "arithmetic-overflow", value |-> False]

-----------------------------------------------------------------------------
(* Instructions with two fixnums, already checked.                             *)

TooBig(n)   == n > Greatest
TooSmall(n) == n < Least

Carefully(z) == IF TooBig(z) \/ TooSmall(z) THEN Overflow ELSE Value(enter_fixnum(z))

add_carefully(x, y)      == Carefully(Long(extract_fixnum(x) + extract_fixnum(y)))
subtract_carefully(x, y) == Carefully(Long(extract_fixnum(x) - extract_fixnum(y)))

LowHalf(n)  == n % TwoTo[HalfWord]
HighHalf(n) == LowHalf(n \div TwoTo[HalfWord])
MaxMiddle   == TwoTo[BitsPerFixnum - 1 - HalfWord]

\* Halves of words are multiplied: the product of the high halves, and the carry
\* out of the middle, must not be needed.  A compiler that takes the product of
\* the low halves for nonnegative drops the test for a negative one.
HalvesTooBig(a, b, lo_c, mid_c) ==
  \/ (HighHalf(a) > 0 /\ HighHalf(b) > 0)
  \/ TooBig(lo_c)
  \/ (lo_c < 0 /\ OverflowWraps)
  \/ mid_c > MaxMiddle

SameSigns(a, b) == (a < 0) <=> (b < 0)

\* Mutant: the carry out of the low half is forgotten.
multiply_carry(x, y) ==
  LET a == extract_fixnum(x)
      b == extract_fixnum(y)
      lo_c  == Long(LowHalf(Abs(a)) * LowHalf(Abs(b)))
      mid_c == Long(LowHalf(Abs(a)) * HighHalf(Abs(b)) + LowHalf(Abs(b)) * HighHalf(Abs(a)))
      c == Long(lo_c + PS_SHIFT_LEFT(mid_c, HalfWord))
  IN  IF mid_c > MaxMiddle \/ (HighHalf(Abs(a)) > 0 /\ HighHalf(Abs(b)) > 0) THEN Overflow
      ELSE Carefully(IF SameSigns(a, b) THEN c ELSE Long(0 - c))

multiply_carefully(x, y) ==
  LET a == extract_fixnum(x)
      b == extract_fixnum(y)
      lo_c  == Long(LowHalf(Abs(a)) * LowHalf(Abs(b)))
      mid_c == Long(LowHalf(Abs(a)) * HighHalf(Abs(b)) + LowHalf(Abs(b)) * HighHalf(Abs(a)))
      c == Long(lo_c + PS_SHIFT_LEFT(mid_c, HalfWord))
  IN  IF HalvesTooBig(Abs(a), Abs(b), lo_c, mid_c) THEN Overflow
      ELSE IF SameSigns(a, b) THEN IF TooBig(c) THEN Overflow ELSE Value(enter_fixnum(c))
      ELSE IF c > -Least THEN Overflow ELSE Value(enter_fixnum(Long(0 - c)))

quotient_carefully(x, y) ==
  LET a == extract_fixnum(x)
      b == extract_fixnum(y)
      c == Abs(a) \div Abs(b)
  IN  IF y = 0 THEN Overflow
      ELSE IF ~SameSigns(a, b) THEN Value(enter_fixnum(Long(0 - c)))
      ELSE IF TooBig(c) THEN Overflow
      ELSE Value(enter_fixnum(c))

remainder_carefully(x, y) ==
  LET a == extract_fixnum(x)
      c == Abs(a) % Abs(extract_fixnum(y))
  IN  IF y = 0 THEN Overflow
      ELSE Value(enter_fixnum(IF a < 0 THEN Long(0 - c) ELSE c))

divide_carefully(x, y) ==
  LET q == quotient_carefully(x, y)
      r == remainder_carefully(x, y)
  IN  IF q.exception # "none" \/ r.value # 0 THEN Overflow ELSE q

\* To the left there and back: nothing must be lost, nor the sign change.
shift_carefully(x, y) ==
  LET value == extract_fixnum(x)
      count == extract_fixnum(y)
      result == extract_fixnum(PS_SHIFT_LEFT(PS_SHIFT_LEFT(value, count), 2))
  IN  IF count < 0 THEN Value(enter_fixnum(PS_SHIFT_RIGHT(value, -count)))
      ELSE IF value = PS_SHIFT_RIGHT(result, count) /\ SameSigns(value, result)
           THEN Value(enter_fixnum(result))
      ELSE Overflow

\* The truth tables of the operations on one bit.
AndBit(b, c) == b * c
OrBit(b, c)  == b + c - b * c
XorBit(b, c) == (b + c) % 2

\* C's operations on the words of two longs, bit by bit.
Bits(n) == Unsigned(extract_fixnum(n))
OnBits(Op(_, _), x, y) ==
  Value(enter_fixnum(Long(WordOf(
    [i \in 0 .. BitsPerCell - 1 |-> Op(Bit(Bits(x), i), Bit(Bits(y), i))]))))
bitwise_and(x, y) == OnBits(AndBit, x, y)
bitwise_ior(x, y) == OnBits(OrBit, x, y)
bitwise_xor(x, y) == OnBits(XorBit, x, y)

\* Descriptors of fixnums are in the order of their values.
Equal(x, y)   == Value(Enter(x = y))
Less(x, y)    == Value(Enter(x < y))
Greater(x, y) == Value(Enter(y < x))
NotMore(x, y) == Value(Enter(~(y < x)))
NotLess(x, y) == Value(Enter(~(x < y)))

\* atan, make-polar and make-rectangular are left to the run-time library.
Punt2(x, y) == Overflow

-----------------------------------------------------------------------------
(* Instructions with one operand.                                              *)

number_p(d) == Value(Enter(IsFixnum(d) \/ (d % 4 = 3 /\ ~HasType(d, "pair"))))

\* An extended number may be anything: the library knows.
Among(d, types) ==
  IF IsFixnum(d) \/ (\E t \in types : HasType(d, t)) THEN Value(True)
  ELSE IF HasType(d, "extended-number") THEN WrongType
  ELSE Value(False)
integer_p(d)  == Among(d, {"bignum"})
\* Mutant: integers outside the fixnums are not rational.
rational_p_small(d) == Among(d, {"ratnum", "double"})
rational_p(d) == Among(d, {"bignum", "ratnum", "double"})
real_p(d)     == Among(d, {"bignum", "ratnum", "double"})
complex_p(d)  == Among(d, {"bignum", "ratnum", "double"})

OnFixnum(d, outcome) == IF IsFixnum(d) THEN outcome ELSE WrongType
OnChar(d, outcome)   == IF IsChar(d) THEN outcome ELSE WrongType

exact_p(d)     == OnFixnum(d, Value(True))
Itself(d)      == OnFixnum(d, Value(d))          \* floor, numerator, real-part
denominator(d) == OnFixnum(d, Value(enter_fixnum(1)))
imag_part(d)   == OnFixnum(d, Value(enter_fixnum(0)))
Convert(d)     == OnFixnum(d, Overflow)          \* exact->inexact, inexact->exact
Punt(d)        == OnFixnum(d, Overflow)          \* exp, log, sin ... sqrt
angle(d)       == OnFixnum(d, IF d < 0 THEN Overflow ELSE Value(enter_fixnum(0)))
bitwise_not(d) == OnFixnum(d, Value(enter_fixnum(-extract_fixnum(d) - 1)))

\* abs-carefully takes the descriptor for its value.
abs_carefully(d) == IF TooBig(Abs(d)) THEN Overflow ELSE Value(enter_fixnum(Abs(d)))
magnitude(d)     == OnFixnum(d, abs_carefully(d))

char_p(d)        == Value(Enter(IsChar(d)))
eof_object_p(d)  == Value(Enter(d = Eof))
char_to_ascii(d) == OnChar(d, Value(enter_fixnum(d \div 256)))
ascii_to_char(d) ==
  OnFixnum(d, IF extract_fixnum(d) \in 0 .. 255 THEN Value(enter_char(extract_fixnum(d)))
                                                ELSE WrongType)
-----------------------------------------------------------------------------
(* The interpreter: the first operand of two is on the stack, the other one in *)
(* the value register.  The byte codes are those of the instructions.          *)

VARIABLES val, stack,
          last     \* the instruction just done: its name, operands and outcome

vars == <<val, stack, last>>
Nothing == [op |-> "none"]

One(op, d) ==
  CASE op = "number?"      -> number_p(d)
    [] op = "integer?"     -> integer_p(d)
    [] op = "rational?"    -> rational_p(d)
    [] op = "real?"        -> real_p(d)
    [] op = "complex?"     -> complex_p(d)
    [] op = "exact?"       -> exact_p(d)
    [] op = "floor"        -> Itself(d)
    [] op = "denominator"  -> denominator(d)
    [] op = "imag-part"    -> imag_part(d)
    [] op = "exact->inexact" -> Convert(d)
    [] op = "exp"          -> Punt(d)
    [] op = "angle"        -> angle(d)
    [] op = "magnitude"    -> magnitude(d)
    [] op = "bitwise-not"  -> bitwise_not(d)
    [] op = "char?"        -> char_p(d)
    [] op = "eof-object?"  -> eof_object_p(d)
    [] op = "char->ascii"  -> char_to_ascii(d)
    [] op = "ascii->char"  -> ascii_to_char(d)

OnFixnums(op, x, y) ==
  CASE op = "+"         -> add_carefully(x, y)
    [] op = "-"         -> subtract_carefully(x, y)
    [] op = "*"         -> multiply_carefully(x, y)
    [] op = "/"         -> divide_carefully(x, y)
    [] op = "quotient"  -> quotient_carefully(x, y)
    [] op = "remainder" -> remainder_carefully(x, y)
    [] op = "arithmetic-shift" -> shift_carefully(x, y)
    [] op = "bitwise-and" -> bitwise_and(x, y)
    [] op = "bitwise-ior" -> bitwise_ior(x, y)
    [] op = "bitwise-xor" -> bitwise_xor(x, y)
    [] op = "="  -> Equal(x, y)
    [] op = "<"  -> Less(x, y)
    [] op = ">"  -> Greater(x, y)
    [] op = "<=" -> NotMore(x, y)
    [] op = ">=" -> NotLess(x, y)
    [] op = "atan" -> Punt2(x, y)

char_eq(x, y)   == IF IsChar(x) /\ IsChar(y) THEN Value(Enter(x = y)) ELSE WrongType
char_less(x, y) == IF IsChar(x) /\ IsChar(y) THEN Value(Enter(x < y)) ELSE WrongType

Predicates  == {"number?", "integer?", "rational?", "real?", "complex?"}
Unary       == Predicates \cup {"exact?", "floor", "denominator", "imag-part", "exact->inexact",
                 "exp", "angle", "magnitude", "bitwise-not", "char?", "eof-object?",
                 "char->ascii", "ascii->char"}
Bitwise     == {"bitwise-and", "bitwise-ior", "bitwise-xor"}
Comparisons == {"=", "<", ">", "<=", ">="}
Arithmetic  == {"+", "-", "*", "/", "quotient", "remainder", "arithmetic-shift"}

Init == val = False /\ stack = <<>> /\ last = Nothing

Literal == last = Nothing /\ val' \in Descriptors /\ UNCHANGED <<stack, last>>
Push == last = Nothing /\ stack = <<>> /\ stack' = <<val>> /\ UNCHANGED <<val, last>>

\* After an exception the library's handler supplies the value.
Finish(op, operands, outcome) ==
  /\ val' = IF outcome.exception = "none" THEN outcome.value ELSE val
  /\ last' = [op |-> op, operands |-> operands, outcome |-> outcome]

Execute(op) ==
  /\ last = Nothing
  /\ Finish(op, <<val>>, One(op, val))
  /\ UNCHANGED stack

Execute2(op, outcome) ==
  /\ last = Nothing /\ stack # <<>>
  /\ stack' = <<>>
  /\ Finish(op, <<Head(stack), val>>, outcome)

OnTwoFixnums(op) ==
  Execute2(op, IF IsFixnum(Head(stack)) /\ IsFixnum(val) THEN OnFixnums(op, Head(stack), val)
                                                        ELSE WrongType)
eq_p     == Execute2("eq?", Value(Enter(Head(stack) = val)))
CharEq   == Execute2("char=?", char_eq(Head(stack), val))
CharLess == Execute2("char<?", char_less(Head(stack), val))

Continue == last # Nothing /\ last' = Nothing /\ UNCHANGED <<val, stack>>

Next ==
  \/ Literal \/ Push \/ Continue
  \/ \E op \in Unary : Execute(op)
  \/ \E op \in Arithmetic \cup Bitwise \cup Comparisons \cup {"atan"} : OnTwoFixnums(op)
  \/ eq_p \/ CharEq \/ CharLess

Spec == Init /\ [][Next]_vars
-----------------------------------------------------------------------------
(* What the operations mean on the integers.                                   *)

Size(n) == IF n < 0 THEN -n ELSE n
SignOf(s, m) == s = 0 \/ ((s < 0) <=> (m < 0))
IsSet(n, i) == Bit(n, i) = 1
Power(n) == TwoTo[IF n < BitsPerCell THEN n ELSE BitsPerCell]

Means(op, m, n, r) ==
  CASE op = "+"  -> r = m + n
    [] op = "-"  -> r = m - n
    [] op = "*"  -> r = m * n
    [] op = "/"  -> n # 0 /\ r * n = m
    [] op = "quotient"  -> n # 0 /\ Size(m - r * n) < Size(n) /\ SignOf(m - r * n, m)
    [] op = "remainder" -> n # 0 /\ (m - r) % Size(n) = 0 /\ Size(r) < Size(n) /\ SignOf(r, m)
    [] op = "arithmetic-shift" -> IF n >= 0 THEN r = m * Power(n)
                                  ELSE r * Power(-n) <= m /\ m < (r + 1) * Power(-n)
    [] op = "bitwise-and" -> \A i \in 0 .. BitsPerCell : IsSet(r, i) <=> IsSet(m, i) /\ IsSet(n, i)
    [] op = "bitwise-ior" -> \A i \in 0 .. BitsPerCell : IsSet(r, i) <=> IsSet(m, i) \/ IsSet(n, i)
    [] op = "bitwise-xor" -> \A i \in 0 .. BitsPerCell : IsSet(r, i) <=> (IsSet(m, i) # IsSet(n, i))

Holds(op, m, n) ==
  CASE op = "="  -> m = n
    [] op = "<"  -> m < n
    [] op = ">"  -> m > n
    [] op = "<=" -> m <= n
    [] op = ">=" -> m >= n

DoneOnFixnums(ops) ==
  last # Nothing /\ last.op \in ops /\ \A i \in DOMAIN last.operands : IsFixnum(last.operands[i])

\* An instruction on two fixnums returns the integer that it means, in spite of
\* words that wrap; and it raises an exception only if that is no fixnum, so that
\* the library's slow path is taken for bignums alone (except that multiplication
\* gives up on products that are the least fixnum).
ArithmeticExact ==
  DoneOnFixnums(Arithmetic \cup Bitwise) =>
    LET m == last.operands[1] \div 4
        n == last.operands[2] \div 4
        Means_(r) == Means(last.op, m, n, r)
    IN  IF last.outcome.exception = "none"
        THEN last.outcome.value \in Fixnums /\ Means_(last.outcome.value \div 4)
        ELSE \A r \in Least .. Greatest : Means_(r) => last.op = "*" /\ r = Least

\* Comparisons of descriptors order the fixnums as integers, and the predicates on
\* numbers form a tower: whatever passes one passes those above it, or is an
\* extended number, which only the library can tell.
PredicatesSound ==
  /\ DoneOnFixnums(Comparisons) =>
       (last.outcome.value = True
          <=> Holds(last.op, last.operands[1] \div 4, last.operands[2] \div 4))
  /\ last # Nothing /\ last.op \in Predicates =>
       LET d == last.operands[1]
           Above == IF last.op = "integer?" THEN {"rational?", "real?", "complex?", "number?"}
                    ELSE {"number?"}
       IN  /\ last.outcome = Value(True) => \A op \in Above : One(op, d) = Value(True)
           /\ last.outcome = WrongType => One("number?", d) = Value(True)

\* prim.scm:118-119 says of magnitude and its neighbours: "These primitives have a
\* simple answer in the case of fixnums".
MagnitudeRight ==
  DoneOnFixnums({"magnitude"}) /\ last.outcome.exception = "none" =>
    last.outcome.value \div 4 = Size(last.operands[1] \div 4)
=============================================================================
