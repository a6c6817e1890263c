------------------------------ MODULE Numbers -------------------------------
(***************************************************************************)
(* my_int_to_str and my_str_to_int of libs/string.c on the arithmetic of   *)
(* libs/math.c, at a given width of int.  A string is the sequence of the  *)
(* codes of its characters, without the terminator.                        *)
(***************************************************************************)
EXTENDS Integers, SequencesExt

CONSTANTS
  INT_MAX,        \* the largest int, 2^31 - 1 in the code
  BUF_SIZE        \* bytes of the buffers that callers pass, 16 in the code

ASSUME WidthAssumption == INT_MAX \in Nat /\ BUF_SIZE \in Nat \ {0, 1}

(* The powers of ten: Tens[k] is the least number of more than k digits.   *)
Tens == LET tens[k \in 0 .. BUF_SIZE] == IF k = 0 THEN 1 ELSE 10 * tens[k - 1] IN tens

(* A buffer has room for the digits of INT_MAX, a sign and the terminator. *)
ASSUME BufferAssumption == INT_MAX < Tens[BUF_SIZE - 2]

PLUS == 43
MINUS == 45
ZERO == 48
Blanks == {32, 9}      \* space and tab

INT_MIN == -INT_MAX - 1

(* What the instructions make of a result that does not fit. *)
Wrap(x) == ((x - INT_MIN) % (2 * (INT_MAX + 1))) + INT_MIN

-----------------------------------------------------------------------------
(* math.c.  Division in C truncates towards zero, the remainder has the    *)
(* sign of the dividend; by zero both are 0.  Both stay in the width: the   *)
(* one quotient that would not, of the smallest int by -1, is never taken. *)

my_abs(a) == IF a < 0 THEN Wrap(-a) ELSE a

Magnitude(a) == IF a < 0 THEN -a ELSE a

my_div(a, b) ==
  IF b = 0 THEN 0
  ELSE LET q == Magnitude(a) \div Magnitude(b)
       IN IF (a < 0) = (b < 0) THEN q ELSE -q

my_mod(a, b) == IF b = 0 THEN 0 ELSE a - my_div(a, b) * b

-----------------------------------------------------------------------------
(* my_int_to_str: the digits from the lowest, the sign, and all reversed.  *)

MoreDigits_KeepsTheLast(n) == n >= 10
MoreDigits(n) == n > 0

Digit(n) == my_mod(n, 10) + ZERO

my_int_to_str(n) ==
  LET digits[m \in INT_MIN .. INT_MAX] ==
        IF MoreDigits(m) THEN <<Digit(m)>> \o digits[my_div(m, 10)] ELSE <<>>
      sign == IF n < 0 THEN <<MINUS>> ELSE <<>>
  IN IF n = 0 THEN <<ZERO>> ELSE Reverse(digits[my_abs(n)] \o sign)

-----------------------------------------------------------------------------
(* my_str_to_int: blanks, a sign, digits up to the first other character.  *)

Digits == ZERO .. ZERO + 9

(* The first place from `from' on whose character is not in cs. *)
Past(s, from, cs) ==
  CHOOSE k \in from .. Len(s) + 1 :
    /\ k <= Len(s) => s[k] \notin cs
    /\ \A i \in from .. k - 1 : s[i] \in cs

HasAt(s, k, c) == k <= Len(s) /\ s[k] = c

Accumulated_OneDigit(so_far, c) == c - ZERO
Accumulated(so_far, c) == Wrap(so_far * 10 + (c - ZERO))

my_str_to_int(s) ==
  LET sign == Past(s, 1, Blanks)
      first == IF HasAt(s, sign, MINUS) \/ HasAt(s, sign, PLUS) THEN sign + 1 ELSE sign
      end == Past(s, first, Digits)
      so_far[k \in first .. end] ==    \* the result, when the loop is at k
        IF k = first THEN 0 ELSE Accumulated(so_far[k - 1], s[k - 1])
  IN IF HasAt(s, sign, MINUS) THEN Wrap(-so_far[end]) ELSE so_far[end]

-----------------------------------------------------------------------------
(* What one function prints fits the buffer and the other reads it back.   *)
ReadsBack(n) ==
  /\ Len(my_int_to_str(n)) < BUF_SIZE
  /\ my_str_to_int(my_int_to_str(n)) = n

(* The smallest int is the exception: my_abs cannot make it positive. *)
AllReadBack == \A n \in INT_MIN + 1 .. INT_MAX : ReadsBack(n)
=============================================================================
