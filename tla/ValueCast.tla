----------------------------- MODULE ValueCast ------------------------------
(***************************************************************************)
(* The conversions of detail/value_cast.hpp to integral types.  A text is  *)
(* what the server sent for a number n and stands for n.  A width of w     *)
(* bits is given by half its range, 2^(w-1): the widths of the runs are    *)
(* smaller than those of C++, and in the same order.                       *)
(***************************************************************************)
EXTENDS Integers

CONSTANTS Char, Short, Int32, Long      \* half the range of the C++ types

ASSUME WidthAssumption ==
    /\ {Char, Short, Int32, Long} \subseteq Nat \ {0}
    /\ Char <= Short /\ Short <= Int32 /\ Int32 <= Long

Signed(half) == -half..(half - 1)

Unsigned(half) == 0..(2 * half - 1)

(* A value out of range becomes the nearest one.                           *)
strtol(n) == IF n < -Long THEN -Long ELSE IF n >= Long THEN Long - 1 ELSE n

(* Mutant: the digits of an unsigned number are parsed as a long.          *)
strtoul_long(n) == strtol(n) % (2 * Long)

(* The digits are converted and then negated if there is a minus sign;     *)
(* digits out of range become the largest value whatever the sign.         *)
strtoul(n) ==
    LET max == 2 * Long - 1
    IN  IF n > max \/ n < -max THEN max
        ELSE IF n < 0 THEN 2 * Long + n ELSE n

(* static_cast to a signed and to an unsigned type.                        *)
ToSigned(n, half) == ((n + half) % (2 * half)) - half

ToUnsigned(n, half) == n % (2 * half)

Types == {"long long", "long", "int32_t", "int16_t", "int8_t",
          "unsigned long long", "unsigned long", "uint32_t", "uint16_t",
          "uint8_t"}

Values(type) ==
    CASE type \in {"long long", "long"} -> Signed(Long)
      [] type = "int32_t" -> Signed(Int32)
      [] type = "int16_t" -> Signed(Short)
      [] type = "int8_t" -> Signed(Char)
      [] type \in {"unsigned long long", "unsigned long"} -> Unsigned(Long)
      [] type = "uint32_t" -> Unsigned(Int32)
      [] type = "uint16_t" -> Unsigned(Short)
      [] type = "uint8_t" -> Unsigned(Char)

(* uint16_t goes through int16_t.                                          *)
value_cast(type, n) ==
    CASE type \in {"long long", "long"} -> strtol(n)
      [] type = "int32_t" -> ToSigned(strtol(n), Int32)
      [] type = "int16_t" -> ToSigned(strtol(n), Short)
      [] type = "int8_t" -> ToSigned(strtol(n), Char)
      [] type \in {"unsigned long long", "unsigned long"} -> strtoul(n)
      [] type = "uint32_t" -> ToUnsigned(strtoul(n), Int32)
      [] type = "uint16_t" -> ToUnsigned(ToSigned(strtoul(n), Short), Short)
      [] type = "uint8_t" -> ToUnsigned(strtoul(n), Char)
=============================================================================
