-------------------------- MODULE CounterReadings --------------------------
(***************************************************************************)
(* Arithmetic of the resource providers: unsigned counters of a fixed      *)
(* width, differences between two readings of them, and the doubles that   *)
(* come out when a difference is divided by a time.                        *)
(***************************************************************************)
EXTENDS Integers

CONSTANT Word       \* 2^64 of the code: unsigned values are below Word

ASSUME WordAssumption == Word \in Nat \ {0}

Counter == 0 .. Word - 1

Plus(a, b)  == (a + b) % Word
Minus(a, b) == (a - b) % Word        \* unsigned subtraction

(* A double.  A quotient is kept as its two terms; undefined stands for    *)
(* whatever an uninitialised variable holds, and any result made from it.  *)
Number(n, d) == [kind |-> "number", num |-> n, den |-> d]
NaN          == [kind |-> "nan", num |-> 0, den |-> 0]
Infinite     == [kind |-> "inf", num |-> 0, den |-> 0]
Undefined    == [kind |-> "undefined", num |-> 0, den |-> 0]
Failed       == Number(-1, 1)        \* the -1.0 returned for "no value"

Quotient(n, d) ==
  IF d # 0 THEN Number(n, d) ELSE IF n = 0 THEN NaN ELSE Infinite

IsDouble(v) == v.kind \in {"number", "nan", "inf", "undefined"} /\ v.num \in Int /\ v.den \in Int

(* Members that no code has set yet, or that were set from such a value.   *)
Unset == -1
=============================================================================
