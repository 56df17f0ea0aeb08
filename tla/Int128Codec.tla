---------------------------- MODULE Int128Codec -----------------------------
(***************************************************************************)
(* int128/int128.go: occurrence times as two words of a fixed width, the   *)
(* high one signed and the low one unsigned.  In the program a word has 64 *)
(* bits: Half is 2^63 there, and small under TLC.                          *)
(***************************************************************************)
EXTENDS Messages

CONSTANTS
  Half,      \* half the values of a word
  PerSecond  \* nanoseconds in a second

ASSUME Int128Assumption ==
  /\ Half \in Nat \ {0}
  /\ PerSecond \in Nat \ {0} /\ PerSecond <= 2 * Half
  /\ Nil \notin Int128

twoPow64 == 2 * Half

(* big.Int.Int64: the low word of the number, read as two's complement. *)
Signed(n) == ((n + Half) % twoPow64) - Half

(* A Time: a signed word of whole seconds since the epoch, and nanoseconds that
   count forward. *)
Time == [ seconds : -Half .. Half - 1, nanoseconds : 0 .. PerSecond - 1 ]

(* ToBigInt: no second sign correction, since high is signed already. *)
ToBigInt(value) ==
  (OrZero(value, ZeroInt128).high * twoPow64) + OrZero(value, ZeroInt128).low

(* A slip: Quo for Rsh, which rounds to zero where the shift rounds down. *)
FromBigIntQuo(n) ==
  [ high |-> Signed(IF n < 0 THEN -((-n) \div twoPow64) ELSE n \div twoPow64),
    low |-> n % twoPow64 ]

(* A slip: the low word taken for signed as well. *)
FromBigIntSigned(n) == [ high |-> Signed(n \div twoPow64), low |-> Signed(n) ]

(* FromBigInt: an arithmetic shift and a mask, both as in two's complement. *)
FromBigInt(n) == [ high |-> Signed(n \div twoPow64), low |-> n % twoPow64 ]

(* FromInt64: the sign extended by an arithmetic shift, and the bit pattern. *)
FromInt64(n) == [ high |-> n \div Half, low |-> n % twoPow64 ]

TimeToNanoseconds(t) == (t.seconds * PerSecond) + t.nanoseconds
=============================================================================
