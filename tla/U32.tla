---- MODULE U32 ----
(***************************************************************************)
(* The unsigned 32-bit integers of the contracts. A conversion with `as`   *)
(* keeps the low bits of a larger number. Arithmetic of the type itself is *)
(* checked (overflow-checks in Cargo.toml): a sum that does not fit panics *)
(* and the message changes nothing.                                        *)
(***************************************************************************)
EXTENDS Integers

CONSTANT WordSize    \* the number of values, 2^32 in the code

ASSUME WordConstants == WordSize \in Nat \ {0}

Word == 0..(WordSize - 1)
AsU32(n) == n % WordSize
====
