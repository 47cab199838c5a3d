--------------------------- MODULE MachineIntegers ---------------------------
(***************************************************************************)
(* The integers of the machine: an int that overflows, and the unsigned    *)
(* int an int is stored in.                                                *)
(***************************************************************************)
EXTENDS Integers

CONSTANT IntBits    \* width of an int

(* The second part is arithmetic, written down for proofs.                 *)
ASSUME IntBitsAssumption ==
    /\ IntBits \in Nat \ {0}
    /\ 2^(IntBits - 1) \in Nat \ {0} /\ 2^IntBits = 2 * 2^(IntBits - 1)

Ints == -(2^(IntBits - 1)) .. (2^(IntBits - 1) - 1)

(* What the two's complement machine leaves of a number.                   *)
Wrapped(x) == ((x + 2^(IntBits - 1)) % 2^IntBits) - 2^(IntBits - 1)

Unsigned(x) == x % 2^IntBits
=============================================================================
