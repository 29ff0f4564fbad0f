------------------------------- MODULE Numbers -------------------------------
(***************************************************************************)
(* Decimals that are kept to a last place (SIX_PLACES), as integers of     *)
(* that place.                                                             *)
(***************************************************************************)
EXTENDS Orders, FiniteSetsExt

CONSTANT Unit    \* how many of the last place make 1

ASSUME UnitAssumption == Unit \in Nat \ {0}

None == -1       \* a missing observation, score or rank

Magnitude(x) == IF x < 0 THEN -x ELSE x
Total(f) == MapThenSumSet(LAMBDA x : f[x], DOMAIN f)

(* p/q to the last place, ROUND_HALF_UP: halves go away from zero. *)
Rounded(p, q) ==
  LET size == (Magnitude(p) * Unit + q \div 2) \div q
  IN  IF p < 0 THEN -size ELSE size

(* The integer square root, bit by bit, and the integer nearest a root of p/q. *)
Bits == <<16384, 8192, 4096, 2048, 1024, 512, 256, 128, 64, 32, 16, 8, 4, 2, 1>>

Root(n) ==
  Iterated(LAMBDA root, i : LET more == root + Bits[i]
                            IN  IF more * more <= n THEN more ELSE root, 0, 15)
NearestRoot(p, q) == (Root((4 * p) \div q) + 1) \div 2
=============================================================================
