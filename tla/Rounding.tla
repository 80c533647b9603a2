------------------------------ MODULE Rounding ------------------------------
(***************************************************************************)
(* Python's round() on a quotient of naturals, and the token estimate that *)
(* the chunker and the context manager build on it.                        *)
(***************************************************************************)
EXTENDS Integers

\* A tie goes to the even neighbour.
Rounded(a, b) ==
    LET q == a \div b
        r == a % b
    IN  IF 2 * r > b \/ (2 * r = b /\ q % 2 = 1) THEN q + 1 ELSE q

AtLeastOne(n) == IF n > 1 THEN n ELSE 1

\* A text of this many characters, in tokens.
Tokens(length, charsPerToken) == AtLeastOne(Rounded(length, charsPerToken))
=============================================================================
