------------------------ MODULE MCQuorumVerification ------------------------
(***************************************************************************)
(* Instances of QuorumVerification, and of the registry it reads, for TLC. *)
(***************************************************************************)
EXTENDS QuorumVerification

Fraction(n, d) == [numerator |-> n, denominator |-> d]

\* Two fractions the contract takes and the three kinds it must refuse.
FractionTries ==
    {Fraction(1, 2), Fraction(2, 3), Fraction(1, 0), Fraction(0, 1), Fraction(3, 2)}

=============================================================================
