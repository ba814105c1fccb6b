---------------------------- MODULE MCAutomaton ----------------------------
\* Instances of Automaton: terminating, periodic and mixed rationals, equal and
\* close ones and a zero denominator; p-adic integers of both signs and
\* fractions, some congruent.
EXTENDS Automaton

F(n, d) == [p |-> n, q |-> d]
MCFractions == {F(1, 7), F(1, 6), F(3, 8), F(2, 14), F(5, 0)}

G(n, d) == [a |-> n, b |-> d]
MCResidues == {G(-1, 1), G(1, 3), G(76, 3), G(-4, 7), G(25, 6)}

MCProjections == {<<3, 2, 2>>, <<2, 3, 2>>}
=============================================================================
