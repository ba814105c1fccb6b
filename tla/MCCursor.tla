------------------------------ MODULE MCCursor ------------------------------
\* Instances of Cursor over the rational machine with denominator 7.
EXTENDS Cursor

MCSeeds == {[gen |-> "rational", base |-> 10, state |-> 1]}
MCDigit(c) == (c.state * c.base) \div 7
MCAfter(c) == [c EXCEPT !.state = (c.state * c.base) % 7]
=============================================================================
