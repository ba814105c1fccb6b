------------------------------ MODULE MCBigInt ------------------------------
\* Instances of BigInt with four-valued limbs: operands of one to three limbs,
\* of both signs, a carry or a borrow away from a limb boundary; and of
\* BigIntText with a plain name and one of characters the writer escapes.
EXTENDS BigIntText

MCOperands == {-64, -17, -5, -1, 0, 1, 3, 4, 15, 22}
MCNames == {<<"one_over_e">>, <<"quote", "backslash", "n", "newline">>}
=============================================================================
