----------------------------- MODULE BigIntText -----------------------------
(***************************************************************************)
(* A series machine kept as text (serialize.hpp): its numerator and        *)
(* denominator, here the two registers of BigInt, as limbs with a sign and *)
(* a decimal mirror, and the name of its specification.  Whoever keeps the *)
(* text may lose its end, as a file written when the process stopped does. *)
(***************************************************************************)
EXTENDS BigInt, JsonText

CONSTANTS Names,  \* spec names, as texts
          Depth   \* the index of the machine

\* A name has no zero byte in it, where the reader takes a text to end.
ASSUME TextAssumption ==
    /\ Depth \in Nat
    /\ \A name \in Names : name \in Seq(STRING) /\ \A i \in DOMAIN name : name[i] # "nul"

Key(word) == <<word>>

-----------------------------------------------------------------------------
(* One integer. *)

\* to_json(BigInt), dumped, its decimal mirror alone or all of it
DecimalText(x) == DumpObj(<< <<Key("dec"), DumpString(InDecimal(x))>> >>)
IntegerText(x) ==
    DumpObj(<< <<Key("dec"), DumpString(InDecimal(x))>>,
               <<Key("limbs"), DumpArr([i \in DOMAIN x.mag |-> Decimal(x.mag[i])])>>,
               <<Key("neg"), DumpBool(x.negative)>> >>)

Has(v, word) == v.type = "obj" /\ Key(word) \in DOMAIN v.of
Get(v, word) == v.of[Key(word)]
IsInt(v) == v.type = "int"

\* whether big_int_from_json reads v without throwing
IntegerReads(v) ==
    \/ /\ Has(v, "limbs") /\ Get(v, "limbs").type = "arr"
       /\ \A i \in DOMAIN Get(v, "limbs").of : IsInt(Get(v, "limbs").of[i])
    \/ ~Has(v, "limbs") /\ Has(v, "dec") /\ Get(v, "dec").type = "str"

\* mutant: the sign is left in the text
IntegerFromUnsigned(v) ==
    LET limbs == Get(v, "limbs").of
    IN IF Has(v, "limbs")
       THEN FromLimbs([i \in DOMAIN limbs |-> limbs[i].of % Limb], FALSE)
       ELSE FromString(Get(v, "dec").of)

\* big_int_from_json: the limbs if they are there, otherwise the decimal
\* mirror.  from_limbs strips leading zeros and gives zero no sign.
IntegerFrom(v) ==
    LET limbs == Get(v, "limbs").of
    IN IF Has(v, "limbs")
       THEN FromLimbs([i \in DOMAIN limbs |-> limbs[i].of % Limb],
                      Has(v, "neg") /\ Get(v, "neg").of = TRUE)
       ELSE FromString(Get(v, "dec").of)

-----------------------------------------------------------------------------
(* The machine. *)

\* to_json(SeriesVM), dumped
Saved(name) ==
    DumpObj(<< <<Key("base"), Decimal(10)>>,
               <<Key("den"), IntegerText(rem)>>,
               <<Key("index"), Decimal(Depth)>>,
               <<Key("kind"), DumpString(Key("series_vm"))>>,
               <<Key("num"), IntegerText(reg)>>,
               <<Key("spec_name"), DumpString(name)>> >>)

\* What series_vm_from_json and spec_name_in_json make of a parsed text, if
\* neither throws.
Loads(v) ==
    /\ Has(v, "base") /\ IsInt(Get(v, "base"))
    /\ Has(v, "index") /\ IsInt(Get(v, "index"))
    /\ Has(v, "num") /\ IntegerReads(Get(v, "num"))
    /\ Has(v, "den") /\ IntegerReads(Get(v, "den"))
    /\ Has(v, "spec_name") /\ Get(v, "spec_name").type = "str"
Loaded(v) ==
    [base |-> Get(v, "base").of, index |-> Get(v, "index").of,
     num |-> IntegerFrom(Get(v, "num")), den |-> IntegerFrom(Get(v, "den")),
     spec_name |-> Get(v, "spec_name").of]

\* The program stops after a save and a new one goes on from the text.
Restart(name) ==
    /\ LET v == Parse(Saved(name)) IN
       Loads(v) /\ Becomes("load", 0, Loaded(v).num, Loaded(v).den)
    /\ UNCHANGED exact

TextNext == Next \/ \E name \in Names : Restart(name)
TextSpec == Init /\ [][TextNext]_vars

-----------------------------------------------------------------------------
(* What it promises. *)

\* "BigInt <-> JSON (lossless via limb array + sign ...)" and "a VM resumes
\* byte-identically" (serialize.hpp:59-61, 426-428): whatever was saved loads
\* as it was, under any name and with text around it; the decimal mirror
\* loads as the same integer; and a text whose end is missing is refused, at
\* whichever character it was cut, rather than loaded as another machine.
\* Asked where a floored division has left a number in both registers.
LoadsWhatWasSaved ==
    op = "floor" =>
        /\ \A name \in Names :
               LET text == Saved(name)
                   v == Parse(<<"newline">> \o text \o <<"space", "openbrace">>)
               IN /\ Loads(v)
                  /\ Loaded(v) = [base |-> 10, index |-> Depth, num |-> reg,
                                  den |-> rem, spec_name |-> name]
                  /\ \A n \in 0..(Len(text) - 1) :
                         ~Loads(Parse(SubSeq(text, 1, n)))
        /\ LET mirror == Parse(DecimalText(reg))
           IN IntegerReads(mirror) /\ IntegerFrom(mirror) = reg
=============================================================================
