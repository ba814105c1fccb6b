-------------------------- MODULE SeriesCheckpoint --------------------------
(***************************************************************************)
(* A series machine kept as text and resumed (serialize.hpp): the text     *)
(* holds the base, the index, the two accumulators and the name of the     *)
(* specification, which the program that loads it binds again by that      *)
(* name.  The text does not hold the extractor: it is made anew, over      *)
(* accumulators that are already deep, and starts again at the first       *)
(* digit.  A process may stop at any point of a call.                      *)
(*                                                                         *)
(* The integers of the text are exact here: BigIntText is about the text   *)
(* itself.  handed is auxiliary: the digits given out before the last      *)
(* restart, by the extractor that got furthest.                            *)
(***************************************************************************)
EXTENDS Refine

VARIABLES text, handed
cvars == <<vars, text, handed>>

Machine(n, sum) ==
  [spec_name |-> spec, base |-> base, index |-> n, num |-> sum[1], den |-> sum[2]]

\* to_json of a Number writes its series_, which is forked for the extractor
\* and never stepped itself (number.hpp:222, 440).
AsMade == Machine(0, <<0, 1>>)

CheckpointInit == Init /\ text = AsMade /\ handed = <<>>

Call == Next /\ UNCHANGED <<text, handed>>

\* to_json(ex.vm), dumped, between two calls
Save ==
  /\ pc = "idle"
  /\ text' = Machine(index, <<num, den>>)
  /\ UNCHANGED <<vars, handed>>

\* Number::to_json of the number that holds the extractor
SaveNumber ==
  /\ pc = "idle"
  /\ text' = AsMade
  /\ UNCHANGED <<vars, handed>>

\* mutant: the index is left in the text
LoadedAsNew ==
  /\ spec' = text.spec_name /\ base' = text.base
  /\ index' = 0 /\ num' = text.num /\ den' = text.den

\* series_vm_from_json, with the specification that spec_name_in_json names
Loaded ==
  /\ spec' = text.spec_name /\ base' = text.base
  /\ index' = text.index /\ num' = text.num /\ den' = text.den

\* mutant: the extractor goes on counting where the one before it stood
ExtractorMadeCounting ==
  /\ prefix' = 0 /\ consumed' = consumed /\ emitted' = <<>>
  /\ lo' = num' /\ hi' = num' + Err' /\ scale' = den'

\* make_extractor: no digit consumed, the interval synced at once.
ExtractorMade ==
  /\ prefix' = 0 /\ consumed' = 0 /\ emitted' = <<>>
  /\ lo' = num' /\ hi' = num' + Err' /\ scale' = den'

Restart ==
  /\ Loaded /\ ExtractorMade
  /\ pc' = "idle" /\ iter' = 0 /\ target' = 0
  /\ handed' = IF Len(emitted) > Len(handed) THEN emitted ELSE handed
  /\ UNCHANGED text

CheckpointNext == Call \/ Save \/ SaveNumber \/ Restart
CheckpointSpec == CheckpointInit /\ [][CheckpointNext]_cvars

-----------------------------------------------------------------------------
(* Properties *)

Factorial[n \in Nat] == IF n = 0 THEN 1 ELSE n * Factorial[n - 1]
Powers(b) == LET power[n \in Nat] == IF n = 0 THEN 1 ELSE b * power[n - 1]
             IN  power

\* The k-th term of each series as its definition has it, over its own
\* denominator.
Term(s, k) ==
  LET odd == 2 * k + 1
      two == Powers(2)
      three == Powers(3)
  IN  CASE s = "e"       -> [top |-> 1, bottom |-> Factorial[k]]
        [] s = "ln2"     -> [top |-> 1, bottom |-> (k + 1) * two[k + 1]]
        [] s = "1/e"     -> [top |-> Sign(k), bottom |-> Factorial[k]]
        [] s = "pi/4"    -> [top |-> Sign(k) * (two[odd] + three[odd]),
                             bottom |-> odd * (two[odd] * three[odd])]
        [] s = "catalan" -> [top |-> Sign(k), bottom |-> odd * odd]

\* The sum of the first terms of s, over the denominator d.
SumOver(s, d) ==
  LET sum[n \in Nat] ==
        IF n = 0 THEN 0
        ELSE sum[n - 1] + Term(s, n - 1).top * (d \div Term(s, n - 1).bottom)
  IN  sum

(* The accumulators are the sum of exactly the first index terms of the    *)
(* named series, also after any chain of saves and restarts, and every     *)
(* division that "advance" does on the common denominator is exact: no     *)
(* term is rounded on the way (series.hpp:36, "exact rational num/den").   *)
SumsTheSeries ==
  /\ \A k \in 0..(index - 1) : den % Term(spec, k).bottom = 0
  /\ num = SumOver(spec, den)[index]

(* A restarted program repeats the digits given before it, though it reads *)
(* them from deeper sums than they were first read from (json.hpp:10, "a   *)
(* deserialized VM resumes byte-identically").                             *)
RestartAgrees ==
  \A i \in DOMAIN emitted \intersect DOMAIN handed : emitted[i] = handed[i]

(* The same of the two series whose terms are all positive.  Of the others *)
(* it does not hold: a false digit depends on the depth it is read at.     *)
DigitsAgree == spec \in {"e", "ln2"} => RestartAgrees
=============================================================================
