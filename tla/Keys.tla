-------------------------------- MODULE Keys --------------------------------
(***************************************************************************)
(* pkg/cache/key.go: the text of a cache key.  A text is a sequence of     *)
(* characters, numbered in the order of their codes.                       *)
(***************************************************************************)
EXTENDS Integers, SequencesExt

CONSTANTS MaxJoined,      \* 120 in the code: longer sets are hashed
          Hash(_)         \* twelve bytes of SHA-256, in hexadecimal

ASSUME MaxJoinedAssumption == MaxJoined \in Nat

Comma == 1
Colon == 2
Numeral(n) == 3 + n       \* n below 10
LetterG == 20
LetterH == 21

prefix == <<30>>
schemaVersion == <<31>>

LexLess(s, t) ==
    \E i \in 0 .. Len(s) :
        /\ i < Len(t) /\ SubSeq(s, 1, i) = SubSeq(t, 1, i)
        /\ i = Len(s) \/ s[i + 1] < t[i + 1]

Join(texts, separator) ==
    FlattenSeq([i \in DOMAIN texts |-> IF i = 1 THEN texts[i] ELSE <<separator>> \o texts[i]])

NewKey(domain, entity, parts) == [domain |-> domain, entity |-> entity, parts |-> parts]

With(k, parts) == [k EXCEPT !.parts = @ \o parts]

(* strconv.FormatInt of a number that is not negative. *)
FormatInt(i) ==
    LET digits[n \in 0 .. i] ==
            IF n < 10 THEN <<Numeral(n)>> ELSE Append(digits[n \div 10], Numeral(n % 10))
    IN  digits[i]

WithGeneration(k, generation) == With(k, <<<<LetterG>> \o FormatInt(generation)>>)

(* sort.Strings: the values in an order that no two of them contradict. *)
Arrangements(values) ==
    {[i \in DOMAIN values |-> values[p[i]]] : p \in Bijection(DOMAIN values, DOMAIN values)}

Sorted(values) ==
    CHOOSE s \in Arrangements(values) :
        \A i, j \in DOMAIN s : i < j => ~LexLess(s[j], s[i])

Joined(values) == Join(Sorted(values), Comma)

(* Variant: the values stay in the order in which they were asked for.     *)
WithSet_Unsorted(k, values) == With(k, <<Join(values, Comma)>>)

SetPart(joined) == IF Len(joined) <= MaxJoined THEN joined ELSE <<LetterH>> \o Hash(joined)

WithSet(k, values) == With(k, <<SetPart(Joined(values))>>)

String(k) == Join(<<prefix, schemaVersion, k.domain, k.entity>> \o k.parts, Colon)
=============================================================================
