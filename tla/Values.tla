------------------------------- MODULE Values -------------------------------
(***************************************************************************)
(* The packages that compute and keep nothing: a service asks one of them  *)
(* and gets its answer.  A state is a question with its answer.            *)
(***************************************************************************)
EXTENDS Money, Documents, Keys

CONSTANTS Amount, Percent,   \* amounts and percentages that services ask about
          Text,              \* texts to validate
          Id, Generation,    \* parts of the keys that are asked for
          Selection          \* sequences of values

ASSUME ValuesAssumption == /\ Amount \subseteq Int /\ Percent \subseteq Int
                           /\ Text \subseteq Seq(Digit \cup WideDigit \cup {Mark})

(* What is put into a key is written without separators. *)
ASSUME KeysAssumption ==
    /\ \A id \in Id : id \in Seq(Int) /\ Colon \notin ToSet(id)
    /\ Generation \subseteq Nat
    /\ \A values \in Selection :
           /\ values \in Seq(Seq(Int))
           /\ \A v \in ToSet(values) : v # <<>> /\ ToSet(v) \cap {Comma, Colon} = {}

(* No two long sets share a hash, and no short one is written like one. *)
ASSUME HashAssumption ==
    \A v \in Selection : Len(Joined(v)) > MaxJoined =>
        /\ Hash(Joined(v)) \in Seq(Int) /\ Colon \notin ToSet(Hash(Joined(v)))
        /\ \A w \in Selection :
               IF Len(Joined(w)) > MaxJoined
               THEN Hash(Joined(v)) = Hash(Joined(w)) => Joined(v) = Joined(w)
               ELSE Joined(w) # <<LetterH>> \o Hash(Joined(v))

VARIABLE answer

Idle == [call |-> "none"]

Init == answer = Idle

Discount(list, kind, value) ==
    answer' = [call |-> "discount", list |-> list, kind |-> kind, value |-> value,
               price |-> ApplyDiscount(list, kind, value)[1],
               known |-> ApplyDiscount(list, kind, value)[2]]

Validate(kind, text) ==
    answer' = [call |-> "validate", kind |-> kind, text |-> text,
               document |-> validateBRDocument(kind, text),
               phone |-> validateBRPhone(kind, text), zip |-> validateBRZip(kind, text)]

CacheKey(id, generation, values) ==
    String(WithSet(WithGeneration(NewKey(<<40>>, <<41>>, <<id>>), generation), values))

AskKey(id, generation, values) ==
    answer' = [call |-> "key", id |-> id, generation |-> generation, values |-> values,
               key |-> CacheKey(id, generation, values)]

Ask == /\ answer = Idle
       /\ \/ \E list \in Amount, value \in Amount : Discount(list, DiscountAmount, value)
          \/ \E list \in Amount, value \in Percent, kind \in {DiscountPercent, "percentage"} :
                 Discount(list, kind, value)
          \/ \E text \in Text : Validate("string", text)
          \/ Validate("int", <<>>)
          \/ \E id \in Id, generation \in Generation, values \in Selection :
                 AskKey(id, generation, values)

Forget == answer # Idle /\ answer' = Idle

Next == Ask \/ Forget

Spec == Init /\ [][Next]_answer

-----------------------------------------------------------------------------
(* Properties.                                                             *)

(* A discount leaves the nearest cent of the exact price and never less    *)
(* than nothing, and neither a cheaper item nor a larger discount costs    *)
(* more, in spite of the rounding and of the cases before it               *)
(* (ApplyDiscount); an unknown rule leaves the list price.                 *)
QuoteIsRight ==
    answer.call = "discount" =>
        IF answer.known
        THEN /\ IsPrice(answer.price, answer.list, answer.kind, answer.value)
             /\ IsMonotone(answer.list, answer.kind, answer.value)
        ELSE answer.price = answer.list

(* A field of another kind is refused.  A text is accepted as a document   *)
(* exactly if the bytes of its digits carry the check digits of the        *)
(* modulus eleven, the two ways in which the code folds the remainders     *)
(* agreeing; as a telephone if they are ten or eleven after the country    *)
(* code; as a CEP if they are eight; no digits at all are accepted but as  *)
(* a CEP (the rules of br.go).  The bytes are the digits where all digits  *)
(* are those of ASCII, and a CEP then has eight, whatever stands between   *)
(* them; digits of other scripts count two to four times each.             *)
TextsAreReadRight ==
    answer.call = "validate" =>
        LET value == digitsOnly(answer.text)
            places == {i \in DOMAIN answer.text : answer.text[i] \in Digit}
            ascii == \A i \in DOMAIN answer.text : answer.text[i] \notin WideDigit
            isText == answer.kind = "string"
        IN  /\ answer.document <=> isText /\ (value = <<>> \/ IsDocument(value))
            /\ answer.phone <=> isText /\ (value = <<>> \/ IsPhone(value))
            /\ answer.zip <=> isText /\ Len(value) = 8
            /\ ascii => (answer.zip <=> isText /\ Cardinality(places) = 8)

SameValues(s, t) ==
    LET times(x, values) == Cardinality({i \in DOMAIN values : values[i] = x})
    IN  \A x \in ToSet(s) \cup ToSet(t) : times(x, s) = times(x, t)

(* Two questions have one key exactly if they are about the same owner,    *)
(* generation and values, in whatever order (WithSet, String): an answer   *)
(* in the cache is never that of another question.                         *)
KeysTellQuestionsApart ==
    answer.call = "key" =>
        \A id \in Id, generation \in Generation, values \in Selection :
            answer.key = CacheKey(id, generation, values) <=>
                /\ id = answer.id /\ generation = answer.generation
                /\ SameValues(values, answer.values)
=============================================================================
