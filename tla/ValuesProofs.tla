---------------------------- MODULE ValuesProofs ----------------------------
(***************************************************************************)
(* Proofs about Values: a discount is right for every amount and every     *)
(* percentage, texts are read right however they are written, the two ways *)
(* in which check digits are folded agree with the modulus eleven, and     *)
(* keys tell questions apart.                                              *)
(***************************************************************************)
EXTENDS Values, FiniteSetTheorems, SequenceTheorems, WellFoundedInduction, TLAPS

-----------------------------------------------------------------------------
(* Rounding.  Half is half of what a unit of the result is worth.          *)

(* Round at the precision of a percentage. *)
LEMMA PercentRounding ==
    ASSUME NEW n \in Int, n >= 0
    PROVE  LET q == Nearest(n, Cem * Cent) IN
           /\ q \in Nat
           /\ n - 100000 * q < 50000
           /\ 100000 * q - n <= 50000
BY SMT DEF Nearest, Cem, Cent

(* Round at the precision of an amount. *)
LEMMA AmountRounding ==
    ASSUME NEW n \in Int, n >= 0
    PROVE  LET q == Nearest(n, 1 * Cent) IN
           /\ q \in Nat
           /\ n - 10 * q < 5
           /\ 10 * q - n <= 5
BY SMT DEF Nearest, Cent

(* What is below zero is rounded to zero or below. *)
LEMMA NegativeRounding ==
    ASSUME NEW n \in Int, n < 0
    PROVE  /\ Nearest(n, Cem * Cent) \in Int /\ Nearest(n, Cem * Cent) <= 0
           /\ Nearest(n, 1 * Cent) \in Int /\ Nearest(n, 1 * Cent) <= 0
BY SMT DEF Nearest, Cem, Cent

(* Rounding keeps the order. *)
LEMMA RoundingIsMonotone ==
    ASSUME NEW m \in Int, NEW n \in Int, m <= n
    PROVE  /\ Nearest(m, Cem * Cent) <= Nearest(n, Cem * Cent)
           /\ Nearest(m, 1 * Cent) <= Nearest(n, 1 * Cent)
BY SMT DEF Nearest, Cem, Cent

LEMMA RoundingIsWhole ==
    ASSUME NEW n \in Int
    PROVE  Nearest(n, Cem * Cent) \in Int /\ Nearest(n, 1 * Cent) \in Int
BY SMT DEF Nearest, Cem, Cent

-----------------------------------------------------------------------------
(* Discounts.                                                              *)

(* What is left of a percentage, as a product the prover need not open. *)
LEMMA Products ==
    ASSUME NEW list \in Int, NEW value \in Int
    PROVE  /\ list * (Cem - value) \in Int
           /\ list >= 0 /\ value <= Cem => list * (Cem - value) >= 0
           /\ list >= 0 /\ value > Cem /\ list * (Cem - value) >= 0 => list * (Cem - value) = 0
           /\ (list + 1) * (Cem - value) = list * (Cem - value) + (Cem - value)
           /\ list * (Cem - (value + 1)) = list * (Cem - value) - list
<1>1. Cem \in Int
  BY DEF Cem
<1> QED
  BY <1>1, SMT

LEMMA PercentIsPrice ==
    ASSUME NEW list \in Int, NEW value \in Int
    PROVE  IsPrice(ApplyPercentDiscount(list, value), list, DiscountPercent, value)
<1> DEFINE n == list * (Cem - value)
           q == Nearest(n, Cem * Cent)
<1>1. n \in Int /\ (list >= 0 /\ value <= Cem => n >= 0) /\ (list >= 0 /\ value > Cem /\ n >= 0 => n = 0)
  BY Products
<1>2. ExactPrice(list, DiscountPercent, value) = n
  BY DEF ExactPrice
<1>3. CASE list < 0 \/ value > Cem
  <2>1. ApplyPercentDiscount(list, value) = 0
    BY <1>3 DEF ApplyPercentDiscount
  <2>2. list >= 0 /\ n >= 0 => n = 0
    BY <1>1, <1>3, SMT DEF Cem
  <2> HIDE DEF n
  <2> QED
    BY <1>1, <1>2, <2>1, <2>2, SMT DEF IsPrice, IsNearestPrice, Cem, Cent
<1>4. CASE ~(list < 0 \/ value > Cem)
  <2>1. n >= 0 /\ list >= 0
    BY <1>1, <1>4, SMT DEF Cem
  <2>2. ApplyPercentDiscount(list, value) = FloorAtZero(Cent * q)
    BY <1>4 DEF ApplyPercentDiscount, Round
  <2> HIDE DEF n
  <2>3. q \in Nat /\ n - 100000 * q < 50000 /\ 100000 * q - n <= 50000
    BY <1>1, <2>1, PercentRounding
  <2> HIDE DEF q
  <2>4. ApplyPercentDiscount(list, value) = 10 * q
    BY <2>2, <2>3, SMT DEF FloorAtZero, Cent
  <2>5. IsNearestPrice(10 * q, n)
    BY <1>1, <2>3, SMT DEF IsNearestPrice, Cem, Cent
  <2> QED
    BY <1>1, <1>2, <2>1, <2>3, <2>4, <2>5, SMT DEF IsPrice
<1> QED
  BY <1>3, <1>4

LEMMA AmountIsPrice ==
    ASSUME NEW list \in Int, NEW value \in Int
    PROVE  IsPrice(ApplyAmountDiscount(list, value), list, DiscountAmount, value)
<1> DEFINE n == list - value
           q == Nearest(n, 1 * Cent)
<1>1. n \in Int
  OBVIOUS
<1>2. ExactPrice(list, DiscountAmount, value) = Cem * n
  BY DEF ExactPrice, DiscountAmount, DiscountPercent
<1>3. ApplyAmountDiscount(list, value) = FloorAtZero(Cent * q)
  BY DEF ApplyAmountDiscount, Round
<1> HIDE DEF n
<1>4. CASE n >= 0
  <2>1. q \in Nat /\ n - 10 * q < 5 /\ 10 * q - n <= 5
    BY <1>1, <1>4, AmountRounding
  <2> HIDE DEF q
  <2> QED
    BY <1>1, <1>2, <1>3, <1>4, <2>1, SMT DEF IsPrice, IsNearestPrice, FloorAtZero, Cem, Cent
<1>5. CASE n < 0
  <2>1. q \in Int /\ q <= 0
    BY <1>1, <1>5, NegativeRounding
  <2> HIDE DEF q
  <2>2. ApplyAmountDiscount(list, value) = 0
    BY <1>3, <2>1, SMT DEF FloorAtZero, Cent
  <2> QED
    BY <1>1, <1>2, <1>5, <2>2, SMT DEF IsPrice, Cem
<1> QED
  BY <1>1, <1>4, <1>5, SMT

LEMMA PricesAreMonotone ==
    ASSUME NEW m \in Int, NEW n \in Int
    PROVE  /\ FloorAtZero(Round(m, Cem)) \in Nat
           /\ m <= n => FloorAtZero(Round(m, Cem)) <= FloorAtZero(Round(n, Cem))
           /\ m <= n => FloorAtZero(Round(m, 1)) <= FloorAtZero(Round(n, 1))
<1>1. PICK i, j : i = Nearest(m, Cem * Cent) /\ j = Nearest(n, Cem * Cent)
  OBVIOUS
<1>2. PICK k, l : k = Nearest(m, 1 * Cent) /\ l = Nearest(n, 1 * Cent)
  OBVIOUS
<1>3. i \in Int /\ j \in Int /\ k \in Int /\ l \in Int
  BY <1>1, <1>2, RoundingIsWhole
<1>4. m <= n => i <= j /\ k <= l
  BY <1>1, <1>2, RoundingIsMonotone
<1>5. /\ Round(m, Cem) = Cent * i /\ Round(n, Cem) = Cent * j
      /\ Round(m, 1) = Cent * k /\ Round(n, 1) = Cent * l
  BY <1>1, <1>2 DEF Round
<1> QED BY <1>3, <1>4, <1>5, SMT DEF FloorAtZero, Cent

LEMMA PercentIsMonotone ==
    ASSUME NEW list \in Int, NEW value \in Int
    PROVE  /\ ApplyPercentDiscount(list, value) <= ApplyPercentDiscount(list + 1, value)
           /\ ApplyPercentDiscount(list, value + 1) <= ApplyPercentDiscount(list, value)
<1> DEFINE n == list * (Cem - value)
           dearer == (list + 1) * (Cem - value)
           larger == list * (Cem - (value + 1))
           price(x) == FloorAtZero(Round(x, Cem))
<1>1. /\ n \in Int /\ dearer \in Int /\ larger \in Int /\ Cem \in Int
      /\ dearer = n + (Cem - value) /\ larger = n - list
  BY Products DEF Cem
<1>2. /\ ApplyPercentDiscount(list, value) = IF list < 0 \/ value > Cem THEN 0 ELSE price(n)
      /\ ApplyPercentDiscount(list + 1, value) = IF list + 1 < 0 \/ value > Cem THEN 0 ELSE price(dearer)
      /\ ApplyPercentDiscount(list, value + 1) = IF list < 0 \/ value + 1 > Cem THEN 0 ELSE price(larger)
  BY DEF ApplyPercentDiscount
<1> HIDE DEF n, dearer, larger
<1>3. /\ price(n) \in Nat /\ price(dearer) \in Nat /\ price(larger) \in Nat
      /\ n <= dearer => price(n) <= price(dearer)
      /\ larger <= n => price(larger) <= price(n)
  BY <1>1, PricesAreMonotone
<1> HIDE DEF price
<1>4. ApplyPercentDiscount(list, value) <= ApplyPercentDiscount(list + 1, value)
  BY <1>1, <1>2, <1>3, SMT
<1>5. ApplyPercentDiscount(list, value + 1) <= ApplyPercentDiscount(list, value)
  BY <1>1, <1>2, <1>3, SMT
<1> QED
  BY <1>4, <1>5

LEMMA AmountIsMonotone ==
    ASSUME NEW list \in Int, NEW value \in Int
    PROVE  /\ ApplyAmountDiscount(list, value) <= ApplyAmountDiscount(list + 1, value)
           /\ ApplyAmountDiscount(list, value + 1) <= ApplyAmountDiscount(list, value)
<1>1. FloorAtZero(Round(list - value, 1)) <= FloorAtZero(Round(list + 1 - value, 1))
  BY PricesAreMonotone
<1>2. FloorAtZero(Round(list - (value + 1), 1)) <= FloorAtZero(Round(list - value, 1))
  BY PricesAreMonotone
<1> QED
  BY <1>1, <1>2 DEF ApplyAmountDiscount

-----------------------------------------------------------------------------
(* Questions and answers.                                                  *)

(* The answer in hand is that of the package. *)
IsAnswer ==
    answer.call = "discount" =>
        /\ answer.list \in Int /\ answer.value \in Int
        /\ answer.price = ApplyDiscount(answer.list, answer.kind, answer.value)[1]
        /\ answer.known = ApplyDiscount(answer.list, answer.kind, answer.value)[2]

LEMMA DiscountCases ==
    ASSUME NEW list, NEW kind, NEW value
    PROVE  /\ kind = DiscountPercent =>
                  /\ ApplyDiscount(list, kind, value)[1] = ApplyPercentDiscount(list, value)
                  /\ ApplyDiscount(list, kind, value)[2]
           /\ kind = DiscountAmount =>
                  /\ ApplyDiscount(list, kind, value)[1] = ApplyAmountDiscount(list, value)
                  /\ ApplyDiscount(list, kind, value)[2]
           /\ kind \notin {DiscountPercent, DiscountAmount} =>
                  /\ ApplyDiscount(list, kind, value)[1] = list
                  /\ ~ApplyDiscount(list, kind, value)[2]
<1>1. DiscountPercent # DiscountAmount
  BY DEF DiscountPercent, DiscountAmount
<1>2. /\ kind = DiscountPercent =>
             ApplyDiscount(list, kind, value) = <<ApplyPercentDiscount(list, value), TRUE>>
      /\ kind = DiscountAmount =>
             ApplyDiscount(list, kind, value) = <<ApplyAmountDiscount(list, value), TRUE>>
      /\ kind \notin {DiscountPercent, DiscountAmount} =>
             ApplyDiscount(list, kind, value) = <<list, FALSE>>
  BY <1>1 DEF ApplyDiscount
<1>3. \A x : <<x, TRUE>>[1] = x /\ <<x, FALSE>>[1] = x
  OBVIOUS
<1>4. \A x : <<x, TRUE>>[2] = TRUE /\ <<x, FALSE>>[2] = FALSE
  OBVIOUS
<1> QED
  BY <1>2, <1>3, <1>4, Zenon

LEMMA AnswersAreRight == IsAnswer => QuoteIsRight
<1> SUFFICES ASSUME IsAnswer, answer.call = "discount" PROVE QuoteIsRight
  BY DEF QuoteIsRight
<1>1. /\ answer.list \in Int /\ answer.value \in Int
      /\ answer.price = ApplyDiscount(answer.list, answer.kind, answer.value)[1]
      /\ answer.known = ApplyDiscount(answer.list, answer.kind, answer.value)[2]
  BY DEF IsAnswer
<1>2. CASE answer.kind = DiscountPercent
  <2>1. answer.price = ApplyPercentDiscount(answer.list, answer.value) /\ answer.known
    BY <1>1, <1>2, DiscountCases
  <2>2. IsMonotone(answer.list, answer.kind, answer.value)
    BY <1>1, <1>2, DiscountCases, PercentIsMonotone DEF IsMonotone
  <2>3. IsPrice(answer.price, answer.list, answer.kind, answer.value)
    BY <1>1, <1>2, <2>1, PercentIsPrice
  <2> QED
    BY <2>1, <2>2, <2>3 DEF QuoteIsRight
<1>3. CASE answer.kind = DiscountAmount
  <2>1. answer.price = ApplyAmountDiscount(answer.list, answer.value) /\ answer.known
    BY <1>1, <1>3, DiscountCases
  <2>2. IsMonotone(answer.list, answer.kind, answer.value)
    BY <1>1, <1>3, DiscountCases, AmountIsMonotone DEF IsMonotone
  <2>3. IsPrice(answer.price, answer.list, answer.kind, answer.value)
    BY <1>1, <1>3, <2>1, AmountIsPrice
  <2> QED
    BY <2>1, <2>2, <2>3 DEF QuoteIsRight
<1>4. CASE answer.kind \notin {DiscountPercent, DiscountAmount}
  <2>1. answer.price = answer.list /\ ~answer.known
    BY <1>1, <1>4, DiscountCases
  <2> QED
    BY <2>1 DEF QuoteIsRight
<1> QED
  BY <1>2, <1>3, <1>4

(* For every amount and percentage, in whatever order questions are asked: *)
(* a discount leaves the nearest cent, never less than nothing, and is     *)
(* monotone in the list price and in the discount (ApplyDiscount).         *)
THEOREM QuotesAreRight == Spec => []QuoteIsRight
<1>1. Init => IsAnswer
  BY DEF Init, Idle, IsAnswer
<1>2. IsAnswer /\ [Next]_answer => IsAnswer'
  <2> SUFFICES ASSUME IsAnswer, [Next]_answer PROVE IsAnswer'
    OBVIOUS
  <2>1. CASE UNCHANGED answer
    BY <2>1 DEF IsAnswer
  <2>2. CASE Forget
    BY <2>2 DEF Forget, Idle, IsAnswer
  <2>3. ASSUME NEW list \in Int, NEW kind, NEW value \in Int, Discount(list, kind, value)
        PROVE  IsAnswer'
    BY <2>3 DEF Discount, IsAnswer
  <2>4. ASSUME NEW kind, NEW text \in Text \cup {<<>>}, Validate(kind, text)
        PROVE  IsAnswer'
    BY <2>4 DEF Validate, IsAnswer
  <2>5. ASSUME NEW id, NEW generation, NEW values, AskKey(id, generation, values) PROVE IsAnswer'
    BY <2>5 DEF AskKey, IsAnswer
  <2>6. CASE Ask
    BY <2>3, <2>4, <2>5, <2>6, ValuesAssumption DEF Ask
  <2> QED
    BY <2>1, <2>2, <2>6 DEF Next
<1>3. IsAnswer => QuoteIsRight
  BY AnswersAreRight
<1> QED
  BY <1>1, <1>2, <1>3, PTL DEF Spec

-----------------------------------------------------------------------------
(* Check digits.                                                           *)

(* Each check digit is the one that the modulus eleven asks for, so that   *)
(* the two folds of the remainder are one (isValidCPF, isValidCNPJ).       *)
THEOREM CheckDigitsAgree ==
    ASSUME NEW sum \in Nat, NEW d \in Nat
    PROVE  /\ CNPJDigit(sum) = CPFDigit(sum)
           /\ IsCheckDigit(d, sum) <=> d = CPFDigit(sum)
<1> DEFINE r == sum % 11
<1>1. r \in 0 .. 10 /\ \A x \in Digit : (sum + x) % 11 = (r + x) % 11
  BY SMT DEF Digit
<1>2. \A x \in Digit : (r + x) % 11 = 0 <=> (r = 0 /\ x = 0) \/ x = 11 - r
  BY <1>1, SMT DEF Digit
<1>3. (\E x \in Digit : (sum + x) % 11 = 0) <=> r # 1
  BY <1>1, <1>2, SMT DEF Digit
<1> QED
  BY <1>1, <1>2, <1>3, SMT DEF IsCheckDigit, CPFDigit, CNPJDigit, Digit

-----------------------------------------------------------------------------
(* Texts.  A document's digits are added up as MapThenSumSet does it.      *)

(* A set that holds zero, and with a number the next one, holds all of     *)
(* them: induction, from the order of the numbers being well-founded.      *)
LEMMA Ascend ==
    ASSUME NEW S, 0 \in S, \A n \in Nat : n \in S => n + 1 \in S
    PROVE  Nat \subseteq S
<1> SUFFICES ASSUME Nat \ S # {} PROVE FALSE
  OBVIOUS
<1>1. PICK m \in Nat \ S : \A n \in Nat \ S : ~(<<n, m>> \in OpToRel(<, Nat))
  <2>1. IsWellFoundedOn(OpToRel(<, Nat), Nat) /\ Nat \ S \subseteq Nat
    BY NatLessThanWellFounded
  <2> QED BY <2>1, WFMin
<1>2. \A n \in Nat \ S : ~(n < m)
  BY <1>1 DEF OpToRel
<1>3. m # 0 /\ m - 1 \in Nat
  OBVIOUS
<1> QED BY <1>2, <1>3

First(s) == CHOOSE x \in s : TRUE

(* How MapThenSumSet adds up g over the subsets of S. *)
SumsUp(f, g, S) ==
    f = [s \in SUBSET S |-> IF s = {} THEN 0 ELSE g[First(s)] + f[s \ {First(s)}]]

(* A set without one of its elements has one element less. *)
LEMMA OneLess ==
    ASSUME NEW s, IsFiniteSet(s), NEW x \in s
    PROVE  /\ IsFiniteSet(s \ {x})
           /\ Cardinality(s) \in Nat \ {0}
           /\ Cardinality(s \ {x}) = Cardinality(s) - 1
<1>1. IsFiniteSet(s \ {x}) /\ Cardinality(s \ {x}) = Cardinality(s) - 1
  BY FS_RemoveElement
<1> QED BY <1>1, FS_CardinalityType, FS_EmptySet

(* The recursion by which MapThenSumSet adds up the values of g has a      *)
(* solution on a finite set.                                               *)
LEMMA SumsExist ==
    ASSUME NEW S, IsFiniteSet(S), NEW g
    PROVE  \E f : SumsUp(f, g, S)
<1> DEFINE Upto(n) == {s \in SUBSET S : Cardinality(s) <= n}
           Sums(f, n) == f = [s \in Upto(n) |->
                                IF s = {} THEN 0 ELSE g[First(s)] + f[s \ {First(s)}]]
           Good == {n \in Nat : \E f : Sums(f, n)}
<1>0. \A s \in SUBSET S : s # {} =>
        /\ First(s) \in s
        /\ Cardinality(s) \in Nat \ {0}
        /\ Cardinality(s \ {First(s)}) = Cardinality(s) - 1
        /\ s \ {First(s)} \in SUBSET S
  <2> SUFFICES ASSUME NEW s \in SUBSET S, s # {}
               PROVE  /\ First(s) \in s
                      /\ Cardinality(s) \in Nat \ {0}
                      /\ Cardinality(s \ {First(s)}) = Cardinality(s) - 1
                      /\ s \ {First(s)} \in SUBSET S
    OBVIOUS
  <2>1. First(s) \in s
    BY DEF First
  <2> QED BY <2>1, OneLess, FS_Subset
<1>1. 0 \in Good
  <2>1. Upto(0) = {{}}
    <3>1. ASSUME NEW s \in Upto(0), s # {} PROVE FALSE
      <4>1. Cardinality(s) \in Nat \ {0} /\ Cardinality(s) <= 0
        BY <1>0, <3>1
      <4> QED BY <4>1
    <3>2. {} \in Upto(0)
      BY FS_EmptySet
    <3> QED BY <3>1, <3>2
  <2>2. Sums([s \in {{}} |-> 0], 0)
    BY <2>1
  <2> QED BY <2>2
<1>2. ASSUME NEW n \in Nat, n \in Good PROVE n + 1 \in Good
  <2>1. PICK f : Sums(f, n)
    BY <1>2
  <2> DEFINE h == [s \in Upto(n + 1) |->
                     IF s \in Upto(n) THEN f[s] ELSE g[First(s)] + f[s \ {First(s)}]]
  <2>2. \A s \in Upto(n + 1) : s # {} =>
          s \ {First(s)} \in Upto(n) /\ s \ {First(s)} \in Upto(n + 1)
    BY <1>0
  <2>3. {} \in Upto(n)
    BY FS_EmptySet
  <2>4. \A s \in Upto(n) : f[s] = IF s = {} THEN 0 ELSE g[First(s)] + f[s \ {First(s)}]
    BY <2>1
  <2>5. \A s \in Upto(n + 1) :
          h[s] = IF s = {} THEN 0 ELSE g[First(s)] + h[s \ {First(s)}]
    <3> SUFFICES ASSUME NEW s \in Upto(n + 1)
                 PROVE  h[s] = IF s = {} THEN 0 ELSE g[First(s)] + h[s \ {First(s)}]
      OBVIOUS
    <3> HIDE DEF Upto
    <3>1. h[s] = IF s \in Upto(n) THEN f[s] ELSE g[First(s)] + f[s \ {First(s)}]
      OBVIOUS
    <3>2. s # {} => h[s \ {First(s)}] = f[s \ {First(s)}]
      BY <2>2
    <3> HIDE DEF h
    <3> QED BY <3>1, <3>2, <2>3, <2>4
  <2> HIDE DEF Upto
  <2>6. h = [s \in Upto(n + 1) |-> h[s]]
    OBVIOUS
  <2>7. Sums(h, n + 1)
    <3> HIDE DEF h
    <3> QED BY <2>5, <2>6
  <2> HIDE DEF h, Sums
  <2> QED BY <2>7
<1>3. Cardinality(S) \in Good
  <2> HIDE DEF Good
  <2> QED BY <1>1, <1>2, Ascend, FS_CardinalityType
<1>4. Upto(Cardinality(S)) = SUBSET S
  BY FS_Subset
<1> QED BY <1>3, <1>4 DEF SumsUp

(* All solutions agree. *)
LEMMA SumsAreUnique ==
    ASSUME NEW S, IsFiniteSet(S), NEW g, NEW f, SumsUp(f, g, S),
           NEW T \in SUBSET S, NEW h, SumsUp(h, g, T)
    PROVE  h[T] = f[T]
<1> DEFINE Good == {n \in Nat : \A s \in SUBSET T : Cardinality(s) = n => h[s] = f[s]}
<1>1. /\ \A s \in SUBSET S : f[s] = IF s = {} THEN 0 ELSE g[First(s)] + f[s \ {First(s)}]
      /\ \A s \in SUBSET T : h[s] = IF s = {} THEN 0 ELSE g[First(s)] + h[s \ {First(s)}]
  BY DEF SumsUp
<1>2. \A s \in SUBSET T : IsFiniteSet(s) /\ s \in SUBSET S
  BY FS_Subset
<1>3. 0 \in Good
  BY <1>1, <1>2, FS_EmptySet
<1>4. ASSUME NEW n \in Nat, n \in Good PROVE n + 1 \in Good
  <2> SUFFICES ASSUME NEW s \in SUBSET T, Cardinality(s) = n + 1 PROVE h[s] = f[s]
    OBVIOUS
  <2>1. s # {}
    BY FS_EmptySet
  <2>2. First(s) \in s
    BY <2>1 DEF First
  <2>3. s \ {First(s)} \in SUBSET T /\ Cardinality(s \ {First(s)}) = n
    <3>1. IsFiniteSet(s)
      BY <1>2
    <3>2. Cardinality(s \ {First(s)}) = Cardinality(s) - 1
      BY <2>2, <3>1, OneLess
    <3> QED BY <3>2
  <2>4. h[s \ {First(s)}] = f[s \ {First(s)}]
    BY <1>4, <2>3
  <2> QED BY <1>1, <1>2, <2>1, <2>4
<1>5. Cardinality(T) \in Good
  <2> HIDE DEF Good
  <2> QED BY <1>2, <1>3, <1>4, Ascend, FS_CardinalityType
<1> QED BY <1>5

(* Sums of numbers are numbers. *)
LEMMA SumsAreCounts ==
    ASSUME NEW S, IsFiniteSet(S), NEW g \in [S -> Nat], NEW f, SumsUp(f, g, S)
    PROVE  f \in [SUBSET S -> Nat]
<1> DEFINE Good == {n \in Nat : \A s \in SUBSET S : Cardinality(s) = n => f[s] \in Nat}
<1>1. \A s \in SUBSET S : f[s] = IF s = {} THEN 0 ELSE g[First(s)] + f[s \ {First(s)}]
  BY DEF SumsUp
<1>2. \A s \in SUBSET S : IsFiniteSet(s) /\ Cardinality(s) \in Nat
  BY FS_Subset, FS_CardinalityType
<1>3. 0 \in Good
  BY <1>1, <1>2, FS_EmptySet
<1>4. ASSUME NEW n \in Nat, n \in Good PROVE n + 1 \in Good
  <2> SUFFICES ASSUME NEW s \in SUBSET S, Cardinality(s) = n + 1 PROVE f[s] \in Nat
    OBVIOUS
  <2>1. First(s) \in s
    BY FS_EmptySet DEF First
  <2>2. Cardinality(s \ {First(s)}) = n
    <3>1. Cardinality(s \ {First(s)}) = Cardinality(s) - 1
      BY <1>2, <2>1, OneLess
    <3> QED BY <3>1
  <2>3. f[s \ {First(s)}] \in Nat /\ g[First(s)] \in Nat
    BY <1>4, <2>1, <2>2
  <2> QED BY <1>1, <2>1, <2>3
<1>5. \A s \in SUBSET S : Cardinality(s) \in Good
  <2> HIDE DEF Good
  <2> QED BY <1>2, <1>3, <1>4, Ascend
<1> QED BY <1>5 DEF SumsUp

(* WeightedSum adds up the products of digits and weights: MapThenSumSet   *)
(* chooses the one solution of its recursion.                              *)
LEMMA WeightedSumsAdd ==
    ASSUME NEW v, NEW w, IsFiniteSet(DOMAIN w), \A i \in DOMAIN w : v[i] \in Nat /\ w[i] \in Nat
    PROVE  /\ WeightedSum(v, w) \in Nat
           /\ \A f : SumsUp(f, [i \in DOMAIN w |-> v[i] * w[i]], DOMAIN w) =>
                        WeightedSum(v, w) = f[DOMAIN w]
<1> DEFINE S == DOMAIN w
           g == [i \in S |-> v[i] * w[i]]
           Adds(h) == h = [s \in SUBSET S |->
                             IF s = {} THEN 0
                             ELSE v[First(s)] * w[First(s)] + h[s \ {First(s)}]]
           h == CHOOSE h : Adds(h)
<1>1. \A s \in SUBSET S : s # {} => First(s) \in S
  BY DEF First
<1>2. \A f : Adds(f) <=> SumsUp(f, g, S)
  <2>1. \A s \in SUBSET S : s # {} => g[First(s)] = v[First(s)] * w[First(s)]
    BY <1>1
  <2> HIDE DEF g
  <2> SUFFICES ASSUME NEW f PROVE Adds(f) <=> SumsUp(f, g, S)
    OBVIOUS
  <2>2. [s \in SUBSET S |-> IF s = {} THEN 0 ELSE v[First(s)] * w[First(s)] + f[s \ {First(s)}]]
          = [s \in SUBSET S |-> IF s = {} THEN 0 ELSE g[First(s)] + f[s \ {First(s)}]]
    BY <2>1
  <2> QED BY <2>2 DEF SumsUp
<1>3. WeightedSum(v, w) = h[S]
  BY DEF WeightedSum, MapThenSumSet, MapThenFoldSet, First
<1>4. Adds(h)
  <2> HIDE DEF Adds, g
  <2>1. \E f : Adds(f)
    BY <1>2, SumsExist
  <2> QED BY <2>1
<1> HIDE DEF h, Adds
<1>5. SumsUp(h, g, S)
  BY <1>2, <1>4
<1>6. g \in [S -> Nat]
  <2>1. \A i \in S : v[i] * w[i] \in Nat
    OBVIOUS
  <2> QED BY <2>1
<1> HIDE DEF g
<1>7. h[S] \in Nat
  <2>1. h \in [SUBSET S -> Nat]
    BY <1>5, <1>6, SumsAreCounts
  <2> QED BY <2>1
<1>8. \A f : SumsUp(f, g, S) => h[S] = f[S]
  BY <1>5, SumsAreUnique
<1> QED BY <1>3, <1>7, <1>8 DEF g

(* The sum that the rule weighs is the one that the code computes. *)
LEMMA RuleSums ==
    ASSUME NEW v, NEW n \in Nat \ {0}, NEW top \in Nat, top > 1, NEW w,
           DOMAIN w = 1 .. n - 1,
           \A i \in 1 .. n - 1 : v[i] \in Nat /\ w[i] = 2 + ((n - 1 - i) % (top - 1))
    PROVE  /\ WeightedSum(v, w) \in Nat
           /\ IsChecked(v, n, top) <=> IsCheckDigit(v[n], WeightedSum(v, w))
<1> DEFINE S == 1 .. n - 1
           rule(i) == v[i] * (2 + ((n - 1 - i) % (top - 1)))
           g == [i \in S |-> v[i] * w[i]]
           Adds(h) == h = [s \in SUBSET S |->
                             IF s = {} THEN 0 ELSE rule(First(s)) + h[s \ {First(s)}]]
           h == CHOOSE h : Adds(h)
<1>1. IsFiniteSet(S)
  BY FS_Interval
<1>2. \A i \in S : w[i] \in Nat
  <2>1. \A i \in S : n - 1 - i \in Int /\ top - 1 \in Int /\ top - 1 > 0
    OBVIOUS
  <2>2. \A i \in S : (n - 1 - i) % (top - 1) \in Nat
    BY <2>1
  <2> QED BY <2>2
<1>3. \A i \in DOMAIN w : v[i] \in Nat /\ w[i] \in Nat
  BY <1>2
<1>4. IsChecked(v, n, top) <=> IsCheckDigit(v[n], MapThenSumSet(rule, S))
  BY DEF IsChecked
<1>5. MapThenSumSet(rule, S) = h[S]
  BY DEF MapThenSumSet, MapThenFoldSet, First
<1>6. \A s \in SUBSET S : s # {} => First(s) \in S
  BY DEF First
<1>7. \A i \in S : g[i] = rule(i)
  OBVIOUS
<1> HIDE DEF rule, g
<1>8. \A f : Adds(f) <=> SumsUp(f, g, S)
  <2> HIDE DEF S
  <2> SUFFICES ASSUME NEW f PROVE Adds(f) <=> SumsUp(f, g, S)
    OBVIOUS
  <2>1. [s \in SUBSET S |-> IF s = {} THEN 0 ELSE rule(First(s)) + f[s \ {First(s)}]]
          = [s \in SUBSET S |-> IF s = {} THEN 0 ELSE g[First(s)] + f[s \ {First(s)}]]
    BY <1>6, <1>7
  <2> QED BY <2>1 DEF SumsUp
<1> HIDE DEF S
<1>9. Adds(h)
  <2> HIDE DEF Adds
  <2>1. \E f : Adds(f)
    BY <1>1, <1>8, SumsExist
  <2> QED BY <2>1
<1> HIDE DEF h, Adds
<1>10. SumsUp(h, g, S)
  BY <1>8, <1>9
<1>11. DOMAIN w = S
  BY DEF S
<1>12. WeightedSum(v, w) \in Nat /\ (\A f : SumsUp(f, g, S) => WeightedSum(v, w) = f[S])
  BY <1>1, <1>3, <1>11, WeightedSumsAdd DEF g
<1> QED BY <1>4, <1>5, <1>10, <1>12

(* A digit of ASCII is one byte. *)
LEMMA BytesAreNumbers ==
    ASSUME NEW c \in Digit \cup WideDigit
    PROVE  /\ Bytes(c) \in Seq(Nat)
           /\ c \in Digit => Bytes(c) = <<c>>
<1>1. c \in Nat
  BY WideDigitAssumption DEF Digit
<1>2. \A n \in {1, 64, 4096, 262144} : (c + 48) \div n \in Nat /\ ((c + 48) \div n) % 64 \in Nat
  BY <1>1
<1>3. Bytes(c) \in Seq(Nat)
  BY <1>1, <1>2 DEF Bytes
<1>4. c \in Digit => Bytes(c) = <<c>>
  BY DEF Bytes, Digit
<1> QED BY <1>3, <1>4

(* The places of digits of ASCII among the first n. *)
DigitPlaces(text, n) == {i \in 1 .. n : text[i] \in Digit}

LEMMA DigitsAreCounted ==
    ASSUME NEW text, NEW n \in Nat
    PROVE  /\ IsFiniteSet(DigitPlaces(text, n)) /\ Cardinality(DigitPlaces(text, n)) \in Nat
           /\ DigitPlaces(text, 0) = {}
           /\ Cardinality(DigitPlaces(text, n + 1)) =
                Cardinality(DigitPlaces(text, n)) + (IF text[n + 1] \in Digit THEN 1 ELSE 0)
<1>1. IsFiniteSet(1 .. n)
  BY FS_Interval
<1>2. DigitPlaces(text, n) \subseteq 1 .. n
  BY DEF DigitPlaces
<1>3. IsFiniteSet(DigitPlaces(text, n))
  BY <1>1, <1>2, FS_Subset
<1>4. Cardinality(DigitPlaces(text, n)) \in Nat
  BY <1>3, FS_CardinalityType
<1>5. DigitPlaces(text, 0) = {}
  BY DEF DigitPlaces
<1>6. CASE text[n + 1] \in Digit
  <2>1. DigitPlaces(text, n + 1) = DigitPlaces(text, n) \cup {n + 1}
    BY <1>6 DEF DigitPlaces
  <2>2. n + 1 \notin DigitPlaces(text, n)
    BY DEF DigitPlaces
  <2> QED BY <1>3, <1>4, <1>5, <1>6, <2>1, <2>2, FS_AddElement
<1>7. CASE text[n + 1] \notin Digit
  <2>1. \A i \in 1 .. n + 1 : i \in 1 .. n \/ i = n + 1
    OBVIOUS
  <2>2. DigitPlaces(text, n + 1) = DigitPlaces(text, n)
    BY <1>7, <2>1 DEF DigitPlaces
  <2> QED BY <1>3, <1>4, <1>5, <1>7, <2>2
<1> QED BY <1>6, <1>7

(* Only digits are kept, as bytes; with none beyond ASCII, a byte each. *)
LEMMA OnlyDigitsAreKept ==
    ASSUME NEW text \in Seq(Digit \cup WideDigit \cup {Mark})
    PROVE  /\ digitsOnly(text) \in Seq(Nat)
           /\ (\A i \in 1 .. Len(text) : text[i] \notin WideDigit) =>
                 Len(digitsOnly(text)) = Cardinality(DigitPlaces(text, Len(text)))
<1> DEFINE Step(f, i) == IF i = 0 THEN <<>>
                         ELSE IF IsDigit(text[i]) THEN f[i - 1] \o Bytes(text[i]) ELSE f[i - 1]
           Kept(f, n) == f = [i \in 0 .. n |-> Step(f, i)]
<1>1. Len(text) \in Nat
  OBVIOUS
<1>2. \E f : Kept(f, Len(text))
  <2> DEFINE Good == {n \in Nat : \E f : Kept(f, n)}
  <2>1. 0 \in Good
    <3> DEFINE f == [i \in 0 .. 0 |-> <<>>]
    <3>1. \A i \in 0 .. 0 : i = 0
      OBVIOUS
    <3>2. Kept(f, 0)
      BY <3>1
    <3> HIDE DEF Kept, f
    <3> QED BY <3>2
  <2>2. ASSUME NEW n \in Nat, n \in Good PROVE n + 1 \in Good
    <3>1. PICK f : Kept(f, n)
      BY <2>2
    <3> DEFINE g == [i \in 0 .. n + 1 |->
                       IF i <= n THEN f[i]
                       ELSE IF IsDigit(text[i]) THEN f[i - 1] \o Bytes(text[i]) ELSE f[i - 1]]
    <3>2. \A i \in 0 .. n : f[i] = Step(f, i)
      BY <3>1
    <3>3. \A i \in 0 .. n + 1 : g[i] = Step(g, i)
      <4>1. ASSUME NEW i \in 0 .. n PROVE g[i] = Step(g, i)
        <5>1. g[i] = f[i] /\ (i # 0 => g[i - 1] = f[i - 1])
          OBVIOUS
        <5> HIDE DEF g
        <5> QED BY <3>2, <5>1
      <4>2. /\ g[n + 1] = IF IsDigit(text[n + 1]) THEN f[n] \o Bytes(text[n + 1]) ELSE f[n]
            /\ g[n] = f[n] /\ n + 1 # 0 /\ n + 1 - 1 = n
        OBVIOUS
      <4>3. \A i \in 0 .. n + 1 : i \in 0 .. n \/ i = n + 1
        OBVIOUS
      <4> HIDE DEF g
      <4> QED BY <4>1, <4>2, <4>3
    <3>4. g = [i \in 0 .. n + 1 |-> g[i]]
      OBVIOUS
    <3>5. Kept(g, n + 1)
      <4> HIDE DEF g, Step
      <4>1. [i \in 0 .. n + 1 |-> g[i]] = [i \in 0 .. n + 1 |-> Step(g, i)]
        BY <3>3
      <4> QED BY <3>4, <4>1
    <3> HIDE DEF Kept, g
    <3> QED BY <3>5
  <2> HIDE DEF Good
  <2>3. Len(text) \in Good
    BY <1>1, <2>1, <2>2, Ascend
  <2> HIDE DEF Kept
  <2> QED BY <2>3 DEF Good
<1> DEFINE kept == CHOOSE f : Kept(f, Len(text))
<1>3. Kept(kept, Len(text))
  <2> HIDE DEF Kept
  <2> QED BY <1>2
<1>4. digitsOnly(text) = kept[Len(text)]
  BY DEF digitsOnly
<1> HIDE DEF kept
<1>5. \A i \in 0 .. Len(text) : kept[i] = Step(kept, i)
  <2> HIDE DEF Step
  <2> QED BY <1>3
<1> HIDE DEF Kept
<1> DEFINE ascii == \A i \in 1 .. Len(text) : text[i] \notin WideDigit
           Right(n) == /\ kept[n] \in Seq(Nat)
                       /\ ascii => Len(kept[n]) = Cardinality(DigitPlaces(text, n))
           Good == {n \in Nat : n <= Len(text) => Right(n)}
<1>6. 0 \in Good
  <2>1. kept[0] = <<>>
    BY <1>1, <1>5
  <2>2. <<>> \in Seq(Nat) /\ Len(<<>>) = 0
    BY EmptySeq
  <2>3. Cardinality(DigitPlaces(text, 0)) = 0
    <3>1. DigitPlaces(text, 0) = {}
      BY DEF DigitPlaces
    <3> QED BY <3>1, FS_EmptySet
  <2> QED BY <2>1, <2>2, <2>3
<1>7. ASSUME NEW n \in Nat, n \in Good PROVE n + 1 \in Good
  <2> SUFFICES ASSUME n + 1 <= Len(text) PROVE Right(n + 1)
    OBVIOUS
  <2>1. Right(n)
    BY <1>1, <1>7
  <2>2. kept[n + 1] = IF IsDigit(text[n + 1]) THEN kept[n] \o Bytes(text[n + 1]) ELSE kept[n]
    <3>1. n + 1 \in 0 .. Len(text) /\ n + 1 # 0 /\ (n + 1) - 1 = n
      BY <1>1
    <3> QED BY <1>5, <3>1
  <2>3. n + 1 \in 1 .. Len(text)
    BY <1>1
  <2>4. /\ Cardinality(DigitPlaces(text, n)) \in Nat
        /\ Cardinality(DigitPlaces(text, n + 1)) =
             Cardinality(DigitPlaces(text, n)) + (IF text[n + 1] \in Digit THEN 1 ELSE 0)
    BY DigitsAreCounted
  <2> HIDE DEF ascii
  <2>5. CASE IsDigit(text[n + 1])
    <3>1. text[n + 1] \in Digit \cup WideDigit
      BY <2>5 DEF IsDigit
    <3> DEFINE more == Bytes(text[n + 1])
    <3>2. more \in Seq(Nat) /\ (text[n + 1] \in Digit => more = <<text[n + 1]>>)
      BY <3>1, BytesAreNumbers
    <3> HIDE DEF more
    <3>3. kept[n + 1] = kept[n] \o more
      BY <2>2, <2>5 DEF more
    <3>4. kept[n + 1] \in Seq(Nat) /\ Len(kept[n + 1]) = Len(kept[n]) + Len(more)
      BY <2>1, <3>2, <3>3, ConcatProperties
    <3>5. ascii => text[n + 1] \in Digit
      BY <2>3, <3>1 DEF ascii
    <3>6. text[n + 1] \in Digit => Len(more) = 1
      BY <3>2
    <3> QED BY <2>1, <2>4, <3>4, <3>5, <3>6
  <2>6. CASE ~IsDigit(text[n + 1])
    <3>1. kept[n + 1] = kept[n] /\ text[n + 1] \notin Digit
      BY <2>2, <2>6 DEF IsDigit
    <3> QED BY <2>1, <2>4, <3>1
  <2> QED BY <2>5, <2>6
<1> HIDE DEF Right
<1>8. Len(text) \in Good
  <2> HIDE DEF Good
  <2> QED BY <1>1, <1>6, <1>7, Ascend
<1>9. Right(Len(text))
  BY <1>1, <1>8
<1> QED BY <1>4, <1>9 DEF Right

LEMMA BytesAtPlaces ==
    ASSUME NEW value \in Seq(Nat), NEW i \in 1 .. Len(value)
    PROVE  value[i] \in Nat
BY ElementOfSeq

LEMMA CPFIsRead ==
    ASSUME NEW value \in Seq(Nat), Len(value) = 11, NEW n \in {10, 11}
    PROVE  value[n] = CPFDigit(WeightedSum(value, CPFWeights(n - 1))) <=> IsChecked(value, n, 11)
<1> DEFINE w == CPFWeights(n - 1)
<1>1. DOMAIN w = 1 .. n - 1 /\ \A i \in 1 .. n - 1 : w[i] = n + 1 - i
  BY DEF CPFWeights
<1> HIDE DEF w
<1>2. \A i \in 1 .. n - 1 : (n - 1 - i) % (11 - 1) = n - 1 - i
  OBVIOUS
<1>3. \A i \in 1 .. n - 1 : value[i] \in Nat /\ w[i] = 2 + ((n - 1 - i) % (11 - 1))
  <2>1. \A i \in 1 .. n - 1 : i \in 1 .. Len(value)
    OBVIOUS
  <2>2. \A i \in 1 .. n - 1 : w[i] = 2 + ((n - 1 - i) % (11 - 1))
    BY <1>1, <1>2
  <2> QED BY <2>1, <2>2, BytesAtPlaces
<1>4. /\ WeightedSum(value, w) \in Nat
      /\ IsChecked(value, n, 11) <=> IsCheckDigit(value[n], WeightedSum(value, w))
  <2>1. n \in Nat \ {0} /\ 11 \in Nat /\ 11 > 1
    OBVIOUS
  <2> QED BY <1>1, <1>3, <2>1, RuleSums
<1>5. value[n] \in Nat
  <2>1. n \in 1 .. Len(value)
    OBVIOUS
  <2> QED BY <2>1, BytesAtPlaces
<1> QED BY <1>4, <1>5, CheckDigitsAgree DEF w

LEMMA CNPJWeights ==
    /\ DOMAIN weights1 = 1 .. 12 /\ \A i \in 1 .. 12 : weights1[i] = 2 + ((12 - i) % 8)
    /\ DOMAIN weights2 = 1 .. 13 /\ \A i \in 1 .. 13 : weights2[i] = 2 + ((13 - i) % 8)
<1>1. weights1 \in Seq(Nat) /\ Len(weights1) = 12
  BY DEF weights1
<1>2. \A i \in 1 .. 12 : weights1[i] = 2 + ((12 - i) % 8)
  BY DEF weights1
<1>3. <<6>> \in Seq(Nat) /\ Len(<<6>>) = 1 /\ <<6>>[1] = 6
  OBVIOUS
<1>4. /\ weights2 \in Seq(Nat) /\ Len(weights2) = 13
      /\ \A i \in 1 .. 13 : weights2[i] = IF i <= 1 THEN 6 ELSE weights1[i - 1]
  <2> DEFINE six == <<6>>
  <2>1. weights2 = six \o weights1
    BY DEF weights2
  <2>2. six \in Seq(Nat) /\ Len(six) = 1 /\ six[1] = 6
    BY <1>3
  <2> HIDE DEF six
  <2>3. /\ weights2 \in Seq(Nat)
        /\ Len(weights2) = Len(six) + Len(weights1)
        /\ \A i \in 1 .. Len(six) + Len(weights1) :
             weights2[i] = IF i <= Len(six) THEN six[i] ELSE weights1[i - Len(six)]
    BY <1>1, <2>1, <2>2, ConcatProperties
  <2>4. Len(six) + Len(weights1) = 13
    BY <1>1, <2>2
  <2>5. \A i \in 1 .. 13 : weights2[i] = IF i <= 1 THEN six[i] ELSE weights1[i - 1]
    BY <2>2, <2>3, <2>4
  <2>6. \A i \in 1 .. 13 : i <= 1 => i = 1
    OBVIOUS
  <2> QED BY <2>2, <2>3, <2>4, <2>5, <2>6
<1>5. \A i \in 1 .. 13 : weights2[i] = 2 + ((13 - i) % 8)
  <2> SUFFICES ASSUME NEW i \in 1 .. 13 PROVE weights2[i] = 2 + ((13 - i) % 8)
    OBVIOUS
  <2>1. CASE i = 1
    BY <1>3, <1>4, <2>1
  <2>2. CASE i \in 2 .. 13
    <3>1. ~(i <= 1) /\ i - 1 \in 1 .. 12 /\ 12 - (i - 1) = 13 - i
      BY <2>2
    <3>2. weights1[i - 1] = 2 + ((12 - (i - 1)) % 8)
      BY <1>2, <3>1
    <3> QED BY <1>4, <3>1, <3>2
  <2> QED BY <2>1, <2>2
<1>6. DOMAIN weights1 = 1 .. 12 /\ DOMAIN weights2 = 1 .. 13
  BY <1>1, <1>4, LenProperties
<1> QED BY <1>2, <1>5, <1>6

LEMMA CNPJIsRead ==
    ASSUME NEW value \in Seq(Nat), Len(value) = 14
    PROVE  /\ value[13] = CNPJDigit(WeightedSum(value, weights1)) <=> IsChecked(value, 13, 9)
           /\ value[14] = CNPJDigit(WeightedSum(value, weights2)) <=> IsChecked(value, 14, 9)
<1>1. ASSUME NEW n \in {13, 14}, NEW w, DOMAIN w = 1 .. n - 1,
             \A i \in 1 .. n - 1 : w[i] = 2 + ((n - 1 - i) % 8)
      PROVE  value[n] = CNPJDigit(WeightedSum(value, w)) <=> IsChecked(value, n, 9)
  <2>1. /\ WeightedSum(value, w) \in Nat
        /\ IsChecked(value, n, 9) <=> IsCheckDigit(value[n], WeightedSum(value, w))
    <3>1. n \in Nat \ {0} /\ 9 \in Nat /\ 9 > 1 /\ 9 - 1 = 8
      OBVIOUS
    <3>2. \A i \in 1 .. n - 1 : value[i] \in Nat
      <4>1. \A i \in 1 .. n - 1 : i \in 1 .. Len(value)
        OBVIOUS
      <4> QED BY <4>1, BytesAtPlaces
    <3>3. \A i \in 1 .. n - 1 : value[i] \in Nat /\ w[i] = 2 + ((n - 1 - i) % (9 - 1))
      BY <1>1, <3>1, <3>2
    <3> QED BY <1>1, <3>1, <3>3, RuleSums
  <2>2. value[n] \in Nat
    <3>1. n \in 1 .. Len(value)
      OBVIOUS
    <3> QED BY <3>1, BytesAtPlaces
  <2> QED BY <2>1, <2>2, CheckDigitsAgree
<1>2. 13 - 1 = 12 /\ 14 - 1 = 13
  OBVIOUS
<1> QED BY <1>1, <1>2, CNPJWeights

LEMMA DocumentsAreRead ==
    ASSUME NEW value \in Seq(Nat)
    PROVE  (isValidCPF(value) \/ isValidCNPJ(value)) <=> IsDocument(value)
<1>1. (\E i, j \in DOMAIN value : value[i] # value[j]) => ~allDigitsEqual(value)
  BY DEF allDigitsEqual
<1>2. Len(value) > 0 /\ ~allDigitsEqual(value) => \E i, j \in DOMAIN value : value[i] # value[j]
  <2>1. Len(value) > 0 => 1 \in DOMAIN value
    OBVIOUS
  <2> QED BY <2>1 DEF allDigitsEqual
<1>3. CASE Len(value) = 11
  <2>1. /\ value[10] = CPFDigit(WeightedSum(value, CPFWeights(9))) <=> IsChecked(value, 10, 11)
        /\ value[11] = CPFDigit(WeightedSum(value, CPFWeights(10))) <=> IsChecked(value, 11, 11)
    <3>1. 10 - 1 = 9 /\ 11 - 1 = 10
      OBVIOUS
    <3> QED BY <1>3, <3>1, CPFIsRead
  <2> QED BY <1>1, <1>2, <1>3, <2>1 DEF isValidCPF, isValidCNPJ, IsDocument
<1>4. CASE Len(value) = 14
  <2>1. /\ value[13] = CNPJDigit(WeightedSum(value, weights1)) <=> IsChecked(value, 13, 9)
        /\ value[14] = CNPJDigit(WeightedSum(value, weights2)) <=> IsChecked(value, 14, 9)
    BY <1>4, CNPJIsRead
  <2> QED BY <1>1, <1>2, <1>4, <2>1 DEF isValidCPF, isValidCNPJ, IsDocument
<1>5. CASE Len(value) \notin {11, 14}
  BY <1>5 DEF isValidCPF, isValidCNPJ, IsDocument
<1> QED BY <1>3, <1>4, <1>5

LEMMA PhonesAreRead ==
    ASSUME NEW value \in Seq(Nat)
    PROVE  Len(National(value)) \in {10, 11} <=> IsPhone(value)
<1>1. Len(value) \in Nat /\ SubSeq(value, 1, 0) = <<>>
  BY SubSeqEmpty
<1>2. Len(<<>>) = 0 /\ Len(<<5, 5>>) = 2
  OBVIOUS
<1>3. IsPhone(value) <=> \/ Len(value) \in {10, 11}
                         \/ Len(value) \in {12, 13} /\ SubSeq(value, 1, 2) = <<5, 5>>
  <2>1. IsPhone(value) <=> \E n \in {10, 11} :
          \/ Len(value) = 0 + n /\ SubSeq(value, 1, 0) = <<>>
          \/ Len(value) = 2 + n /\ SubSeq(value, 1, 2) = <<5, 5>>
    BY <1>2 DEF IsPhone
  <2> QED BY <1>1, <2>1
<1>4. Len(value) \in {12, 13} => Len(SubSeq(value, 3, Len(value))) = Len(value) - 2
  <2> SUFFICES ASSUME Len(value) \in {12, 13}
               PROVE  Len(SubSeq(value, 3, Len(value))) = Len(value) - 2
    OBVIOUS
  <2> DEFINE n == Len(value)
  <2>1. n = 12 \/ n = 13
    OBVIOUS
  <2>2. \A i \in 3 .. n : value[i] \in Nat
    OBVIOUS
  <2> HIDE DEF n
  <2>3. n \in Int /\ 3 <= n /\ n - 3 + 1 = n - 2
    BY <2>1
  <2>4. Len(SubSeq(value, 3, n)) = IF 3 <= n THEN n - 3 + 1 ELSE 0
    BY <2>2, <2>3, SubSeqProperties
  <2> QED BY <2>3, <2>4 DEF n
<1>5. CASE Len(value) \in {12, 13} /\ SubSeq(value, 1, 2) = <<5, 5>>
  <2>1. National(value) = SubSeq(value, 3, Len(value))
    BY <1>5 DEF National
  <2>2. Len(value) - 2 \in {10, 11}
    BY <1>1, <1>5
  <2> QED BY <1>3, <1>4, <1>5, <2>1, <2>2
<1>6. CASE ~(Len(value) \in {12, 13} /\ SubSeq(value, 1, 2) = <<5, 5>>)
  BY <1>3, <1>6 DEF National
<1> QED BY <1>5, <1>6

(* The answer in hand is that of the validator, about a field. *)
IsReading ==
    answer.call = "validate" =>
        /\ answer.text \in Text \cup {<<>>}
        /\ answer.document = validateBRDocument(answer.kind, answer.text)
        /\ answer.phone = validateBRPhone(answer.kind, answer.text)
        /\ answer.zip = validateBRZip(answer.kind, answer.text)

LEMMA ReadingsAreRight == IsReading => TextsAreReadRight
<1> SUFFICES ASSUME IsReading, answer.call = "validate" PROVE TextsAreReadRight
  BY DEF TextsAreReadRight
<1> DEFINE text == answer.text
           value == digitsOnly(text)
           isText == answer.kind = "string"
           places == {i \in DOMAIN text : text[i] \in Digit}
           ascii == \A i \in DOMAIN text : text[i] \notin WideDigit
<1>1. text \in Seq(Digit \cup WideDigit \cup {Mark})
  <2>1. <<>> \in Seq(Digit \cup WideDigit \cup {Mark})
    BY EmptySeq
  <2> QED BY <2>1, ValuesAssumption DEF IsReading
<1>2. /\ answer.document = (isText /\ (value = <<>> \/ isValidCPF(value) \/ isValidCNPJ(value)))
      /\ answer.phone = (isText /\ (value = <<>> \/ Len(National(value)) \in {10, 11}))
      /\ answer.zip = (isText /\ Len(value) = 8)
  BY DEF IsReading, validateBRDocument, validateBRPhone, validateBRZip, stringValue
<1>3. DOMAIN text = 1 .. Len(text)
  BY <1>1, LenProperties
<1> HIDE DEF text
<1>4. value \in Seq(Nat) /\ (ascii => Len(value) = Cardinality(places))
  BY <1>1, <1>3, OnlyDigitsAreKept DEF DigitPlaces
<1> HIDE DEF value, isText, places, ascii
<1>5. /\ (isValidCPF(value) \/ isValidCNPJ(value)) <=> IsDocument(value)
      /\ Len(National(value)) \in {10, 11} <=> IsPhone(value)
  BY <1>4, DocumentsAreRead, PhonesAreRead
<1>6. /\ answer.document <=> isText /\ (value = <<>> \/ IsDocument(value))
      /\ answer.phone <=> isText /\ (value = <<>> \/ IsPhone(value))
      /\ answer.zip <=> isText /\ Len(value) = 8
      /\ ascii => (answer.zip <=> isText /\ Cardinality(places) = 8)
  <2>1. ascii => (Len(value) = 8 <=> Cardinality(places) = 8)
    BY <1>4
  <2> QED BY <1>2, <1>5, <2>1, Zenon
<1> QED BY <1>6, Zenon DEF TextsAreReadRight, value, isText, places, ascii, text

(* For every text of digits, of whatever script, and other characters: it  *)
(* passes as a document exactly if the bytes of its digits carry the check *)
(* digits of the modulus eleven, as a telephone by their number without    *)
(* the country code, as a CEP by their number, which is that of the digits *)
(* if all are of ASCII; a field that is no text never passes               *)
(* (validateBRDocument, validateBRPhone, validateBRZip).                   *)
THEOREM TextsAreRead == Spec => []TextsAreReadRight
<1>1. Init => IsReading
  BY DEF Init, Idle, IsReading
<1>2. IsReading /\ [Next]_answer => IsReading'
  <2> SUFFICES ASSUME IsReading, [Next]_answer PROVE IsReading'
    OBVIOUS
  <2>1. CASE UNCHANGED answer
    BY <2>1 DEF IsReading
  <2>2. CASE Forget
    BY <2>2 DEF Forget, Idle, IsReading
  <2>3. ASSUME NEW list, NEW kind, NEW value, Discount(list, kind, value)
        PROVE  IsReading'
    BY <2>3 DEF Discount, IsReading
  <2>4. ASSUME NEW kind, NEW text \in Text \cup {<<>>}, Validate(kind, text)
        PROVE  IsReading'
    BY <2>4 DEF Validate, IsReading
  <2>5. ASSUME NEW id, NEW generation, NEW values, AskKey(id, generation, values) PROVE IsReading'
    BY <2>5 DEF AskKey, IsReading
  <2>6. CASE Ask
    BY <2>3, <2>4, <2>5, <2>6 DEF Ask
  <2> QED
    BY <2>1, <2>2, <2>6 DEF Next
<1>3. IsReading => TextsAreReadRight
  BY ReadingsAreRight
<1> QED
  BY <1>1, <1>2, <1>3, PTL DEF Spec

-----------------------------------------------------------------------------
(* Keys.  Sorting values is arranging them: sorted, selections are equal    *)
(* exactly if they have the same values.                                   *)

(* Where a value is found. *)
Places(values, x) == {i \in DOMAIN values : values[i] = x}

(* p numbers the n places in S in an order that LexLess does not contradict. *)
Ranks(values, S, n, p) ==
    /\ p \in Bijection(1 .. n, S)
    /\ \A i, j \in 1 .. n : i < j => ~LexLess(values[p[j]], values[p[i]])

(* A sequence has as many places as it is long. *)
LEMMA PlacesAreCounted ==
    ASSUME NEW values \in Seq(Seq(Int))
    PROVE  IsFiniteSet(DOMAIN values) /\ Cardinality(DOMAIN values) = Len(values)
<1>1. DOMAIN values = 1 .. Len(values) /\ Len(values) \in Nat
  OBVIOUS
<1>2. IsFiniteSet(1 .. Len(values)) /\ Cardinality(1 .. Len(values)) = Len(values)
  <2>1. 1 \in Int /\ Len(values) \in Int /\ (1 > Len(values) => Len(values) = 0)
    BY <1>1
  <2>2. Len(values) - 1 + 1 = Len(values)
    BY <1>1
  <2> QED BY <2>1, <2>2, FS_Interval
<1> QED BY <1>1, <1>2

(* LexLess is a strict order of texts. *)
LEMMA LexLessIsOrder ==
    ASSUME NEW r \in Seq(Int), NEW s \in Seq(Int), NEW t \in Seq(Int)
    PROVE  /\ ~LexLess(s, s)
           /\ LexLess(r, s) /\ LexLess(s, t) => LexLess(r, t)
<1>1. ASSUME NEW u \in Seq(Int), NEW v \in Seq(Int)
      PROVE  LexLess(u, v) <=>
               \E i \in 0 .. Len(u) :
                  /\ i < Len(v) /\ \A k \in 1 .. i : u[k] = v[k]
                  /\ i = Len(u) \/ u[i + 1] < v[i + 1]
  <2>1. ASSUME NEW i \in 0 .. Len(u), i < Len(v)
        PROVE  SubSeq(u, 1, i) = SubSeq(v, 1, i) <=> \A k \in 1 .. i : u[k] = v[k]
    <3>1. /\ SubSeq(u, 1, i) = [k \in 1 .. i |-> u[k]]
          /\ SubSeq(v, 1, i) = [k \in 1 .. i |-> v[k]]
      BY <2>1
    <3>2. SubSeq(u, 1, i) = SubSeq(v, 1, i) => \A k \in 1 .. i : u[k] = v[k]
      BY <3>1, Zenon
    <3> QED BY <3>1, <3>2
  <2> QED BY <2>1 DEF LexLess
<1>2. ~LexLess(s, s)
  <2> SUFFICES ASSUME NEW i \in 0 .. Len(s), i < Len(s), i = Len(s) \/ s[i + 1] < s[i + 1]
               PROVE  FALSE
    BY <1>1
  <2>1. i + 1 \in 1 .. Len(s)
    OBVIOUS
  <2> QED BY <2>1
<1>3. ASSUME LexLess(r, s), LexLess(s, t) PROVE LexLess(r, t)
  <2>1. PICK i \in 0 .. Len(r) : /\ i < Len(s) /\ \A k \in 1 .. i : r[k] = s[k]
                                 /\ i = Len(r) \/ r[i + 1] < s[i + 1]
    BY <1>1, <1>3
  <2>2. PICK j \in 0 .. Len(s) : /\ j < Len(t) /\ \A k \in 1 .. j : s[k] = t[k]
                                 /\ j = Len(s) \/ s[j + 1] < t[j + 1]
    BY <1>1, <1>3
  <2>3. CASE i < j
    <3>1. i < Len(t) /\ i + 1 \in 1 .. j /\ \A k \in 1 .. i : r[k] = t[k]
      BY <2>1, <2>2, <2>3
    <3> QED BY <1>1, <2>1, <2>2, <3>1
  <2>4. CASE i = j
    <3>1. i + 1 \in 1 .. Len(s) /\ i + 1 \in 1 .. Len(t) /\ \A k \in 1 .. i : r[k] = t[k]
      BY <2>1, <2>2, <2>4
    <3>2. i = Len(r) \/ r[i + 1] < t[i + 1]
      <4> SUFFICES ASSUME i # Len(r) PROVE r[i + 1] < t[i + 1]
        OBVIOUS
      <4>1. r[i + 1] \in Int /\ s[i + 1] \in Int /\ t[i + 1] \in Int
        BY <3>1
      <4>2. r[i + 1] < s[i + 1]
        BY <2>1
      <4>3. s[i + 1] < t[i + 1]
        BY <2>2, <2>4, <3>1
      <4>4. \A x, y, z \in Int : x < y /\ y < z => x < z
        OBVIOUS
      <4> QED BY <4>1, <4>2, <4>3, <4>4, Zenon
    <3> QED BY <1>1, <2>2, <2>4, <3>1, <3>2
  <2>5. CASE j < i
    <3>0. j \in 0 .. Len(r) /\ j < Len(t) /\ j + 1 \in 1 .. i /\ 1 .. j \subseteq 1 .. i
      BY <2>2, <2>5
    <3>a. \A k \in 1 .. j : r[k] = t[k]
      BY <2>1, <2>2, <3>0
    <3>1. /\ j \in 0 .. Len(r) /\ j < Len(t) /\ \A k \in 1 .. j : r[k] = t[k]
          /\ j + 1 \in 1 .. i
      BY <3>0, <3>a
    <3>2. r[j + 1] < t[j + 1]
      BY <2>1, <2>2, <2>5, <3>1
    <3> QED BY <1>1, <3>1, <3>2
  <2> QED BY <2>3, <2>4, <2>5
<1> QED BY <1>2, <1>3

(* Of finitely many values one is least. *)
LEMMA SomeIsLeast ==
    ASSUME NEW values \in Seq(Seq(Int)), NEW S \in SUBSET DOMAIN values, S # {}
    PROVE  \E m \in S : \A i \in S : ~LexLess(values[i], values[m])
<1> DEFINE Good == {n \in Nat : \A T \in SUBSET DOMAIN values :
                       Cardinality(T) = n + 1
                         => \E m \in T : \A i \in T : ~LexLess(values[i], values[m])}
<1>1. \A T \in SUBSET DOMAIN values : IsFiniteSet(T)
  BY FS_Interval, FS_Subset
<1>2. 0 \in Good
  <2> SUFFICES ASSUME NEW T \in SUBSET DOMAIN values, Cardinality(T) = 0 + 1
               PROVE  \E m \in T : \A i \in T : ~LexLess(values[i], values[m])
    OBVIOUS
  <2>1. PICK m : T = {m}
    <3>1. Cardinality(T) = 1 /\ IsFiniteSet(T)
      BY <1>1
    <3> QED BY <3>1, FS_Singleton
  <2>2. m \in T /\ values[m] \in Seq(Int)
    BY <2>1
  <2> QED BY <2>1, <2>2, LexLessIsOrder
<1>3. ASSUME NEW n \in Nat, n \in Good PROVE n + 1 \in Good
  <2> SUFFICES ASSUME NEW T \in SUBSET DOMAIN values, Cardinality(T) = (n + 1) + 1
               PROVE  \E m \in T : \A i \in T : ~LexLess(values[i], values[m])
    OBVIOUS
  <2> IsFiniteSet(T)
    BY <1>1
  <2>0. T # {}
    <3>1. Cardinality(T) # 0
      OBVIOUS
    <3> QED BY <3>1, FS_EmptySet
  <2>1. PICK x \in T : TRUE
    BY <2>0
  <2>2. Cardinality(T \ {x}) = n + 1 /\ T \ {x} \in SUBSET DOMAIN values
    <3>1. Cardinality(T \ {x}) = Cardinality(T) - 1
      BY <2>1, FS_RemoveElement
    <3> QED BY <3>1
  <2>3. PICK m \in T \ {x} : \A i \in T \ {x} : ~LexLess(values[i], values[m])
    BY <1>3, <2>2
  <2>4. values[x] \in Seq(Int) /\ values[m] \in Seq(Int)
    OBVIOUS
  <2>5. CASE LexLess(values[x], values[m])
    <3>1. ASSUME NEW i \in T PROVE ~LexLess(values[i], values[x])
      <4>1. values[i] \in Seq(Int)
        OBVIOUS
      <4> QED BY <2>3, <2>4, <2>5, <4>1, LexLessIsOrder
    <3> QED BY <3>1
  <2>6. CASE ~LexLess(values[x], values[m])
    BY <2>3, <2>6
  <2> QED BY <2>5, <2>6
<1> HIDE DEF Good
<1>4. Nat \subseteq Good
  BY <1>2, <1>3, Ascend
<1>5. Cardinality(S) \in Nat \ {0}
  BY <1>1, FS_CardinalityType, FS_EmptySet
<1>6. PICK n \in Good : Cardinality(S) = n + 1
  <2>1. Cardinality(S) - 1 \in Nat /\ Cardinality(S) = (Cardinality(S) - 1) + 1
    BY <1>5
  <2> QED BY <1>4, <2>1
<1> QED BY <1>6 DEF Good

(* The places of any values can be put in order. *)
LEMMA PlacesAreRanked ==
    ASSUME NEW values \in Seq(Seq(Int))
    PROVE  \E p : Ranks(values, DOMAIN values, Len(values), p)
<1> DEFINE Good == {n \in Nat : \A S \in SUBSET DOMAIN values :
                       Cardinality(S) = n => \E p : Ranks(values, S, n, p)}
<1>1. \A S \in SUBSET DOMAIN values : IsFiniteSet(S)
  BY FS_Interval, FS_Subset
<1>2. 0 \in Good
  <2> SUFFICES ASSUME NEW S \in SUBSET DOMAIN values, Cardinality(S) = 0
               PROVE  \E p : Ranks(values, S, 0, p)
    OBVIOUS
  <2>1. S = {}
    BY <1>1, FS_EmptySet
  <2>2. Ranks(values, S, 0, [i \in 1 .. 0 |-> i])
    BY <2>1 DEF Ranks, Bijection, Injection, Surjection, IsInjective
  <2> QED BY <2>2
<1>3. ASSUME NEW n \in Nat, n \in Good PROVE n + 1 \in Good
  <2> SUFFICES ASSUME NEW S \in SUBSET DOMAIN values, Cardinality(S) = n + 1
               PROVE  \E p : Ranks(values, S, n + 1, p)
    OBVIOUS
  <2> IsFiniteSet(S)
    BY <1>1
  <2> S # {}
    BY FS_EmptySet
  <2>1. PICK m \in S : \A i \in S : ~LexLess(values[i], values[m])
    BY SomeIsLeast
  <2>2. Cardinality(S \ {m}) = n
    <3>1. Cardinality(S \ {m}) = Cardinality(S) - 1
      BY FS_RemoveElement
    <3> QED BY <3>1
  <2>3. PICK q : Ranks(values, S \ {m}, n, q)
    BY <1>3, <2>2
  <2> DEFINE p == [i \in 1 .. n + 1 |-> IF i = 1 THEN m ELSE q[i - 1]]
  <2>4. /\ q \in [1 .. n -> S \ {m}]
        /\ \A i, j \in 1 .. n : q[i] = q[j] => i = j
        /\ \A x \in S \ {m} : \E i \in 1 .. n : q[i] = x
        /\ \A i, j \in 1 .. n : i < j => ~LexLess(values[q[j]], values[q[i]])
    BY <2>3 DEF Ranks, Bijection, Injection, Surjection, IsInjective
  <2>5. p \in [1 .. n + 1 -> S] /\ p[1] = m /\ \A i \in 1 .. n : p[i + 1] = q[i]
    BY <2>4
  <2>6. \A i \in 1 .. n + 1 : i = 1 \/ (i - 1 \in 1 .. n /\ p[i] = q[i - 1])
    OBVIOUS
  <2> HIDE DEF p
  <2>7. ASSUME NEW i \in 1 .. n + 1, NEW j \in 1 .. n + 1, p[i] = p[j] PROVE i = j
    <3>1. \A k \in 1 .. n : q[k] # m
      BY <2>4
    <3>2. i = 1 <=> j = 1
      BY <2>5, <2>6, <2>7, <3>1
    <3>3. i # 1 => i - 1 = j - 1
      BY <2>4, <2>6, <2>7, <3>2
    <3> QED BY <3>2, <3>3
  <2>8. \A x \in S : \E i \in 1 .. n + 1 : p[i] = x
    <3> TAKE x \in S
    <3>1. CASE x = m
      BY <2>5, <3>1
    <3>2. CASE x # m
      <4>1. PICK i \in 1 .. n : q[i] = x
        BY <2>4, <3>2
      <4> QED BY <2>5, <4>1
    <3> QED BY <3>1, <3>2
  <2>9. ASSUME NEW i \in 1 .. n + 1, NEW j \in 1 .. n + 1, i < j
        PROVE  ~LexLess(values[p[j]], values[p[i]])
    <3>1. CASE i = 1
      BY <2>1, <2>5, <3>1
    <3>2. CASE i # 1
      <4>1. i - 1 \in 1 .. n /\ j - 1 \in 1 .. n /\ i - 1 < j - 1
        BY <2>9, <3>2
      <4>2. p[i] = q[i - 1] /\ p[j] = q[j - 1]
        BY <2>6, <2>9, <3>2
      <4> QED BY <2>4, <4>1, <4>2
    <3> QED BY <3>1, <3>2
  <2>10. Ranks(values, S, n + 1, p)
    BY <2>5, <2>7, <2>8, <2>9 DEF Ranks, Bijection, Injection, Surjection, IsInjective
  <2> QED BY <2>10
<1> HIDE DEF Good
<1>4. Nat \subseteq Good
  BY <1>2, <1>3, Ascend
<1>5. Cardinality(DOMAIN values) = Len(values)
  BY PlacesAreCounted
<1> QED BY <1>4, <1>5 DEF Good

(* Sorting values is arranging them anew. *)
LEMMA SortingArranges ==
    ASSUME NEW values \in Seq(Seq(Int))
    PROVE  Sorted(values) \in Arrangements(values)
<1>1. PICK p : Ranks(values, DOMAIN values, Len(values), p)
  BY PlacesAreRanked
<1> DEFINE s == [i \in DOMAIN values |-> values[p[i]]]
<1>2. p \in Bijection(DOMAIN values, DOMAIN values) /\ DOMAIN s = 1 .. Len(values)
  BY <1>1 DEF Ranks
<1>3. s \in Arrangements(values)
  BY <1>2 DEF Arrangements
<1>4. \A i, j \in DOMAIN s : i < j => ~LexLess(s[j], s[i])
  BY <1>1, <1>2 DEF Ranks
<1> HIDE DEF s
<1> QED BY <1>3, <1>4 DEF Sorted

(* An arrangement has each value as often. *)
LEMMA ArrangementsKeepCounts ==
    ASSUME NEW values \in Seq(Seq(Int)), NEW s \in Arrangements(values), NEW x
    PROVE  /\ s \in Seq(Seq(Int)) /\ ToSet(s) = ToSet(values)
           /\ Cardinality(Places(s, x)) = Cardinality(Places(values, x))
<1>1. PICK p \in Bijection(DOMAIN values, DOMAIN values) :
        s = [i \in DOMAIN values |-> values[p[i]]]
  BY DEF Arrangements
<1>2. /\ p \in [DOMAIN values -> DOMAIN values]
      /\ \A i, j \in DOMAIN values : p[i] = p[j] => i = j
      /\ \A y \in DOMAIN values : \E i \in DOMAIN values : p[i] = y
  BY DEF Bijection, Injection, Surjection, IsInjective
<1>3. s \in Seq(Seq(Int))
  <2>1. s \in [1 .. Len(values) -> Seq(Int)]
    BY <1>1, <1>2
  <2>2. Len(values) \in Nat
    OBVIOUS
  <2>3. s \in UNION {[1 .. n -> Seq(Int)] : n \in Nat}
    BY <2>1, <2>2
  <2> QED BY <2>3, SeqDef, Zenon
<1>4. ToSet(s) = ToSet(values)
  <2>1. DOMAIN s = DOMAIN values /\ \A i \in DOMAIN s : s[i] = values[p[i]]
    BY <1>1
  <2>2. \A i \in DOMAIN values : p[i] \in DOMAIN values
    BY <1>2
  <2>3. \A y \in DOMAIN values : \E i \in DOMAIN s : s[i] = values[y]
    BY <1>2, <2>1
  <2>4. \A i \in DOMAIN s : \E y \in DOMAIN values : s[i] = values[y]
    BY <2>1, <2>2
  <2> QED BY <2>3, <2>4 DEF ToSet
<1> DEFINE b == [i \in Places(s, x) |-> p[i]]
<1>5. b \in Bijection(Places(s, x), Places(values, x))
  BY <1>1, <1>2 DEF Places, Bijection, Injection, Surjection, IsInjective
<1>6. IsFiniteSet(Places(s, x))
  <2>1. IsFiniteSet(DOMAIN s) /\ Places(s, x) \in SUBSET DOMAIN s
    BY <1>3, FS_Interval DEF Places
  <2> QED BY <2>1, FS_Subset
<1>7. Cardinality(Places(values, x)) = Cardinality(Places(s, x))
  BY <1>5, <1>6, FS_Bijection DEF ExistsBijection
<1> QED BY <1>3, <1>4, <1>7

(* Sequences have the same values if they have each of them at as many     *)
(* places.                                                                 *)
LEMMA SameValuesIsCounting ==
    ASSUME NEW v \in Seq(Seq(Int)), NEW w \in Seq(Seq(Int))
    PROVE  SameValues(v, w) <=>
             \A x \in ToSet(v) \cup ToSet(w) :
                 Cardinality(Places(v, x)) = Cardinality(Places(w, x))
BY DEF SameValues, Places

(* Sequences with the same values are arrangements of each other.          *)
LEMMA SameValuesAreArranged ==
    ASSUME NEW v \in Seq(Seq(Int)), NEW w \in Seq(Seq(Int)), SameValues(v, w)
    PROVE  Arrangements(v) \subseteq Arrangements(w)
<1> DEFINE X == ToSet(v) \cup ToSet(w)
<1>1. \A x : IsFiniteSet(Places(v, x)) /\ IsFiniteSet(Places(w, x))
  <2>1. IsFiniteSet(DOMAIN v) /\ IsFiniteSet(DOMAIN w)
    BY FS_Interval
  <2>2. \A x : Places(v, x) \in SUBSET DOMAIN v /\ Places(w, x) \in SUBSET DOMAIN w
    BY DEF Places
  <2> QED BY <2>1, <2>2, FS_Subset
<1>2. \A x \in X : \E b : b \in Bijection(Places(v, x), Places(w, x))
  <2> TAKE x \in X
  <2>1. Cardinality(Places(v, x)) = Cardinality(Places(w, x))
    BY SameValuesIsCounting
  <2> QED BY <1>1, <2>1, FS_SameCardinalityBij DEF ExistsBijection
<1> DEFINE b == [x \in X |-> CHOOSE b : b \in Bijection(Places(v, x), Places(w, x))]
           p == [i \in DOMAIN v |-> b[v[i]][i]]
<1>3. \A x \in X : b[x] \in Bijection(Places(v, x), Places(w, x))
  BY <1>2
<1> HIDE DEF b
<1>4. \A x \in X :
        /\ b[x] \in [Places(v, x) -> Places(w, x)]
        /\ \A i, j \in Places(v, x) : b[x][i] = b[x][j] => i = j
        /\ \A y \in Places(w, x) : \E i \in Places(v, x) : b[x][i] = y
  BY <1>3 DEF Bijection, Injection, Surjection, IsInjective
<1>5. \A i \in DOMAIN v : v[i] \in X /\ i \in Places(v, v[i])
  BY DEF ToSet, Places
<1>6. \A i \in DOMAIN v : p[i] \in DOMAIN w /\ w[p[i]] = v[i]
  <2> TAKE i \in DOMAIN v
  <2>1. b[v[i]][i] \in Places(w, v[i])
    BY <1>4, <1>5
  <2> QED BY <2>1 DEF Places
<1>7. \A i, j \in DOMAIN v : p[i] = p[j] => i = j
  <2> SUFFICES ASSUME NEW i \in DOMAIN v, NEW j \in DOMAIN v, p[i] = p[j] PROVE i = j
    OBVIOUS
  <2>1. v[i] = v[j]
    BY <1>6
  <2> QED BY <1>4, <1>5, <2>1
<1>8. \A y \in DOMAIN w : \E i \in DOMAIN v : p[i] = y
  <2> TAKE y \in DOMAIN w
  <2>1. w[y] \in X /\ y \in Places(w, w[y])
    BY DEF ToSet, Places
  <2>2. PICK i \in Places(v, w[y]) : b[w[y]][i] = y
    BY <1>4, <2>1
  <2> QED BY <2>2 DEF Places
<1>9. p \in [DOMAIN v -> DOMAIN w]
  BY <1>6
<1> HIDE DEF p
<1>10. DOMAIN v = DOMAIN w
  <2>1. p \in Bijection(DOMAIN v, DOMAIN w)
    BY <1>7, <1>8, <1>9 DEF Bijection, Injection, Surjection, IsInjective
  <2>2. IsFiniteSet(DOMAIN v) /\ Cardinality(DOMAIN v) = Len(v) /\ Cardinality(DOMAIN w) = Len(w)
    BY PlacesAreCounted
  <2>3. Cardinality(DOMAIN w) = Cardinality(DOMAIN v)
    BY <2>1, <2>2, FS_Bijection DEF ExistsBijection
  <2> QED BY <2>2, <2>3
<1>11. ASSUME NEW s \in Arrangements(v) PROVE s \in Arrangements(w)
  <2>1. PICK q \in Bijection(DOMAIN v, DOMAIN v) : s = [i \in DOMAIN v |-> v[q[i]]]
    BY DEF Arrangements
  <2>2. /\ q \in [DOMAIN v -> DOMAIN v]
        /\ \A i, j \in DOMAIN v : q[i] = q[j] => i = j
        /\ \A y \in DOMAIN v : \E i \in DOMAIN v : q[i] = y
    BY DEF Bijection, Injection, Surjection, IsInjective
  <2> DEFINE r == [i \in DOMAIN w |-> p[q[i]]]
  <2>3. r \in Bijection(DOMAIN w, DOMAIN w)
    <3>1. r \in [DOMAIN w -> DOMAIN w]
      BY <1>9, <1>10, <2>2
    <3>2. \A i, j \in DOMAIN w : r[i] = r[j] => i = j
      BY <1>7, <1>10, <2>2
    <3>3. \A y \in DOMAIN w : \E i \in DOMAIN w : r[i] = y
      <4> TAKE y \in DOMAIN w
      <4>1. PICK k \in DOMAIN v : p[k] = y
        BY <1>8
      <4>2. PICK i \in DOMAIN v : q[i] = k
        BY <2>2
      <4> QED BY <1>10, <4>1, <4>2
    <3> HIDE DEF r
    <3> QED BY <3>1, <3>2, <3>3 DEF Bijection, Injection, Surjection, IsInjective
  <2>4. s = [i \in DOMAIN w |-> w[r[i]]]
    BY <1>6, <1>10, <2>1, <2>2
  <2> HIDE DEF r
  <2> QED BY <2>3, <2>4 DEF Arrangements
<1> QED BY <1>11

(* Sorting forgets the order of the values and nothing else (WithSet).     *)
LEMMA SortedTellsValues ==
    ASSUME NEW v \in Seq(Seq(Int)), NEW w \in Seq(Seq(Int))
    PROVE  Sorted(v) = Sorted(w) <=> SameValues(v, w)
<1>1. ASSUME Sorted(v) = Sorted(w) PROVE SameValues(v, w)
  <2> DEFINE s == Sorted(v)
  <2>1. s \in Arrangements(v) /\ s \in Arrangements(w)
    BY <1>1, SortingArranges
  <2> HIDE DEF s
  <2>2. ASSUME NEW x PROVE Cardinality(Places(v, x)) = Cardinality(Places(w, x))
    <3>1. Cardinality(Places(s, x)) = Cardinality(Places(v, x))
      BY <2>1, ArrangementsKeepCounts
    <3>2. Cardinality(Places(s, x)) = Cardinality(Places(w, x))
      BY <2>1, ArrangementsKeepCounts
    <3> QED BY <3>1, <3>2
  <2> QED BY <2>2, SameValuesIsCounting
<1>2. ASSUME SameValues(v, w) PROVE Sorted(v) = Sorted(w)
  <2>1. SameValues(w, v)
    BY <1>2, SameValuesIsCounting
  <2>2. Arrangements(v) = Arrangements(w)
    <3>1. Arrangements(v) \subseteq Arrangements(w)
      BY <1>2, SameValuesAreArranged
    <3>2. Arrangements(w) \subseteq Arrangements(v)
      BY <2>1, SameValuesAreArranged
    <3> QED BY <3>1, <3>2
  <2> QED BY <2>2 DEF Sorted
<1> QED BY <1>1, <1>2

-----------------------------------------------------------------------------
(* Joined texts are told by the last separator.                            *)

(* How FlattenSeq puts the texts of s one behind the other. *)
Flattens(f, s) ==
    f = [i \in 1 .. Len(s) |-> IF i = 1 THEN s[i] ELSE f[i - 1] \o s[i]]

(* The same for the first n texts. *)
FlattensTo(f, s, n) ==
    /\ f \in [1 .. n -> Seq(Int)]
    /\ \A i \in 1 .. n : f[i] = IF i = 1 THEN s[i] ELSE f[i - 1] \o s[i]

(* The recursion by which FlattenSeq puts texts together has a solution. *)
LEMMA FlatteningsExist ==
    ASSUME NEW s \in Seq(Seq(Int))
    PROVE  \E f : Flattens(f, s) /\ f \in [1 .. Len(s) -> Seq(Int)]
<1> DEFINE Good == {n \in Nat : n <= Len(s) => \E f : FlattensTo(f, s, n)}
<1>1. 0 \in Good
  <2>1. FlattensTo([i \in 1 .. 0 |-> <<>>], s, 0)
    BY DEF FlattensTo
  <2> QED BY <2>1
<1>2. ASSUME NEW n \in Nat, n \in Good PROVE n + 1 \in Good
  <2> SUFFICES ASSUME n + 1 <= Len(s) PROVE \E f : FlattensTo(f, s, n + 1)
    OBVIOUS
  <2>1. PICK g : FlattensTo(g, s, n)
    BY <1>2
  <2>2. /\ g \in [1 .. n -> Seq(Int)] /\ s[n + 1] \in Seq(Int)
        /\ \A i \in 1 .. n : g[i] = IF i = 1 THEN s[i] ELSE g[i - 1] \o s[i]
    <3>1. n + 1 \in 1 .. Len(s)
      OBVIOUS
    <3> QED BY <2>1, <3>1, ElementOfSeq DEF FlattensTo
  <2> DEFINE last == IF n = 0 THEN s[1] ELSE g[n] \o s[n + 1]
             f == [i \in 1 .. n + 1 |-> IF i = n + 1 THEN last ELSE g[i]]
  <2>3. last \in Seq(Int)
    <3>1. n # 0 => g[n] \in Seq(Int)
      BY <2>2
    <3> QED BY <2>2, <3>1
  <2>4. f[n + 1] = last /\ \A i \in 1 .. n : f[i] = g[i]
    <3> HIDE DEF last
    <3>1. n + 1 \in 1 .. n + 1 /\ \A i \in 1 .. n : i \in 1 .. n + 1 /\ i # n + 1
      OBVIOUS
    <3> QED BY <3>1
  <2>5. f \in [1 .. n + 1 -> Seq(Int)]
    <3>1. \A i \in 1 .. n + 1 : i \in 1 .. n \/ i = n + 1
      OBVIOUS
    <3>2. \A i \in 1 .. n + 1 : f[i] \in Seq(Int)
      <4> HIDE DEF f, last
      <4> QED BY <2>2, <2>3, <2>4, <3>1
    <3> QED BY <3>2
  <2> HIDE DEF f
  <2>6. ASSUME NEW i \in 1 .. n + 1
        PROVE  f[i] = IF i = 1 THEN s[i] ELSE f[i - 1] \o s[i]
    <3>1. CASE i = n + 1
      <4>1. CASE n = 0
        BY <2>4, <3>1, <4>1
      <4>2. CASE n # 0
        <5>1. f[i - 1] = g[n] /\ i # 1
          BY <2>4, <3>1, <4>2
        <5> QED BY <2>4, <3>1, <4>2, <5>1
      <4> QED BY <4>1, <4>2
    <3>2. CASE i # n + 1
      <4>1. i \in 1 .. n /\ (i = 1 \/ i - 1 \in 1 .. n)
        BY <3>2
      <4>2. f[i] = g[i] /\ (i = 1 \/ f[i - 1] = g[i - 1])
        BY <2>4, <4>1
      <4>3. g[i] = IF i = 1 THEN s[i] ELSE g[i - 1] \o s[i]
        BY <2>2, <4>1
      <4> QED BY <4>2, <4>3
    <3> QED BY <3>1, <3>2
  <2>7. FlattensTo(f, s, n + 1)
    BY <2>5, <2>6 DEF FlattensTo
  <2> QED BY <2>7
<1>3. Len(s) \in Good
  <2>1. Len(s) \in Nat
    OBVIOUS
  <2> HIDE DEF Good
  <2> QED BY <1>1, <1>2, <2>1, Ascend
<1>4. PICK f : FlattensTo(f, s, Len(s))
  BY <1>3
<1>5. Flattens(f, s)
  BY <1>4 DEF FlattensTo, Flattens
<1> QED BY <1>4, <1>5 DEF FlattensTo

(* The first n texts of s are those of t. *)
StartAlike(s, t, n) ==
    n <= Len(s) /\ n <= Len(t) /\ \A i \in 1 .. n : s[i] = t[i]

(* Sequences that start alike are put together alike as far as they do. *)
LEMMA FlatteningsAgree ==
    ASSUME NEW s \in Seq(Seq(Int)), NEW t \in Seq(Seq(Int)), NEW f, NEW g,
           Flattens(f, s), Flattens(g, t), NEW n \in Nat, StartAlike(s, t, n)
    PROVE  \A i \in 1 .. n : f[i] = g[i]
<1> USE DEF StartAlike
<1> DEFINE Good == {k \in Nat : k \in 1 .. n => f[k] = g[k]}
<1>1. /\ \A i \in 1 .. Len(s) : f[i] = IF i = 1 THEN s[i] ELSE f[i - 1] \o s[i]
      /\ \A i \in 1 .. Len(t) : g[i] = IF i = 1 THEN t[i] ELSE g[i - 1] \o t[i]
  BY DEF Flattens
<1>2. 0 \in Good
  OBVIOUS
<1>3. ASSUME NEW k \in Nat, k \in Good PROVE k + 1 \in Good
  <2> SUFFICES ASSUME k + 1 \in 1 .. n PROVE f[k + 1] = g[k + 1]
    OBVIOUS
  <2>1. k + 1 \in 1 .. Len(s) /\ k + 1 \in 1 .. Len(t) /\ s[k + 1] = t[k + 1]
    OBVIOUS
  <2>2. CASE k = 0
    BY <1>1, <2>1, <2>2
  <2>3. CASE k # 0
    <3>1. f[k] = g[k]
      BY <1>3, <2>3
    <3>2. k + 1 # 1 /\ (k + 1) - 1 = k
      BY <2>3
    <3>3. f[k + 1] = IF k + 1 = 1 THEN s[k + 1] ELSE f[(k + 1) - 1] \o s[k + 1]
      BY <1>1, <2>1, Zenon
    <3>4. g[k + 1] = IF k + 1 = 1 THEN t[k + 1] ELSE g[(k + 1) - 1] \o t[k + 1]
      BY <1>1, <2>1, Zenon
    <3> QED BY <2>1, <3>1, <3>2, <3>3, <3>4, Zenon
  <2> QED BY <2>2, <2>3
<1> HIDE DEF Good
<1>4. Nat \subseteq Good
  BY <1>2, <1>3, Ascend
<1> QED BY <1>4 DEF Good

(* What FlattenSeq gives for one more text. *)
LEMMA FlattenGrows ==
    ASSUME NEW s \in Seq(Seq(Int)), NEW t \in Seq(Int)
    PROVE  /\ FlattenSeq(<<>>) = <<>>
           /\ FlattenSeq(s) \in Seq(Int)
           /\ FlattenSeq(Append(s, t)) = IF s = <<>> THEN t ELSE FlattenSeq(s) \o t
<1>1. ASSUME NEW u \in Seq(Seq(Int)), u # <<>>
      PROVE  \E f : /\ Flattens(f, u) /\ FlattenSeq(u) = f[Len(u)]
                    /\ f[Len(u)] \in Seq(Int)
  <2> DEFINE f == CHOOSE f : Flattens(f, u)
  <2>1. PICK g : Flattens(g, u) /\ g \in [1 .. Len(u) -> Seq(Int)]
    BY FlatteningsExist
  <2>2. Flattens(f, u)
    BY <2>1
  <2>3. FlattenSeq(u) = f[Len(u)]
    <3>1. Len(u) # 0
      BY <1>1
    <3> QED BY <3>1 DEF FlattenSeq, Flattens
  <2> HIDE DEF f
  <2>4. f[Len(u)] = g[Len(u)]
    <3>1. Len(u) \in Nat /\ Len(u) \in 1 .. Len(u) /\ StartAlike(u, u, Len(u))
      BY <1>1 DEF StartAlike
    <3>2. \A i \in 1 .. Len(u) : f[i] = g[i]
      BY <2>1, <2>2, <3>1, FlatteningsAgree
    <3> QED BY <3>1, <3>2
  <2>5. g[Len(u)] \in Seq(Int)
    <3>1. Len(u) \in 1 .. Len(u)
      BY <1>1
    <3> QED BY <2>1, <3>1
  <2> QED BY <2>2, <2>3, <2>4, <2>5
<1>2. FlattenSeq(<<>>) = <<>>
  BY DEF FlattenSeq
<1>3. FlattenSeq(s) \in Seq(Int)
  <2>1. CASE s = <<>>
    BY <1>2, <2>1, EmptySeq
  <2>2. CASE s # <<>>
    BY <1>1, <2>2
  <2> QED BY <2>1, <2>2
<1>a. PICK a : a = Append(s, t)
  OBVIOUS
<1>4. /\ a \in Seq(Seq(Int)) /\ a # <<>> /\ Len(a) = Len(s) + 1 /\ Len(s) \in Nat
      /\ a[Len(s) + 1] = t /\ \A i \in 1 .. Len(s) : s[i] = a[i]
  BY <1>a, AppendProperties, LenProperties
<1>5. PICK g : Flattens(g, a) /\ FlattenSeq(a) = g[Len(s) + 1]
  BY <1>1, <1>4
<1>6. g[Len(s) + 1] = IF Len(s) + 1 = 1 THEN t ELSE g[Len(s)] \o t
  <2>1. Len(s) + 1 \in 1 .. Len(a) /\ (Len(s) + 1) - 1 = Len(s)
    BY <1>4
  <2>2. \A i \in 1 .. Len(a) : g[i] = IF i = 1 THEN a[i] ELSE g[i - 1] \o a[i]
    BY <1>5 DEF Flattens
  <2>3. g[Len(s) + 1] = IF Len(s) + 1 = 1 THEN a[Len(s) + 1]
                        ELSE g[(Len(s) + 1) - 1] \o a[Len(s) + 1]
    BY <2>1, <2>2, Zenon
  <2> QED BY <1>4, <2>1, <2>3
<1>7. CASE s = <<>>
  BY <1>a, <1>2, <1>3, <1>5, <1>6, <1>7
<1>8. CASE s # <<>>
  <2>1. PICK f : Flattens(f, s) /\ FlattenSeq(s) = f[Len(s)]
    BY <1>1, <1>8
  <2>2. Len(s) \in 1 .. Len(s)
    BY <1>8
  <2>3. \A i \in 1 .. Len(s) : f[i] = g[i]
    <3>1. StartAlike(s, a, Len(s))
      BY <1>4 DEF StartAlike
    <3> QED BY <1>4, <1>5, <2>1, <3>1, FlatteningsAgree
  <2>4. FlattenSeq(a) = FlattenSeq(s) \o t
    <3>1. Len(s) + 1 # 1
      BY <2>2
    <3> QED BY <1>5, <1>6, <2>1, <2>2, <2>3, <3>1
  <2> QED BY <1>a, <1>2, <1>3, <1>8, <2>4
<1> QED BY <1>7, <1>8

(* The texts with the separators between them. *)
Pieces(texts, c) ==
    [i \in DOMAIN texts |-> IF i = 1 THEN texts[i] ELSE <<c>> \o texts[i]]

(* The pieces of one more text are one more piece. *)
LEMMA PiecesGrow ==
    ASSUME NEW s \in Seq(Seq(Int)), NEW t \in Seq(Int), NEW c \in Int
    PROVE  /\ Pieces(s, c) \in Seq(Seq(Int)) /\ Len(Pieces(s, c)) = Len(s)
           /\ Pieces(Append(s, t), c)
                = Append(Pieces(s, c), IF s = <<>> THEN t ELSE <<c>> \o t)
<1>1. ASSUME NEW u \in Seq(Seq(Int))
      PROVE  /\ Pieces(u, c) \in Seq(Seq(Int)) /\ Len(Pieces(u, c)) = Len(u)
             /\ \A i \in 1 .. Len(u) :
                    Pieces(u, c)[i] = IF i = 1 THEN u[i] ELSE <<c>> \o u[i]
  <2>1. DOMAIN u = 1 .. Len(u) /\ Len(u) \in Nat /\ \A i \in 1 .. Len(u) : u[i] \in Seq(Int)
    BY LenProperties, ElementOfSeq
  <2>2. \A i \in 1 .. Len(u) : (IF i = 1 THEN u[i] ELSE <<c>> \o u[i]) \in Seq(Int)
    BY <2>1
  <2>3. Pieces(u, c) \in [1 .. Len(u) -> Seq(Int)]
    BY <2>1, <2>2 DEF Pieces
  <2>4. Pieces(u, c) \in UNION {[1 .. n -> Seq(Int)] : n \in Nat}
    BY <2>1, <2>3
  <2>5. Pieces(u, c) \in Seq(Seq(Int))
    BY <2>4, SeqDef, Zenon
  <2>6. \A i \in 1 .. Len(u) : Pieces(u, c)[i] = IF i = 1 THEN u[i] ELSE <<c>> \o u[i]
    BY <2>1 DEF Pieces
  <2>7. Len(Pieces(u, c)) = Len(u)
    BY <2>1, <2>3, <2>5, LenProperties
  <2> QED BY <2>5, <2>6, <2>7
<1>2. PICK a : a = Append(s, t)
  OBVIOUS
<1>3. /\ a \in Seq(Seq(Int)) /\ Len(a) = Len(s) + 1 /\ Len(s) \in Nat
      /\ a[Len(s) + 1] = t /\ \A i \in 1 .. Len(s) : a[i] = s[i]
  BY <1>2, AppendProperties, LenProperties
<1>4. PICK x \in Seq(Int) : x = IF s = <<>> THEN t ELSE <<c>> \o t
  <2>1. <<c>> \o t \in Seq(Int)
    OBVIOUS
  <2> QED BY <2>1
<1>5. PICK b : b = Append(Pieces(s, c), x)
  OBVIOUS
<1>6. /\ b \in Seq(Seq(Int)) /\ Len(b) = Len(s) + 1
      /\ b[Len(s) + 1] = x /\ \A i \in 1 .. Len(s) : b[i] = Pieces(s, c)[i]
  <2>1. Pieces(s, c) \in Seq(Seq(Int)) /\ Len(Pieces(s, c)) = Len(s)
    BY <1>1
  <2> QED BY <1>5, <2>1, AppendProperties
<1>7. Pieces(a, c) = b
  <2>1. Pieces(a, c) \in Seq(Seq(Int)) /\ Len(Pieces(a, c)) = Len(s) + 1
    BY <1>1, <1>3
  <2>2. ASSUME NEW i \in 1 .. Len(s) + 1 PROVE Pieces(a, c)[i] = b[i]
    <3>1. Pieces(a, c)[i] = IF i = 1 THEN a[i] ELSE <<c>> \o a[i]
      BY <1>1, <1>3
    <3>2. CASE i = Len(s) + 1
      <4>1. i = 1 <=> s = <<>>
        BY <1>3, <3>2, EmptySeq
      <4> QED BY <1>3, <1>4, <1>6, <3>1, <3>2, <4>1
    <3>3. CASE i # Len(s) + 1
      <4>1. i \in 1 .. Len(s)
        BY <1>3, <3>3
      <4>2. Pieces(s, c)[i] = IF i = 1 THEN s[i] ELSE <<c>> \o s[i]
        BY <1>1, <4>1
      <4> QED BY <1>3, <1>6, <3>1, <4>1, <4>2
    <3> QED BY <3>2, <3>3
  <2> QED BY <1>6, <2>1, <2>2, SeqEqual
<1> QED BY <1>1, <1>2, <1>4, <1>5, <1>7

(* What Join gives for one more text. *)
LEMMA JoinGrows ==
    ASSUME NEW s \in Seq(Seq(Int)), NEW t \in Seq(Int), NEW c \in Int
    PROVE  /\ Join(<<>>, c) = <<>>
           /\ Join(s, c) \in Seq(Int)
           /\ Join(Append(s, t), c) = IF s = <<>> THEN t ELSE Join(s, c) \o (<<c>> \o t)
<1>1. \A u \in Seq(Seq(Int)) : Join(u, c) = FlattenSeq(Pieces(u, c))
  BY DEF Join, Pieces
<1>2. /\ Pieces(s, c) \in Seq(Seq(Int)) /\ Len(Pieces(s, c)) = Len(s)
      /\ Pieces(Append(s, t), c)
           = Append(Pieces(s, c), IF s = <<>> THEN t ELSE <<c>> \o t)
  BY PiecesGrow
<1>3. Join(<<>>, c) = <<>>
  <2>1. <<>> \in Seq(Seq(Int)) /\ Len(<<>>) = 0
    BY EmptySeq
  <2>2. Pieces(<<>>, c) \in Seq(Seq(Int)) /\ Len(Pieces(<<>>, c)) = 0
    BY <2>1, PiecesGrow
  <2>3. Pieces(<<>>, c) = <<>>
    BY <2>2, EmptySeq
  <2> QED BY <1>1, <2>1, <2>3, FlattenGrows
<1>4. Join(s, c) \in Seq(Int)
  BY <1>1, <1>2, FlattenGrows
<1>5. s = <<>> <=> Pieces(s, c) = <<>>
  BY <1>2, EmptySeq
<1>6. PICK x \in Seq(Int) : x = IF s = <<>> THEN t ELSE <<c>> \o t
  <2>1. <<c>> \o t \in Seq(Int)
    OBVIOUS
  <2> QED BY <2>1
<1>7. FlattenSeq(Append(Pieces(s, c), x))
        = IF Pieces(s, c) = <<>> THEN x ELSE FlattenSeq(Pieces(s, c)) \o x
  BY <1>2, FlattenGrows
<1>8. Append(s, t) \in Seq(Seq(Int))
  BY AppendProperties
<1>9. Join(Append(s, t), c) = IF s = <<>> THEN t ELSE Join(s, c) \o (<<c>> \o t)
  BY <1>1, <1>2, <1>5, <1>6, <1>7, <1>8
<1> QED BY <1>3, <1>4, <1>9

(* The texts without the character c. *)
Without(c) == {t \in Seq(Int) : c \notin ToSet(t)}

(* A text without a character has it at no place. *)
LEMMA WithoutIsEverywhere ==
    ASSUME NEW c, NEW t \in Seq(Int)
    PROVE  t \in Without(c) <=> \A i \in 1 .. Len(t) : t[i] # c
BY DEF Without, ToSet

(* w is s, the character c and u. *)
Splits(w, s, c, u) ==
    /\ w \in Seq(Int) /\ s \in Seq(Int) /\ u \in Seq(Int)
    /\ Len(w) = Len(s) + 1 + Len(u) /\ w[Len(s) + 1] = c
    /\ \A i \in 1 .. Len(s) : w[i] = s[i]
    /\ \A i \in 1 .. Len(u) : w[Len(s) + 1 + i] = u[i]

(* A text put together of two parts and a separator is split by them. *)
LEMMA PartsSplit ==
    ASSUME NEW s \in Seq(Int), NEW c \in Int, NEW u \in Seq(Int)
    PROVE  Splits(s \o (<<c>> \o u), s, c, u)
<1>1. PICK d : d = <<c>> \o u
  OBVIOUS
<1>2. /\ d \in Seq(Int) /\ Len(d) = 1 + Len(u) /\ Len(u) \in Nat /\ Len(s) \in Nat
      /\ d[1] = c /\ \A i \in 1 .. Len(u) : d[1 + i] = u[i]
  BY <1>1
<1>3. PICK w : w = s \o d
  OBVIOUS
<1>4. /\ w \in Seq(Int) /\ Len(w) = Len(s) + Len(d)
      /\ \A i \in 1 .. Len(s) + Len(d) : w[i] = IF i <= Len(s) THEN s[i] ELSE d[i - Len(s)]
  <2>1. d \in Seq(Int)
    BY <1>2
  <2>2. /\ s \o d \in Seq(Int) /\ Len(s \o d) = Len(s) + Len(d)
        /\ \A i \in 1 .. Len(s) + Len(d) :
               (s \o d)[i] = IF i <= Len(s) THEN s[i] ELSE d[i - Len(s)]
    BY <2>1, ConcatProperties, Zenon
  <2> QED BY <1>3, <2>2, Zenon
<1>5. w[Len(s) + 1] = c
  <2>1. Len(s) + 1 \in 1 .. Len(s) + Len(d) /\ (Len(s) + 1) - Len(s) = 1 /\ ~(Len(s) + 1 <= Len(s))
    BY <1>2
  <2> QED BY <1>2, <1>4, <2>1
<1>6. ASSUME NEW i \in 1 .. Len(s) PROVE w[i] = s[i]
  <2>1. i \in 1 .. Len(s) + Len(d) /\ i <= Len(s)
    BY <1>2
  <2> QED BY <1>4, <2>1
<1>7. ASSUME NEW i \in 1 .. Len(u) PROVE w[Len(s) + 1 + i] = u[i]
  <2>1. /\ Len(s) + 1 + i \in 1 .. Len(s) + Len(d)
        /\ (Len(s) + 1 + i) - Len(s) = 1 + i /\ ~(Len(s) + 1 + i <= Len(s))
    <3>1. \A k, l \in Nat : \A n \in 1 .. l :
            /\ k + 1 + n \in 1 .. k + (1 + l)
            /\ (k + 1 + n) - k = 1 + n /\ ~(k + 1 + n <= k)
      OBVIOUS
    <3> QED BY <1>2, <3>1, Zenon
  <2> QED BY <1>2, <1>4, <2>1
<1>8. Splits(w, s, c, u)
  BY <1>2, <1>4, <1>5, <1>6, <1>7 DEF Splits
<1> QED BY <1>1, <1>3, <1>8

(* The last part has no separator, so that no other split begins later.    *)
LEMMA SplitIsLast ==
    ASSUME NEW w, NEW c, NEW s, NEW t, NEW u \in Without(c), NEW v,
           Splits(w, s, c, u), Splits(w, t, c, v)
    PROVE  Len(t) <= Len(s)
<1>1. PICK m \in Nat, n \in Nat, k \in Nat, l \in Nat :
        m = Len(s) /\ n = Len(t) /\ k = Len(u) /\ l = Len(v)
  BY DEF Splits
<1>2. \A i \in 1 .. k : u[i] # c
  BY <1>1, WithoutIsEverywhere DEF Splits
<1>3. /\ m + 1 + k = n + 1 + l /\ w[n + 1] = c
      /\ \A i \in 1 .. k : w[m + 1 + i] = u[i]
  BY <1>1 DEF Splits
<1>4. CASE m < n
  <2>1. PICK i \in 1 .. k : m + 1 + i = n + 1
    <3>1. n - m \in 1 .. k /\ m + 1 + (n - m) = n + 1
      BY <1>3, <1>4
    <3> QED BY <3>1
  <2>2. w[m + 1 + i] # c
    BY <1>2, <1>3
  <2> QED BY <1>3, <2>1, <2>2
<1> QED BY <1>1, <1>4

(* A text that ends in the separator and a last part is split in one way.  *)
LEMMA LastPartIsTold ==
    ASSUME NEW w, NEW c, NEW s, NEW t, NEW u \in Without(c), NEW v \in Without(c),
           Splits(w, s, c, u), Splits(w, t, c, v)
    PROVE  s = t /\ u = v
<1>1. u \in Seq(Int) /\ v \in Seq(Int) /\ s \in Seq(Int) /\ t \in Seq(Int)
  BY DEF Splits
<1>2. Len(t) <= Len(s) /\ Len(s) <= Len(t)
  BY SplitIsLast
<1>3. PICK n \in Nat : n = Len(s) /\ n = Len(t)
  BY <1>1, <1>2
<1>4. s = t
  <2>1. \A i \in 1 .. n : s[i] = t[i]
    BY <1>3 DEF Splits
  <2> QED BY <1>1, <1>3, <2>1, SeqEqual
<1>5. u = v
  <2>1. Len(u) = Len(v)
    BY <1>1, <1>3 DEF Splits
  <2>2. \A i \in 1 .. Len(u) : u[i] = v[i]
    BY <1>3, <2>1 DEF Splits
  <2> QED BY <1>1, <2>1, <2>2, SeqEqual
<1> QED BY <1>4, <1>5

-----------------------------------------------------------------------------
(* Numbers as texts, texts in a join, and the key.                         *)

(* How FormatInt spells the numbers up to i. *)
Spells(f, i) ==
    f = [n \in 0 .. i |-> IF n < 10 THEN <<Numeral(n)>>
                          ELSE Append(f[n \div 10], Numeral(n % 10))]

(* What the prover needs to know of tens and units. *)
LEMMA TensAreLess ==
    ASSUME NEW n \in Nat
    PROVE  /\ n \div 10 \in Nat /\ n % 10 \in 0 .. 9 /\ n = 10 * (n \div 10) + (n % 10)
           /\ n >= 10 => n \div 10 < n
OBVIOUS

(* The recursion by which FormatInt writes a number has a solution. *)
LEMMA SpellingsExist == ASSUME NEW i \in Nat PROVE \E f : Spells(f, i)
<1> DEFINE Digits(f, n) == IF n < 10 THEN <<Numeral(n)>>
                           ELSE Append(f[n \div 10], Numeral(n % 10))
           Good == {k \in Nat : \E f : DOMAIN f = 0 .. k /\ \A n \in 0 .. k : f[n] = Digits(f, n)}
<1>1. 0 \in Good
  <2> DEFINE f == [n \in 0 .. 0 |-> <<Numeral(n)>>]
  <2>1. DOMAIN f = 0 .. 0 /\ \A n \in 0 .. 0 : f[n] = Digits(f, n)
    OBVIOUS
  <2> HIDE DEF f
  <2> QED BY <2>1
<1>2. ASSUME NEW k \in Nat, k \in Good PROVE k + 1 \in Good
  <2>1. PICK f : DOMAIN f = 0 .. k /\ \A n \in 0 .. k : f[n] = Digits(f, n)
    BY <1>2
  <2> DEFINE g == [n \in 0 .. k + 1 |-> IF n <= k THEN f[n] ELSE Digits(f, n)]
  <2>2. /\ DOMAIN g = 0 .. k + 1 /\ \A n \in 0 .. k : g[n] = f[n]
        /\ g[k + 1] = Digits(f, k + 1)
    <3> HIDE DEF Digits
    <3>1. k + 1 \in 0 .. k + 1 /\ ~(k + 1 <= k) /\ \A n \in 0 .. k : n \in 0 .. k + 1 /\ n <= k
      OBVIOUS
    <3> QED BY <3>1
  <2> HIDE DEF g
  <2>3. ASSUME NEW n \in 0 .. k + 1 PROVE g[n] = Digits(g, n)
    <3>1. n < 10 \/ n \div 10 \in 0 .. k
      BY TensAreLess
    <3>2. Digits(g, n) = Digits(f, n)
      BY <2>2, <3>1
    <3>3. n \in 0 .. k \/ n = k + 1
      OBVIOUS
    <3> HIDE DEF Digits
    <3> QED BY <2>1, <2>2, <3>2, <3>3
  <2> HIDE DEF Digits
  <2> QED BY <2>2, <2>3
<1> HIDE DEF Good
<1>3. i \in Good
  BY <1>1, <1>2, Ascend
<1>4. PICK f : DOMAIN f = 0 .. i /\ \A n \in 0 .. i : f[n] = Digits(f, n)
  BY <1>3 DEF Good
<1> DEFINE g == [n \in 0 .. i |-> f[n]]
<1>5. \A n \in 0 .. i : g[n] = Digits(g, n)
  <2> TAKE n \in 0 .. i
  <2>1. n < 10 \/ n \div 10 \in 0 .. i
    BY TensAreLess
  <2>2. Digits(g, n) = Digits(f, n)
    BY <2>1
  <2> HIDE DEF Digits
  <2> QED BY <1>4, <2>2
<1>6. g = [n \in 0 .. i |-> g[n]]
  OBVIOUS
<1> HIDE DEF g
<1>7. Spells(g, i)
  BY <1>5, <1>6 DEF Spells
<1> QED BY <1>7

(* A number is written alike by all solutions that reach it. *)
LEMMA SpellingsAgree ==
    ASSUME NEW i \in Nat, NEW j \in Nat, NEW f, NEW g, Spells(f, i), Spells(g, j)
    PROVE  \A n \in 0 .. i : n \in 0 .. j => f[n] = g[n]
<1> DEFINE Good == {k \in Nat : \A n \in 0 .. k : n \in 0 .. i /\ n \in 0 .. j => f[n] = g[n]}
<1>1. /\ \A n \in 0 .. i : f[n] = IF n < 10 THEN <<Numeral(n)>>
                                  ELSE Append(f[n \div 10], Numeral(n % 10))
      /\ \A n \in 0 .. j : g[n] = IF n < 10 THEN <<Numeral(n)>>
                                  ELSE Append(g[n \div 10], Numeral(n % 10))
  BY DEF Spells
<1>a. \A n \in 0 .. i : n \in 0 .. j /\ n < 10 => f[n] = g[n]
  <2> TAKE n \in 0 .. i
  <2> SUFFICES ASSUME n \in 0 .. j, n < 10 PROVE f[n] = g[n]
    OBVIOUS
  <2>1. f[n] = <<Numeral(n)>> /\ g[n] = <<Numeral(n)>>
    BY <1>1, Zenon
  <2> QED BY <2>1
<1>2. 0 \in Good
  BY <1>a
<1>3. ASSUME NEW k \in Nat, k \in Good PROVE k + 1 \in Good
  <2>1. ASSUME NEW n \in 0 .. k + 1, n \in 0 .. i, n \in 0 .. j PROVE f[n] = g[n]
    <3>1. CASE n < 10
      BY <1>a, <2>1, <3>1
    <3>2. CASE ~(n < 10)
      <4>1. n \div 10 \in 0 .. k /\ n \div 10 \in 0 .. i /\ n \div 10 \in 0 .. j
        BY <2>1, <3>2, TensAreLess
      <4>2. f[n \div 10] = g[n \div 10]
        BY <1>3, <4>1
      <4>3. f[n] = Append(f[n \div 10], Numeral(n % 10))
        BY <1>1, <2>1, <3>2, Zenon
      <4>4. g[n] = Append(g[n \div 10], Numeral(n % 10))
        BY <1>1, <2>1, <3>2, Zenon
      <4> QED BY <4>2, <4>3, <4>4
    <3> QED BY <3>1, <3>2
  <2> QED BY <2>1
<1> HIDE DEF Good
<1>4. i \in Good
  BY <1>2, <1>3, Ascend
<1> QED BY <1>4 DEF Good

(* FormatInt of a number is that of its tens and one more digit. *)
LEMMA FormatIntGrows ==
    ASSUME NEW n \in Nat
    PROVE  FormatInt(n) = IF n < 10 THEN <<Numeral(n)>>
                          ELSE Append(FormatInt(n \div 10), Numeral(n % 10))
<1>1. ASSUME NEW i \in Nat PROVE \E f : Spells(f, i) /\ FormatInt(i) = f[i]
  <2> DEFINE f == CHOOSE f : Spells(f, i)
  <2>1. Spells(f, i)
    BY SpellingsExist
  <2>2. FormatInt(i) = f[i]
    BY DEF FormatInt, Spells
  <2> HIDE DEF f
  <2> QED BY <2>1, <2>2
<1>2. PICK f : Spells(f, n) /\ FormatInt(n) = f[n]
  BY <1>1
<1>3. f[n] = IF n < 10 THEN <<Numeral(n)>> ELSE Append(f[n \div 10], Numeral(n % 10))
  <2>1. \A k \in 0 .. n : f[k] = IF k < 10 THEN <<Numeral(k)>>
                                 ELSE Append(f[k \div 10], Numeral(k % 10))
    BY <1>2 DEF Spells
  <2>2. n \in 0 .. n
    OBVIOUS
  <2> QED BY <2>1, <2>2, Zenon
<1>4. CASE n < 10
  BY <1>2, <1>3, <1>4
<1>5. CASE ~(n < 10)
  <2>1. n \div 10 \in Nat /\ n \div 10 \in 0 .. n /\ n \div 10 \in 0 .. n \div 10
    BY <1>5, TensAreLess
  <2>2. PICK g : Spells(g, n \div 10) /\ FormatInt(n \div 10) = g[n \div 10]
    BY <1>1, <2>1
  <2>3. f[n \div 10] = g[n \div 10]
    BY <1>2, <2>1, <2>2, SpellingsAgree
  <2> QED BY <1>2, <1>3, <1>5, <2>2, <2>3
<1> QED BY <1>4, <1>5

(* Numbers are written in digits, and each in its own way (WithGeneration). *)
LEMMA FormatIntTells ==
    /\ \A n \in Nat : FormatInt(n) # <<>> /\ FormatInt(n) \in Without(Colon)
    /\ \A m, n \in Nat : FormatInt(m) = FormatInt(n) => m = n
<1> DEFINE Spelt == {k \in Nat : \A n \in 0 .. k :
                       FormatInt(n) # <<>> /\ FormatInt(n) \in Without(Colon)}
           Told == {k \in Nat : \A m \in 0 .. k, n \in Nat : FormatInt(m) = FormatInt(n) => m = n}
<1>1. \A n \in Nat : n < 10 => FormatInt(n) = <<Numeral(n)>>
  BY FormatIntGrows
<1>2. \A n \in Nat : ~(n < 10) => FormatInt(n) = Append(FormatInt(n \div 10), Numeral(n % 10))
  BY FormatIntGrows
<1>3. \A n \in 0 .. 9 :
        /\ <<Numeral(n)>> \in Without(Colon) /\ Numeral(n) \in Int /\ Numeral(n) # Colon
  BY DEF Without, Numeral, Colon, ToSet
<1>4. ASSUME NEW t \in Without(Colon), NEW d \in 0 .. 9
      PROVE  Append(t, Numeral(d)) \in Without(Colon) /\ Append(t, Numeral(d)) # <<>>
  <2>1. t \in Seq(Int) /\ \A i \in 1 .. Len(t) : t[i] # Colon
    BY WithoutIsEverywhere DEF Without
  <2>2. PICK u : u = Append(t, Numeral(d))
    OBVIOUS
  <2>3. /\ u \in Seq(Int) /\ Len(u) = Len(t) + 1 /\ u[Len(t) + 1] = Numeral(d)
        /\ \A i \in 1 .. Len(t) : u[i] = t[i]
    <3>1. Numeral(d) \in Int
      BY <1>3
    <3> QED BY <2>1, <2>2, <3>1, AppendProperties
  <2>4. \A i \in 1 .. Len(u) : u[i] # Colon
    <3> TAKE i \in 1 .. Len(u)
    <3>1. i \in 1 .. Len(t) \/ i = Len(t) + 1
      BY <2>1, <2>3
    <3>2. Numeral(d) # Colon
      BY <1>3
    <3> QED BY <2>1, <2>3, <3>1, <3>2
  <2>5. u # <<>>
    BY <2>1, <2>3
  <2> QED BY <2>2, <2>3, <2>4, <2>5, WithoutIsEverywhere
<1>5. Nat \subseteq Spelt
  <2>1. 0 \in Spelt
    <3>1. FormatInt(0) = <<Numeral(0)>> /\ 0 \in 0 .. 9
      BY <1>1
    <3>2. FormatInt(0) # <<>> /\ FormatInt(0) \in Without(Colon)
      <4>1. <<Numeral(0)>> \in Without(Colon)
        BY <1>3, <3>1
      <4> QED BY <3>1, <4>1
    <3> QED BY <3>2
  <2>2. ASSUME NEW k \in Nat, k \in Spelt PROVE k + 1 \in Spelt
    <3>1. ASSUME NEW n \in 0 .. k + 1
          PROVE  FormatInt(n) # <<>> /\ FormatInt(n) \in Without(Colon)
      <4>1. CASE n < 10
        <5>1. FormatInt(n) = <<Numeral(n)>> /\ n \in 0 .. 9
          BY <1>1, <4>1
        <5> QED BY <1>3, <5>1
      <4>2. CASE ~(n < 10)
        <5>1. n \div 10 \in 0 .. k /\ n % 10 \in 0 .. 9
          BY <4>2, TensAreLess
        <5>2. FormatInt(n \div 10) \in Without(Colon)
          BY <2>2, <5>1
        <5>3. FormatInt(n) = Append(FormatInt(n \div 10), Numeral(n % 10))
          BY <1>2, <4>2
        <5> QED BY <1>4, <5>1, <5>2, <5>3
      <4> QED BY <4>1, <4>2
    <3> QED BY <3>1
  <2> HIDE DEF Spelt
  <2> QED BY <2>1, <2>2, Ascend
<1>6. \A n \in Nat : FormatInt(n) # <<>> /\ FormatInt(n) \in Without(Colon)
  <2> TAKE n \in Nat
  <2>1. n \in Spelt /\ n \in 0 .. n
    BY <1>5
  <2> QED BY <2>1
<1>7. ASSUME NEW m \in Nat, NEW n \in Nat, FormatInt(m) = FormatInt(n)
      PROVE  \/ m = n
             \/ /\ m \div 10 < m /\ FormatInt(m \div 10) = FormatInt(n \div 10)
                /\ m % 10 = n % 10
  <2>1. ASSUME NEW a \in Nat, NEW b \in Nat, a < 10, ~(b < 10) PROVE FormatInt(a) # FormatInt(b)
    <3>1. PICK t \in Seq(Int), d \in Int : t # <<>> /\ FormatInt(b) = Append(t, d)
      <4>1. b \div 10 \in Nat /\ b % 10 \in 0 .. 9
        BY TensAreLess
      <4>2. FormatInt(b \div 10) \in Seq(Int) /\ FormatInt(b \div 10) # <<>>
        BY <1>6, <4>1 DEF Without
      <4> QED BY <1>2, <1>3, <2>1, <4>1, <4>2
    <3>2. Len(Append(t, d)) # 1
      BY <3>1
    <3>3. Len(FormatInt(a)) = 1
      BY <1>1, <2>1
    <3> QED BY <3>1, <3>2, <3>3
  <2>2. CASE m < 10 /\ n < 10
    <3>1. <<Numeral(m)>> = <<Numeral(n)>>
      BY <1>1, <1>7, <2>2
    <3>2. Numeral(m) = Numeral(n)
      BY <3>1
    <3> QED BY <3>2 DEF Numeral
  <2>3. CASE ~(m < 10) /\ ~(n < 10)
    <3>1. /\ m \div 10 \in Nat /\ m % 10 \in 0 .. 9 /\ m \div 10 < m
          /\ n \div 10 \in Nat /\ n % 10 \in 0 .. 9
      BY <2>3, TensAreLess
    <3>2. PICK s \in Seq(Int), t \in Seq(Int) :
            s = FormatInt(m \div 10) /\ t = FormatInt(n \div 10)
      BY <1>6, <3>1 DEF Without
    <3>3. Append(s, Numeral(m % 10)) = Append(t, Numeral(n % 10))
      BY <1>2, <1>7, <2>3, <3>2
    <3>4. Numeral(m % 10) \in Int /\ Numeral(n % 10) \in Int
      BY <1>3, <3>1
    <3>5. s = t /\ Numeral(m % 10) = Numeral(n % 10)
      BY <3>3, <3>4, AppendInjective
    <3>6. m % 10 = n % 10
      BY <3>1, <3>5 DEF Numeral
    <3> QED BY <3>1, <3>2, <3>5, <3>6
  <2> QED BY <1>7, <2>1, <2>2, <2>3
<1>8. Nat \subseteq Told
  <2>1. 0 \in Told
    BY <1>7, TensAreLess
  <2>2. ASSUME NEW k \in Nat, k \in Told PROVE k + 1 \in Told
    <3>1. ASSUME NEW m \in 0 .. k + 1, NEW n \in Nat, FormatInt(m) = FormatInt(n) PROVE m = n
      <4>1. CASE /\ m \div 10 < m /\ FormatInt(m \div 10) = FormatInt(n \div 10)
                 /\ m % 10 = n % 10
        <5>1. m \div 10 \in 0 .. k /\ n \div 10 \in Nat
          BY <4>1, TensAreLess
        <5>2. m \div 10 = n \div 10
          BY <2>2, <4>1, <5>1
        <5> QED BY <4>1, <5>2, TensAreLess
      <4> QED BY <1>7, <3>1, <4>1
    <3> QED BY <3>1
  <2> HIDE DEF Told
  <2> QED BY <2>1, <2>2, Ascend
<1>9. ASSUME NEW m \in Nat, NEW n \in Nat, FormatInt(m) = FormatInt(n) PROVE m = n
  <2>1. m \in Told /\ m \in 0 .. m
    BY <1>8
  <2> QED BY <1>9, <2>1
<1> QED BY <1>6, <1>9

(* A text put together with a separator holds it. *)
LEMMA SeparatorShows ==
    ASSUME NEW c \in Int, NEW s \in Seq(Int), NEW u \in Seq(Int)
    PROVE  s \o (<<c>> \o u) \notin Without(c) /\ s \o (<<c>> \o u) # <<>>
<1>1. PICK w : w = s \o (<<c>> \o u)
  OBVIOUS
<1>2. Splits(w, s, c, u)
  BY <1>1, PartsSplit
<1>3. w \in Seq(Int) /\ Len(s) + 1 \in 1 .. Len(w) /\ w[Len(s) + 1] = c
  BY <1>2 DEF Splits
<1>4. w # <<>>
  BY <1>3
<1> QED BY <1>1, <1>3, <1>4, WithoutIsEverywhere

(* Texts without the separator are read off their join. *)
LEMMA JoinTellsTexts ==
    ASSUME NEW c \in Int, NEW s \in Seq(Without(c)), NEW t \in Seq(Without(c)),
           s # <<>>, t # <<>>, Join(s, c) = Join(t, c)
    PROVE  s = t
<1> DEFINE Good == {n \in Nat : \A a, b \in Seq(Without(c)) :
                       a # <<>> /\ b # <<>> /\ Len(a) <= n /\ Join(a, c) = Join(b, c) => a = b}
<1>1. Without(c) \subseteq Seq(Int)
  BY DEF Without
<1>2. \A a \in Seq(Without(c)) : a \in Seq(Seq(Int)) /\ Join(a, c) \in Seq(Int)
  <2> TAKE a \in Seq(Without(c))
  <2>1. a \in Seq(Seq(Int))
    BY <1>1, SeqMonotonic
  <2>2. <<>> \in Seq(Int)
    BY EmptySeq
  <2> QED BY <2>1, <2>2, JoinGrows
<1>3. ASSUME NEW a \in Seq(Without(c)), NEW x \in Without(c)
      PROVE  Join(Append(a, x), c) = IF a = <<>> THEN x ELSE Join(a, c) \o (<<c>> \o x)
  <2>1. a \in Seq(Seq(Int)) /\ x \in Seq(Int)
    BY <1>1, <1>2
  <2> QED BY <2>1, JoinGrows
<1>4. 0 \in Good
  <2>1. \A a \in Seq(Without(c)) : a # <<>> => ~(Len(a) <= 0)
    BY EmptySeq
  <2> QED BY <2>1
<1>5. ASSUME NEW n \in Nat, n \in Good PROVE n + 1 \in Good
  <2> SUFFICES ASSUME NEW a \in Seq(Without(c)), NEW b \in Seq(Without(c)),
                      a # <<>>, b # <<>>, Len(a) <= n + 1, Join(a, c) = Join(b, c)
               PROVE  a = b
    OBVIOUS
  <2>1. PICK a1 \in Seq(Without(c)), x \in Without(c) : a = Append(a1, x)
    BY SequenceEmptyOrAppend
  <2>2. PICK b1 \in Seq(Without(c)), y \in Without(c) : b = Append(b1, y)
    BY SequenceEmptyOrAppend
  <2>3. /\ Join(a, c) = IF a1 = <<>> THEN x ELSE Join(a1, c) \o (<<c>> \o x)
        /\ Join(b, c) = IF b1 = <<>> THEN y ELSE Join(b1, c) \o (<<c>> \o y)
    BY <1>3, <2>1, <2>2
  <2>4. Join(a1, c) \in Seq(Int) /\ Join(b1, c) \in Seq(Int) /\ x \in Seq(Int) /\ y \in Seq(Int)
    BY <1>1, <1>2
  <2>5. CASE a1 = <<>> /\ b1 = <<>>
    BY <2>1, <2>2, <2>3, <2>5
  <2>6. CASE a1 = <<>> /\ b1 # <<>>
    <3>1. x = Join(b1, c) \o (<<c>> \o y)
      BY <2>3, <2>6
    <3> QED BY <2>4, <3>1, SeparatorShows
  <2>7. CASE a1 # <<>> /\ b1 = <<>>
    <3>1. y = Join(a1, c) \o (<<c>> \o x)
      BY <2>3, <2>7
    <3> QED BY <2>4, <3>1, SeparatorShows
  <2>8. CASE a1 # <<>> /\ b1 # <<>>
    <3>1. Join(a1, c) \o (<<c>> \o x) = Join(b1, c) \o (<<c>> \o y)
      BY <2>3, <2>8
    <3>2. Join(a1, c) = Join(b1, c) /\ x = y
      <4>1. PICK w : w = Join(a1, c) \o (<<c>> \o x) /\ w = Join(b1, c) \o (<<c>> \o y)
        BY <3>1
      <4>2. Splits(w, Join(a1, c), c, x) /\ Splits(w, Join(b1, c), c, y)
        BY <2>4, <4>1, PartsSplit
      <4> QED BY <4>2, LastPartIsTold
    <3>3. Len(a1) <= n
      <4>1. Len(a) = Len(a1) + 1 /\ Len(a1) \in Nat
        BY <2>1
      <4> QED BY <4>1
    <3>4. a1 = b1
      BY <1>5, <2>8, <3>2, <3>3
    <3> QED BY <2>1, <2>2, <3>2, <3>4
  <2> QED BY <2>5, <2>6, <2>7, <2>8
<1> HIDE DEF Good
<1>6. Len(s) \in Nat
  OBVIOUS
<1>7. Len(s) \in Good
  BY <1>4, <1>5, <1>6, Ascend
<1> QED BY <1>6, <1>7 DEF Good

(* A join has no characters but those of the texts and the separator. *)
LEMMA JoinAddsNoOther ==
    ASSUME NEW c \in Int, NEW d \in Int, c # d, NEW s \in Seq(Without(d))
    PROVE  Join(s, c) \in Without(d)
<1> DEFINE Good == {n \in Nat : \A a \in Seq(Without(d)) :
                       Len(a) = n => Join(a, c) \in Without(d)}
<1>1. Without(d) \subseteq Seq(Int)
  BY DEF Without
<1>2. \A a \in Seq(Without(d)) : a \in Seq(Seq(Int))
  BY <1>1, SeqMonotonic
<1>3. 0 \in Good
  <2> SUFFICES ASSUME NEW a \in Seq(Without(d)), Len(a) = 0 PROVE Join(a, c) \in Without(d)
    OBVIOUS
  <2>1. a = <<>> /\ <<>> \in Seq(Seq(Int)) /\ <<>> \in Seq(Int)
    BY EmptySeq
  <2>2. Join(a, c) = <<>>
    BY <2>1, JoinGrows
  <2>3. <<>> \in Without(d)
    BY <2>1 DEF Without, ToSet
  <2> QED BY <2>2, <2>3
<1>4. ASSUME NEW n \in Nat, n \in Good PROVE n + 1 \in Good
  <2> SUFFICES ASSUME NEW a \in Seq(Without(d)), Len(a) = n + 1
               PROVE  Join(a, c) \in Without(d)
    OBVIOUS
  <2>0. a # <<>>
    BY EmptySeq
  <2>1. PICK b \in Seq(Without(d)), x \in Without(d) : a = Append(b, x)
    BY <2>0, SequenceEmptyOrAppend
  <2>2. b \in Seq(Seq(Int)) /\ x \in Seq(Int)
    BY <1>1, <1>2
  <2>3. Join(a, c) = IF b = <<>> THEN x ELSE Join(b, c) \o (<<c>> \o x)
    BY <2>1, <2>2, JoinGrows
  <2>4. Join(b, c) \in Without(d)
    <3>1. Len(b) = n
      BY <2>1
    <3> QED BY <1>4, <3>1
  <2>5. Join(b, c) \o (<<c>> \o x) \in Without(d)
    <3>1. PICK p \in Seq(Int) : p = Join(b, c)
      BY <1>1, <2>4
    <3>2. PICK w : w = p \o (<<c>> \o x)
      OBVIOUS
    <3>3. Splits(w, p, c, x)
      BY <2>2, <3>2, PartsSplit
    <3>4. /\ \A i \in 1 .. Len(p) : p[i] # d
          /\ \A i \in 1 .. Len(x) : x[i] # d
      BY <2>2, <2>4, <3>1, WithoutIsEverywhere
    <3>5. ASSUME NEW i \in 1 .. Len(w) PROVE w[i] # d
      <4>1. PICK k \in Nat, l \in Nat : k = Len(p) /\ l = Len(x)
        BY <2>2
      <4>2. i \in 1 .. k + 1 + l
        BY <3>3, <4>1 DEF Splits
      <4>3. CASE i \in 1 .. k
        BY <3>3, <3>4, <4>1, <4>3 DEF Splits
      <4>4. CASE i = k + 1
        BY <3>3, <4>1, <4>4 DEF Splits
      <4>5. CASE i > k + 1
        <5>1. PICK j \in 1 .. l : i = k + 1 + j
          <6>1. i - (k + 1) \in 1 .. l /\ i = k + 1 + (i - (k + 1))
            BY <4>2, <4>5
          <6> QED BY <6>1
        <5>2. w[i] = x[j]
          BY <3>3, <4>1, <5>1 DEF Splits
        <5> QED BY <3>4, <4>1, <5>2
      <4> QED BY <4>2, <4>3, <4>4, <4>5
    <3>6. w \in Seq(Int)
      BY <3>3 DEF Splits
    <3> QED BY <3>1, <3>2, <3>5, <3>6, WithoutIsEverywhere
  <2> QED BY <2>3, <2>5
<1> HIDE DEF Good
<1>5. Len(s) \in Nat
  OBVIOUS
<1>6. Len(s) \in Good
  BY <1>3, <1>4, <1>5, Ascend
<1> QED BY <1>6 DEF Good

(* Texts that are not empty have no empty join. *)
LEMMA JoinOfSomething ==
    ASSUME NEW c \in Int, NEW s \in Seq(Seq(Int) \ {<<>>})
    PROVE  Join(s, c) = <<>> <=> s = <<>>
<1>1. CASE s = <<>>
  BY <1>1, JoinGrows, EmptySeq
<1>2. CASE s # <<>>
  <2>1. PICK a \in Seq(Seq(Int) \ {<<>>}), x \in Seq(Int) \ {<<>>} : s = Append(a, x)
    BY <1>2, SequenceEmptyOrAppend
  <2>2. a \in Seq(Seq(Int))
    <3>1. Seq(Int) \ {<<>>} \subseteq Seq(Int)
      OBVIOUS
    <3> QED BY <3>1, SeqMonotonic
  <2>3. Join(s, c) = IF a = <<>> THEN x ELSE Join(a, c) \o (<<c>> \o x)
    BY <2>1, <2>2, JoinGrows
  <2>4. Join(a, c) \in Seq(Int)
    BY <2>2, JoinGrows
  <2>5. Join(a, c) \o (<<c>> \o x) # <<>>
    BY <2>1, <2>4, SeparatorShows
  <2> QED BY <1>2, <2>1, <2>3, <2>5
<1> QED BY <1>1, <1>2

(* What Selection holds. *)
Selections ==
    {values \in Seq(Seq(Int)) :
        \A v \in ToSet(values) : v # <<>> /\ ToSet(v) \cap {Comma, Colon} = {}}

(* Sorted values hold no more separators than the values did. *)
LEMMA SelectionsAreSorted ==
    ASSUME NEW values \in Selections
    PROVE  /\ values \in Seq(Seq(Int))
           /\ Sorted(values) \in Seq(Without(Comma)) /\ Sorted(values) \in Seq(Without(Colon))
           /\ Sorted(values) \in Seq(Seq(Int) \ {<<>>})
<1>1. values \in Seq(Seq(Int))
  BY DEF Selections
<1>2. PICK s : s = Sorted(values)
  OBVIOUS
<1>3. s \in Seq(Seq(Int)) /\ ToSet(s) = ToSet(values)
  BY <1>1, <1>2, SortingArranges, ArrangementsKeepCounts
<1>4. \A i \in 1 .. Len(s) :
        s[i] \in Without(Comma) /\ s[i] \in Without(Colon) /\ s[i] \in Seq(Int) \ {<<>>}
  <2> TAKE i \in 1 .. Len(s)
  <2>1. s[i] \in Seq(Int) /\ s[i] \in ToSet(s)
    BY <1>3, ElementOfSeq, LenProperties DEF ToSet
  <2>2. s[i] \in ToSet(values)
    BY <1>3, <2>1
  <2>3. s[i] # <<>> /\ ToSet(s[i]) \cap {Comma, Colon} = {}
    BY <2>2 DEF Selections
  <2> QED BY <2>1, <2>3 DEF Without
<1>5. ASSUME NEW S, \A i \in 1 .. Len(s) : s[i] \in S PROVE s \in Seq(S)
  <2>1. Len(s) \in Nat /\ s \in [1 .. Len(s) -> S]
    BY <1>3, <1>5, LenProperties
  <2>2. s \in UNION {[1 .. n -> S] : n \in Nat}
    BY <2>1
  <2> QED BY <2>2, SeqDef, Zenon
<1> QED BY <1>1, <1>2, <1>4, <1>5

(* A letter before a text without the separator brings none. *)
LEMMA LettersAddNoOther ==
    ASSUME NEW x \in Int, x # Colon, NEW j \in Without(Colon)
    PROVE  <<x>> \o j \in Without(Colon)
<1>1. PICK d : d = <<x>> \o j
  OBVIOUS
<1>2. j \in Seq(Int) /\ \A i \in 1 .. Len(j) : j[i] # Colon
  BY WithoutIsEverywhere DEF Without
<1>3. /\ d \in Seq(Int) /\ Len(d) = 1 + Len(j) /\ d[1] = x
      /\ \A i \in 1 .. Len(j) : d[1 + i] = j[i]
  BY <1>1, <1>2
<1>4. \A i \in 1 .. Len(d) : d[i] # Colon
  <2> TAKE i \in 1 .. Len(d)
  <2>1. CASE i = 1
    BY <1>3, <2>1
  <2>2. CASE i # 1
    <3>1. i - 1 \in 1 .. Len(j) /\ i = 1 + (i - 1)
      BY <1>2, <1>3, <2>2
    <3> QED BY <1>2, <1>3, <3>1
  <2> QED BY <2>1, <2>2
<1> QED BY <1>1, <1>3, <1>4, WithoutIsEverywhere

(* The part that WithSet adds tells the joined values, though a long one   *)
(* is hashed.                                                              *)
LEMMA SetPartTellsJoined ==
    ASSUME NEW v \in Selection, NEW w \in Selection,
           SetPart(Joined(v)) = SetPart(Joined(w)),
           Joined(v) \in Seq(Int), Joined(w) \in Seq(Int)
    PROVE  Joined(v) = Joined(w)
<1> DEFINE j == Joined(v)
           k == Joined(w)
<1>1. /\ Len(j) > MaxJoined =>
           /\ Hash(j) \in Seq(Int)
           /\ IF Len(k) > MaxJoined THEN Hash(j) = Hash(k) => j = k ELSE k # <<LetterH>> \o Hash(j)
      /\ Len(k) > MaxJoined =>
           /\ Hash(k) \in Seq(Int)
           /\ IF Len(j) > MaxJoined THEN Hash(k) = Hash(j) => k = j ELSE j # <<LetterH>> \o Hash(k)
  BY HashAssumption
<1>2. MaxJoined \in Nat /\ Len(j) \in Nat /\ Len(k) \in Nat
  BY MaxJoinedAssumption
<1>3. /\ SetPart(j) = IF Len(j) <= MaxJoined THEN j ELSE <<LetterH>> \o Hash(j)
      /\ SetPart(k) = IF Len(k) <= MaxJoined THEN k ELSE <<LetterH>> \o Hash(k)
      /\ SetPart(j) = SetPart(k)
  BY DEF SetPart
<1>0. SUFFICES j = k
  OBVIOUS
<1> HIDE DEF j, k
<1>4. CASE Len(j) > MaxJoined /\ Len(k) > MaxJoined
  <2>1. <<LetterH>> \o Hash(j) = <<LetterH>> \o Hash(k)
    BY <1>2, <1>3, <1>4
  <2>2. <<LetterH>> \in Seq(Int)
    BY DEF LetterH
  <2>3. Hash(j) = Hash(k)
    BY <1>1, <1>4, <2>1, <2>2, ConcatSimplifications
  <2> QED BY <1>1, <1>4, <2>3
<1>5. CASE Len(j) <= MaxJoined /\ Len(k) <= MaxJoined
  BY <1>3, <1>5
<1>6. ~(Len(j) > MaxJoined /\ Len(k) <= MaxJoined)
  <2>1. ASSUME Len(j) > MaxJoined, Len(k) <= MaxJoined PROVE FALSE
    <3>1. ~(Len(k) > MaxJoined) /\ ~(Len(j) <= MaxJoined)
      BY <1>2, <2>1
    <3>2. SetPart(k) = k /\ SetPart(j) = <<LetterH>> \o Hash(j) /\ SetPart(j) = SetPart(k)
      BY <1>3, <2>1, <3>1, Zenon
    <3>3. k # <<LetterH>> \o Hash(j)
      BY <1>1, <2>1, <3>1, Zenon
    <3> QED BY <3>2, <3>3
  <2> QED BY <2>1
<1>7. ~(Len(k) > MaxJoined /\ Len(j) <= MaxJoined)
  <2>1. ASSUME Len(k) > MaxJoined, Len(j) <= MaxJoined PROVE FALSE
    <3>1. ~(Len(j) > MaxJoined) /\ ~(Len(k) <= MaxJoined)
      BY <1>2, <2>1
    <3>2. SetPart(j) = j /\ SetPart(k) = <<LetterH>> \o Hash(k) /\ SetPart(j) = SetPart(k)
      BY <1>3, <2>1, <3>1, Zenon
    <3>3. j # <<LetterH>> \o Hash(k)
      BY <1>1, <2>1, <3>1, Zenon
    <3> QED BY <3>2, <3>3
  <2> QED BY <2>1
<1> QED BY <1>2, <1>4, <1>5, <1>6, <1>7

LEMMA SetPartTells ==
    ASSUME NEW v \in Selections \cap Selection, NEW w \in Selections \cap Selection
    PROVE  /\ SetPart(Joined(v)) \in Without(Colon)
           /\ SetPart(Joined(v)) = SetPart(Joined(w)) <=> Sorted(v) = Sorted(w)
<1>0. Comma \in Int /\ Colon \in Int /\ Comma # Colon /\ LetterH \in Int /\ LetterH # Colon
  BY DEF Comma, Colon, LetterH
<1>1. ASSUME NEW u \in Selections PROVE Joined(u) \in Without(Colon)
  BY <1>0, SelectionsAreSorted, JoinAddsNoOther DEF Joined
<1>2. ASSUME NEW j \in Without(Colon) PROVE <<LetterH>> \o j \in Without(Colon)
  BY <1>0, LettersAddNoOther
<1>3. SetPart(Joined(v)) \in Without(Colon)
  <2>1. MaxJoined \in Nat /\ Len(Joined(v)) \in Nat
    BY <1>1, MaxJoinedAssumption DEF Without
  <2>2. Len(Joined(v)) > MaxJoined => Hash(Joined(v)) \in Without(Colon)
    BY HashAssumption DEF Without
  <2> QED BY <1>1, <1>2, <2>1, <2>2 DEF SetPart
<1>4. PICK j \in Seq(Int), k \in Seq(Int) :
        /\ j = Joined(v) /\ j = Join(Sorted(v), Comma)
        /\ k = Joined(w) /\ k = Join(Sorted(w), Comma)
  BY <1>1 DEF Without, Joined
<1>5. ASSUME SetPart(Joined(v)) = SetPart(Joined(w)) PROVE j = k
  BY <1>4, <1>5, SetPartTellsJoined
<1>6. ASSUME j = k PROVE Sorted(v) = Sorted(w)
  <2>1. j = <<>> <=> Sorted(v) = <<>>
    BY <1>0, <1>4, SelectionsAreSorted, JoinOfSomething
  <2>2. k = <<>> <=> Sorted(w) = <<>>
    BY <1>0, <1>4, SelectionsAreSorted, JoinOfSomething
  <2>3. CASE j = <<>>
    BY <1>6, <2>1, <2>2, <2>3
  <2>4. CASE j # <<>>
    <3>1. Sorted(v) # <<>> /\ Sorted(w) # <<>> /\ Join(Sorted(v), Comma) = Join(Sorted(w), Comma)
      BY <1>4, <1>6, <2>1, <2>2, <2>4
    <3>2. Sorted(v) \in Seq(Without(Comma)) /\ Sorted(w) \in Seq(Without(Comma))
      BY SelectionsAreSorted
    <3> QED BY <1>0, <3>1, <3>2, JoinTellsTexts
  <2> QED BY <2>3, <2>4
<1>7. Sorted(v) = Sorted(w) => SetPart(Joined(v)) = SetPart(Joined(w))
  BY DEF Joined
<1> QED BY <1>3, <1>4, <1>5, <1>6, <1>7

(* A key is made of seven parts. *)
Parts(id, generation, values) ==
    <<prefix, schemaVersion, <<40>>, <<41>>, id, <<LetterG>> \o FormatInt(generation),
      SetPart(Joined(values))>>

(* Adding parts to a key leaves what it had. *)
LEMMA AddedParts ==
    ASSUME NEW d, NEW e, NEW parts, NEW more
    PROVE  With(NewKey(d, e, parts), more) = NewKey(d, e, parts \o more)
<1>1. PICK m : m = parts \o more
  OBVIOUS
<1>2. With(NewKey(d, e, parts), more) = [NewKey(d, e, parts) EXCEPT !.parts = m]
  BY <1>1 DEF With, NewKey
<1>3. [NewKey(d, e, parts) EXCEPT !.parts = m] = NewKey(d, e, m)
  BY DEF NewKey
<1> QED BY <1>1, <1>2, <1>3

(* r is p and q. *)
Joins(r, p, q, S) ==
    /\ r \in Seq(S) /\ Len(r) = Len(p) + Len(q)
    /\ \A i \in 1 .. Len(p) : r[i] = p[i]
    /\ \A i \in 1 .. Len(q) : r[Len(p) + i] = q[i]

(* Two sequences put together are their elements, one after the other. *)
LEMMA LengthsAreAdded ==
    ASSUME NEW S, NEW p \in Seq(S), NEW q \in Seq(S)
    PROVE  Joins(p \o q, p, q, S)
<1>1. PICK h \in Seq(S) : h = p \o q
  BY ConcatProperties
<1>2. Joins(h, p, q, S)
  BY <1>1 DEF Joins
<1> QED BY <1>1, <1>2

(* The seven parts of a key, put together as the code does. *)
Together(a, b, d, e, x, y, z) ==
    <<a, b, d, e>> \o ((<<x>> \o <<y>>) \o <<z>>) = <<a, b, d, e, x, y, z>>

(* The parts of a key that is put together are those it was given. *)
LEMMA SevenParts ==
    ASSUME NEW S, NEW a \in S, NEW b \in S, NEW d \in S, NEW e \in S,
           NEW x \in S, NEW y \in S, NEW z \in S
    PROVE  Together(a, b, d, e, x, y, z)
<1>1. PICK k, l, m, n, v :
        /\ k = <<x>> /\ l = <<y>> /\ m = <<z>> /\ n = <<a, b, d, e>>
        /\ v = <<a, b, d, e, x, y, z>>
  OBVIOUS
<1>2. /\ k \in Seq(S) /\ Len(k) = 1 /\ k[1] = x
      /\ l \in Seq(S) /\ Len(l) = 1 /\ l[1] = y
      /\ m \in Seq(S) /\ Len(m) = 1 /\ m[1] = z
  BY <1>1
<1>3. n \in Seq(S) /\ Len(n) = 4 /\ n[1] = a /\ n[2] = b /\ n[3] = d /\ n[4] = e
  BY <1>1
<1>4. /\ v \in Seq(S) /\ Len(v) = 7
      /\ v[1] = a /\ v[2] = b /\ v[3] = d /\ v[4] = e /\ v[5] = x /\ v[6] = y /\ v[7] = z
  BY <1>1
<1>5. PICK s : s = k \o l
  OBVIOUS
<1>6. s \in Seq(S) /\ Len(s) = 2 /\ s[1] = x /\ s[2] = y
  <2>1. Joins(s, k, l, S)
    BY <1>2, <1>5, LengthsAreAdded
  <2> QED BY <1>2, <2>1 DEF Joins
<1>7. PICK t : t = s \o m
  OBVIOUS
<1>8. t \in Seq(S) /\ Len(t) = 3 /\ t[1] = x /\ t[2] = y /\ t[3] = z
  <2>1. Joins(t, s, m, S)
    BY <1>2, <1>6, <1>7, LengthsAreAdded
  <2> QED BY <1>2, <1>6, <2>1 DEF Joins
<1>9. PICK u : u = n \o t
  OBVIOUS
<1>10. /\ u \in Seq(S) /\ Len(u) = 7
       /\ u[1] = a /\ u[2] = b /\ u[3] = d /\ u[4] = e /\ u[5] = x /\ u[6] = y /\ u[7] = z
  <2>1. Joins(u, n, t, S)
    BY <1>3, <1>8, <1>9, LengthsAreAdded
  <2> QED BY <1>3, <1>8, <2>1 DEF Joins
<1>11. u = v
  <2>1. \A i \in 1 .. Len(u) : u[i] = v[i]
    <3> TAKE i \in 1 .. Len(u)
    <3>1. i = 1 \/ i = 2 \/ i = 3 \/ i = 4 \/ i = 5 \/ i = 6 \/ i = 7
      BY <1>10
    <3> QED BY <1>4, <1>10, <3>1
  <2>2. Len(u) = Len(v)
    BY <1>4, <1>10
  <2> QED BY <1>4, <1>10, <2>1, <2>2, SeqEqual
<1> QED BY <1>1, <1>5, <1>7, <1>9, <1>11 DEF Together

(* A key is its seven parts, joined. *)
LEMMA CacheKeyParts ==
    ASSUME NEW id \in Seq(Int), NEW generation \in Nat,
           NEW values \in Selections \cap Selection
    PROVE  CacheKey(id, generation, values) = Join(Parts(id, generation, values), Colon)
<1>1. PICK g \in Seq(Int), p \in Seq(Int) :
        g = <<LetterG>> \o FormatInt(generation) /\ p = SetPart(Joined(values))
  <2>1. FormatInt(generation) \in Seq(Int) /\ <<LetterG>> \in Seq(Int)
    BY FormatIntTells DEF Without, LetterG
  <2>2. <<LetterG>> \o FormatInt(generation) \in Seq(Int)
    BY <2>1, ConcatProperties
  <2>3. SetPart(Joined(values)) \in Seq(Int)
    BY SetPartTells DEF Without
  <2> QED BY <2>2, <2>3
<1>2. PICK a, b, d, e : a = prefix /\ b = schemaVersion /\ d = <<40>> /\ e = <<41>>
  OBVIOUS
<1>3. a \in Seq(Int) /\ b \in Seq(Int) /\ d \in Seq(Int) /\ e \in Seq(Int)
  BY <1>2 DEF prefix, schemaVersion
<1>4. WithGeneration(NewKey(d, e, <<id>>), generation) = NewKey(d, e, <<id>> \o <<g>>)
  BY <1>1, AddedParts DEF WithGeneration
<1>5. \A k : WithSet(k, values) = With(k, <<p>>)
  BY <1>1 DEF WithSet
<1>6. WithSet(NewKey(d, e, <<id>> \o <<g>>), values) = NewKey(d, e, (<<id>> \o <<g>>) \o <<p>>)
  BY <1>5, AddedParts
<1>7. CacheKey(id, generation, values) = String(NewKey(d, e, (<<id>> \o <<g>>) \o <<p>>))
  BY <1>2, <1>4, <1>6 DEF CacheKey
<1>8. \A parts : String(NewKey(d, e, parts)) = Join(<<a, b, d, e>> \o parts, Colon)
  BY <1>2 DEF String, NewKey
<1>9. <<a, b, d, e>> \o ((<<id>> \o <<g>>) \o <<p>>) = <<a, b, d, e, id, g, p>>
  <2>1. Together(a, b, d, e, id, g, p)
    BY <1>3, SevenParts
  <2> QED BY <2>1 DEF Together
<1>10. Parts(id, generation, values) = <<a, b, d, e, id, g, p>>
  BY <1>1, <1>2 DEF Parts
<1> QED BY <1>7, <1>8, <1>9, <1>10

(* Keys tell owners, generations and sets of values apart. *)
LEMMA KeysTell ==
    ASSUME NEW i \in Without(Colon), NEW j \in Without(Colon), NEW g \in Nat, NEW h \in Nat,
           NEW v \in Selections \cap Selection, NEW w \in Selections \cap Selection
    PROVE  CacheKey(i, g, v) = CacheKey(j, h, w) <=> i = j /\ g = h /\ SameValues(w, v)
<1>0. Colon \in Int
  BY DEF Colon
<1>1. ASSUME NEW k \in Without(Colon), NEW n \in Nat,
             NEW u \in Selections \cap Selection
      PROVE  Parts(k, n, u) \in Seq(Without(Colon)) /\ Parts(k, n, u) # <<>>
  <2>1. FormatInt(n) \in Without(Colon) /\ FormatInt(n) \in Seq(Int)
    BY FormatIntTells DEF Without
  <2>2. <<LetterG>> \o FormatInt(n) \in Without(Colon)
    <3>1. LetterG \in Int /\ LetterG # Colon
      BY DEF LetterG, Colon
    <3> QED BY <2>1, <3>1, LettersAddNoOther
  <2>3. SetPart(Joined(u)) \in Without(Colon)
    BY SetPartTells
  <2>4. /\ prefix \in Without(Colon) /\ schemaVersion \in Without(Colon)
        /\ <<40>> \in Without(Colon) /\ <<41>> \in Without(Colon)
    BY DEF Without, prefix, schemaVersion, Colon, ToSet
  <2> QED BY <2>2, <2>3, <2>4 DEF Parts
<1>2. CacheKey(i, g, v) = CacheKey(j, h, w) <=> Parts(i, g, v) = Parts(j, h, w)
  <2>1. i \in Seq(Int) /\ j \in Seq(Int)
    BY DEF Without
  <2>2. /\ CacheKey(i, g, v) = Join(Parts(i, g, v), Colon)
        /\ CacheKey(j, h, w) = Join(Parts(j, h, w), Colon)
    BY <2>1, CacheKeyParts
  <2> QED BY <1>0, <1>1, <2>2, JoinTellsTexts
<1>3. Parts(i, g, v) = Parts(j, h, w) <=>
        /\ i = j /\ <<LetterG>> \o FormatInt(g) = <<LetterG>> \o FormatInt(h)
        /\ SetPart(Joined(v)) = SetPart(Joined(w))
  BY DEF Parts
<1>4. <<LetterG>> \o FormatInt(g) = <<LetterG>> \o FormatInt(h) <=> g = h
  <2>0. FormatInt(g) \in Without(Colon) /\ FormatInt(h) \in Without(Colon)
    BY FormatIntTells
  <2>a. <<LetterG>> \in Seq(Int)
    BY DEF LetterG
  <2>1. FormatInt(g) \in Seq(Int) /\ FormatInt(h) \in Seq(Int) /\ <<LetterG>> \in Seq(Int)
    BY <2>0, <2>a DEF Without
  <2>2. FormatInt(g) = FormatInt(h) => g = h
    BY FormatIntTells
  <2>3. <<LetterG>> \o FormatInt(g) = <<LetterG>> \o FormatInt(h) => FormatInt(g) = FormatInt(h)
    BY <2>1, ConcatSimplifications
  <2> QED BY <2>2, <2>3
<1>5. SetPart(Joined(v)) = SetPart(Joined(w)) <=> SameValues(w, v)
  <2>1. v \in Seq(Seq(Int)) /\ w \in Seq(Seq(Int))
    BY DEF Selections
  <2>2. Sorted(w) = Sorted(v) <=> SameValues(w, v)
    BY <2>1, SortedTellsValues
  <2>3. SetPart(Joined(v)) = SetPart(Joined(w)) <=> Sorted(v) = Sorted(w)
    BY SetPartTells
  <2> QED BY <2>2, <2>3
<1> QED BY <1>2, <1>3, <1>4, <1>5

(* What is known of a key that was asked for. *)
IsKey ==
    answer.call = "key" =>
        /\ answer.id \in Id /\ answer.generation \in Generation /\ answer.values \in Selection
        /\ answer.key = CacheKey(answer.id, answer.generation, answer.values)

(* For all owners, generations and sets of values that are written without *)
(* separators: two questions have one key exactly if they are the same,    *)
(* whatever the order of the values (WithSet, String).                     *)
THEOREM KeysTellApart == Spec => []KeysTellQuestionsApart
<1>1. Init => IsKey
  BY DEF Init, Idle, IsKey
<1>2. IsKey /\ [Next]_answer => IsKey'
  <2> SUFFICES ASSUME IsKey, [Next]_answer PROVE IsKey'
    OBVIOUS
  <2>1. CASE UNCHANGED answer
    BY <2>1 DEF IsKey
  <2>2. CASE Forget
    BY <2>2 DEF Forget, Idle, IsKey
  <2>3. ASSUME NEW list, NEW kind, NEW value, Discount(list, kind, value)
        PROVE  IsKey'
    BY <2>3 DEF Discount, IsKey
  <2>4. ASSUME NEW kind, NEW text, Validate(kind, text) PROVE IsKey'
    BY <2>4 DEF Validate, IsKey
  <2>5. ASSUME NEW id \in Id, NEW generation \in Generation, NEW values \in Selection,
               AskKey(id, generation, values)
        PROVE  IsKey'
    BY <2>5 DEF AskKey, IsKey
  <2>6. CASE Ask
    BY <2>3, <2>4, <2>5, <2>6 DEF Ask
  <2> QED BY <2>1, <2>2, <2>6 DEF Next
<1>3. IsKey => KeysTellQuestionsApart
  <2> SUFFICES ASSUME IsKey, answer.call = "key", NEW id \in Id,
                      NEW generation \in Generation, NEW values \in Selection
               PROVE  answer.key = CacheKey(id, generation, values) <=>
                        /\ id = answer.id /\ generation = answer.generation
                        /\ SameValues(values, answer.values)
    BY DEF KeysTellQuestionsApart
  <2>1. /\ answer.id \in Id /\ answer.generation \in Generation /\ answer.values \in Selection
        /\ answer.key = CacheKey(answer.id, answer.generation, answer.values)
    BY DEF IsKey
  <2>2. /\ Id \subseteq Without(Colon) /\ Generation \subseteq Nat
        /\ Selection \subseteq Selections
    BY KeysAssumption DEF Without, Selections
  <2>3. PICK i \in Without(Colon), g \in Nat, v \in Selections \cap Selection :
          i = answer.id /\ g = answer.generation /\ v = answer.values
    BY <2>1, <2>2
  <2>4. id \in Without(Colon) /\ generation \in Nat /\ values \in Selections \cap Selection
    BY <2>2
  <2>5. CacheKey(i, g, v) = CacheKey(id, generation, values)
          <=> i = id /\ g = generation /\ SameValues(values, v)
    BY <2>4, KeysTell
  <2> QED BY <2>1, <2>3, <2>5
<1> QED
  BY <1>1, <1>2, <1>3, PTL DEF Spec
=============================================================================
