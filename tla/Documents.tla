----------------------------- MODULE Documents ------------------------------
(***************************************************************************)
(* pkg/validation/br.go: CPF and CNPJ, telephone numbers and CEPs, as the  *)
(* validator's custom rules read them.  A text is a sequence of characters,*)
(* counted from the code of '0': a digit of ASCII is its own number, those *)
(* of other scripts are in WideDigit, any other character is a Mark.  The  *)
(* rules look at the bytes of the digits, each less '0', so that value[i]  *)
(* stands for value[i]-'0' of the code.                                    *)
(***************************************************************************)
EXTENDS Integers, Sequences, FiniteSetsExt

CONSTANT WideDigit           \* what unicode.IsDigit takes for a digit beyond ASCII

(* Their codes are beyond ASCII and within Unicode. *)
ASSUME WideDigitAssumption ==
    \A c \in WideDigit : c \in Nat /\ c >= 128 - 48 /\ c <= 1114111 - 48

Digit == 0 .. 9

Mark == -1

IsDigit(c) == c \in Digit \cup WideDigit

(* UTF-8: one byte for ASCII, two to four for the others. *)
Bytes(c) ==
    LET code == c + 48
        lead(mark, n) == mark - 48 + (code \div n)
        trail(n) == 128 - 48 + ((code \div n) % 64)
    IN  IF code < 128 THEN <<c>>
        ELSE IF code < 2048 THEN <<lead(192, 64), trail(1)>>
        ELSE IF code < 65536 THEN <<lead(224, 4096), trail(64), trail(1)>>
        ELSE <<lead(240, 262144), trail(4096), trail(64), trail(1)>>

digitsOnly(text) ==
    LET kept[i \in 0 .. Len(text)] ==
            IF i = 0 THEN <<>>
            ELSE IF IsDigit(text[i]) THEN kept[i - 1] \o Bytes(text[i]) ELSE kept[i - 1]
    IN  kept[Len(text)]

allDigitsEqual(value) == \A i \in DOMAIN value : value[i] = value[1]

WeightedSum(value, weight) ==
    LET term(i) == value[i] * weight[i] IN MapThenSumSet(term, DOMAIN weight)

(* Variant: a remainder that gives ten is not folded. *)
CPFDigit_Unfolded(sum) == (11 - (sum % 11)) % 11

CPFDigit(sum) == IF 11 - (sum % 11) >= 10 THEN 0 ELSE 11 - (sum % 11)

CNPJDigit(sum) == IF sum % 11 < 2 THEN 0 ELSE 11 - (sum % 11)

CPFWeights(n) == [i \in 1 .. n |-> n + 2 - i]

isValidCPF(value) ==
    /\ Len(value) = 11 /\ ~allDigitsEqual(value)
    /\ value[10] = CPFDigit(WeightedSum(value, CPFWeights(9)))
    /\ value[11] = CPFDigit(WeightedSum(value, CPFWeights(10)))

weights1 == <<5, 4, 3, 2, 9, 8, 7, 6, 5, 4, 3, 2>>

weights2 == <<6>> \o weights1

isValidCNPJ(value) ==
    /\ Len(value) = 14 /\ ~allDigitsEqual(value)
    /\ value[13] = CNPJDigit(WeightedSum(value, weights1))
    /\ value[14] = CNPJDigit(WeightedSum(value, weights2))

(* Only a field of the kind string has a text. *)
stringValue(kind) == kind = "string"

validateBRDocument(kind, text) ==
    LET value == digitsOnly(text)
    IN  stringValue(kind) /\ (value = <<>> \/ isValidCPF(value) \/ isValidCNPJ(value))

National(value) == IF Len(value) \in {12, 13} /\ SubSeq(value, 1, 2) = <<5, 5>>
                   THEN SubSeq(value, 3, Len(value)) ELSE value

validateBRPhone(kind, text) ==
    LET value == digitsOnly(text)
    IN  stringValue(kind) /\ (value = <<>> \/ Len(National(value)) \in {10, 11})

validateBRZip(kind, text) == stringValue(kind) /\ Len(digitsOnly(text)) = 8

-----------------------------------------------------------------------------
(* What the rules mean, said in another way.                               *)

(* A check digit brings the sum to a multiple of eleven, and is 0 if no    *)
(* digit can.                                                              *)
IsCheckDigit(d, sum) ==
    /\ d \in Digit
    /\ IF \E x \in Digit : (sum + x) % 11 = 0 THEN (sum + d) % 11 = 0 ELSE d = 0

(* Counted from the last digit before the check digit, the weights go from *)
(* 2 up and begin again after `top`.                                       *)
IsChecked(value, n, top) ==
    LET term(i) == value[i] * (2 + ((n - 1 - i) % (top - 1)))
    IN  IsCheckDigit(value[n], MapThenSumSet(term, 1 .. n - 1))

IsDocument(value) ==
    /\ \E i, j \in DOMAIN value : value[i] # value[j]
    /\ \/ Len(value) = 11 /\ IsChecked(value, 10, 11) /\ IsChecked(value, 11, 11)
       \/ Len(value) = 14 /\ IsChecked(value, 13, 9) /\ IsChecked(value, 14, 9)

(* Ten or eleven bytes of digits, with or without the country code. *)
IsPhone(value) == \E code \in {<<>>, <<5, 5>>}, n \in {10, 11} :
                      /\ Len(value) = Len(code) + n
                      /\ SubSeq(value, 1, Len(code)) = code
=============================================================================
