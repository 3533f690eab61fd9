------------------------------ MODULE MCValues ------------------------------
(* Values for TLC: whole documents around bases that reach every remainder, *)
(* telephones and CEPs of all lengths, digits of other scripts among them,  *)
(* amounts around the half cents.                                           *)
EXTENDS Values

MCAmount == (-12 .. 12) \cup {95, 100, 105, 3333}

MCPercent == {-2500, -1, 0, 1, 999, 1500, 3333, 5000, 9950, 9999, 10000, 10001, 15000}

(* Six digits are free, the others repeat them. *)
Bases(n) == {[i \in 1 .. n |-> f[1 + (i % 6)]] : f \in [1 .. 6 -> {3, 8}]}

WholeDocuments == {b \o <<c, d>> : b \in Bases(9) \cup Bases(12), c \in Digit, d \in Digit}

Numbers == {code \o [i \in 1 .. n |-> 9] : code \in {<<>>, <<5, 5>>, <<5>>}, n \in 0 .. 13}

(* A mark in the middle. *)
Written(text) ==
    LET half == Len(text) \div 2
    IN  [i \in 1 .. Len(text) + 1 |->
            IF i <= half THEN text[i] ELSE IF i = half + 1 THEN Mark ELSE text[i - 1]]

Plain == WholeDocuments \cup Numbers

(* U+0664, U+096B and U+1D7CE: digits of two, three and four bytes. *)
MCWideDigit == {1588, 2363, 120734}

(* One to eight of them, alone or after digits of ASCII, and documents that begin with one. *)
Foreign == {[i \in 1 .. n |-> w] : n \in 1 .. 8, w \in MCWideDigit}

MixedNumbers == {code \o [i \in 1 .. n |-> 9] \o f : code \in {<<>>, <<5, 5>>}, n \in 1 .. 4,
                                                 f \in Foreign}

MixedDocuments == {<<w>> \o [i \in 1 .. n |-> b] \o <<c, d>> : w \in MCWideDigit, n \in 5 .. 10,
                                                  b \in {3, 8}, c \in Digit, d \in Digit}

MCText == Plain \cup {Written(t) : t \in Plain \cup Foreign} \cup Foreign
              \cup MixedNumbers \cup MixedDocuments

MCGeneration == {0, 1, 10}

MCId == {<<50>>, <<LetterG, Numeral(0)>>}

(* One character, another one for each text of up to eight that Selection joins. *)
MCHash(text) ==
    LET sum[i \in 0 .. Len(text)] == IF i = 0 THEN 100 ELSE 4 * sum[i - 1] + (text[i] % 4)
    IN  <<sum[Len(text)]>>

MCSelection == UNION {[1 .. n -> {<<51>>, <<51, 52>>, <<52>>}] : n \in 1 .. 3}
=============================================================================
