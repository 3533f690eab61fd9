------------------------------- MODULE Money --------------------------------
(***************************************************************************)
(* pkg/money/money.go: the price that a discount leaves.  Decimals are     *)
(* integers here: an amount counts tenths of a cent, a percentage          *)
(* hundredths of a percent.  The division keeps 16 decimal places          *)
(* (shopspring/decimal), so at this precision only Round rounds.           *)
(***************************************************************************)
EXTENDS Integers

Cent == 10

Cem == 10000              \* a hundred percent

DiscountPercent == "percent"
DiscountAmount  == "amount"

(* The whole number nearest to n / d, a half going away from zero. *)
Nearest(n, d) == IF n >= 0 THEN (2 * n + d) \div (2 * d)
                           ELSE -((d - 2 * n) \div (2 * d))

Round(n, d) == Cent * Nearest(n, d * Cent)

FloorAtZero(value) == IF value < 0 THEN 0 ELSE value

(* Variant: the discount is rounded, and not the price. *)
ApplyPercentDiscount_RoundsDiscount(list, percent) ==
    IF list < 0 \/ percent > Cem THEN 0
    ELSE FloorAtZero(list - Round(list * percent, Cem))

ApplyPercentDiscount(list, percent) ==
    IF list < 0 \/ percent > Cem THEN 0
    ELSE FloorAtZero(Round(list * (Cem - percent), Cem))

ApplyAmountDiscount(list, amount) == FloorAtZero(Round(list - amount, 1))

(* The price, and whether the rule was known. *)
ApplyDiscount(list, kind, value) ==
    CASE kind = DiscountPercent -> <<ApplyPercentDiscount(list, value), TRUE>>
      [] kind = DiscountAmount  -> <<ApplyAmountDiscount(list, value), TRUE>>
      [] OTHER                  -> <<list, FALSE>>

-----------------------------------------------------------------------------
(* What a price should be, said without rounding.                          *)

(* In parts of Cem of an amount. *)
ExactPrice(list, kind, value) ==
    IF kind = DiscountPercent THEN list * (Cem - value) ELSE Cem * (list - value)

IsNearestPrice(price, exact) ==
    /\ price % Cent = 0
    /\ exact - Cem * price < 5 * Cem
    /\ Cem * price - exact <= 5 * Cem

(* No price is below zero, and one that is not zero is the nearest cent. *)
IsPrice(price, list, kind, value) ==
    /\ price >= 0
    /\ list >= 0 /\ ExactPrice(list, kind, value) >= 0 =>
           IsNearestPrice(price, ExactPrice(list, kind, value))
    /\ list >= 0 /\ ExactPrice(list, kind, value) < 0 => price = 0

(* A dearer item does not get cheaper, nor a discount dearer. *)
IsMonotone(list, kind, value) ==
    LET price(l, v) == ApplyDiscount(l, kind, v)[1]
    IN  /\ price(list, value) <= price(list + 1, value)
        /\ price(list, value + 1) <= price(list, value)
=============================================================================
