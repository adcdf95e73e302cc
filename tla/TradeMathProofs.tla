-------------------------- MODULE TradeMathProofs --------------------------
(***************************************************************************)
(* What rounding to a Numeric(14, 2) column does and does not change, for  *)
(* every amount and every denominator; what the walk of a book of any      *)
(* depth fills and costs; and what the community modules' folds add up to. *)
(*                                                                         *)
(* A fold is a recursive function over the subsets of a finite set.  What  *)
(* it computes is proved by induction over a set of natural numbers, and   *)
(* that from the least element such a set has: the library's induction     *)
(* theorems, whose parameter is an operator, are not used.                 *)
(***************************************************************************)
EXTENDS TradeMath, FiniteSetTheorems, WellFoundedInduction, TLAPS

(* Multiplication by a natural number keeps the order of integers. *)
LEMMA TimesOrder ==
  ASSUME NEW a \in Int, NEW b \in Int, NEW n \in Nat, a <= b
  PROVE  a * n <= b * n
BY SMT

(* A positive factor can be cancelled from a strict comparison. *)
LEMMA CancelFactor ==
  ASSUME NEW a \in Int, NEW b \in Int, NEW n \in Nat \ {0}, a * n < b * n
  PROVE  a < b
<1>1. SUFFICES ASSUME b <= a PROVE FALSE
  OBVIOUS
<1>2. b * n <= a * n
  BY <1>1, TimesOrder
<1>3. a * n \in Int /\ b * n \in Int
  OBVIOUS
<1> QED BY <1>2, <1>3

(* The quotient of the library's \div, pinned between its two multiples. *)
LEMMA DivBounds ==
  ASSUME NEW a \in Nat, NEW b \in Nat \ {0}
  PROVE  /\ a \div b \in Nat
         /\ (a \div b) * b <= a /\ a < (a \div b) * b + b
BY SMT

(* Rounding is to an integer no further than half a unit away: twice the   *)
(* error, in units of 1 / d, is at most d.                                 *)
LEMMA RoundNear ==
  ASSUME NEW n \in Int, NEW d \in Nat \ {0}
  PROVE  /\ RoundDiv(n, d) \in Int
         /\ 2 * (RoundDiv(n, d) * d) - 2 * n <= d
         /\ 2 * n - 2 * (RoundDiv(n, d) * d) <= d
<1>1. CASE n >= 0
  <2> DEFINE q == (2 * n + d) \div (2 * d)
  <2>1. 2 * n + d \in Nat /\ 2 * d \in Nat \ {0}
    BY <1>1
  <2>2. q \in Nat /\ q * (2 * d) <= 2 * n + d /\ 2 * n + d < q * (2 * d) + 2 * d
    BY <2>1, DivBounds
  <2>3. RoundDiv(n, d) = q
    BY <1>1 DEF RoundDiv
  <2> HIDE DEF q
  <2>4. q * (2 * d) = 2 * (q * d) /\ q * d \in Int
    BY <2>2
  <2> QED BY <2>2, <2>3, <2>4
<1>2. CASE ~(n >= 0)
  <2> DEFINE q == (2 * (-n) + d) \div (2 * d)
  <2>1. 2 * (-n) + d \in Nat /\ 2 * d \in Nat \ {0}
    BY <1>2
  <2>2. q \in Nat /\ q * (2 * d) <= 2 * (-n) + d /\ 2 * (-n) + d < q * (2 * d) + 2 * d
    BY <2>1, DivBounds
  <2>3. RoundDiv(n, d) = -q
    BY <1>2 DEF RoundDiv
  <2> HIDE DEF q
  <2>4. q * (2 * d) = 2 * (q * d) /\ q * d \in Int /\ (-q) * d = -(q * d)
    BY <2>2
  <2> QED BY <2>2, <2>3, <2>4
<1> QED BY <1>1, <1>2

(* A whole number of units is stored as it is. *)
LEMMA RoundExact ==
  ASSUME NEW n \in Int, NEW d \in Nat \ {0}
  PROVE  RoundDiv(n * d, d) = n
<1> DEFINE r == RoundDiv(n * d, d)
<1>1. n * d \in Int
  OBVIOUS
<1>2. /\ r \in Int
      /\ 2 * (r * d) - 2 * (n * d) <= d /\ 2 * (n * d) - 2 * (r * d) <= d
  BY <1>1, RoundNear
<1> HIDE DEF r
<1>3. r * d \in Int /\ (n + 1) * d = n * d + d /\ (r + 1) * d = r * d + d
  BY <1>2
<1>4. r * d < (n + 1) * d /\ n * d < (r + 1) * d
  BY <1>1, <1>2, <1>3
<1>5. r < n + 1 /\ n < r + 1
  BY <1>2, <1>4, CancelFactor
<1>6. r = n
  BY <1>2, <1>5
<1> QED BY <1>6 DEF r

(* Rounding keeps the order of amounts. *)
LEMMA RoundOrder ==
  ASSUME NEW m \in Int, NEW n \in Int, NEW d \in Nat \ {0}, m <= n
  PROVE  RoundDiv(m, d) <= RoundDiv(n, d)
<1>1. CASE m >= 0
  <2> DEFINE p == (2 * m + d) \div (2 * d)
             q == (2 * n + d) \div (2 * d)
  <2>1. RoundDiv(m, d) = p /\ RoundDiv(n, d) = q
    BY <1>1 DEF RoundDiv
  <2>2. 2 * m + d \in Nat /\ 2 * n + d \in Nat /\ 2 * d \in Nat \ {0}
    BY <1>1
  <2>3. p \in Nat /\ q \in Nat
        /\ p * (2 * d) <= 2 * m + d /\ 2 * n + d < q * (2 * d) + 2 * d
    BY <2>2, DivBounds
  <2> HIDE DEF p, q
  <2>4. q * (2 * d) + 2 * d = (q + 1) * (2 * d) /\ p * (2 * d) \in Int
    BY <2>3
  <2>5. p * (2 * d) < (q + 1) * (2 * d)
    BY <2>3, <2>4
  <2>6. p < q + 1
    BY <2>2, <2>3, <2>5, CancelFactor
  <2> QED BY <2>1, <2>3, <2>6
<1>2. CASE n < 0
  <2> DEFINE p == (2 * (-m) + d) \div (2 * d)
             q == (2 * (-n) + d) \div (2 * d)
  <2>1. RoundDiv(m, d) = -p /\ RoundDiv(n, d) = -q
    BY <1>2 DEF RoundDiv
  <2>2. 2 * (-m) + d \in Nat /\ 2 * (-n) + d \in Nat /\ 2 * d \in Nat \ {0}
    BY <1>2
  <2>3. p \in Nat /\ q \in Nat
        /\ q * (2 * d) <= 2 * (-n) + d /\ 2 * (-m) + d < p * (2 * d) + 2 * d
    BY <2>2, DivBounds
  <2> HIDE DEF p, q
  <2>4. p * (2 * d) + 2 * d = (p + 1) * (2 * d) /\ q * (2 * d) \in Int
    BY <2>3
  <2>5. q * (2 * d) < (p + 1) * (2 * d)
    BY <2>3, <2>4
  <2>6. q < p + 1
    BY <2>2, <2>3, <2>5, CancelFactor
  <2> QED BY <2>1, <2>3, <2>6
<1>3. CASE m < 0 /\ n >= 0
  <2> DEFINE p == (2 * (-m) + d) \div (2 * d)
             q == (2 * n + d) \div (2 * d)
  <2>1. RoundDiv(m, d) = -p /\ RoundDiv(n, d) = q
    BY <1>3 DEF RoundDiv
  <2>2. 2 * (-m) + d \in Nat /\ 2 * n + d \in Nat /\ 2 * d \in Nat \ {0}
    BY <1>3
  <2>3. p \in Nat /\ q \in Nat
    BY <2>2, DivBounds
  <2> HIDE DEF p, q
  <2> QED BY <2>1, <2>3
<1> QED BY <1>1, <1>2, <1>3

(* Rounding a sum whose first part is whole differs from rounding the      *)
(* second part alone by at most one unit.                                  *)
LEMMA RoundSum ==
  ASSUME NEW a \in Int, NEW n \in Int, NEW d \in Nat \ {0}
  PROVE  LET gap == RoundDiv(a * d + n, d) - a - RoundDiv(n, d)
         IN  -1 <= gap /\ gap <= 1
<1> DEFINE r == RoundDiv(a * d + n, d)
           s == RoundDiv(n, d)
<1>1. a * d \in Int /\ a * d + n \in Int
  OBVIOUS
<1>2. /\ r \in Int /\ s \in Int
      /\ 2 * (r * d) - 2 * (a * d + n) <= d /\ 2 * (a * d + n) - 2 * (r * d) <= d
      /\ 2 * (s * d) - 2 * n <= d /\ 2 * n - 2 * (s * d) <= d
  BY <1>1, RoundNear
<1> HIDE DEF r, s
<1>3. /\ (r - a - s) * d = r * d - a * d - s * d
      /\ r * d \in Int /\ s * d \in Int
  BY <1>2
<1>4. (r - a - s) * d < 2 * d /\ (-2) * d < (r - a - s) * d
  BY <1>1, <1>2, <1>3
<1>5. r - a - s \in Int
  BY <1>2
<1>6. r - a - s < 2 /\ -2 < r - a - s
  BY <1>4, <1>5, CancelFactor
<1>7. -1 <= r - a - s /\ r - a - s <= 1
  BY <1>5, <1>6
<1> QED BY <1>7 DEF r, s

(* The difference of two rounded amounts is within one unit of the rounded *)
(* difference.                                                             *)
LEMMA RoundDifference ==
  ASSUME NEW m \in Int, NEW n \in Int, NEW d \in Nat \ {0}
  PROVE  LET gap == RoundDiv(m - n, d) - (RoundDiv(m, d) - RoundDiv(n, d))
         IN  -1 <= gap /\ gap <= 1
<1> DEFINE r == RoundDiv(m - n, d)
           p == RoundDiv(m, d)
           q == RoundDiv(n, d)
<1>1. /\ r \in Int /\ p \in Int /\ q \in Int
      /\ 2 * (r * d) - 2 * (m - n) <= d /\ 2 * (m - n) - 2 * (r * d) <= d
      /\ 2 * (p * d) - 2 * m <= d /\ 2 * m - 2 * (p * d) <= d
      /\ 2 * (q * d) - 2 * n <= d /\ 2 * n - 2 * (q * d) <= d
  BY RoundNear
<1> HIDE DEF r, p, q
<1>2. /\ (r - (p - q)) * d = r * d - p * d + q * d
      /\ r * d \in Int /\ p * d \in Int /\ q * d \in Int
  BY <1>1
<1>3. (r - (p - q)) * d < 2 * d /\ (-2) * d < (r - (p - q)) * d
  BY <1>1, <1>2
<1>4. r - (p - q) \in Int
  BY <1>1
<1>5. r - (p - q) < 2 /\ -2 < r - (p - q)
  BY <1>3, <1>4, CancelFactor
<1>6. -1 <= r - (p - q) /\ r - (p - q) <= 1
  BY <1>4, <1>5
<1> QED BY <1>6 DEF r, p, q

(* What is not negative is not stored as a negative amount.                *)
LEMMA RoundNonNegative ==
  ASSUME NEW n \in Nat, NEW d \in Nat \ {0}
  PROVE  RoundDiv(n, d) \in Nat
<1>1. RoundDiv(0 * d, d) = 0 /\ 0 * d = 0
  BY RoundExact
<1>2. RoundDiv(0, d) <= RoundDiv(n, d) /\ RoundDiv(n, d) \in Int
  BY RoundOrder, RoundNear
<1> QED BY <1>1, <1>2
---------------------------------------------------------------------------
(* The rows a fill changes, and the fill, by what their columns may hold;  *)
(* an account's status, type and source are members of given sets.         *)
PositionFigures == [net : Int, entry : Int, realized : Int]
FillFigures     == [qty : Nat \ {0}, value : Nat \ {0}]
AccountFigures(S, T, U) ==
  [status : S, type : T, source : U,
   balance : Nat, equity : Int, realized : Int, floating : Int, daily : Int,
   hwm : Int, drawdown : Nat, drawdownPercent : Int]

(* A quotient of a positive price sum and a quantity, and the rest of the  *)
(* position arithmetic, are integers: no fill divides by zero.             *)
LEMMA PositionFigured ==
  ASSUME NEW old \in PositionFigures, NEW side, NEW fill \in FillFigures
  PROVE  /\ PositionAfter(old, side, fill) \in PositionFigures
         /\ RealizedNumerator(old, side, fill) \in Int
         /\ SignedQuantity(side, fill.qty) \in Int
         /\ PositionAfter(old, side, fill).net = old.net + SignedQuantity(side, fill.qty)
<1> DEFINE change  == SignedQuantity(side, fill.qty)
           net     == old.net + change
           closing == Lesser(Magnitude(old.net), Magnitude(change))
           gain    == fill.value - old.entry * fill.qty
<1>1. /\ old.net \in Int /\ old.entry \in Int /\ old.realized \in Int
      /\ fill.qty \in Nat \ {0} /\ fill.value \in Nat \ {0}
  BY DEF PositionFigures, FillFigures
<1>2. change \in Int /\ change # 0
  BY <1>1 DEF SignedQuantity
<1>3. Magnitude(old.net) \in Nat /\ Magnitude(change) \in Nat /\ Magnitude(net) \in Nat
      /\ (net # 0 => Magnitude(net) # 0) /\ closing \in Nat
  <2> HIDE DEF change
  <2> QED BY <1>1, <1>2 DEF Magnitude, Lesser
<1>4. old.entry * fill.qty \in Int /\ Magnitude(old.net) * old.entry \in Int
  BY <1>1, <1>3
<1>5. gain \in Int
  BY <1>1, <1>4
<1>6. gain * closing \in Int /\ (-gain) * closing \in Int
  <2> HIDE DEF gain, closing
  <2> QED BY <1>3, <1>5
<1>7. RealizedNumerator(old, side, fill) \in Int
  <2> HIDE DEF gain, closing, change
  <2>1. RealizedNumerator(old, side, fill) \in {0, gain * closing, (-gain) * closing}
    BY DEF RealizedNumerator, gain, closing, change
  <2> QED BY <1>6, <2>1
<1>8. EntryAfter(old, side, fill) \in Int
  <2>1. RoundDiv(fill.value, fill.qty) \in Int
    BY <1>1, RoundNear
  <2>2. ASSUME old.net # 0, ~Reduces(old.net, change)
        PROVE  RoundDiv(Magnitude(old.net) * old.entry + fill.value, Magnitude(net)) \in Int
    <3>1. net # 0
      <4> HIDE DEF change
      <4> QED BY <1>1, <1>2, <2>2 DEF Reduces
    <3>2. Magnitude(net) \in Nat \ {0}
      BY <1>3, <3>1
    <3>3. Magnitude(old.net) * old.entry + fill.value \in Int
      BY <1>1, <1>4
    <3> QED BY <3>2, <3>3, RoundNear
  <2> HIDE DEF net, change
  <2>3. CASE old.net = 0
    BY <2>1, <2>3 DEF EntryAfter, Reduces
  <2>4. CASE old.net # 0 /\ ~Reduces(old.net, change)
    BY <2>2, <2>4 DEF EntryAfter, net, change
  <2>5. CASE old.net # 0 /\ Reduces(old.net, change)
    BY <1>1, <2>1, <2>5 DEF EntryAfter, net, change
  <2> QED BY <2>3, <2>4, <2>5
<1>9. RoundDiv(old.realized * fill.qty + RealizedNumerator(old, side, fill), fill.qty) \in Int
  <2>1. old.realized * fill.qty \in Int
    BY <1>1
  <2> QED BY <1>1, <1>7, <2>1, RoundNear
<1> HIDE DEF net, change, gain, closing
<1>10. net \in Int
  BY <1>1, <1>2 DEF net
<1> QED BY <1>2, <1>7, <1>8, <1>9, <1>10 DEF PositionAfter, PositionFigures, net, change

(* The account's amounts before rounding are integers over the quantity.   *)
LEMMA ValuationFigured ==
  ASSUME NEW S, NEW T, NEW U, NEW x \in AccountFigures(S, T, U),
         NEW delta \in Int, NEW qty \in Nat \ {0}, NEW floating \in Int
  PROVE  LET v == Valuation(x, delta, qty, floating)
         IN  /\ v.realized = x.realized * qty + delta
             /\ v.equity = (x.balance + floating) * qty + v.realized
             /\ v.daily = (-x.balance) * qty + v.equity
             /\ v.hwm = Greater(x.hwm * qty, v.equity)
             /\ v.drawdown = v.hwm - v.equity
             /\ v.realized \in Int /\ v.equity \in Int /\ v.daily \in Int
             /\ v.hwm \in Int /\ v.drawdown \in Nat
             /\ v.hwm >= v.equity /\ v.hwm >= x.hwm * qty
<1> DEFINE v == Valuation(x, delta, qty, floating)
<1>1. /\ x.realized \in Int /\ x.balance \in Nat /\ x.hwm \in Int
  BY DEF AccountFigures
<1>2. /\ x.realized * qty \in Int /\ x.balance * qty \in Int
      /\ x.hwm * qty \in Int /\ floating * qty \in Int
  BY <1>1
<1>3. /\ (x.balance + floating) * qty = x.balance * qty + floating * qty
      /\ (-x.balance) * qty = -(x.balance * qty)
  BY <1>1
<1>4. /\ v.realized = x.realized * qty + delta
      /\ v.equity = x.balance * qty + v.realized + floating * qty
      /\ v.daily = v.equity - x.balance * qty
      /\ v.hwm = Greater(x.hwm * qty, v.equity)
      /\ v.drawdown = v.hwm - v.equity
  BY DEF Valuation, Figures
<1> HIDE DEF v
<1>5. v.realized \in Int /\ v.equity \in Int /\ v.daily \in Int
  BY <1>2, <1>4
<1>6. v.hwm \in Int /\ v.hwm >= v.equity /\ v.hwm >= x.hwm * qty
  BY <1>2, <1>4, <1>5 DEF Greater
<1>7. v.drawdown \in Nat
  BY <1>4, <1>5, <1>6
<1>8. v.equity = (x.balance + floating) * qty + v.realized
      /\ v.daily = (-x.balance) * qty + v.equity
  BY <1>2, <1>3, <1>4, <1>5
<1> QED BY <1>4, <1>5, <1>6, <1>7, <1>8 DEF v

(* The row a commit writes is an account's, and only its figures and its   *)
(* status differ from the row it replaces.                                 *)
LEMMA AccountFigured ==
  ASSUME NEW S, NEW T, NEW U, NEW x \in AccountFigures(S, T, U),
         {"PASSED", "FAILED"} \subseteq S, NEW rules, NEW days,
         NEW delta \in Int, NEW qty \in Nat \ {0}, NEW floating \in Int
  PROVE  LET v == Valuation(x, delta, qty, floating)
             y == AccountAfter(x, delta, qty, floating, rules, days)
         IN  /\ y \in AccountFigures(S, T, U)
             /\ y.type = x.type /\ y.source = x.source /\ y.balance = x.balance
             /\ y.realized = RoundDiv(v.realized, qty) /\ y.floating = floating
             /\ y.equity = RoundDiv(v.equity, qty) /\ y.daily = RoundDiv(v.daily, qty)
             /\ y.hwm = RoundDiv(v.hwm, qty) /\ y.drawdown = RoundDiv(v.drawdown, qty)
             /\ y.drawdownPercent = IF v.hwm > 0 THEN RoundDiv(v.drawdown * 10000, v.hwm) ELSE 0
             /\ y.status = Verdict(x, v, qty, floating, rules, days)
             /\ y.status \in {x.status, "PASSED", "FAILED"}
<1> DEFINE v == Valuation(x, delta, qty, floating)
           y == AccountAfter(x, delta, qty, floating, rules, days)
           p == IF v.hwm > 0 THEN RoundDiv(v.drawdown * 10000, v.hwm) ELSE 0
           s == Verdict(x, v, qty, floating, rules, days)
<1>1. /\ v.realized \in Int /\ v.equity \in Int /\ v.daily \in Int
      /\ v.hwm \in Int /\ v.drawdown \in Nat
  BY ValuationFigured
<1>2. y = [x EXCEPT !.realized = RoundDiv(v.realized, qty), !.floating = floating,
                    !.equity = RoundDiv(v.equity, qty), !.daily = RoundDiv(v.daily, qty),
                    !.hwm = RoundDiv(v.hwm, qty), !.drawdown = RoundDiv(v.drawdown, qty),
                    !.drawdownPercent = p, !.status = s]
  BY DEF AccountAfter
<1>3. s \in {x.status, "PASSED", "FAILED"}
  BY DEF Verdict
<1> HIDE DEF v, s
<1>4. p \in Int
  <2>1. v.drawdown * 10000 \in Int
    BY <1>1
  <2>2. v.hwm > 0 => v.hwm \in Nat \ {0}
    BY <1>1
  <2>3. ASSUME v.hwm > 0 PROVE RoundDiv(v.drawdown * 10000, v.hwm) \in Int
    <3>1. \A n \in Int, d \in Nat \ {0} : RoundDiv(n, d) \in Int
      BY RoundNear
    <3> QED BY <2>1, <2>2, <2>3, <3>1
  <2> QED BY <2>3
<1> HIDE DEF p
<1>5. /\ RoundDiv(v.realized, qty) \in Int /\ RoundDiv(v.equity, qty) \in Int
      /\ RoundDiv(v.daily, qty) \in Int /\ RoundDiv(v.hwm, qty) \in Int
      /\ RoundDiv(v.drawdown, qty) \in Nat
  <2>1. \A n \in Int : RoundDiv(n, qty) \in Int
    BY RoundNear
  <2>2. RoundDiv(v.drawdown, qty) \in Nat
    BY <1>1, RoundNonNegative
  <2> QED BY <1>1, <2>1, <2>2
<1> HIDE DEF y
<1>6. y \in AccountFigures(S, T, U)
  BY <1>2, <1>3, <1>4, <1>5 DEF AccountFigures
<1>7. /\ y.type = x.type /\ y.source = x.source /\ y.balance = x.balance
      /\ y.realized = RoundDiv(v.realized, qty) /\ y.floating = floating
      /\ y.equity = RoundDiv(v.equity, qty) /\ y.daily = RoundDiv(v.daily, qty)
      /\ y.hwm = RoundDiv(v.hwm, qty) /\ y.drawdown = RoundDiv(v.drawdown, qty)
      /\ y.drawdownPercent = p /\ y.status = s
  BY <1>2 DEF AccountFigures
<1> QED BY <1>3, <1>6, <1>7 DEF y, p, v, s

---------------------------------------------------------------------------
(* A set of natural numbers that is not empty has a least one. *)
LEMMA NatLeast ==
  ASSUME NEW S \in SUBSET Nat, S # {}
  PROVE  \E m \in S : \A n \in S : m <= n
<1>1. PICK less : less = OpToRel(<, Nat)
  OBVIOUS
<1>2. IsWellFoundedOn(less, Nat)
  BY <1>1, NatLessThanWellFounded
<1>3. PICK m \in S : \A n \in S : ~ (<<n, m>> \in less)
  BY <1>2, WFMin
<1>4. \A m1, n1 \in Nat : n1 < m1 => <<n1, m1>> \in less
  BY <1>1 DEF OpToRel
<1>5. ASSUME NEW n \in S PROVE m <= n
  <2>1. ~ (n < m)
    BY <1>3, <1>4
  <2> QED BY <2>1
<1> QED BY <1>5

(* So what holds of zero and is handed from each number to the next holds  *)
(* of all, whatever set says where it holds.                               *)
LEMMA NatSetInduction ==
  ASSUME NEW P \in SUBSET Nat, 0 \in P, \A n \in P : n + 1 \in P
  PROVE  P = Nat
<1>1. SUFFICES ASSUME P # Nat PROVE FALSE
  OBVIOUS
<1>2. PICK m \in Nat \ P : \A n \in Nat \ P : m <= n
  <2>1. Nat \ P \in SUBSET Nat /\ Nat \ P # {}
    BY <1>1
  <2> QED BY <2>1, NatLeast
<1>3. m # 0 /\ m - 1 \in Nat
  BY <1>2
<1>4. m - 1 \in P
  BY <1>2, <1>3
<1>5. (m - 1) + 1 = m
  BY <1>2
<1> QED BY <1>2, <1>4, <1>5

(* What holds of zero and is handed from each number below n to the next   *)
(* holds up to n.                                                          *)
LEMMA NatInterval ==
  ASSUME NEW n \in Nat, NEW P \in SUBSET Nat, 0 \in P,
         \A k \in P : k < n => k + 1 \in P
  PROVE  \A k \in 0..n : k \in P
<1> DEFINE Q == {k \in Nat : k <= n => k \in P}
<1>1. 0 \in Q
  OBVIOUS
<1>2. \A k \in Q : k + 1 \in Q
  OBVIOUS
<1>3. Q = Nat
  <2>1. Q \in SUBSET Nat
    OBVIOUS
  <2> HIDE DEF Q
  <2> QED BY <1>1, <1>2, <2>1, NatSetInduction
<1> QED BY <1>3

(* The greatest of finitely many natural numbers is its set's Max. *)
LEMMA MaxIsGreatest ==
  ASSUME NEW k \in Nat, NEW S \in SUBSET (1..k), S # {}
  PROVE  Max(S) \in S /\ \A n \in S : Max(S) >= n
<1> DEFINE D == {d \in Nat : k - d \in S}
<1>1. D \in SUBSET Nat
  OBVIOUS
<1>2. PICK s \in S : TRUE
  OBVIOUS
<1>3. k - s \in D
  BY <1>2
<1>4. PICK d \in D : \A e \in D : d <= e
  BY <1>1, <1>3, NatLeast
<1>5. \A n \in S : k - n \in D
  OBVIOUS
<1>6. \A n \in S : d <= k - n
  BY <1>4, <1>5
<1>7. k - d \in S /\ \A n \in S : k - d >= n
  BY <1>4, <1>6
<1> QED BY <1>7 DEF Max

(* A finite set loses one to its cardinality with each element.            *)
LEMMA OneLess ==
  ASSUME NEW T, IsFiniteSet(T), NEW s \in SUBSET T, NEW x \in s
  PROVE  /\ IsFiniteSet(s) /\ Cardinality(s) \in Nat /\ Cardinality(s) > 0
         /\ s \ {x} \in SUBSET T /\ Cardinality(s \ {x}) = Cardinality(s) - 1
<1>1. IsFiniteSet(s)
  BY FS_Subset
<1>2. Cardinality(s) \in Nat /\ Cardinality(s \ {x}) = Cardinality(s) - 1
  BY <1>1, FS_CardinalityType, FS_RemoveElement
<1>3. IsFiniteSet(s \ {x}) /\ Cardinality(s \ {x}) \in Nat
  BY <1>1, FS_RemoveElement, FS_CardinalityType
<1> QED BY <1>1, <1>2, <1>3

(* The subsets of T that have n elements at most.                          *)
UpTo(T, n) == {s \in SUBSET T : Cardinality(s) <= n}

LEMMA UpToZero ==
  ASSUME NEW T, IsFiniteSet(T), NEW s \in UpTo(T, 0)
  PROVE  s = {}
<1>1. s \in SUBSET T /\ Cardinality(s) <= 0
  BY DEF UpTo
<1>2. ASSUME NEW x \in s PROVE Cardinality(s) > 0
  BY <1>1, OneLess
<1>3. Cardinality(s) \in Nat
  BY <1>1, FS_Subset, FS_CardinalityType
<1> QED BY <1>1, <1>2, <1>3

(* f folds the subsets of T, from base on, element by element as picked.   *)
IsFold(f, T, V, base, pick, step) ==
  /\ f \in [SUBSET T -> V]
  /\ \A s \in SUBSET T :
       f[s] = IF s = {} THEN base ELSE step[<<pick[s], f[s \ {pick[s]}]>>]

(* Folding a finite set, element by element in a given order, ends.        *)
LEMMA FoldExists ==
  ASSUME NEW T, IsFiniteSet(T), NEW V, NEW base \in V,
         NEW pick, \A s \in SUBSET T : s # {} => pick[s] \in s,
         NEW step \in [T \X V -> V]
  PROVE  \E f : IsFold(f, T, V, base, pick, step)
<1> DEFINE Grown(f, s) == IF s = {} THEN base ELSE step[<<pick[s], f[s \ {pick[s]}]>>]
           Folds(f, n) == f \in [UpTo(T, n) -> V] /\ \A s \in UpTo(T, n) : f[s] = Grown(f, s)
           P == {n \in Nat : \E f \in [UpTo(T, n) -> V] : Folds(f, n)}
<1>1. 0 \in P
  <2>1. \A s \in UpTo(T, 0) : s = {}
    BY UpToZero
  <2>2. PICK f \in [UpTo(T, 0) -> V] : f = [s \in UpTo(T, 0) |-> base]
    OBVIOUS
  <2>3. Folds(f, 0)
    BY <2>1, <2>2
  <2> QED BY <2>2, <2>3
<1>2. ASSUME NEW n \in P PROVE n + 1 \in P
  <2>1. PICK f \in [UpTo(T, n) -> V] : Folds(f, n)
    BY <1>2
  <2>2. n \in Nat
    OBVIOUS
  <2>3. ASSUME NEW s \in UpTo(T, n + 1), s # {}
        PROVE  /\ pick[s] \in T /\ s \ {pick[s]} \in UpTo(T, n)
               /\ f[s \ {pick[s]}] \in V
    <3>1. pick[s] \in s /\ s \in SUBSET T /\ Cardinality(s) <= n + 1
      BY <2>3 DEF UpTo
    <3>2. Cardinality(s) \in Nat /\ Cardinality(s \ {pick[s]}) = Cardinality(s) - 1
      BY <3>1, OneLess
    <3>3. s \ {pick[s]} \in UpTo(T, n)
      BY <2>2, <3>1, <3>2 DEF UpTo
    <3> QED BY <2>1, <3>1, <3>3
  <2>4. \A s \in UpTo(T, n + 1) : Grown(f, s) \in V
    BY <2>3
  <2>5. PICK g : g = [s \in UpTo(T, n + 1) |-> Grown(f, s)]
    OBVIOUS
  <2>6. g \in [UpTo(T, n + 1) -> V]
    BY <2>4, <2>5
  <2>7. UpTo(T, n) \subseteq UpTo(T, n + 1)
    <3>1. \A s \in SUBSET T : Cardinality(s) \in Nat
      BY FS_Subset, FS_CardinalityType
    <3> QED BY <2>2, <3>1 DEF UpTo
  <2>8. \A s \in UpTo(T, n) : g[s] = f[s]
    BY <2>1, <2>5, <2>7
  <2>9. \A s \in UpTo(T, n + 1) : g[s] = Grown(g, s)
    BY <2>3, <2>5, <2>8
  <2>10. Folds(g, n + 1)
    BY <2>6, <2>9
  <2>11. \E h \in [UpTo(T, n + 1) -> V] : Folds(h, n + 1)
    <3> HIDE DEF Folds, Grown
    <3> QED BY <2>6, <2>10
  <2> HIDE DEF Folds
  <2> QED BY <2>2, <2>11
<1>3. P = Nat
  <2> HIDE DEF P
  <2>1. P \in SUBSET Nat
    BY DEF P
  <2> QED BY <1>1, <1>2, <2>1, NatSetInduction
<1>4. Cardinality(T) \in Nat
  BY FS_CardinalityType
<1>5. UpTo(T, Cardinality(T)) = SUBSET T
  BY FS_Subset DEF UpTo
<1>6. Cardinality(T) \in P
  BY <1>3, <1>4
<1>7. PICK f \in [SUBSET T -> V] : \A s \in SUBSET T : f[s] = Grown(f, s)
  BY <1>5, <1>6
<1> QED BY <1>7 DEF IsFold

---------------------------------------------------------------------------
(* The walk of a book, level by level.                                     *)
WalkState == [left : Int, value : Int]
BookLevel == [price : Nat, quantity : Nat]
PricedLevel == [price : Nat \ {0}, quantity : Nat]
IsWalk(w, levels, quantity) ==
  /\ w \in [0..Len(levels) -> WalkState]
  /\ w[0] = [left |-> quantity, value |-> 0]
  /\ \A k \in 1..Len(levels) : w[k] = TakeLevel(w[k - 1], levels[k])

LEMMA TakeLevelTyped ==
  ASSUME NEW walk \in WalkState, NEW level \in BookLevel
  PROVE  /\ TakeLevel(walk, level) \in WalkState
         /\ walk.left <= 0 => TakeLevel(walk, level) = walk
<1>1. walk.left \in Int /\ walk.value \in Int /\ level.price \in Nat /\ level.quantity \in Nat
  BY DEF WalkState, BookLevel
<1> DEFINE take == IF walk.left <= 0 THEN 0 ELSE Lesser(walk.left, level.quantity)
<1>2. take \in Int /\ (walk.left <= 0 => take = 0)
  BY <1>1 DEF Lesser
<1>3. TakeLevel(walk, level) = [left |-> walk.left - take, value |-> walk.value + take * level.price]
  BY DEF TakeLevel
<1> HIDE DEF take
<1>4. take * level.price \in Int /\ (take = 0 => take * level.price = 0)
  BY <1>1, <1>2
<1>5. walk = [left |-> walk.left, value |-> walk.value]
  BY DEF WalkState
<1> QED BY <1>1, <1>2, <1>3, <1>4, <1>5 DEF WalkState

(* WalkBook is what its levels make of the quantity, taken in turn.        *)
LEMMA WalkBookWalks ==
  ASSUME NEW levels \in Seq(BookLevel), NEW quantity \in Int
  PROVE  \E w : /\ IsWalk(w, levels, quantity)
                /\ WalkBook(levels, quantity) =
                     [qty   |-> quantity - w[Len(levels)].left,
                      value |-> w[Len(levels)].value]
<1> DEFINE n == Len(levels)
           D == DOMAIN levels
           base == [left |-> quantity, value |-> 0]
           iter[s \in SUBSET D] ==
             IF s = {} THEN base ELSE TakeLevel(iter[s \ {Max(s)}], levels[Max(s)])
<1>1. n \in Nat /\ D = 1..n /\ IsFiniteSet(D) /\ base \in WalkState
  BY FS_Interval DEF WalkState
<1>2. \A i \in D : levels[i] \in BookLevel
  OBVIOUS
<1>3. WalkBook(levels, quantity) = [qty |-> quantity - iter[D].left, value |-> iter[D].value]
  BY DEF WalkBook, FoldLeft, MapThenFoldSet
<1>4. \E f : f = [s \in SUBSET D |->
                    IF s = {} THEN base ELSE TakeLevel(f[s \ {Max(s)}], levels[Max(s)])]
  <2>1. PICK pick : pick = [s \in SUBSET D |-> Max(s)]
    OBVIOUS
  <2>2. \A s \in SUBSET D : s # {} => pick[s] = Max(s) /\ pick[s] \in s
    BY <2>1, <1>1, MaxIsGreatest
  <2>3. PICK step : step = [x \in D \X WalkState |-> TakeLevel(x[2], levels[x[1]])]
    OBVIOUS
  <2>4. step \in [D \X WalkState -> WalkState]
    BY <2>3, <1>2, TakeLevelTyped
  <2>5. PICK f : IsFold(f, D, WalkState, base, pick, step)
    <3>1. IsFiniteSet(D) /\ base \in WalkState
      BY <1>1
    <3>2. \A s \in SUBSET D : s # {} => pick[s] \in s
      BY <2>2
    <3> HIDE DEF D, base, iter
    <3> QED BY <3>1, <3>2, <2>4, FoldExists
  <2>6. ASSUME NEW s \in SUBSET D, s # {}
        PROVE  f[s] = TakeLevel(f[s \ {Max(s)}], levels[Max(s)])
    <3>1. Max(s) \in D /\ f[s \ {Max(s)}] \in WalkState
      BY <2>2, <2>5, <2>6 DEF IsFold
    <3>2. f[s] = step[<<Max(s), f[s \ {Max(s)}]>>]
      BY <2>2, <2>5, <2>6 DEF IsFold
    <3> QED BY <2>3, <3>1, <3>2
  <2> HIDE DEF D, base
  <2>7. f = [s \in SUBSET D |->
               IF s = {} THEN base ELSE TakeLevel(f[s \ {Max(s)}], levels[Max(s)])]
    BY <2>5, <2>6 DEF IsFold
  <2> QED BY <2>7
<1>5. iter = [s \in SUBSET D |->
                IF s = {} THEN base ELSE TakeLevel(iter[s \ {Max(s)}], levels[Max(s)])]
  BY <1>4
<1> HIDE DEF iter
<1>6. iter[{}] = base
  BY <1>5
<1>7. ASSUME NEW k \in 1..n PROVE iter[1..k] = TakeLevel(iter[1..(k - 1)], levels[k])
  <2> HIDE DEF D, n
  <2>1. k \in Nat /\ 1..k \in SUBSET D /\ 1..k # {} /\ k \in 1..k
    BY <1>1
  <2>2. Max(1..k) = k
    <3>1. Max(1..k) \in 1..k /\ Max(1..k) >= k
      BY <2>1, MaxIsGreatest
    <3> QED BY <3>1
  <2>3. (1..k) \ {k} = 1..(k - 1)
    BY <1>1
  <2>4. iter[1..k] = TakeLevel(iter[(1..k) \ {Max(1..k)}], levels[Max(1..k)])
    BY <1>5, <2>1
  <2> QED BY <2>2, <2>3, <2>4
<1>8. PICK w : w = [k \in 0..n |-> iter[1..k]]
  OBVIOUS
<1>9. 0 \in 0..n /\ 1..0 = {}
  BY <1>1
<1>10. w[0] = base
  BY <1>6, <1>8, <1>9
<1>11. \A k \in 1..n : w[k] = TakeLevel(w[k - 1], levels[k])
  BY <1>1, <1>7, <1>8
<1>12. \A k \in 0..n : w[k] \in WalkState
  <2> DEFINE P == {k \in Nat : k <= n => w[k] \in WalkState}
  <2>1. 0 \in P
    BY <1>1, <1>10
  <2>2. ASSUME NEW k \in P PROVE k + 1 \in P
    <3>1. CASE k + 1 <= n
      <4>1. k + 1 \in 1..n /\ (k + 1) - 1 = k /\ w[k] \in WalkState
        BY <1>1, <3>1
      <4>2. w[k + 1] = TakeLevel(w[k], levels[k + 1]) /\ levels[k + 1] \in BookLevel
        BY <1>1, <1>2, <1>11, <4>1
      <4> QED BY <4>1, <4>2, TakeLevelTyped
    <3> QED BY <3>1
  <2>3. P = Nat
    <3> HIDE DEF P
    <3>1. P \in SUBSET Nat
      BY DEF P
    <3> QED BY <2>1, <2>2, <3>1, NatSetInduction
  <2> QED BY <1>1, <2>3
<1>13. w \in [0..n -> WalkState]
  BY <1>8, <1>12
<1>14. w[n] = iter[D]
  BY <1>1, <1>8
<1> HIDE DEF base
<1> QED BY <1>3, <1>10, <1>11, <1>13, <1>14 DEF IsWalk, base

(* The walk itself: what is left and spent after each level.               *)
Walk(levels, quantity) ==
  LET walk[k \in 0..Len(levels)] ==
        IF k = 0 THEN [left |-> quantity, value |-> 0]
        ELSE TakeLevel(walk[k - 1], levels[k])
  IN  walk

(* WalkBook is the end of the walk. *)
LEMMA WalkBookEnds ==
  ASSUME NEW levels \in Seq(BookLevel), NEW quantity \in Int
  PROVE  /\ IsWalk(Walk(levels, quantity), levels, quantity)
         /\ WalkBook(levels, quantity) =
              [qty   |-> quantity - Walk(levels, quantity)[Len(levels)].left,
               value |-> Walk(levels, quantity)[Len(levels)].value]
<1>1. PICK w : /\ IsWalk(w, levels, quantity)
               /\ WalkBook(levels, quantity) =
                    [qty   |-> quantity - w[Len(levels)].left,
                     value |-> w[Len(levels)].value]
  BY WalkBookWalks
<1>2. w = [k \in 0..Len(levels) |->
             IF k = 0 THEN [left |-> quantity, value |-> 0]
             ELSE TakeLevel(w[k - 1], levels[k])]
  BY <1>1 DEF IsWalk
<1>3. Walk(levels, quantity) =
        [k \in 0..Len(levels) |->
           IF k = 0 THEN [left |-> quantity, value |-> 0]
           ELSE TakeLevel(Walk(levels, quantity)[k - 1], levels[k])]
  BY <1>2 DEF Walk
<1>4. PICK v : v = Walk(levels, quantity)
  OBVIOUS
<1>5. v = [k \in 0..Len(levels) |->
             IF k = 0 THEN [left |-> quantity, value |-> 0]
             ELSE TakeLevel(v[k - 1], levels[k])]
  BY <1>3, <1>4
<1>6. Len(levels) \in Nat
  OBVIOUS
<1>7. v = w
  <2> DEFINE P == {k \in Nat : k <= Len(levels) => v[k] = w[k]}
  <2>1. 0 \in P
    BY <1>1, <1>5, <1>6 DEF IsWalk
  <2>2. ASSUME NEW k \in P, k < Len(levels) PROVE k + 1 \in P
    <3>1. k \in Nat /\ k + 1 \in 1..Len(levels) /\ k + 1 \in 0..Len(levels)
          /\ (k + 1) - 1 = k /\ v[k] = w[k] /\ k + 1 # 0
      BY <1>6, <2>2
    <3>2. w[k + 1] = TakeLevel(w[k], levels[k + 1])
      BY <1>1, <3>1 DEF IsWalk
    <3>3. v[k + 1] = TakeLevel(v[k], levels[k + 1])
      BY <1>5, <3>1
    <3> QED BY <3>1, <3>2, <3>3
  <2>3. \A k \in 0..Len(levels) : k \in P
    <3>1. P \in SUBSET Nat
      OBVIOUS
    <3> HIDE DEF P
    <3> QED BY <1>6, <2>1, <2>2, <3>1, NatInterval
  <2>4. \A k \in 0..Len(levels) : v[k] = w[k]
    BY <2>3
  <2>5. v = [k \in 0..Len(levels) |-> v[k]] /\ w = [k \in 0..Len(levels) |-> w[k]]
    BY <1>1, <1>5 DEF IsWalk
  <2> QED BY <2>4, <2>5
<1> QED BY <1>1, <1>4, <1>7

(* Once nothing is left, no further level changes the walk.                *)
LEMMA WalkIdles ==
  ASSUME NEW levels \in Seq(BookLevel), NEW quantity \in Int,
         NEW w, IsWalk(w, levels, quantity),
         NEW k \in 0..Len(levels), w[k].left <= 0
  PROVE  w[Len(levels)] = w[k]
<1> DEFINE n == Len(levels)
           P == {d \in Nat : k + d <= n => w[k + d] = w[k]}
<1>1. n \in Nat /\ k \in Nat /\ k <= n /\ \A i \in 1..n : levels[i] \in BookLevel
  OBVIOUS
<1>2. 0 \in P
  BY <1>1
<1>3. ASSUME NEW d \in P PROVE d + 1 \in P
  <2>1. CASE k + d + 1 <= n
    <3>1. /\ k + (d + 1) \in 1..n /\ (k + (d + 1)) - 1 = k + d
          /\ k \in 0..n /\ w[k + d] = w[k]
      BY <1>1, <2>1
    <3>2. w[k + (d + 1)] = TakeLevel(w[k], levels[k + (d + 1)])
      BY <3>1 DEF IsWalk
    <3>3. w[k] \in WalkState /\ levels[k + (d + 1)] \in BookLevel
      BY <1>1, <3>1 DEF IsWalk
    <3>4. w[k + (d + 1)] = w[k]
      BY <3>2, <3>3, TakeLevelTyped
    <3> QED BY <3>4
  <2>2. CASE ~(k + d + 1 <= n)
    BY <1>1, <2>2
  <2> QED BY <2>1, <2>2
<1>4. P = Nat
  <2>1. P \in SUBSET Nat
    OBVIOUS
  <2> HIDE DEF P
  <2> QED BY <1>2, <1>3, <2>1, NatSetInduction
<1>5. n - k \in Nat /\ k + (n - k) = n
  BY <1>1
<1> QED BY <1>4, <1>5

(* A walk that fills anything fills at most what was asked for, at a price. *)
LEMMA WalkFills ==
  ASSUME NEW levels \in Seq(PricedLevel), NEW quantity \in Int
  PROVE  LET fill == WalkBook(levels, quantity)
         IN  \/ fill.qty = 0
             \/ fill \in [qty : Nat \ {0}, value : Nat \ {0}] /\ fill.qty <= quantity
<1> DEFINE n == Len(levels)
           Sound(walk) == /\ walk.left <= quantity /\ walk.value >= 0
                          /\ walk.left < quantity => walk.left >= 0 /\ walk.value > 0
<1>1. /\ n \in Nat /\ levels \in Seq(BookLevel)
      /\ \A i \in 1..n : levels[i] \in PricedLevel
  <2>1. n \in Nat /\ \A i \in 1..n : levels[i] \in PricedLevel
    OBVIOUS
  <2>2. PricedLevel \subseteq BookLevel
    BY DEF BookLevel, PricedLevel
  <2>3. levels = [i \in 1..n |-> levels[i]]
    OBVIOUS
  <2> QED BY <2>1, <2>2, <2>3
<1>2. PICK w : /\ IsWalk(w, levels, quantity)
               /\ WalkBook(levels, quantity) =
                    [qty |-> quantity - w[n].left, value |-> w[n].value]
  BY <1>1, WalkBookWalks
<1>3. \A k \in 0..n : w[k] \in WalkState /\ w[k].left \in Int /\ w[k].value \in Int
  BY <1>2 DEF IsWalk, WalkState
<1>4. ASSUME NEW walk \in WalkState, Sound(walk),
             NEW level \in PricedLevel
      PROVE  Sound(TakeLevel(walk, level))
  <2> DEFINE take == IF walk.left <= 0 THEN 0 ELSE Lesser(walk.left, level.quantity)
  <2>1. /\ walk.left \in Int /\ walk.value \in Int
        /\ level.price \in Nat \ {0} /\ level.quantity \in Nat
    BY DEF WalkState, PricedLevel
  <2>2. take \in Nat /\ (take # 0 => walk.left > 0 /\ take <= walk.left)
    BY <2>1 DEF Lesser
  <2>3. TakeLevel(walk, level) =
          [left |-> walk.left - take, value |-> walk.value + take * level.price]
    BY DEF TakeLevel
  <2> HIDE DEF take
  <2>4. PICK cost \in Nat : cost = take * level.price
    BY <2>1, <2>2
  <2>5. take = 0 => cost = 0
    BY <2>1, <2>4
  <2>6. take # 0 => cost > 0
    BY <2>1, <2>2, <2>4
  <2>7. TakeLevel(walk, level) = [left |-> walk.left - take, value |-> walk.value + cost]
    BY <2>3, <2>4
  <2> QED BY <1>4, <2>1, <2>2, <2>5, <2>6, <2>7
<1>5. \A k \in 0..n : Sound(w[k])
  <2> DEFINE P == {k \in Nat : k <= n => Sound(w[k])}
  <2>1. 0 \in P
    BY <1>1, <1>2 DEF IsWalk
  <2>2. ASSUME NEW k \in P PROVE k + 1 \in P
    <3>1. CASE k + 1 <= n
      <4>1. k + 1 \in 1..n /\ (k + 1) - 1 = k /\ k \in 0..n /\ Sound(w[k])
        BY <1>1, <3>1
      <4>2. w[k + 1] = TakeLevel(w[k], levels[k + 1])
        BY <1>2, <4>1 DEF IsWalk
      <4>3. w[k] \in WalkState /\ levels[k + 1] \in PricedLevel
        BY <1>1, <1>3, <4>1
      <4> HIDE DEF Sound
      <4> QED BY <1>4, <4>1, <4>2, <4>3
    <3> QED BY <3>1
  <2>3. P = Nat
    <3> HIDE DEF P
    <3>1. P \in SUBSET Nat
      BY DEF P
    <3> QED BY <2>1, <2>2, <3>1, NatSetInduction
  <2> QED BY <1>1, <2>3
<1>6. Sound(w[n]) /\ w[n].left \in Int /\ w[n].value \in Int
  BY <1>1, <1>3, <1>5
<1> QED BY <1>2, <1>6

---------------------------------------------------------------------------
(* sum[s] is what f adds up to over s, whichever element is taken first.   *)
IsSum(sum, f, T) ==
  /\ sum \in [SUBSET T -> Int]
  /\ sum[{}] = 0
  /\ \A s \in SUBSET T : \A x \in s : sum[s] = f[x] + sum[s \ {x}]

(* Two elements of a sum may change places.                                *)
LEMMA SumExists ==
  ASSUME NEW T, IsFiniteSet(T), NEW f \in [T -> Int]
  PROVE  \E sum : IsSum(sum, f, T)
<1> DEFINE picked(s) == CHOOSE x \in s : TRUE
           Swaps(sum, s) == \A x \in s : sum[s] = f[x] + sum[s \ {x}]
<1>1. \A s \in SUBSET T : s # {} => picked(s) \in s
  OBVIOUS
<1>2. PICK pick : pick = [s \in SUBSET T |-> picked(s)]
  OBVIOUS
<1> HIDE DEF picked
<1>3. \A s \in SUBSET T : s # {} => pick[s] \in s
  BY <1>1, <1>2
<1>4. PICK step : step = [x \in T \X Int |-> f[x[1]] + x[2]]
  OBVIOUS
<1>5. step \in [T \X Int -> Int]
  BY <1>4
<1>6. 0 \in Int
  OBVIOUS
<1>7. PICK sum : IsFold(sum, T, Int, 0, pick, step)
  BY <1>3, <1>5, <1>6, FoldExists
<1>8. sum \in [SUBSET T -> Int] /\ sum[{}] = 0
  BY <1>7 DEF IsFold
<1>9. ASSUME NEW s \in SUBSET T, s # {}
      PROVE  pick[s] \in s /\ sum[s] = f[pick[s]] + sum[s \ {pick[s]}]
  <2>1. pick[s] \in s /\ sum[s] = step[<<pick[s], sum[s \ {pick[s]}]>>]
    BY <1>3, <1>7, <1>9 DEF IsFold
  <2>2. sum[s \ {pick[s]}] \in Int
    BY <1>8
  <2> QED BY <1>4, <2>1, <2>2
<1>10. \A s \in SUBSET T : Swaps(sum, s)
  <2> DEFINE P == {n \in Nat : \A s \in UpTo(T, n) : Swaps(sum, s)}
  <2>1. 0 \in P
    BY UpToZero
  <2>2. ASSUME NEW n \in P PROVE n + 1 \in P
    <3>1. ASSUME NEW s \in UpTo(T, n + 1), NEW x \in s
          PROVE  sum[s] = f[x] + sum[s \ {x}]
      <4>0. s \in SUBSET T /\ Cardinality(s) <= n + 1 /\ n \in Nat /\ s # {} /\ x \in T
        BY <3>1 DEF UpTo
      <4>1. PICK y : y = pick[s]
        OBVIOUS
      <4>2. y \in s /\ y \in T /\ sum[s] = f[y] + sum[s \ {y}]
        BY <1>9, <4>0, <4>1
      <4>3. CASE x = y
        BY <4>2, <4>3
      <4>4. CASE x # y
        <5>1. /\ s \ {x} \in SUBSET T /\ s \ {y} \in SUBSET T
              /\ Cardinality(s) \in Nat
              /\ Cardinality(s \ {x}) = Cardinality(s) - 1
              /\ Cardinality(s \ {y}) = Cardinality(s) - 1
          BY <4>0, <4>2, OneLess
        <5>2. s \ {x} \in UpTo(T, n) /\ s \ {y} \in UpTo(T, n)
          BY <4>0, <5>1 DEF UpTo
        <5>3. y \in s \ {x} /\ x \in s \ {y} /\ (s \ {x}) \ {y} = (s \ {y}) \ {x}
          BY <4>2, <4>4
        <5>4. Swaps(sum, s \ {x}) /\ Swaps(sum, s \ {y})
          BY <5>2
        <5>5. /\ sum[s \ {x}] = f[y] + sum[(s \ {x}) \ {y}]
              /\ sum[s \ {y}] = f[x] + sum[(s \ {y}) \ {x}]
          BY <5>3, <5>4
        <5>6. f[x] \in Int /\ f[y] \in Int /\ sum[(s \ {y}) \ {x}] \in Int
          BY <1>8, <4>0, <4>2
        <5>7. PICK a \in Int, b \in Int, c \in Int :
                a = f[x] /\ b = f[y] /\ c = sum[(s \ {y}) \ {x}]
          BY <5>6
        <5>8. sum[s \ {x}] = b + c /\ sum[s \ {y}] = a + c
          BY <5>3, <5>5, <5>7
        <5>9. sum[s] = b + (a + c)
          BY <4>2, <5>7, <5>8
        <5>10. f[x] + sum[s \ {x}] = a + (b + c)
          BY <5>7, <5>8
        <5> QED BY <5>9, <5>10
      <4> QED BY <4>3, <4>4
    <3> QED BY <3>1
  <2>3. P = Nat
    <3> HIDE DEF P
    <3>1. P \in SUBSET Nat
      BY DEF P
    <3> QED BY <2>1, <2>2, <3>1, NatSetInduction
  <2>4. ASSUME NEW s \in SUBSET T PROVE Swaps(sum, s)
    <3>1. Cardinality(s) \in Nat
      BY FS_Subset, FS_CardinalityType
    <3>2. s \in UpTo(T, Cardinality(s)) /\ Cardinality(s) \in P
      BY <2>3, <3>1 DEF UpTo
    <3> QED BY <3>2
  <2> QED BY <2>4
<1> QED BY <1>8, <1>10 DEF IsSum

(* Whatever adds the elements up one by one is the sum.                    *)
AddsUp(g, f, T) ==
  /\ g[{}] = 0
  /\ \A s \in SUBSET T : s # {} => \E x \in s : g[s] = f[x] + g[s \ {x}]

LEMMA SumUnique ==
  ASSUME NEW T, IsFiniteSet(T), NEW f, NEW sum, IsSum(sum, f, T), NEW g, AddsUp(g, f, T)
  PROVE  g[T] = sum[T]
<1> DEFINE P == {n \in Nat : \A s \in UpTo(T, n) : g[s] = sum[s]}
<1>1. 0 \in P
  <2>1. ASSUME NEW s \in UpTo(T, 0) PROVE s = {}
    BY UpToZero
  <2> QED BY <2>1 DEF IsSum, AddsUp
<1>2. ASSUME NEW n \in P PROVE n + 1 \in P
  <2>1. ASSUME NEW s \in UpTo(T, n + 1), s # {} PROVE g[s] = sum[s]
    <3>1. s \in SUBSET T /\ Cardinality(s) <= n + 1 /\ n \in Nat
      BY <2>1 DEF UpTo
    <3>2. PICK x \in s : g[s] = f[x] + g[s \ {x}]
      BY <2>1, <3>1 DEF AddsUp
    <3>3. s \ {x} \in UpTo(T, n)
      <4>1. s \ {x} \in SUBSET T /\ Cardinality(s) \in Nat
            /\ Cardinality(s \ {x}) = Cardinality(s) - 1
        BY <3>1, OneLess
      <4> QED BY <3>1, <4>1 DEF UpTo
    <3>4. g[s \ {x}] = sum[s \ {x}]
      BY <3>3
    <3>5. sum[s] = f[x] + sum[s \ {x}]
      BY <3>1 DEF IsSum
    <3> QED BY <3>2, <3>4, <3>5
  <2>2. n + 1 \in Nat
    OBVIOUS
  <2> QED BY <2>1, <2>2 DEF IsSum, AddsUp
<1>3. P = Nat
  <2> HIDE DEF P
  <2>1. P \in SUBSET Nat
    BY DEF P
  <2> QED BY <1>1, <1>2, <2>1, NatSetInduction
<1>4. Cardinality(T) \in Nat /\ T \in UpTo(T, Cardinality(T))
  BY FS_CardinalityType DEF UpTo
<1> QED BY <1>3, <1>4

(* A part of a sum, added up in any order, is what the sum says of it.     *)
LEMMA PartUnique ==
  ASSUME NEW T, IsFiniteSet(T), NEW f, NEW sum, IsSum(sum, f, T),
         NEW S \in SUBSET T, NEW g, AddsUp(g, f, S)
  PROVE  g[S] = sum[S]
<1>1. PICK part : part = [s \in SUBSET S |-> sum[s]]
  OBVIOUS
<1>2. IsSum(part, f, S)
  <2>1. \A s \in SUBSET S : s \in SUBSET T /\ \A x \in s : s \ {x} \in SUBSET S
    OBVIOUS
  <2>2. {} \in SUBSET S
    OBVIOUS
  <2> QED BY <1>1, <2>1, <2>2 DEF IsSum
<1>3. IsFiniteSet(S)
  BY FS_Subset
<1>4. g[S] = part[S]
  BY <1>2, <1>3, SumUnique
<1> QED BY <1>1, <1>4

(* When one term changes, so does the sum, by as much.                     *)
LEMMA SumChanges ==
  ASSUME NEW T, IsFiniteSet(T), NEW x \in T,
         NEW f \in [T -> Int], NEW sum, IsSum(sum, f, T),
         NEW h \in [T -> Int], NEW new, IsSum(new, h, T),
         \A y \in T : y # x => h[y] = f[y],
         NEW S \in SUBSET T, x \notin S => f[x] = 0,
         NEW R \in SUBSET T, x \notin R => h[x] = 0,
         S \ {x} = R \ {x}
  PROVE  sum[S] \in Int /\ new[R] = sum[S] + (h[x] - f[x])
<1>1. PICK Q \in SUBSET T : Q = S \ {x}
  OBVIOUS
<1>2. AddsUp(new, f, Q)
  <2>1. ASSUME NEW s \in SUBSET Q, s # {} PROVE \E y \in s : new[s] = f[y] + new[s \ {y}]
    <3>1. PICK y \in s : TRUE
      BY <2>1
    <3>2. y \in T /\ y # x /\ s \in SUBSET T
      BY <1>1
    <3> QED BY <3>1, <3>2 DEF IsSum
  <2> QED BY <2>1 DEF AddsUp, IsSum
<1>3. new[Q] = sum[Q]
  BY <1>2, PartUnique
<1>4. sum[Q] \in Int /\ sum[S] \in Int /\ new[R] \in Int /\ f[x] \in Int /\ h[x] \in Int
  BY DEF IsSum
<1>5. sum[S] = f[x] + sum[Q]
  <2>1. CASE x \in S
    BY <1>1, <2>1 DEF IsSum
  <2>2. CASE x \notin S
    <3>1. Q = S /\ f[x] = 0
      BY <1>1, <2>2
    <3> QED BY <1>4, <3>1
  <2> QED BY <2>1, <2>2
<1>6. new[R] = h[x] + new[Q]
  <2>1. CASE x \in R
    <3>1. new[R] = h[x] + new[R \ {x}]
      BY <2>1 DEF IsSum
    <3> QED BY <1>1, <3>1
  <2>2. CASE x \notin R
    <3>1. Q = R /\ h[x] = 0
      BY <1>1, <2>2
    <3> QED BY <1>3, <1>4, <3>1
  <2> QED BY <2>1, <2>2
<1>7. PICK q, a, b, c : q = sum[Q] /\ a = f[x] /\ b = h[x] /\ c = sum[S]
  OBVIOUS
<1>8. q \in Int /\ a \in Int /\ b \in Int /\ c \in Int
  BY <1>4, <1>7
<1>9. c = a + q /\ new[R] = b + q
  BY <1>3, <1>5, <1>6, <1>7
<1>10. b + q = c + (b - a)
  BY <1>8, <1>9
<1> QED BY <1>4, <1>7, <1>9, <1>10

(* FoldFunction of the community modules is such a sum. *)
LEMMA FoldFunctionSums ==
  ASSUME NEW T, IsFiniteSet(T), NEW f \in [T -> Int], NEW sum, IsSum(sum, f, T)
  PROVE  FoldFunction(LAMBDA a, b : a + b, 0, f) = sum[T]
<1> DEFINE iter[s \in SUBSET DOMAIN f] ==
             IF s = {} THEN 0
             ELSE f[CHOOSE x \in s : TRUE] + iter[s \ {CHOOSE x \in s : TRUE}]
<1>0. DOMAIN f = T
  OBVIOUS
<1>1. FoldFunction(LAMBDA a, b : a + b, 0, f) = iter[DOMAIN f]
  BY DEF FoldFunction, FoldFunctionOnSet, MapThenFoldSet
<1>2. PICK h : h = [s \in SUBSET DOMAIN f |->
                     IF s = {} THEN 0
                     ELSE f[CHOOSE x \in s : TRUE] + h[s \ {CHOOSE x \in s : TRUE}]]
  <2>1. sum = [s \in SUBSET DOMAIN f |->
                 IF s = {} THEN 0
                 ELSE f[CHOOSE x \in s : TRUE] + sum[s \ {CHOOSE x \in s : TRUE}]]
    <3> SUFFICES sum = [s \in SUBSET T |->
                 IF s = {} THEN 0
                 ELSE f[CHOOSE x \in s : TRUE] + sum[s \ {CHOOSE x \in s : TRUE}]]
      BY <1>0
    <3> QED BY DEF IsSum
  <2> QED BY <2>1
<1>4. iter = [s \in SUBSET DOMAIN f |->
               IF s = {} THEN 0
               ELSE f[CHOOSE x \in s : TRUE] + iter[s \ {CHOOSE x \in s : TRUE}]]
  BY <1>2
<1>7. PICK g : g = iter
  OBVIOUS
<1> HIDE DEF iter
<1>8. g = [s \in SUBSET T |->
               IF s = {} THEN 0
               ELSE f[CHOOSE x \in s : TRUE] + g[s \ {CHOOSE x \in s : TRUE}]]
  BY <1>0, <1>4, <1>7
<1>9. AddsUp(g, f, T)
  BY <1>8 DEF AddsUp
<1>10. g[T] = sum[T]
  BY <1>9, SumUnique
<1> QED BY <1>0, <1>1, <1>7, <1>10

(* What a function adds up to.                                             *)
Totals(f) == FoldFunction(LAMBDA a, b : a + b, 0, f)

(* The total of a function on 1..n is that of its running sums.            *)
LEMMA RunningTotal ==
  ASSUME NEW n \in Nat, NEW f \in [1..n -> Int]
  PROVE  \E S \in [0..n -> Int] :
           /\ S[0] = 0 /\ S[n] = Totals(f)
           /\ \A k \in 1..n : S[k] = S[k - 1] + f[k]
<1> DEFINE D == 1..n
<1>1. IsFiniteSet(D)
  BY FS_Interval
<1>2. PICK sum : IsSum(sum, f, D)
  BY <1>1, SumExists
<1>3. Totals(f) = sum[D]
  BY <1>1, <1>2, FoldFunctionSums DEF Totals
<1>4. PICK S : S = [k \in 0..n |-> sum[1..k]]
  OBVIOUS
<1>5. \A k \in 0..n : 1..k \in SUBSET D
  OBVIOUS
<1>6. S \in [0..n -> Int]
  BY <1>2, <1>4, <1>5 DEF IsSum
<1>7. S[0] = 0
  <2>1. 0 \in 0..n /\ 1..0 = {}
    OBVIOUS
  <2> QED BY <1>2, <1>4, <2>1 DEF IsSum
<1>8. S[n] = Totals(f)
  BY <1>3, <1>4
<1>9. ASSUME NEW k \in 1..n PROVE S[k] = S[k - 1] + f[k]
  <2>1. k \in 0..n /\ k - 1 \in 0..n /\ k \in 1..k /\ (1..k) \ {k} = 1..(k - 1)
    OBVIOUS
  <2>2. sum[1..k] = f[k] + sum[(1..k) \ {k}]
    BY <1>2, <1>5, <2>1 DEF IsSum
  <2>3. sum[1..k] = S[k] /\ sum[1..(k - 1)] = S[k - 1] /\ S[k - 1] \in Int /\ f[k] \in Int
    BY <1>4, <1>6, <2>1
  <2>4. PICK a \in Int, b \in Int : a = S[k - 1] /\ b = f[k]
    BY <2>3
  <2>5. S[k] = b + a
    BY <2>1, <2>2, <2>3, <2>4
  <2> QED BY <2>4, <2>5
<1> QED BY <1>6, <1>7, <1>8, <1>9

---------------------------------------------------------------------------
(* The walk of a book is the best execution of what it fills.              *)
(* What one level gives: no more than it has or is left to fill, and all   *)
(* it has unless that completes the order.                                 *)
LEMMA LevelGives ==
  ASSUME NEW walk \in WalkState, NEW level \in BookLevel
  PROVE  \E take \in Nat :
           /\ TakeLevel(walk, level) =
                [left |-> walk.left - take, value |-> walk.value + take * level.price]
           /\ take # 0 => take <= walk.left
           /\ walk.left > take => take = level.quantity
<1>1. walk.left \in Int /\ level.quantity \in Nat
  BY DEF WalkState, BookLevel
<1>2. PICK take : take = IF walk.left <= 0 THEN 0 ELSE Lesser(walk.left, level.quantity)
  OBVIOUS
<1>3. take \in Nat /\ (take # 0 => take <= walk.left)
      /\ (walk.left > take => take = level.quantity)
  BY <1>1, <1>2 DEF Lesser
<1>4. TakeLevel(walk, level) =
        [left |-> walk.left - take, value |-> walk.value + take * level.price]
  BY <1>2 DEF TakeLevel
<1> QED BY <1>3, <1>4

(* A walk never fills more than asked for, nor less than nothing.          *)
LEMMA WalkBounds ==
  ASSUME NEW levels \in Seq(BookLevel), NEW quantity \in Int,
         NEW w, IsWalk(w, levels, quantity)
  PROVE  \A k \in 0..Len(levels) :
           /\ w[k].left \in Int /\ w[k].value \in Int /\ w[k].left <= quantity
           /\ w[k].left < quantity => w[k].left >= 0
<1> DEFINE n == Len(levels)
           P == {k \in Nat : k <= n => /\ w[k].left <= quantity
                                       /\ w[k].left < quantity => w[k].left >= 0}
<1>1. n \in Nat /\ \A i \in 1..n : levels[i] \in BookLevel
  OBVIOUS
<1>2. \A k \in 0..n : w[k] \in WalkState
  BY DEF IsWalk
<1>3. 0 \in P
  BY DEF IsWalk
<1>4. ASSUME NEW k \in P, k < n PROVE k + 1 \in P
  <2>1. k + 1 \in 1..n /\ (k + 1) - 1 = k /\ k \in 0..n /\ k \in Nat
    BY <1>1, <1>4
  <2>2. w[k] \in WalkState /\ levels[k + 1] \in BookLevel
    BY <1>1, <1>2, <2>1
  <2>3. PICK take \in Nat :
          /\ TakeLevel(w[k], levels[k + 1]) =
               [left |-> w[k].left - take, value |-> w[k].value + take * levels[k + 1].price]
          /\ take # 0 => take <= w[k].left
    BY <2>2, LevelGives
  <2>4. w[k + 1].left = w[k].left - take
    BY <2>1, <2>3 DEF IsWalk
  <2>5. w[k].left \in Int
    BY <2>2 DEF WalkState
  <2>6. w[k].left <= quantity /\ (w[k].left < quantity => w[k].left >= 0)
    BY <1>4, <2>1
  <2>7. w[k + 1].left <= quantity /\ (w[k + 1].left < quantity => w[k + 1].left >= 0)
    BY <2>3, <2>4, <2>5, <2>6
  <2> QED BY <2>1, <2>7
<1>5. \A k \in 0..n : k \in P
  <2>1. P \in SUBSET Nat
    OBVIOUS
  <2> HIDE DEF P
  <2> QED BY <1>1, <1>3, <1>4, <2>1, NatInterval
<1> QED BY <1>2, <1>5 DEF WalkState

(* Of all ways to take what the walk takes, none is ahead of it.           *)
LEMMA WalkIsAhead ==
  ASSUME NEW levels \in Seq(BookLevel), NEW quantity \in Int,
         NEW w, IsWalk(w, levels, quantity),
         NEW T \in [0..Len(levels) -> Int], T[0] = 0,
         \A k \in 1..Len(levels) : /\ T[k - 1] <= T[k]
                                   /\ T[k] - T[k - 1] <= levels[k].quantity,
         T[Len(levels)] = quantity - w[Len(levels)].left
  PROVE  \A k \in 0..Len(levels) : T[k] <= quantity - w[k].left
<1> DEFINE n == Len(levels)
           P == {k \in Nat : k <= n => T[k] <= quantity - w[k].left \/ w[k].left <= 0}
           Q == {d \in Nat : d <= n => T[n - d] <= T[n]}
<1>1. n \in Nat /\ \A i \in 1..n : levels[i] \in BookLevel /\ levels[i].quantity \in Nat
  <2>1. n \in Nat /\ \A i \in 1..n : levels[i] \in BookLevel
    OBVIOUS
  <2> QED BY <2>1 DEF BookLevel
<1>2. \A k \in 0..n : w[k] \in WalkState /\ w[k].left \in Int /\ T[k] \in Int
  BY DEF IsWalk, WalkState
<1>3. 0 \in P
  BY DEF IsWalk
<1>4. ASSUME NEW k \in P, k < n PROVE k + 1 \in P
  <2>1. /\ k + 1 \in 1..n /\ (k + 1) - 1 = k /\ k \in 0..n /\ k + 1 \in 0..n /\ k \in Nat
    BY <1>1, <1>4
  <2>2. PICK take \in Nat :
          /\ TakeLevel(w[k], levels[k + 1]) =
               [left |-> w[k].left - take, value |-> w[k].value + take * levels[k + 1].price]
          /\ take # 0 => take <= w[k].left
          /\ w[k].left > take => take = levels[k + 1].quantity
    <3>1. w[k] \in WalkState /\ levels[k + 1] \in BookLevel
      BY <1>1, <1>2, <2>1
    <3> QED BY <3>1, LevelGives
  <2>3. w[k + 1].left = w[k].left - take
    BY <2>1, <2>2 DEF IsWalk
  <2>4. T[k + 1] - T[k] <= levels[k + 1].quantity
    BY <2>1
  <2>5. T[k] <= quantity - w[k].left \/ w[k].left <= 0
    BY <1>4, <2>1
  <2>6. w[k].left \in Int /\ T[k] \in Int /\ T[k + 1] \in Int /\ levels[k + 1].quantity \in Nat
    BY <1>1, <1>2, <2>1
  <2>7. T[k + 1] <= quantity - w[k + 1].left \/ w[k + 1].left <= 0
    <3>1. PICK l, l1, t, t1, q : /\ l = w[k].left /\ l1 = w[k + 1].left /\ t = T[k]
                                 /\ t1 = T[k + 1] /\ q = levels[k + 1].quantity
      OBVIOUS
    <3>2. l \in Int /\ t \in Int /\ t1 \in Int /\ q \in Nat
      BY <2>6, <3>1
    <3>3. /\ take # 0 => take <= l
          /\ l > take => take = q
          /\ l1 = l - take /\ t1 - t <= q /\ (t <= quantity - l \/ l <= 0)
      BY <2>2, <2>3, <2>4, <2>5, <3>1
    <3>4. t1 <= quantity - l1 \/ l1 <= 0
      BY <3>2, <3>3
    <3> QED BY <3>1, <3>4
  <2> QED BY <2>1, <2>7
<1>5. \A k \in 0..n : k \in P
  <2>1. P \in SUBSET Nat
    OBVIOUS
  <2> HIDE DEF P
  <2> QED BY <1>1, <1>3, <1>4, <2>1, NatInterval
<1>6. \A k \in 0..n : T[k] <= T[n]
  <2>1. 0 \in Q
    BY <1>1, <1>2
  <2>2. ASSUME NEW d \in Q, d < n PROVE d + 1 \in Q
    <3>1. /\ d \in Nat /\ n - d \in 1..n /\ (n - d) - 1 = n - (d + 1)
          /\ n - d \in 0..n /\ n - (d + 1) \in 0..n /\ n \in 0..n
      BY <1>1, <2>2
    <3>2. T[n - (d + 1)] <= T[n - d] /\ T[n - d] <= T[n]
      BY <2>2, <3>1
    <3>3. T[n - (d + 1)] \in Int /\ T[n - d] \in Int /\ T[n] \in Int
      BY <3>1
    <3> QED BY <3>1, <3>2, <3>3
  <2>3. \A d \in 0..n : d \in Q
    <3>1. Q \in SUBSET Nat
      OBVIOUS
    <3> HIDE DEF Q
    <3> QED BY <1>1, <2>1, <2>2, <3>1, NatInterval
  <2>4. ASSUME NEW k \in 0..n PROVE T[k] <= T[n]
    <3>1. PICK m \in Nat : m = n
      BY <1>1
    <3>3. PICK d : d = m - k
      OBVIOUS
    <3>4. d \in 0..m /\ m - d = k
      BY <3>1, <3>3
    <3>2. d \in Q /\ d <= n /\ n - d = k
      BY <2>3, <3>1, <3>4
    <3> QED BY <3>2
  <2> QED BY <2>4
<1>7. ASSUME NEW k \in 0..n PROVE T[k] <= quantity - w[k].left
  <2>1. T[k] <= quantity - w[k].left \/ w[k].left <= 0
    BY <1>5
  <2>2. T[k] <= T[n]
    BY <1>6
  <2>3. n \in 0..n
    BY <1>1
  <2>4. /\ w[n].left \in Int
        /\ w[n].left < quantity => w[n].left >= 0
        /\ w[k].left \in Int /\ w[k].left <= quantity /\ w[n].left <= quantity
    BY <2>3, WalkBounds
  <2>5. T[k] \in Int /\ T[n] \in Int /\ T[n] = quantity - w[n].left
    BY <2>3
  <2>6. PICK l, m, t, e : l = w[k].left /\ m = w[n].left /\ t = T[k] /\ e = T[n]
    OBVIOUS
  <2>7. l \in Int /\ m \in Int /\ t \in Int /\ e \in Int
    BY <2>4, <2>5, <2>6
  <2>8. /\ t <= quantity - l \/ l <= 0
        /\ t <= e /\ e = quantity - m
        /\ l <= quantity /\ m <= quantity /\ (m < quantity => m >= 0)
    BY <2>1, <2>2, <2>4, <2>5, <2>6
  <2>9. t <= quantity - l
    BY <2>7, <2>8
  <2> QED BY <2>6, <2>9
<1> QED BY <1>7

(* Running totals G of quantity and V of money at unit prices p.           *)
Runs(G, V, p, n) ==
  /\ G \in [0..n -> Int] /\ V \in [0..n -> Int]
  /\ G[0] = 0 /\ V[0] = 0
  /\ \A k \in 1..n : V[k] = V[k - 1] + (G[k] - G[k - 1]) * p[k]

(* With prices that never fall, the one of two ways to the same total that *)
(* is never behind the other costs no more.                                *)
LEMMA EarlierIsCheaper ==
  ASSUME NEW n \in Nat, NEW p \in [1..n -> Int],
         \A k \in 1..(n - 1) : p[k] <= p[k + 1],
         NEW G, NEW V, Runs(G, V, p, n), NEW T, NEW C, Runs(T, C, p, n),
         \A k \in 0..n : T[k] <= G[k], T[n] = G[n]
  PROVE  V[n] <= C[n]
<1> DEFINE P == {k \in Nat : k <= n => /\ k = 0 => V[k] <= C[k]
                                       /\ k > 0 => V[k] <= C[k] + (G[k] - T[k]) * p[k]}
<1>1. 0 \in P
  BY DEF Runs
<1>2. ASSUME NEW k \in P, k < n PROVE k + 1 \in P
  <2>1. k \in Nat /\ k + 1 \in 1..n /\ (k + 1) - 1 = k /\ k \in 0..n /\ k + 1 \in 0..n
    BY <1>2
  <2>2. PICK g \in Int, v \in Int, t \in Int, c \in Int :
          g = G[k] /\ v = V[k] /\ t = T[k] /\ c = C[k]
    BY <2>1 DEF Runs
  <2>3. PICK g1 \in Int, t1 \in Int, q \in Int : g1 = G[k + 1] /\ t1 = T[k + 1] /\ q = p[k + 1]
    BY <2>1 DEF Runs
  <2>4. V[k + 1] = v + (g1 - g) * q /\ C[k + 1] = c + (t1 - t) * q
    BY <2>1, <2>2, <2>3 DEF Runs
  <2>5. t <= g
    BY <2>1, <2>2
  <2>6. v <= c + (g - t) * q
    <3>1. CASE k = 0
      <4>1. v = 0 /\ c = 0 /\ g = 0 /\ t = 0
        BY <2>2, <3>1 DEF Runs
      <4> QED BY <4>1
    <3>2. CASE k > 0
      <4>1. PICK r \in Int : r = p[k] /\ r <= q
        BY <2>1, <2>3, <3>2, <1>2
      <4>2. v <= c + (g - t) * r
        BY <1>2, <2>1, <2>2, <3>2, <4>1
      <4>3. PICK d \in Nat : d = g - t
        BY <2>5
      <4>4. r * d <= q * d
        BY <4>1, TimesOrder
      <4>5. d * r = r * d /\ d * q = q * d /\ r * d \in Int /\ q * d \in Int
        BY <4>1
      <4> QED BY <4>2, <4>3, <4>4, <4>5
    <3> QED BY <2>1, <3>1, <3>2
  <2>7. V[k + 1] <= C[k + 1] + (g1 - t1) * q
    <3>1. (g1 - g) * q = g1 * q - g * q /\ (t1 - t) * q = t1 * q - t * q
          /\ (g - t) * q = g * q - t * q /\ (g1 - t1) * q = g1 * q - t1 * q
      OBVIOUS
    <3>2. g1 * q \in Int /\ g * q \in Int /\ t1 * q \in Int /\ t * q \in Int
      OBVIOUS
    <3> QED BY <2>4, <2>6, <3>1, <3>2
  <2> QED BY <2>1, <2>3, <2>7
<1>3. n \in P
  <2>1. P \in SUBSET Nat
    OBVIOUS
  <2> HIDE DEF P
  <2>2. \A k \in 0..n : k \in P
    BY <1>1, <1>2, <2>1, NatInterval
  <2> QED BY <2>2
<1>4. CASE n = 0
  BY <1>3, <1>4
<1>5. CASE n > 0
  <2>1. V[n] <= C[n] + (G[n] - T[n]) * p[n]
    BY <1>3, <1>5
  <2>2. G[n] - T[n] = 0 /\ p[n] \in Int /\ C[n] \in Int
    BY <1>5 DEF Runs
  <2>3. (G[n] - T[n]) * p[n] = 0
    BY <2>2
  <2> QED BY <2>1, <2>2, <2>3
<1> QED BY <1>4, <1>5

(* The same with prices that never rise: no more is earned later.          *)
LEMMA EarlierIsDearer ==
  ASSUME NEW n \in Nat, NEW p \in [1..n -> Int],
         \A k \in 1..(n - 1) : p[k] >= p[k + 1],
         NEW G, NEW V, Runs(G, V, p, n), NEW T, NEW C, Runs(T, C, p, n),
         \A k \in 0..n : T[k] <= G[k], T[n] = G[n]
  PROVE  V[n] >= C[n]
<1>1. PICK q, U, D : /\ q = [k \in 1..n |-> -p[k]]
                     /\ U = [k \in 0..n |-> -V[k]] /\ D = [k \in 0..n |-> -C[k]]
  OBVIOUS
<1>0. q \in [1..n -> Int] /\ U \in [0..n -> Int] /\ D \in [0..n -> Int]
  BY <1>1 DEF Runs
<1>2. \A a, b \in Int : a * (-b) = -(a * b) /\ a * b \in Int
  OBVIOUS
<1>3. ASSUME NEW A, NEW B, Runs(A, B, p, n), NEW E \in [0..n -> Int],
             E = [k \in 0..n |-> -B[k]]
      PROVE  Runs(A, E, q, n)
  <2>1. ASSUME NEW k \in 1..n PROVE E[k] = E[k - 1] + (A[k] - A[k - 1]) * q[k]
    <3>1. /\ k \in 0..n /\ k - 1 \in 0..n /\ p[k] \in Int /\ q[k] = -p[k]
          /\ E[k] = -B[k] /\ E[k - 1] = -B[k - 1]
      BY <1>1, <1>3
    <3>6. A[k] \in Int /\ A[k - 1] \in Int /\ B[k] \in Int /\ B[k - 1] \in Int
      BY <1>3, <3>1 DEF Runs
    <3>2. PICK d, b0, b1, r :
            d = A[k] - A[k - 1] /\ b0 = B[k - 1] /\ b1 = B[k] /\ r = p[k]
      OBVIOUS
    <3>7. d \in Int /\ b0 \in Int /\ b1 \in Int /\ r \in Int
      BY <3>1, <3>2, <3>6
    <3>3. b1 = b0 + d * r
      BY <1>3, <3>2 DEF Runs
    <3>4. d * (-r) = -(d * r) /\ d * r \in Int
      BY <1>2, <3>7
    <3>5. -b1 = -b0 + d * (-r)
      BY <3>3, <3>4, <3>7
    <3> QED BY <3>1, <3>2, <3>5
  <2>2. E[0] = 0 /\ A[0] = 0 /\ A \in [0..n -> Int]
    BY <1>3 DEF Runs
  <2> QED BY <2>1, <2>2 DEF Runs
<1>4. Runs(G, U, q, n) /\ Runs(T, D, q, n)
  BY <1>0, <1>1, <1>3
<1>5. \A k \in 1..(n - 1) : q[k] <= q[k + 1]
  <2>1. ASSUME NEW k \in 1..(n - 1) PROVE q[k] <= q[k + 1]
    <3>1. k \in 1..n /\ k + 1 \in 1..n /\ p[k] >= p[k + 1]
      OBVIOUS
    <3> QED BY <1>1, <3>1
  <2> QED BY <2>1
<1>6. U[n] <= D[n]
  BY <1>0, <1>4, <1>5, EarlierIsCheaper
<1>7. n \in 0..n /\ V[n] \in Int /\ C[n] \in Int
  BY DEF Runs
<1> QED BY <1>1, <1>6, <1>7

(* With the best level first, whatever else takes from the book what the   *)
(* walk takes costs a buyer no less and pays a seller no more.             *)
LEMMA WalkIsBest ==
  ASSUME NEW levels \in Seq(BookLevel), NEW quantity \in Int,
         NEW take \in [1..Len(levels) -> Nat],
         \A k \in 1..Len(levels) : take[k] <= levels[k].quantity,
         Totals(take) = WalkBook(levels, quantity).qty
  PROVE  LET value == WalkBook(levels, quantity).value
             cost  == Totals([k \in 1..Len(levels) |-> take[k] * levels[k].price])
         IN  /\ (\A k \in 1..(Len(levels) - 1) : levels[k].price <= levels[k + 1].price)
                  => value <= cost
             /\ (\A k \in 1..(Len(levels) - 1) : levels[k].price >= levels[k + 1].price)
                  => value >= cost
<1>1. PICK n \in Nat : n = Len(levels)
  OBVIOUS
<1>2. \A k \in 1..n : /\ levels[k] \in BookLevel
                      /\ levels[k].price \in Nat /\ levels[k].quantity \in Nat
  <2>1. \A k \in 1..n : levels[k] \in BookLevel
    BY <1>1
  <2> QED BY <2>1 DEF BookLevel
<1>3. PICK w : /\ IsWalk(w, levels, quantity)
               /\ WalkBook(levels, quantity) =
                    [qty |-> quantity - w[n].left, value |-> w[n].value]
  BY <1>1, WalkBookEnds
<1>4. \A k \in 0..n : w[k] \in WalkState /\ w[k].left \in Int /\ w[k].value \in Int
  BY <1>1, <1>3 DEF IsWalk, WalkState
<1>5. PICK price, spend : /\ price = [k \in 1..n |-> levels[k].price]
                          /\ spend = [k \in 1..n |-> take[k] * levels[k].price]
  OBVIOUS
<1>6. price \in [1..n -> Int] /\ spend \in [1..n -> Int] /\ take \in [1..n -> Int]
  BY <1>1, <1>2, <1>5
<1>7. PICK T \in [0..n -> Int] :
        /\ T[0] = 0 /\ T[n] = Totals(take)
        /\ \A k \in 1..n : T[k] = T[k - 1] + take[k]
  BY <1>6, RunningTotal
<1>8. PICK C \in [0..n -> Int] :
        /\ C[0] = 0 /\ C[n] = Totals(spend)
        /\ \A k \in 1..n : C[k] = C[k - 1] + spend[k]
  BY <1>6, RunningTotal
<1>9. PICK G, V : G = [k \in 0..n |-> quantity - w[k].left] /\ V = [k \in 0..n |-> w[k].value]
  OBVIOUS
<1>10. G \in [0..n -> Int] /\ V \in [0..n -> Int]
  BY <1>4, <1>9
<1>11. Runs(T, C, price, n)
  <2>1. ASSUME NEW k \in 1..n PROVE C[k] = C[k - 1] + (T[k] - T[k - 1]) * price[k]
    <3>1. /\ T[k - 1] \in Int /\ take[k] \in Int
          /\ T[k] = T[k - 1] + take[k] /\ C[k] = C[k - 1] + spend[k]
          /\ spend[k] = take[k] * price[k]
      BY <1>5, <1>6, <1>7, <1>8
    <3>2. T[k] - T[k - 1] = take[k]
      <4>1. PICK a \in Int, b \in Int : a = T[k - 1] /\ b = take[k]
        BY <3>1
      <4>2. T[k] - T[k - 1] = (a + b) - a
        BY <3>1, <4>1
      <4> QED BY <4>1, <4>2
    <3> QED BY <3>1, <3>2
  <2> QED BY <1>7, <1>8, <2>1 DEF Runs
<1>12. Runs(G, V, price, n)
  <2>1. ASSUME NEW k \in 1..n PROVE V[k] = V[k - 1] + (G[k] - G[k - 1]) * price[k]
    <3>1. k - 1 \in 0..n /\ k \in 0..n
      OBVIOUS
    <3>2. PICK gives \in Nat :
            TakeLevel(w[k - 1], levels[k]) =
              [left |-> w[k - 1].left - gives, value |-> w[k - 1].value + gives * levels[k].price]
      BY <1>2, <1>4, <3>1, LevelGives
    <3>3. w[k] = TakeLevel(w[k - 1], levels[k])
      BY <1>1, <1>3 DEF IsWalk
    <3>4. w[k].left = w[k - 1].left - gives /\ w[k].value = w[k - 1].value + gives * levels[k].price
      BY <3>2, <3>3
    <3>5. PICK l \in Int : l = w[k - 1].left
      BY <1>4, <3>1
    <3>6. G[k] = quantity - (l - gives) /\ G[k - 1] = quantity - l
      BY <1>9, <3>1, <3>4, <3>5
    <3>7. G[k] - G[k - 1] = gives
      BY <3>6
    <3>8. V[k] = w[k - 1].value + gives * levels[k].price /\ V[k - 1] = w[k - 1].value
      BY <1>9, <3>1, <3>4
    <3> QED BY <1>5, <3>7, <3>8
  <2>2. w[0] = [left |-> quantity, value |-> 0] /\ 0 \in 0..n
    BY <1>3 DEF IsWalk
  <2>3. G[0] = 0 /\ V[0] = 0
    BY <1>9, <2>2
  <2> QED BY <1>10, <2>1, <2>3 DEF Runs
<1>13. n \in 0..n
  OBVIOUS
<1>14. /\ T[n] = G[n] /\ T[n] = quantity - w[n].left
       /\ V[n] = WalkBook(levels, quantity).value
  BY <1>3, <1>7, <1>9, <1>13
<1>15. \A k \in 0..n : T[k] <= G[k]
  <2>1. ASSUME NEW k \in 1..n PROVE T[k - 1] <= T[k] /\ T[k] - T[k - 1] <= levels[k].quantity
    <3>1. PICK a, b, q : a = T[k - 1] /\ b = take[k] /\ q = levels[k].quantity
      OBVIOUS
    <3>2. a \in Int /\ b \in Nat /\ q \in Nat
      <4>1. k - 1 \in 0..n /\ k \in 1..Len(levels)
        BY <1>1
      <4>2. a \in Int
        BY <3>1, <4>1
      <4>3. b \in Nat
        BY <3>1, <4>1
      <4>4. q \in Nat
        BY <1>2, <3>1
      <4> QED BY <4>2, <4>3, <4>4
    <3>3. b <= q
      BY <1>1, <3>1
    <3>4. T[k] = a + b
      BY <1>7, <3>1
    <3>5. a <= a + b /\ (a + b) - a <= q
      BY <3>2, <3>3
    <3> QED BY <3>1, <3>4, <3>5
  <2>2. \A k \in 0..n : T[k] <= quantity - w[k].left
    BY <1>1, <1>3, <1>7, <1>14, <2>1, WalkIsAhead
  <2> QED BY <1>9, <2>2
<1>16. ASSUME \A k \in 1..(n - 1) : levels[k].price <= levels[k + 1].price
       PROVE  V[n] <= C[n]
  <2>1. \A k \in 1..(n - 1) : price[k] <= price[k + 1]
    BY <1>5, <1>16
  <2> QED BY <1>6, <1>11, <1>12, <1>14, <1>15, <2>1, EarlierIsCheaper
<1>17. ASSUME \A k \in 1..(n - 1) : levels[k].price >= levels[k + 1].price
       PROVE  V[n] >= C[n]
  <2>1. \A k \in 1..(n - 1) : price[k] >= price[k + 1]
    BY <1>5, <1>17
  <2> QED BY <1>6, <1>11, <1>12, <1>14, <1>15, <2>1, EarlierIsDearer
<1>18. Totals([k \in 1..Len(levels) |-> take[k] * levels[k].price]) = C[n]
  BY <1>1, <1>5, <1>8
<1> QED BY <1>1, <1>14, <1>16, <1>17, <1>18

=============================================================================
