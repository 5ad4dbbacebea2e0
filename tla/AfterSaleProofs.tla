--------------------------- MODULE AfterSaleProofs ---------------------------
(***************************************************************************)
(* Proofs about what may follow a paid sale: its refunds and its void       *)
(* (SaleRefunds), for any sales, return ids and approvals, and the retries  *)
(* of a document's projection (ProjectionRetry), for any workers and any    *)
(* number of retries.                                                       *)
(***************************************************************************)
EXTENDS SaleRefunds, ProjectionRetry, FiniteSums, TLAPS, FiniteSetTheorems

-----------------------------------------------------------------------------
(* Shares.                                                                   *)
LEMMA DivBounds ==
    ASSUME NEW a \in Int, NEW c \in Nat \ {0}
    PROVE  /\ a \div c \in Int
           /\ (a \div c) * c <= a
           /\ a < (a \div c) * c + c
<1>1. a \div c \in Int /\ a % c \in 0..c-1 /\ a = c * (a \div c) + (a % c)
    OBVIOUS
<1> QED
    BY <1>1

LEMMA FifthsDiffer ==
    ASSUME NEW x \in Int, NEW y \in Int, x % 5 = 0, y % 5 = 0
    PROVE  (x - y) % 5 = 0
OBVIOUS

LEMMA LessFactor ==
    ASSUME NEW x \in Int, NEW y \in Int, NEW c \in Nat \ {0}, x * c < y * c
    PROVE  x < y
OBVIOUS

LEMMA ShareBounds ==
    ASSUME NEW amount \in Int, NEW part \in Int, NEW whole \in Nat \ {0}
    PROVE  /\ FloorShare(amount, part, whole) \in Int
           /\ FloorShare(amount, part, whole) * whole <= amount * part
           /\ amount * part < (FloorShare(amount, part, whole) + 1) * whole
<1>1. amount * part \in Int
    OBVIOUS
<1> DEFINE d == (amount * part) \div whole
<1>2. d \in Int /\ d * whole <= amount * part /\ amount * part < d * whole + whole
    BY <1>1, DivBounds
<1>3. d * whole + whole = (d + 1) * whole
    BY <1>2
<1> HIDE DEF d
<1> QED
    BY <1>2, <1>3 DEF FloorShare, d

LEMMA ShareEnds ==
    ASSUME NEW amount \in Int, NEW whole \in Nat \ {0}
    PROVE  /\ FloorShare(amount, 0, whole) = 0
           /\ FloorShare(amount, whole, whole) = amount
<1>1. amount * 0 = 0 /\ 0 \div whole = 0
    OBVIOUS
<1> QED
    BY <1>1 DEF FloorShare

-----------------------------------------------------------------------------
(* Sums over the lines of a sale and over its first refunds.                 *)
LEMMA SumIsTotal == ASSUME NEW f PROVE SumFunction(f) = Total(f, DOMAIN f)
    BY DEF SumFunction, Total

LEMMA SumInt ==
    ASSUME NEW S, IsFiniteSet(S), NEW f \in [S -> Int]
    PROVE  SumFunction(f) \in Int
<1>1. \A x \in S : f[x] \in Int
    OBVIOUS
<1> QED
    BY <1>1, SumIsTotal, TotalInt

LEMMA SumNat ==
    ASSUME NEW S, IsFiniteSet(S), NEW f \in [S -> Nat]
    PROVE  SumFunction(f) \in Nat
<1>1. \A x \in S : f[x] \in Nat
    OBVIOUS
<1> QED
    BY <1>1, SumIsTotal, TotalNat

LEMMA SumGrows ==
    ASSUME NEW S, IsFiniteSet(S), NEW f \in [S -> Int], NEW g \in [S -> Int],
           \A x \in S : f[x] <= g[x]
    PROVE  SumFunction(f) <= SumFunction(g)
<1>1. \A x \in S : f[x] \in Int /\ g[x] \in Int /\ f[x] <= g[x]
    OBVIOUS
<1> QED
    BY <1>1, SumIsTotal, TotalGrows

LEMMA SumZero ==
    ASSUME NEW S, IsFiniteSet(S), NEW f \in [S -> Int], \A x \in S : f[x] = 0
    PROVE  SumFunction(f) = 0
<1> DEFINE B == {T \in SUBSET S : Total(f, T) # 0}
<1> SUFFICES ASSUME B # {} PROVE FALSE
    <2>1. S \notin B
        OBVIOUS
    <2> QED
        BY <2>1, SumIsTotal
<1>1. PICK T \in B : \A U \in B : U \subseteq T => U = T
    <2>1. B \subseteq SUBSET S
        OBVIOUS
    <2> HIDE DEF B
    <2> QED
        BY <2>1, SmallestSet
<1>2. T \in SUBSET S /\ Total(f, T) # 0 /\ IsFiniteSet(T)
    <2>1. T \in SUBSET S /\ Total(f, T) # 0
        BY <1>1
    <2> QED
        BY <2>1, FS_Subset
<1>3. T # {} /\ Chosen(T) \in T
    BY <1>2, TotalEmpty, ChosenIn
<1>4. Total(f, T \ {Chosen(T)}) = 0
    BY <1>1, <1>2, <1>3
<1>5. Total(f, T) = f[Chosen(T)] + Total(f, T \ {Chosen(T)})
    BY <1>2, <1>3, TotalUnfolds
<1>6. f[Chosen(T)] = 0
    BY <1>2, <1>3
<1> QED
    BY <1>2, <1>4, <1>5, <1>6

LEMMA SumOfNone == ASSUME NEW f, DOMAIN f = 1..0 PROVE SumFunction(f) = 0
<1>1. 1..0 = {}
    OBVIOUS
<1> QED
    BY <1>1, SumIsTotal, TotalEmpty

(* One more refund adds one more term.                                       *)
LEMMA SumOfOneMore ==
    ASSUME NEW n \in Nat, NEW f \in [1..n -> Int], NEW g \in [1..(n+1) -> Int],
           \A i \in 1..n : g[i] = f[i]
    PROVE  SumFunction(g) = SumFunction(f) + g[n+1]
<1> DEFINE S == 1..n
           T == 1..(n+1)
           a == n + 1
<1>1. IsFiniteSet(T)
    BY FS_Interval
<1>2. a \in T /\ S = T \ {a} /\ g[a] \in Int
    OBVIOUS
<1>3. \A i \in S : f[i] \in Int /\ g[i] = f[i]
    OBVIOUS
<1>4. SumFunction(f) = Total(f, S) /\ SumFunction(g) = Total(g, T)
    BY SumIsTotal
<1> HIDE DEF S, T, a
<1>5. Total(g, T) = Total(f, S) + g[a]
    BY <1>1, <1>2, <1>3, TotalAdded
<1> QED
    BY <1>4, <1>5 DEF a

-----------------------------------------------------------------------------
(* Positions.                                                                *)

(* What SalesAssumption says of the sale.                                    *)
Sold ==
    /\ IsFiniteSet(Lines)
    /\ sale.qty \in [Lines -> Nat \ {0}] /\ sale.total \in [Lines -> Nat]
    /\ sale.tax \in Nat /\ sale.rounding \in Int /\ sale.unit \in {1, 5}
    /\ Subtotal \in Nat
    /\ Subtotal = 0 => sale.tax = 0 /\ sale.rounding = 0
    /\ Paid \in Int /\ Paid = Subtotal + sale.tax + sale.rounding
    /\ sale.unit = 5 => Paid % 5 = 0

LEMMA SaleIsSold == ASSUME sale \in Sales PROVE Sold
<1>1. /\ IsFiniteSet(Lines)
      /\ sale.qty \in [Lines -> Nat \ {0}] /\ sale.total \in [Lines -> Nat]
      /\ sale.tax \in Nat /\ sale.rounding \in Int /\ sale.unit \in {1, 5}
      /\ Subtotal = 0 => sale.tax = 0 /\ sale.rounding = 0
      /\ sale.unit = 5 => (Subtotal + sale.tax + sale.rounding) % 5 = 0
    BY SalesAssumption DEF Lines, Subtotal
<1>2. Subtotal \in Nat
    BY <1>1, SumNat DEF Subtotal
<1> QED
    BY <1>1, <1>2 DEF Sold, Paid

LEMMA NetFacts ==
    ASSUME Sold, NEW units \in [Lines -> Int]
    PROVE  /\ Net(units) \in [Lines -> Int]
           /\ SumFunction(Net(units)) \in Int
           /\ \A l \in Lines : Net(units)[l] * sale.qty[l] <= sale.total[l] * units[l]
           /\ (\A l \in Lines : units[l] = 0) => SumFunction(Net(units)) = 0
           /\ units = sale.qty => Net(units) = sale.total
<1>1. \A l \in Lines : sale.qty[l] \in Nat \ {0} /\ sale.total[l] \in Int /\ units[l] \in Int
    BY DEF Sold
<1>2. \A l \in Lines : /\ Net(units)[l] \in Int
                       /\ Net(units)[l] * sale.qty[l] <= sale.total[l] * units[l]
                       /\ units[l] = 0 => Net(units)[l] = 0
                       /\ units[l] = sale.qty[l] => Net(units)[l] = sale.total[l]
    <2> SUFFICES ASSUME NEW l \in Lines
                 PROVE  /\ Net(units)[l] \in Int
                        /\ Net(units)[l] * sale.qty[l] <= sale.total[l] * units[l]
                        /\ units[l] = 0 => Net(units)[l] = 0
                        /\ units[l] = sale.qty[l] => Net(units)[l] = sale.total[l]
        OBVIOUS
    <2>1. Net(units)[l] = FloorShare(sale.total[l], units[l], sale.qty[l])
        BY DEF Net
    <2>2. /\ Net(units)[l] \in Int
          /\ Net(units)[l] * sale.qty[l] <= sale.total[l] * units[l]
        BY <1>1, <2>1, ShareBounds
    <2>3. /\ units[l] = 0 => Net(units)[l] = 0
          /\ units[l] = sale.qty[l] => Net(units)[l] = sale.total[l]
        BY <1>1, <2>1, ShareEnds
    <2> QED
        BY <2>2, <2>3
<1>3. Net(units) \in [Lines -> Int]
    BY <1>2 DEF Net
<1>4. SumFunction(Net(units)) \in Int
    BY <1>3, SumInt DEF Sold
<1>5. ASSUME \A l \in Lines : units[l] = 0 PROVE SumFunction(Net(units)) = 0
    BY <1>2, <1>3, <1>5, SumZero DEF Sold
<1>6. ASSUME units = sale.qty PROVE Net(units) = sale.total
    <2>1. \A l \in Lines : Net(units)[l] = sale.total[l]
        BY <1>2, <1>6
    <2> QED
        BY <1>3, <2>1 DEF Sold
<1> QED
    BY <1>2, <1>3, <1>4, <1>5, <1>6

LEMMA PartFacts ==
    ASSUME Sold, NEW amount \in {sale.tax, sale.rounding}, NEW whole \in Int
    PROVE  /\ Part(amount, whole) \in Int
           /\ whole = 0 => Part(amount, whole) = 0
           /\ whole = Subtotal => Part(amount, whole) = amount
           /\ Subtotal > 0 => Part(amount, whole) * Subtotal <= amount * whole
<1>1. amount \in Int /\ Subtotal \in Nat /\ (Subtotal = 0 => amount = 0)
    BY DEF Sold
<1>2. CASE Subtotal = 0
    BY <1>1, <1>2 DEF Part
<1>3. CASE Subtotal # 0
    BY <1>1, <1>3, ShareBounds, ShareEnds DEF Part
<1> QED
    BY <1>2, <1>3

LEMMA PositionIs ==
    ASSUME Sold, NEW units \in [Lines -> Int]
    PROVE  LET whole == SumFunction(Net(units))
               exact == whole + Part(sale.tax, whole) + Part(sale.rounding, whole)
           IN /\ Position(units).net = Net(units)
              /\ Position(units).tax = Part(sale.tax, whole)
              /\ Position(units).amount = IF sale.unit = 5 /\ whole # Subtotal
                                          THEN exact - (exact % 5) ELSE exact
              /\ Position(units).rounding =
                     Position(units).amount - whole - Position(units).tax
BY DEF Position, Payable

(* A position gives back no more than the exact share of what was paid, in   *)
(* cash in steps of 5 sen; that of all units gives back everything, that of  *)
(* none nothing.                                                             *)
LEMMA PositionFacts ==
    ASSUME Sold, NEW units \in [Lines -> Int]
    PROVE  /\ Position(units).net = Net(units)
           /\ Position(units).tax \in Int /\ Position(units).rounding \in Int
           /\ Position(units).amount \in Int
           /\ Subtotal > 0 => Position(units).amount * Subtotal
                                  <= Paid * SumFunction(Net(units))
           /\ sale.unit = 5 => Position(units).amount % 5 = 0
<1> DEFINE whole == SumFunction(Net(units))
           tax == Part(sale.tax, whole)
           rounding == Part(sale.rounding, whole)
           exact == whole + tax + rounding
           amount == Position(units).amount
<1>1. whole \in Int
    BY NetFacts
<1> HIDE DEF whole
<1>2. /\ tax \in Int /\ rounding \in Int
      /\ Subtotal > 0 => tax * Subtotal <= sale.tax * whole
                         /\ rounding * Subtotal <= sale.rounding * whole
      /\ whole = Subtotal => tax = sale.tax /\ rounding = sale.rounding
    BY <1>1, PartFacts
<1> HIDE DEF tax, rounding
<1>3. /\ Position(units).net = Net(units) /\ Position(units).tax = tax
      /\ amount = IF sale.unit = 5 /\ whole # Subtotal THEN exact - (exact % 5) ELSE exact
      /\ Position(units).rounding = amount - whole - tax
    BY PositionIs DEF whole, tax, rounding
<1>4. exact \in Int /\ exact % 5 \in 0..4
    BY <1>1, <1>2
<1>5. amount \in Int /\ amount <= exact
    BY <1>3, <1>4
<1>6. sale.unit = 5 => amount % 5 = 0
    <2>1. CASE whole # Subtotal
        BY <1>3, <1>4, <2>1
    <2>2. CASE whole = Subtotal
        BY <1>2, <1>3, <2>2 DEF Sold
    <2> QED
        BY <2>1, <2>2
<1>7. ASSUME Subtotal > 0 PROVE amount * Subtotal <= Paid * whole
    <2>1. amount * Subtotal <= exact * Subtotal
        BY <1>4, <1>5, <1>7 DEF Sold
    <2>2. exact * Subtotal = whole * Subtotal + tax * Subtotal + rounding * Subtotal
        BY <1>1, <1>2 DEF Sold
    <2>3. Paid * whole = whole * Subtotal + sale.tax * whole + sale.rounding * whole
        BY <1>1 DEF Sold
    <2> DEFINE a == tax * Subtotal
               b == rounding * Subtotal
               c == sale.tax * whole
               d == sale.rounding * whole
               e == whole * Subtotal
    <2>4. a \in Int /\ b \in Int /\ c \in Int /\ d \in Int /\ e \in Int /\ a <= c /\ b <= d
        BY <1>1, <1>2, <1>7 DEF Sold
    <2>5. amount * Subtotal \in Int /\ amount * Subtotal <= e + a + b /\ Paid * whole = e + c + d
        BY <1>5, <2>1, <2>2, <2>3 DEF Sold
    <2> HIDE DEF a, b, c, d, e
    <2> QED
        BY <2>4, <2>5
<1> QED
    BY <1>1, <1>2, <1>3, <1>5, <1>6, <1>7 DEF whole

LEMMA PositionOfNone ==
    ASSUME Sold, NEW units \in [Lines -> Int], \A l \in Lines : units[l] = 0
    PROVE  /\ Position(units).amount = 0 /\ Position(units).tax = 0
           /\ Position(units).rounding = 0
           /\ \A l \in Lines : Position(units).net[l] = 0
<1>1. SumFunction(Net(units)) = 0
    BY NetFacts
<1>2. Part(sale.tax, 0) = 0 /\ Part(sale.rounding, 0) = 0
    BY PartFacts
<1>3. \A l \in Lines : Net(units)[l] = 0
    BY ShareEnds DEF Net, Sold
<1>4. 0 + 0 + 0 = 0 /\ 0 - (0 % 5) = 0 /\ 0 - 0 - 0 = 0
    OBVIOUS
<1> QED
    BY <1>1, <1>2, <1>3, <1>4, PositionIs

LEMMA PositionOfAll ==
    ASSUME Sold
    PROVE  /\ Position(sale.qty).amount = Paid /\ Position(sale.qty).tax = sale.tax
           /\ Position(sale.qty).rounding = sale.rounding
           /\ Position(sale.qty).net = sale.total
<1>1. sale.qty \in [Lines -> Int]
    BY DEF Sold
<1>2. Net(sale.qty) = sale.total /\ SumFunction(Net(sale.qty)) = Subtotal
    BY <1>1, NetFacts DEF Subtotal
<1>3. Part(sale.tax, Subtotal) = sale.tax /\ Part(sale.rounding, Subtotal) = sale.rounding
    BY PartFacts DEF Sold
<1>4. Position(sale.qty).amount = Paid /\ Position(sale.qty).tax = sale.tax
      /\ Position(sale.qty).net = sale.total
      /\ Position(sale.qty).rounding = Paid - Subtotal - sale.tax
    BY <1>1, <1>2, <1>3, PositionIs DEF Sold
<1> QED
    BY <1>4 DEF Sold

-----------------------------------------------------------------------------
(* What the refunds have given back is the position of what they returned.   *)
RefundType == [id : Returns, token : Tokens, units : [Lines -> Nat], net : [Lines -> Int],
               tax : Int, rounding : Int, amount : Int]

Back(n) == [l \in Lines |-> SumFunction([i \in 1..n |-> refunds[i].net[l]])]
TaxBack(n) == SumFunction([i \in 1..n |-> refunds[i].tax])
RoundingBack(n) == SumFunction([i \in 1..n |-> refunds[i].rounding])

Matches ==
    LET n == Len(refunds)
        position == Position(Returned(n))
    IN /\ \A l \in Lines : Returned(n)[l] <= sale.qty[l]
       /\ Back(n) = position.net /\ PaidBack(n) = position.amount
       /\ TaxBack(n) = position.tax /\ RoundingBack(n) = position.rounding
       /\ sale.unit = 5 => \A i \in 1..n : refunds[i].amount % 5 = 0

LEMMA ReturnedTyped ==
    ASSUME refunds \in Seq(RefundType), NEW n \in 0..Len(refunds)
    PROVE  Returned(n) \in [Lines -> Nat]
<1> SUFFICES ASSUME NEW l \in Lines
             PROVE  SumFunction([i \in 1..n |-> refunds[i].units[l]]) \in Nat
    BY DEF Returned
<1> DEFINE S == 1..n
           f == [i \in S |-> refunds[i].units[l]]
<1>1. IsFiniteSet(S)
    BY FS_Interval
<1>2. f \in [S -> Nat]
    <2>1. \A i \in S : refunds[i] \in RefundType
        OBVIOUS
    <2>2. \A i \in S : refunds[i].units[l] \in Nat
        BY <2>1 DEF RefundType
    <2> QED
        BY <2>2
<1>3. SumFunction(f) \in Nat
    <2> HIDE DEF f, S
    <2> QED
        BY <1>1, <1>2, SumNat
<1> QED
    BY <1>3

(* The sums after one more refund.                                           *)
LEMMA HistoryGrows ==
    ASSUME refunds \in Seq(RefundType), NEW e \in RefundType,
           refunds' = Append(refunds, e), sale' = sale
    PROVE  LET n == Len(refunds) IN
           /\ refunds' \in Seq(RefundType)
           /\ Len(refunds') = n + 1 /\ refunds'[n+1] = e
           /\ \A i \in 1..n : refunds'[i] = refunds[i]
           /\ Returned(Len(refunds))' = [l \in Lines |-> Returned(n)[l] + e.units[l]]
           /\ Back(Len(refunds))' = [l \in Lines |-> Back(n)[l] + e.net[l]]
           /\ PaidBack(Len(refunds))' = PaidBack(n) + e.amount
           /\ TaxBack(Len(refunds))' = TaxBack(n) + e.tax
           /\ RoundingBack(Len(refunds))' = RoundingBack(n) + e.rounding
<1> DEFINE n == Len(refunds)
<1>1. /\ n \in Nat /\ refunds' \in Seq(RefundType)
      /\ Len(refunds') = n + 1 /\ refunds'[n+1] = e
      /\ \A i \in 1..n : refunds'[i] = refunds[i] /\ refunds[i] \in RefundType
    OBVIOUS
<1>2. Lines' = Lines
    BY DEF Lines
<1> HIDE DEF n
<1>3. \A i \in 1..(n+1) : refunds'[i] \in RefundType
    BY <1>1
<1>4. /\ \A i \in 1..n : /\ refunds[i].amount \in Int /\ refunds[i].tax \in Int
                         /\ refunds[i].rounding \in Int
                         /\ \A l \in Lines : refunds[i].units[l] \in Int /\ refunds[i].net[l] \in Int
      /\ \A i \in 1..(n+1) : /\ refunds'[i].amount \in Int /\ refunds'[i].tax \in Int
                             /\ refunds'[i].rounding \in Int
                             /\ \A l \in Lines : refunds'[i].units[l] \in Int /\ refunds'[i].net[l] \in Int
    <2>1. \A r \in RefundType : /\ r.amount \in Int /\ r.tax \in Int /\ r.rounding \in Int
                               /\ r.units \in [Lines -> Nat] /\ r.net \in [Lines -> Int]
        BY DEF RefundType
    <2>2. \A r \in RefundType : \A l \in Lines : r.units[l] \in Int /\ r.net[l] \in Int
        BY <2>1
    <2> QED
        BY <1>1, <1>3, <2>1, <2>2
<1>5. ASSUME NEW l \in Lines
      PROVE  /\ SumFunction([i \in 1..(n+1) |-> refunds'[i].units[l]])
                    = SumFunction([i \in 1..n |-> refunds[i].units[l]]) + e.units[l]
             /\ SumFunction([i \in 1..(n+1) |-> refunds'[i].net[l]])
                    = SumFunction([i \in 1..n |-> refunds[i].net[l]]) + e.net[l]
    <2> DEFINE f == [i \in 1..n |-> refunds[i].units[l]]
               g == [i \in 1..(n+1) |-> refunds'[i].units[l]]
               h == [i \in 1..n |-> refunds[i].net[l]]
               k == [i \in 1..(n+1) |-> refunds'[i].net[l]]
    <2>1. /\ f \in [1..n -> Int] /\ g \in [1..(n+1) -> Int] /\ \A i \in 1..n : g[i] = f[i]
          /\ h \in [1..n -> Int] /\ k \in [1..(n+1) -> Int] /\ \A i \in 1..n : k[i] = h[i]
        <3>1. /\ \A i \in 1..n : refunds[i].units[l] \in Int /\ refunds[i].net[l] \in Int
              /\ \A i \in 1..(n+1) : refunds'[i].units[l] \in Int /\ refunds'[i].net[l] \in Int
            BY <1>4
        <3>2. f \in [1..n -> Int] /\ h \in [1..n -> Int]
            BY <3>1
        <3>3. g \in [1..(n+1) -> Int] /\ k \in [1..(n+1) -> Int]
            BY <3>1
        <3>4. \A i \in 1..n : i \in 1..(n+1) /\ refunds'[i] = refunds[i]
            BY <1>1
        <3>5. \A i \in 1..n : g[i] = f[i] /\ k[i] = h[i]
            BY <3>4
        <3> QED
            BY <3>2, <3>3, <3>5
    <2>2. g[n+1] = e.units[l] /\ k[n+1] = e.net[l]
        BY <1>1
    <2> HIDE DEF f, g, h, k
    <2>3. SumFunction(g) = SumFunction(f) + g[n+1] /\ SumFunction(k) = SumFunction(h) + k[n+1]
        BY <1>1, <2>1, SumOfOneMore
    <2> QED
        BY <2>2, <2>3 DEF f, g, h, k
<1>6. /\ SumFunction([i \in 1..(n+1) |-> refunds'[i].amount])
              = SumFunction([i \in 1..n |-> refunds[i].amount]) + e.amount
      /\ SumFunction([i \in 1..(n+1) |-> refunds'[i].tax])
              = SumFunction([i \in 1..n |-> refunds[i].tax]) + e.tax
      /\ SumFunction([i \in 1..(n+1) |-> refunds'[i].rounding])
              = SumFunction([i \in 1..n |-> refunds[i].rounding]) + e.rounding
    <2> DEFINE f == [i \in 1..n |-> refunds[i].amount]
               g == [i \in 1..(n+1) |-> refunds'[i].amount]
               h == [i \in 1..n |-> refunds[i].tax]
               k == [i \in 1..(n+1) |-> refunds'[i].tax]
               p == [i \in 1..n |-> refunds[i].rounding]
               q == [i \in 1..(n+1) |-> refunds'[i].rounding]
    <2>1. /\ f \in [1..n -> Int] /\ g \in [1..(n+1) -> Int] /\ \A i \in 1..n : g[i] = f[i]
          /\ h \in [1..n -> Int] /\ k \in [1..(n+1) -> Int] /\ \A i \in 1..n : k[i] = h[i]
          /\ p \in [1..n -> Int] /\ q \in [1..(n+1) -> Int] /\ \A i \in 1..n : q[i] = p[i]
        <3>1. f \in [1..n -> Int] /\ h \in [1..n -> Int] /\ p \in [1..n -> Int]
            BY <1>4
        <3>2. /\ g \in [1..(n+1) -> Int] /\ k \in [1..(n+1) -> Int]
              /\ q \in [1..(n+1) -> Int]
            BY <1>4
        <3>3. \A i \in 1..n : i \in 1..(n+1) /\ refunds'[i] = refunds[i]
            BY <1>1
        <3>4. \A i \in 1..n : g[i] = f[i] /\ k[i] = h[i] /\ q[i] = p[i]
            BY <3>3
        <3> QED
            BY <3>1, <3>2, <3>4
    <2>2. g[n+1] = e.amount /\ k[n+1] = e.tax /\ q[n+1] = e.rounding
        BY <1>1
    <2> HIDE DEF f, g, h, k, p, q
    <2>3. /\ SumFunction(g) = SumFunction(f) + g[n+1]
          /\ SumFunction(k) = SumFunction(h) + k[n+1]
          /\ SumFunction(q) = SumFunction(p) + q[n+1]
        BY <1>1, <2>1, SumOfOneMore
    <2> QED
        BY <2>2, <2>3 DEF f, g, h, k, p, q
<1>7. /\ Returned(n)' = [l \in Lines |-> SumFunction([i \in 1..n' |-> refunds'[i].units[l]])]
      /\ Back(n)' = [l \in Lines |-> SumFunction([i \in 1..n' |-> refunds'[i].net[l]])]
      /\ n' = n + 1
    BY <1>1, <1>2 DEF Returned, Back, n
<1>8. /\ Returned(n)' = [l \in Lines |-> Returned(n)[l] + e.units[l]]
      /\ Back(n)' = [l \in Lines |-> Back(n)[l] + e.net[l]]
    BY <1>5, <1>7 DEF Returned, Back
<1>9. /\ PaidBack(n)' = PaidBack(n) + e.amount /\ TaxBack(n)' = TaxBack(n) + e.tax
      /\ RoundingBack(n)' = RoundingBack(n) + e.rounding
    BY <1>6, <1>7 DEF PaidBack, TaxBack, RoundingBack
<1> QED
    BY <1>1, <1>8, <1>9 DEF n

(* A refund that gives back the position after it less the one before it.    *)
LEMMA MatchesKept ==
    ASSUME Sold, refunds \in Seq(RefundType), Matches, sale' = sale, NEW e \in RefundType,
           refunds' = Append(refunds, e), NEW start, NEW end,
           start = Position(Returned(Len(refunds))),
           end = Position([l \in Lines |-> Returned(Len(refunds))[l] + e.units[l]]),
           \A l \in Lines : Returned(Len(refunds))[l] + e.units[l] <= sale.qty[l],
           \A l \in Lines : e.net[l] = end.net[l] - start.net[l],
           e.tax = end.tax - start.tax, e.rounding = end.rounding - start.rounding,
           e.amount = end.amount - start.amount
    PROVE  Matches'
<1> DEFINE n == Len(refunds)
           after == [l \in Lines |-> Returned(n)[l] + e.units[l]]
<1>1. n \in Nat /\ n \in 0..Len(refunds)
    OBVIOUS
<1>2. Returned(n) \in [Lines -> Nat] /\ e.units \in [Lines -> Nat]
    BY <1>1, ReturnedTyped DEF RefundType
<1>3. Returned(n) \in [Lines -> Int] /\ after \in [Lines -> Int]
    BY <1>2
<1>4. /\ Returned(Len(refunds))' = after
      /\ Back(Len(refunds))' = [l \in Lines |-> Back(n)[l] + e.net[l]]
      /\ PaidBack(Len(refunds))' = PaidBack(n) + e.amount
      /\ TaxBack(Len(refunds))' = TaxBack(n) + e.tax
      /\ RoundingBack(Len(refunds))' = RoundingBack(n) + e.rounding
      /\ Len(refunds') = n + 1 /\ refunds'[n+1] = e
      /\ \A i \in 1..n : refunds'[i] = refunds[i]
    BY HistoryGrows
<1>5. end = Position(after)
    OBVIOUS
<1> HIDE DEF n, after
<1>6. /\ start.net \in [Lines -> Int] /\ start.tax \in Int
      /\ start.rounding \in Int /\ start.amount \in Int
      /\ sale.unit = 5 => start.amount % 5 = 0
    BY <1>3, PositionFacts, NetFacts DEF n
<1>7. /\ end.net \in [Lines -> Int] /\ end.tax \in Int
      /\ end.rounding \in Int /\ end.amount \in Int
      /\ sale.unit = 5 => end.amount % 5 = 0
    BY <1>3, <1>5, PositionFacts, NetFacts
<1>8. /\ Back(n) = start.net /\ PaidBack(n) = start.amount
      /\ TaxBack(n) = start.tax /\ RoundingBack(n) = start.rounding
      /\ sale.unit = 5 => \A i \in 1..n : refunds[i].amount % 5 = 0
    BY DEF Matches, n
<1>9. Back(Len(refunds))' = end.net
    <2>1. \A l \in Lines : start.net[l] + e.net[l] = end.net[l]
        <3> SUFFICES ASSUME NEW l \in Lines PROVE start.net[l] + e.net[l] = end.net[l]
            OBVIOUS
        <3>1. start.net[l] \in Int
            BY <1>6
        <3>2. end.net[l] \in Int
            BY <1>7
        <3>3. e.net[l] = end.net[l] - start.net[l]
            OBVIOUS
        <3> DEFINE a == start.net[l]
                   b == end.net[l]
        <3> HIDE DEF a, b
        <3> QED
            BY <3>1, <3>2, <3>3 DEF a, b
    <2> QED
        BY <1>4, <1>7, <1>8, <2>1
<1>10. /\ PaidBack(Len(refunds))' = end.amount
       /\ TaxBack(Len(refunds))' = end.tax /\ RoundingBack(Len(refunds))' = end.rounding
    BY <1>4, <1>6, <1>7, <1>8
<1>11. Position(Returned(Len(refunds)))' = end
    <2>1. Lines' = Lines /\ Subtotal' = Subtotal
        BY DEF Lines, Subtotal
    <2>2. Position(Returned(Len(refunds)))' = Position(Returned(Len(refunds))')
        BY <2>1 DEF Position, Net, Part, Payable, FloorShare
    <2> QED
        BY <1>4, <1>5, <2>2
<1>12. \A l \in Lines : after[l] <= sale.qty[l]
    BY DEF after, n
<1>13. ASSUME sale.unit = 5 PROVE \A i \in 1..(n+1) : refunds'[i].amount % 5 = 0
    <2>1. e.amount % 5 = 0
        <3>1. /\ end.amount \in Int /\ start.amount \in Int
              /\ end.amount % 5 = 0 /\ start.amount % 5 = 0
            BY <1>6, <1>7, <1>13
        <3>2. (end.amount - start.amount) % 5 = 0
            BY ONLY <3>1, FifthsDiffer
        <3> QED
            BY <3>2
    <2> QED
        BY <1>1, <1>4, <1>8, <1>13, <2>1 DEF n
<1>14. Lines' = Lines
    BY DEF Lines
<1> QED
    BY <1>4, <1>9, <1>10, <1>11, <1>12, <1>13, <1>14 DEF Matches

-----------------------------------------------------------------------------
(* The invariant.                                                            *)
ScopeType == [action : {"void", "full", "partial"}, units : [Lines -> Nat], amount : Int]
TokenType == [status : {"none", "issued", "consumed"}, live : BOOLEAN, scope : ScopeType]

Typed ==
    /\ sale \in Sales /\ invoice \in {"Submitted", "Cancelled"} /\ manager \in BOOLEAN
    /\ refunds \in Seq(RefundType) /\ token \in [Tokens -> TokenType]

RefundInv == Typed /\ Matches /\ RefundsAreApproved

LEMMA WholeScopes == ASSUME Sold PROVE VoidScope \in ScopeType /\ FullScope \in ScopeType
<1>1. sale.qty \in [Lines -> Nat] /\ Paid \in Int
    BY DEF Sold
<1> QED
    BY <1>1 DEF VoidScope, FullScope, Scope, ScopeType

LEMMA AllocationTyped ==
    ASSUME Sold, NEW before \in [Lines -> Nat], NEW units \in [Lines -> Nat]
    PROVE  LET a == Allocation(before, units) IN
           /\ a.net \in [Lines -> Int] /\ a.tax \in Int
           /\ a.rounding \in Int /\ a.amount \in Int
<1> DEFINE after == [l \in Lines |-> before[l] + units[l]]
           start == Position(before)
           end == Position(after)
<1>1. before \in [Lines -> Int] /\ after \in [Lines -> Int]
    OBVIOUS
<1> HIDE DEF after
<1>2. /\ start.net \in [Lines -> Int] /\ start.tax \in Int /\ start.rounding \in Int
      /\ start.amount \in Int
      /\ end.net \in [Lines -> Int] /\ end.tax \in Int /\ end.rounding \in Int
      /\ end.amount \in Int
    BY <1>1, PositionFacts, NetFacts
<1>3. Allocation(before, units) = [net |-> [l \in Lines |-> end.net[l] - start.net[l]],
                                   tax |-> end.tax - start.tax,
                                   rounding |-> end.rounding - start.rounding,
                                   amount |-> end.amount - start.amount]
    BY DEF Allocation, Difference, after
<1> HIDE DEF start, end
<1>4. [l \in Lines |-> end.net[l] - start.net[l]] \in [Lines -> Int]
    <2>1. \A l \in Lines : end.net[l] \in Int /\ start.net[l] \in Int
        BY <1>2
    <2> QED
        BY <2>1
<1>5. end.tax - start.tax \in Int /\ end.rounding - start.rounding \in Int
      /\ end.amount - start.amount \in Int
    BY <1>2
<1> QED
    BY <1>3, <1>4, <1>5

LEMMA ChosenUnits == ASSUME Sold, NEW u \in UnitChoices PROVE u \in [Lines -> Nat]
<1>1. \A l \in Lines : 0..sale.qty[l] \subseteq Nat
    OBVIOUS
<1>2. UNION {0..sale.qty[l] : l \in Lines} \subseteq Nat
    BY <1>1
<1> QED
    BY <1>2 DEF UnitChoices

LEMMA ApprovableTyped ==
    ASSUME Sold, refunds \in Seq(RefundType), NEW n \in 0..Len(refunds), NEW s \in Approvable(n)
    PROVE  s \in ScopeType
<1>1. CASE s \in {VoidScope, FullScope}
    BY <1>1, WholeScopes
<1>2. CASE s \notin {VoidScope, FullScope}
    <2>1. PICK u \in UnitChoices : s = Scope("partial", u, Allocation(Returned(n), u).amount)
        BY <1>2 DEF Approvable
    <2>2. u \in [Lines -> Nat]
        BY ChosenUnits
    <2>3. Allocation(Returned(n), u).amount \in Int
        BY <2>2, ReturnedTyped, AllocationTyped
    <2> QED
        BY <2>1, <2>2, <2>3 DEF Scope, ScopeType
<1> QED
    BY <1>1, <1>2

LEMMA InitHolds == Init => RefundInv
<1> SUFFICES ASSUME Init PROVE RefundInv
    OBVIOUS
<1>1. sale \in Sales /\ invoice = "Submitted" /\ refunds = <<>> /\ manager = TRUE
      /\ token = [t \in Tokens |-> NoToken]
    BY DEF Init
<1>2. Sold
    BY <1>1, SaleIsSold
<1>3. NoToken \in TokenType
    BY <1>2, WholeScopes DEF NoToken, TokenType
<1>4. Typed
    BY <1>1, <1>3 DEF Typed
<1>5. Len(refunds) = 0 /\ 1..0 = {} /\ 0 \in 0..Len(refunds)
    BY <1>1
<1>6. RefundsAreApproved
    BY <1>5 DEF RefundsAreApproved
<1>7. /\ \A l \in Lines : Returned(0)[l] = 0
      /\ Back(0) = [l \in Lines |-> 0]
      /\ PaidBack(0) = 0 /\ TaxBack(0) = 0 /\ RoundingBack(0) = 0
    BY SumOfNone DEF Returned, Back, PaidBack, TaxBack, RoundingBack
<1>8. Returned(0) \in [Lines -> Int] /\ \A l \in Lines : sale.qty[l] \in Nat
    <2>1. Returned(0) \in [Lines -> Nat]
        BY <1>4, <1>5, ReturnedTyped DEF Typed
    <2> QED
        BY <1>2, <2>1 DEF Sold
<1> DEFINE p == Position(Returned(0))
<1>9. /\ p.amount = 0 /\ p.tax = 0 /\ p.rounding = 0 /\ \A l \in Lines : p.net[l] = 0
      /\ p.net \in [Lines -> Int]
    BY <1>2, <1>7, <1>8, PositionOfNone, PositionFacts, NetFacts
<1> HIDE DEF p
<1>10. Back(0) = p.net
    BY <1>7, <1>9
<1>11. Matches
    BY <1>5, <1>7, <1>8, <1>9, <1>10 DEF Matches, p
<1> QED
    BY <1>4, <1>6, <1>11 DEF RefundInv

(* A step that posts no refund.                                              *)
LEMMA MatchesStays ==
    ASSUME Matches, sale' = sale, refunds' = refunds
    PROVE  Matches'
<1>1. Lines' = Lines /\ Subtotal' = Subtotal /\ Len(refunds)' = Len(refunds)
    BY DEF Lines, Subtotal
<1>2. /\ Returned(Len(refunds))' = Returned(Len(refunds))
      /\ Back(Len(refunds))' = Back(Len(refunds))
      /\ PaidBack(Len(refunds))' = PaidBack(Len(refunds))
      /\ TaxBack(Len(refunds))' = TaxBack(Len(refunds))
      /\ RoundingBack(Len(refunds))' = RoundingBack(Len(refunds))
    BY <1>1 DEF Returned, Back, PaidBack, TaxBack, RoundingBack
<1>3. Position(Returned(Len(refunds)))' = Position(Returned(Len(refunds))')
    BY <1>1 DEF Position, Net, Part, Payable, FloorShare
<1> QED
    BY <1>1, <1>2, <1>3 DEF Matches

(* A step that consumes an approval for the refund it posts.                 *)
LEMMA RefundPosted ==
    ASSUME RefundInv, Sold, NEW r \in Returns, NEW t \in Tokens, NEW s \in ScopeType, NEW a,
           Usable(t, s), a.net \in [Lines -> Int], a.tax \in Int, a.rounding \in Int,
           a.amount = s.amount, refunds' = Append(refunds, Event(r, t, s, a)),
           token' = Consumed(t), UNCHANGED <<sale, invoice, manager>>, Matches'
    PROVE  RefundInv'
<1> DEFINE e == Event(r, t, s, a)
           n == Len(refunds)
<1>1. e \in RefundType /\ e.token = t /\ e.units = s.units /\ e.amount = s.amount
    BY DEF Event, RefundType, ScopeType
<1>2. refunds' = Append(refunds, e)
    OBVIOUS
<1> HIDE DEF e
<1>3. Lines' = Lines /\ RefundType' = RefundType /\ TokenType' = TokenType
    BY DEF Lines, RefundType, TokenType, ScopeType
<1>4. refunds \in Seq(RefundType) /\ token \in [Tokens -> TokenType]
    BY DEF RefundInv, Typed
<1>5. /\ refunds' \in Seq(RefundType) /\ n \in Nat /\ Len(refunds') = n + 1
      /\ refunds'[n+1] = e
      /\ \A i \in 1..n : refunds'[i] = refunds[i] /\ refunds[i] \in RefundType
    BY <1>1, <1>2, <1>4
<1>6. /\ token[t] \in TokenType /\ token[t].status = "issued" /\ token[t].scope = s
      /\ token' = [token EXCEPT ![t] = [token[t] EXCEPT !.status = "consumed"]]
    BY <1>4 DEF Usable, Consumed
<1>7. /\ [token[t] EXCEPT !.status = "consumed"] \in TokenType
      /\ [token[t] EXCEPT !.status = "consumed"].status = "consumed"
      /\ [token[t] EXCEPT !.status = "consumed"].scope = s
    BY <1>6 DEF TokenType
<1>8. /\ token' \in [Tokens -> TokenType]
      /\ token'[t].status = "consumed" /\ token'[t].scope = s
      /\ \A u \in Tokens : u # t => token'[u] = token[u]
    BY <1>4, <1>6, <1>7
<1>9. Typed'
    BY <1>3, <1>5, <1>8 DEF RefundInv, Typed
<1>10. ASSUME NEW i \in 1..(n+1)
       PROVE  LET u == token'[refunds'[i].token]
              IN u.status = "consumed" /\ u.scope.units = refunds'[i].units
                                       /\ u.scope.amount = refunds'[i].amount
    <2>1. CASE i = n + 1
        BY <1>1, <1>5, <1>8, <2>1
    <2>2. CASE i \in 1..n
        <3>1. /\ refunds[i].token \in Tokens
              /\ token[refunds[i].token].status = "consumed"
              /\ token[refunds[i].token].scope.units = refunds[i].units
              /\ token[refunds[i].token].scope.amount = refunds[i].amount
            BY <1>5, <2>2 DEF RefundInv, RefundsAreApproved, RefundType
        <3>2. refunds[i].token # t
            BY <1>6, <3>1
        <3> QED
            BY <1>5, <1>8, <2>2, <3>1, <3>2
    <2> QED
        BY <1>5, <2>1, <2>2
<1>11. RefundsAreApproved'
    BY <1>5, <1>10 DEF RefundsAreApproved
<1> QED
    BY <1>9, <1>11 DEF RefundInv

LEMMA PartPosted ==
    ASSUME RefundInv, Sold, NEW r \in Returns, NEW t \in Tokens, RefundPart(r, t)
    PROVE  RefundInv'
<1> DEFINE n == Len(refunds)
           before == Returned(n)
<1>1. PICK u \in UnitChoices :
          LET a == Allocation(before, u)
              s == Scope("partial", u, a.amount)
          IN /\ Fits(before, u) /\ Usable(t, s)
             /\ refunds' = Append(refunds, Event(r, t, s, a))
    BY DEF RefundPart, Priced
<1> DEFINE a == Allocation(before, u)
           s == Scope("partial", u, a.amount)
           e == Event(r, t, s, a)
           after == [l \in Lines |-> before[l] + u[l]]
           start == Position(before)
           end == Position(after)
<1>2. refunds \in Seq(RefundType) /\ Matches /\ n \in 0..Len(refunds)
    BY DEF RefundInv, Typed
<1>3. before \in [Lines -> Nat] /\ u \in [Lines -> Nat]
    BY <1>2, ReturnedTyped, ChosenUnits
<1>4. /\ a.net \in [Lines -> Int] /\ a.tax \in Int /\ a.rounding \in Int /\ a.amount \in Int
      /\ a.net = [l \in Lines |-> end.net[l] - start.net[l]]
      /\ a.tax = end.tax - start.tax /\ a.rounding = end.rounding - start.rounding
      /\ a.amount = end.amount - start.amount
    <2>1. /\ a.net \in [Lines -> Int] /\ a.tax \in Int
          /\ a.rounding \in Int /\ a.amount \in Int
        BY <1>3, AllocationTyped
    <2>2. a = [net |-> [l \in Lines |-> end.net[l] - start.net[l]],
               tax |-> end.tax - start.tax, rounding |-> end.rounding - start.rounding,
               amount |-> end.amount - start.amount]
        BY DEF Allocation, Difference
    <2> HIDE DEF a, start, end
    <2> QED
        BY <2>1, <2>2
<1> HIDE DEF a
<1>5. s \in ScopeType /\ a.amount = s.amount /\ s.units = u
    BY <1>3, <1>4 DEF Scope, ScopeType
<1>6. Usable(t, s) /\ refunds' = Append(refunds, e)
    BY <1>1 DEF a
<1> HIDE DEF s
<1>7. /\ e \in RefundType /\ e.units = u /\ e.net = a.net /\ e.tax = a.tax
      /\ e.rounding = a.rounding /\ e.amount = a.amount
    BY <1>4, <1>5 DEF Event, RefundType, ScopeType
<1> HIDE DEF e
<1>8. token' = Consumed(t) /\ UNCHANGED <<sale, invoice, manager>>
    BY DEF RefundPart
<1>9. Matches'
    <2>1. \A l \in Lines : Returned(Len(refunds))[l] + e.units[l] <= sale.qty[l]
        BY <1>1, <1>7 DEF Fits
    <2>2. start = Position(Returned(Len(refunds)))
        OBVIOUS
    <2>3. end = Position([l \in Lines |-> Returned(Len(refunds))[l] + e.units[l]])
        BY <1>7
    <2> HIDE DEF start, end, n
    <2>4. \A l \in Lines : e.net[l] = end.net[l] - start.net[l]
        BY <1>4, <1>7
    <2>5. e.tax = end.tax - start.tax /\ e.rounding = end.rounding - start.rounding
          /\ e.amount = end.amount - start.amount
        BY <1>4, <1>7
    <2>6. sale' = sale
        BY <1>8
    <2> QED
        BY <1>2, <1>6, <1>7, <2>1, <2>2, <2>3, <2>4, <2>5, <2>6, MatchesKept
<1> QED
    BY <1>4, <1>5, <1>6, <1>8, <1>9, RefundPosted DEF e

LEMMA FullPosted ==
    ASSUME RefundInv, Sold, NEW r \in Returns, NEW t \in Tokens, RefundFull(r, t)
    PROVE  RefundInv'
<1> DEFINE n == Len(refunds)
           before == Returned(n)
           a == Position(sale.qty)
           e == Event(r, t, FullScope, a)
           start == Position(before)
<1>1. refunds \in Seq(RefundType) /\ Matches /\ n \in 0..Len(refunds)
    BY DEF RefundInv, Typed
<1>2. before \in [Lines -> Nat] /\ sale.qty \in [Lines -> Nat]
    BY <1>1, ReturnedTyped DEF Sold
<1>3. \A l \in Lines : before[l] = 0
    BY <1>2 DEF RefundFull, Fits
<1>4. /\ start.amount = 0 /\ start.tax = 0 /\ start.rounding = 0
      /\ \A l \in Lines : start.net[l] = 0
    BY <1>2, <1>3, PositionOfNone
<1>5. sale.qty = [l \in Lines |-> before[l] + sale.qty[l]]
    BY <1>2, <1>3
<1>6. /\ a.net \in [Lines -> Int] /\ a.tax \in Int /\ a.rounding \in Int /\ a.amount \in Int
      /\ a.amount = Paid
    BY <1>2, PositionFacts, NetFacts, PositionOfAll
<1>7. /\ FullScope \in ScopeType /\ FullScope.units = sale.qty /\ FullScope.amount = Paid
    BY WholeScopes DEF FullScope, Scope
<1>8. start = Position(Returned(Len(refunds)))
    OBVIOUS
<1>9. a = Position([l \in Lines |-> Returned(Len(refunds))[l] + sale.qty[l]])
    BY <1>5
<1>10. \A l \in Lines : Returned(Len(refunds))[l] + sale.qty[l] <= sale.qty[l]
    BY DEF RefundFull, Fits
<1> HIDE DEF a, start, before, n
<1>11. /\ e \in RefundType /\ e.units = sale.qty /\ e.net = a.net /\ e.tax = a.tax
       /\ e.rounding = a.rounding /\ e.amount = a.amount
    BY <1>6, <1>7 DEF Event, RefundType, ScopeType
<1>12. /\ Usable(t, FullScope) /\ refunds' = Append(refunds, e)
       /\ token' = Consumed(t) /\ UNCHANGED <<sale, invoice, manager>>
    BY DEF RefundFull, a
<1> HIDE DEF e
<1>13. Matches'
    <2>1. \A l \in Lines : e.net[l] = a.net[l] - start.net[l]
        <3> SUFFICES ASSUME NEW l \in Lines PROVE e.net[l] = a.net[l] - start.net[l]
            OBVIOUS
        <3>1. a.net[l] \in Int /\ start.net[l] = 0 /\ e.net[l] = a.net[l]
            BY <1>4, <1>6, <1>11
        <3> QED
            BY <3>1
    <2>2. e.tax = a.tax - start.tax /\ e.rounding = a.rounding - start.rounding
          /\ e.amount = a.amount - start.amount
        BY <1>4, <1>6, <1>11
    <2>3. a = Position([l \in Lines |-> Returned(Len(refunds))[l] + e.units[l]])
        BY <1>9, <1>11
    <2>4. \A l \in Lines : Returned(Len(refunds))[l] + e.units[l] <= sale.qty[l]
        BY <1>10, <1>11
    <2>5. sale' = sale
        BY <1>12
    <2> QED
        BY <1>1, <1>8, <1>11, <1>12, <2>1, <2>2, <2>3, <2>4, <2>5, MatchesKept
<1>14. a.amount = FullScope.amount
    BY <1>6, <1>7
<1> QED
    BY <1>6, <1>7, <1>12, <1>13, <1>14, RefundPosted DEF e

(* A step that leaves the refunds alone and keeps consumed approvals.        *)
LEMMA NonePosted ==
    ASSUME RefundInv, UNCHANGED <<sale, refunds>>, invoice' \in {"Submitted", "Cancelled"},
           manager' \in BOOLEAN, token' \in [Tokens -> TokenType],
           \A u \in Tokens : token[u].status = "consumed" =>
               token'[u].status = "consumed" /\ token'[u].scope = token[u].scope
    PROVE  RefundInv'
<1>1. /\ Lines' = Lines /\ RefundType' = RefundType /\ TokenType' = TokenType
    BY DEF Lines, RefundType, TokenType, ScopeType
<1>2. Typed'
    BY <1>1 DEF RefundInv, Typed
<1>3. Matches'
    BY MatchesStays DEF RefundInv
<1>4. \A i \in 1..Len(refunds) : refunds[i].token \in Tokens
    <2>1. \A e \in RefundType : e.token \in Tokens
        BY DEF RefundType
    <2> QED
        BY <2>1 DEF RefundInv, Typed
<1>5. RefundsAreApproved'
    BY <1>4 DEF RefundInv, RefundsAreApproved
<1> QED
    BY <1>2, <1>3, <1>5 DEF RefundInv

LEMMA StepKeeps == RefundInv /\ [Next]_vars => RefundInv'
<1> SUFFICES ASSUME RefundInv, [Next]_vars PROVE RefundInv'
    OBVIOUS
<1>1. /\ sale \in Sales /\ invoice \in {"Submitted", "Cancelled"} /\ manager \in BOOLEAN
      /\ refunds \in Seq(RefundType) /\ token \in [Tokens -> TokenType]
    BY DEF RefundInv, Typed
<1>2. Sold
    BY <1>1, SaleIsSold
<1>3. ASSUME NEW t \in Tokens, Approve(t) PROVE RefundInv'
    <2>1. PICK n \in 0..Len(refunds) : \E s \in Approvable(n) :
              token' = [token EXCEPT ![t] = [status |-> "issued", live |-> TRUE, scope |-> s]]
        BY <1>3 DEF Approve
    <2>2. PICK s \in Approvable(n) :
              token' = [token EXCEPT ![t] = [status |-> "issued", live |-> TRUE, scope |-> s]]
        BY <2>1
    <2>3. s \in ScopeType
        BY <1>1, <1>2, ApprovableTyped
    <2>4. [status |-> "issued", live |-> TRUE, scope |-> s] \in TokenType
        BY <2>3 DEF TokenType
    <2>5. token' \in [Tokens -> TokenType]
          /\ \A u \in Tokens : u # t => token'[u] = token[u]
        BY <1>1, <2>2, <2>4
    <2> QED
        BY <1>1, <1>3, <2>5, NonePosted DEF Approve
<1>4. ASSUME NEW t \in Tokens, NEW d, token' = [token EXCEPT ![t] = d],
             d \in {[token[t] EXCEPT !.status = "consumed"], [token[t] EXCEPT !.live = FALSE]}
      PROVE  /\ token' \in [Tokens -> TokenType]
             /\ \A u \in Tokens : token[u].status = "consumed" =>
                    token'[u].status = "consumed" /\ token'[u].scope = token[u].scope
    <2>1. token[t] \in TokenType
        BY <1>1
    <2>2. /\ d \in TokenType /\ d.scope = token[t].scope
          /\ token[t].status = "consumed" => d.status = "consumed"
        BY <1>4, <2>1 DEF TokenType
    <2>3. token' \in [Tokens -> TokenType] /\ token'[t] = d
          /\ \A u \in Tokens : u # t => token'[u] = token[u]
        BY <1>1, <1>4, <2>2
    <2> QED
        BY <2>2, <2>3
<1>5. ASSUME NEW t \in Tokens, Void(t) PROVE RefundInv'
    <2>1. token' = [token EXCEPT ![t] = [token[t] EXCEPT !.status = "consumed"]]
        BY <1>5 DEF Void, Consumed
    <2> QED
        BY <1>1, <1>4, <1>5, <2>1, NonePosted DEF Void
<1>6. ASSUME NEW t \in Tokens, TokenExpires(t) PROVE RefundInv'
    <2>1. token' = [token EXCEPT ![t] = [token[t] EXCEPT !.live = FALSE]]
        BY <1>6 DEF TokenExpires
    <2> QED
        BY <1>1, <1>4, <1>6, <2>1, NonePosted DEF TokenExpires
<1>7. CASE ManagerChanges
    BY <1>1, <1>7, NonePosted DEF ManagerChanges
<1>8. CASE UNCHANGED vars
    BY <1>1, <1>8, NonePosted DEF vars
<1> QED
    BY <1>2, <1>3, <1>5, <1>6, <1>7, <1>8, PartPosted, FullPosted DEF Next

(* What the refunds of a sale gave back is the position of what they         *)
(* returned, and each has consumed the approval given for it.                *)
THEOREM RefundsHold == Spec => []RefundInv
<1> QED
    BY InitHolds, StepKeeps, PTL DEF Spec

-----------------------------------------------------------------------------
(* The properties.                                                           *)

(* Every refund has consumed the approval its manager gave, for the units    *)
(* and the amount of this refund.                                            *)
THEOREM RefundsStayApproved == Spec => []RefundsAreApproved
<1>1. RefundInv => RefundsAreApproved
    BY DEF RefundInv
<1> QED
    BY <1>1, RefundsHold, PTL

(* Whatever is refunded in whatever steps adds up to the sale.               *)
THEOREM RefundsAlwaysAddUp == Spec => []RefundsAddUp
<1>1. RefundInv => RefundsAddUp
    <2> SUFFICES ASSUME RefundInv PROVE RefundsAddUp
        OBVIOUS
    <2> DEFINE n == Len(refunds)
               units == Returned(n)
    <2>1. sale \in Sales /\ refunds \in Seq(RefundType) /\ Matches /\ n \in 0..Len(refunds)
        BY DEF RefundInv, Typed
    <2>2. Sold
        BY <2>1, SaleIsSold
    <2>3. units \in [Lines -> Nat]
        BY <2>1, ReturnedTyped
    <2>4. units \in [Lines -> Int]
        BY <2>3
    <2>5. /\ Back(n) = Net(units) /\ PaidBack(n) = Position(units).amount
          /\ TaxBack(n) = Position(units).tax /\ RoundingBack(n) = Position(units).rounding
          /\ sale.unit = 5 => \A i \in 1..n : refunds[i].amount % 5 = 0
        BY <2>1, <2>2, <2>4, PositionFacts DEF Matches
    <2> HIDE DEF units
    <2>6. \A l \in Lines : Back(n)[l] * sale.qty[l] <= sale.total[l] * units[l]
        BY <2>2, <2>4, <2>5, NetFacts
    <2>7. Subtotal > 0 => PaidBack(n) * Subtotal <= Paid * SumFunction(Back(n))
        BY <2>2, <2>4, <2>5, PositionFacts
    <2>8. units = sale.qty => /\ PaidBack(n) = Paid /\ Back(n) = sale.total
                              /\ TaxBack(n) = sale.tax /\ RoundingBack(n) = sale.rounding
        BY <2>2, <2>4, <2>5, NetFacts, PositionOfAll
    <2> HIDE DEF n
    <2> QED
        BY <2>5, <2>6, <2>7, <2>8 DEF RefundsAddUp, Back, TaxBack, RoundingBack, units, n
<1> QED
    BY <1>1, RefundsHold, PTL

(* The rate of a line's last units, rounded, is at most a sen away.          *)
LEMMA RestPosts ==
    ASSUME NEW T \in Nat, NEW q \in Nat \ {0}, NEW N \in Int, NEW r \in Int,
           N * q >= T * r, N * q < T * r + q
    PROVE  LET sold == (2 * T * r + q) \div (2 * q)
               native == IF N * q <= T * r THEN N ELSE sold
           IN native <= N /\ N - native <= 1
<1>1. CASE N * q <= T * r
    BY <1>1
<1>2. CASE ~ (N * q <= T * r)
    <2> DEFINE P == T * r
               M == N * q
               W == 2 * q
               D == (2 * T * r + q) \div W
    <2>1. 2 * T * r = 2 * P /\ P \in Int /\ M \in Int /\ W \in Nat \ {0}
        OBVIOUS
    <2>2. D \in Int /\ D * W <= 2 * P + q /\ 2 * P + q < D * W + W
        <3>1. 2 * T * r + q \in Int /\ 2 * T * r + q = 2 * P + q
            BY <2>1
        <3> HIDE DEF P, W
        <3> QED
            BY <2>1, <3>1, DivBounds
    <2>3. (N + 1) * W = 2 * M + W /\ (D + 2) * W = D * W + W + W /\ N * W = 2 * M
        BY <2>2
    <2>4. P < M /\ M < P + q
        BY <1>2
    <2>5. W = 2 * q
        OBVIOUS
    <2>6. D * W \in Int
        BY <2>1, <2>2
    <2> DEFINE E == D * W
    <2>7. /\ E <= 2 * P + q /\ 2 * P + q < E + W /\ E \in Int
          /\ (N + 1) * W = 2 * M + W /\ (D + 2) * W = E + W + W /\ N * W = 2 * M
        BY <2>2, <2>3, <2>6
    <2> HIDE DEF P, M, W, D, E
    <2>8. E < 2 * M + W /\ 2 * M < E + W + W
        BY <2>1, <2>4, <2>5, <2>7
    <2>9. D * W < (N + 1) * W /\ N * W < (D + 2) * W
        BY <2>7, <2>8 DEF E
    <2>10. D < N + 1 /\ N < D + 2
        BY <2>1, <2>2, <2>9, LessFactor
    <2>11. D <= N /\ N - D <= 1
        BY <2>2, <2>10
    <2> QED
        BY <1>2, <2>11 DEF D, W
<1> QED
    BY <1>1, <1>2

(* While something paid is left, all that is not returned yet can be         *)
(* refunded for it in one step, to a credit note that can be posted.         *)
THEOREM RestIsRefundable == Spec => []RestCanBeRefunded
<1>1. RefundInv => RestCanBeRefunded
    <2> DEFINE n == Len(refunds)
               before == Returned(n)
               rest == [l \in Lines |-> sale.qty[l] - before[l]]
               left == Paid - PaidBack(n)
               after == [l \in Lines |-> before[l] + rest[l]]
               a == Allocation(before, rest)
    <2> SUFFICES ASSUME RefundInv, left > 0
                 PROVE  /\ Position(before).amount = PaidBack(n)
                        /\ Priced(before, rest, left) /\ Postable(rest, a.net)
        BY DEF RestCanBeRefunded
    <2>1. sale \in Sales /\ refunds \in Seq(RefundType) /\ Matches /\ n \in 0..Len(refunds)
        BY DEF RefundInv, Typed
    <2>2. Sold
        BY <2>1, SaleIsSold
    <2>3. before \in [Lines -> Nat]
        BY <2>1, ReturnedTyped
    <2>4. /\ \A l \in Lines : before[l] <= sale.qty[l]
          /\ PaidBack(n) = Position(before).amount
        BY <2>1 DEF Matches
    <2> HIDE DEF before
    <2>5. after = sale.qty
        <3>1. \A l \in Lines : after[l] = sale.qty[l]
            BY <2>2, <2>3 DEF Sold
        <3> QED
            BY <2>2, <3>1 DEF Sold
    <2>6. /\ Position(after).amount = Paid /\ Position(after).net = sale.total
        BY <2>2, <2>5, PositionOfAll
    <2>7. /\ a.amount = Position(after).amount - Position(before).amount
          /\ a.net = [l \in Lines |-> Position(after).net[l] - Position(before).net[l]]
        BY DEF Allocation, Difference
    <2>8. a.amount = left
        BY <2>4, <2>6, <2>7
    <2>9. Fits(before, rest)
        <3>1. \A l \in Lines : before[l] + rest[l] = sale.qty[l] /\ sale.qty[l] \in Nat
            BY <2>2, <2>3 DEF Sold
        <3> QED
            BY <3>1 DEF Fits
    <2>10. before \in [Lines -> Int]
        BY <2>3
    <2>11. Position(before).net = Net(before)
        BY <2>2, <2>10, PositionFacts
    <2>12. ASSUME NEW l \in Lines
           PROVE  LET sold == (2 * sale.total[l] * rest[l] + sale.qty[l]) \div (2 * sale.qty[l])
                      native == IF a.net[l] * sale.qty[l] <= sale.total[l] * rest[l]
                                THEN a.net[l] ELSE sold
                  IN native <= a.net[l] /\ a.net[l] - native <= 1
        <3> DEFINE T == sale.total[l]
                   q == sale.qty[l]
                   F == FloorShare(T, before[l], q)
        <3>1. T \in Nat /\ q \in Nat \ {0} /\ before[l] \in Int
            BY <2>2, <2>3 DEF Sold
        <3>2. rest[l] = q - before[l] /\ a.net[l] = T - F
            BY <2>6, <2>7, <2>11 DEF Net
        <3> HIDE DEF T, q, rest, a
        <3>3. F \in Int /\ F * q <= T * before[l] /\ T * before[l] < (F + 1) * q
            <4>1. T \in Int
                BY <3>1
            <4> QED
                BY <3>1, <4>1, ShareBounds, Zenon
        <3> HIDE DEF F
        <3> DEFINE b == before[l]
        <3>4. /\ (T - F) * q = T * q - F * q /\ T * (q - b) = T * q - T * b
              /\ (F + 1) * q = F * q + q
              /\ T * q \in Int /\ F * q \in Int /\ T * b \in Int
            BY <3>1, <3>3
        <3>5. (T - F) * q >= T * (q - b) /\ (T - F) * q < T * (q - b) + q
            BY <3>1, <3>3, <3>4
        <3>6. T - F \in Int /\ q - b \in Int
            BY <3>1, <3>3
        <3>7. LET sold == (2 * T * (q - b) + q) \div (2 * q)
                  native == IF (T - F) * q <= T * (q - b) THEN T - F ELSE sold
              IN native <= T - F /\ (T - F) - native <= 1
            BY <3>1, <3>5, <3>6, RestPosts
        <3> QED
            BY <3>2, <3>7 DEF T, q
    <2>13. Postable(rest, a.net)
        BY <2>12 DEF Postable
    <2> QED
        BY <2>4, <2>8, <2>9, <2>13 DEF Priced
<1> QED
    BY <1>1, RefundsHold, PTL

-----------------------------------------------------------------------------
(* Approvals are one-shot grants.                                            *)
Effects == Len(refunds) + (IF invoice = "Cancelled" THEN 1 ELSE 0)

Stage(a) == CASE a.status = "none"                 -> "unknown"
              [] a.status = "issued" /\ a.live    -> "offered"
              [] a.status = "issued" /\ ~a.live   -> "withdrawn"
              [] a.status = "consumed"             -> "used"

LEMMA ApprovalStages ==
    /\ GrantState = [t \in Tokens |-> Stage(token[t])]
    /\ GrantState' = [t \in Tokens |-> Stage(token'[t])]
BY DEF GrantState, Stage

LEMMA ApprovalStates == GrantState = [t \in Tokens |-> GrantState[t]]
BY ApprovalStages

LEMMA ApprovalMoves ==
    ASSUME NEW t \in Tokens, \A u \in Tokens : u # t => token'[u] = token[u]
    PROVE  GrantState' = [GrantState EXCEPT ![t] = GrantState'[t]]
<1>1. \A u \in Tokens : u # t => GrantState'[u] = GrantState[u]
    BY ApprovalStages
<1>2. GrantState' = [u \in Tokens |-> GrantState'[u]]
    BY ApprovalStages
<1> QED
    BY <1>1, <1>2, ApprovalStates, ApprovalStages

(* A step that consumes an offered approval has one effect more.             *)
LEMMA ConsumptionUses ==
    ASSUME Typed, NEW t \in Tokens, token[t].status = "issued", token[t].live,
           token' = Consumed(t), Effects' = Effects + 1
    PROVE  Approval!Next
<1>1. token[t] \in TokenType /\ token' = [token EXCEPT ![t] = [token[t] EXCEPT !.status = "consumed"]]
    BY DEF Typed, Consumed
<1>2. [token[t] EXCEPT !.status = "consumed"].status = "consumed"
    BY <1>1 DEF TokenType
<1>3. token'[t].status = "consumed" /\ \A u \in Tokens : u # t => token'[u] = token[u]
    BY <1>1, <1>2 DEF Typed
<1>4. GrantState[t] = "offered" /\ GrantState'[t] = "used"
    BY <1>3 DEF GrantState
<1>5. GrantState' = [GrantState EXCEPT ![t] = "used"]
    BY <1>3, <1>4, ApprovalMoves
<1> QED
    BY <1>4, <1>5 DEF Approval!Next, Approval!Use, Effects

(* Every step offers an approval, uses it for one refund or one void,        *)
(* withdraws it, or is no step of the grant's.                               *)
THEOREM ApprovalsAreOneShot == Spec => ApprovalIsOneShot
<1>1. Init => Approval!Init
    <2> SUFFICES ASSUME Init PROVE Approval!Init
        OBVIOUS
    <2>1. \A t \in Tokens : token[t].status = "none"
        BY DEF Init, NoToken
    <2>2. \A t \in Tokens : GrantState[t] = "unknown"
        BY <2>1 DEF GrantState
    <2>3. GrantState = [t \in Tokens |-> "unknown"]
        BY <2>2, ApprovalStates
    <2>4. Len(refunds) + (IF invoice = "Cancelled" THEN 1 ELSE 0) = 0
        BY DEF Init
    <2> QED
        BY <2>3, <2>4 DEF Approval!Init
<1>2. RefundInv /\ [Next]_vars => [Approval!Next]_(Approval!vars)
    <2> SUFFICES ASSUME RefundInv, [Next]_vars PROVE [Approval!Next]_(Approval!vars)
        OBVIOUS
    <2>1. /\ Typed /\ refunds \in Seq(RefundType) /\ Len(refunds) \in Nat
          /\ token \in [Tokens -> TokenType]
        BY DEF RefundInv, Typed
    <2>2. ASSUME NEW t \in Tokens, Approve(t) PROVE Approval!Next
        <3>1. /\ token'[t].status = "issued" /\ token'[t].live
              /\ \A u \in Tokens : u # t => token'[u] = token[u]
            BY <2>1, <2>2 DEF Approve
        <3>2. GrantState[t] = "unknown" /\ GrantState'[t] = "offered"
            BY <2>2, <3>1 DEF Approve, GrantState
        <3>3. GrantState' = [GrantState EXCEPT ![t] = "offered"]
            BY <3>1, <3>2, ApprovalMoves
        <3> QED
            BY <2>2, <3>2, <3>3 DEF Approve, Approval!Next, Approval!Offer
    <2>3. ASSUME NEW t \in Tokens, Void(t) PROVE Approval!Next
        <3>1. Effects' = Effects + 1
            BY <2>1, <2>3 DEF Void, Effects
        <3> QED
            BY <2>1, <2>3, <3>1, ConsumptionUses DEF Void, Usable
    <2>4. ASSUME NEW r \in Returns, NEW t \in Tokens, RefundPart(r, t) \/ RefundFull(r, t)
          PROVE  Approval!Next
        <3>1. \E s : Usable(t, s) /\ \E e : refunds' = Append(refunds, e)
            BY <2>4 DEF RefundPart, RefundFull
        <3>2. token' = Consumed(t) /\ invoice' = invoice
            BY <2>4 DEF RefundPart, RefundFull
        <3>3. Len(refunds') = Len(refunds) + 1
            BY <2>1, <3>1
        <3>4. Effects' = Effects + 1
            BY <2>1, <3>2, <3>3 DEF Effects
        <3> QED
            BY <2>1, <3>1, <3>2, <3>4, ConsumptionUses DEF Usable
    <2>5. ASSUME NEW t \in Tokens, TokenExpires(t) PROVE [Approval!Next]_(Approval!vars)
        <3>1. token[t] \in TokenType /\ token[t].live
              /\ token' = [token EXCEPT ![t] = [token[t] EXCEPT !.live = FALSE]]
            BY <2>1, <2>5 DEF TokenExpires
        <3>2. /\ [token[t] EXCEPT !.live = FALSE].status = token[t].status
              /\ [token[t] EXCEPT !.live = FALSE].live = FALSE
              /\ token[t].status \in {"none", "issued", "consumed"}
            BY <3>1 DEF TokenType
        <3>3. /\ token'[t].status = token[t].status /\ ~ token'[t].live
              /\ \A u \in Tokens : u # t => token'[u] = token[u]
            BY <2>1, <3>1, <3>2
        <3>4. GrantState' = [GrantState EXCEPT ![t] = GrantState'[t]]
            BY <3>3, ApprovalMoves
        <3>5. CASE token[t].status = "issued"
            <4>1. GrantState[t] = "offered" /\ GrantState'[t] = "withdrawn"
                BY <3>1, <3>3, <3>5 DEF GrantState
            <4> QED
                BY <2>5, <3>4, <4>1 DEF TokenExpires, Approval!Next, Approval!Withdraw
        <3>6. CASE token[t].status # "issued"
            <4>1. GrantState'[t] = GrantState[t]
                BY <3>2, <3>3, <3>6 DEF GrantState
            <4>2. GrantState' = GrantState
                BY <3>4, <4>1, ApprovalStates
            <4> QED
                BY <2>5, <4>2 DEF TokenExpires, Approval!vars
        <3> QED
            BY <3>5, <3>6
    <2>6. CASE UNCHANGED <<token, refunds, invoice>>
        BY <2>6 DEF GrantState, Approval!vars
    <2> QED
        BY <2>2, <2>3, <2>4, <2>5, <2>6 DEF Next, ManagerChanges, vars
<1> QED
    BY <1>1, <1>2, RefundsHold, PTL DEF Spec, ApprovalIsOneShot, Approval!Spec

-----------------------------------------------------------------------------
(* A row that does not exist yet is nobody's, so nothing can be counted on   *)
(* it: without this a run could dead-letter a projection never recorded.     *)
AbsentUnclaimed == log.state = "absent" => log.token = None

RetryInv == RetryTypeOK /\ AbsentUnclaimed /\ DeadLetterOnlyFailed

(* Ending a batch keeps the batches and the lock in their types. *)
LEMMA EndBatchTyped ==
    ASSUME RetryTypeOK, NEW w \in Workers, EndBatch(w)
    PROVE  /\ holder' \in Workers \cup {None}
           /\ batch' \in [Workers -> BatchType]
           /\ batch'[w].pc = "idle"
  BY DEF EndBatch, RetryTypeOK, BatchType, NoBatch

(* A retry, and its finalization, leave a row of the right shape that is     *)
(* marked dead only when it has failed.                                      *)
LEMMA RetriedRow ==
    ASSUME NEW row \in LogType, row.state = "Failed", NEW done \in Retried(row)
    PROVE  /\ done \in LogType /\ done.state \in {"Failed", "Succeeded"}
           /\ done.dead = row.dead /\ done.token = row.token
<1>1. CASE done = [row EXCEPT !.count = row.count + 1]
  BY <1>1 DEF LogType
<1>2. CASE done = [row EXCEPT !.count = row.count + 1, !.state = "Succeeded"]
  <2>1. row.count + 1 \in Nat
    BY DEF LogType
  <2>2. done \in LogType
    BY <1>2, <2>1 DEF LogType
  <2>3. done.state = "Succeeded" /\ done.dead = row.dead /\ done.token = row.token
    BY <1>2, Zenon DEF LogType
  <2> QED
    BY <2>2, <2>3
<1> QED
  BY <1>1, <1>2 DEF Retried

LEMMA FinalizedRow ==
    ASSUME NEW row \in LogType, row.state \in {"Failed", "Succeeded"}
    PROVE  /\ Finalized(row) \in LogType
           /\ Finalized(row).state = row.state
           /\ Finalized(row).token = None
           /\ Finalized(row).dead => row.state = "Failed"
  BY RetriesAssumption DEF LogType, Finalized, Freed

LEMMA RetryInvInit == RetryInit => RetryInv
  BY DEF RetryInit, RetryInv, RetryTypeOK, AbsentUnclaimed, DeadLetterOnlyFailed, LogType, BatchType, NoBatch

LEMMA RetryInvStep == RetryInv /\ [RetryNext]_retryVars => RetryInv'
<1> SUFFICES ASSUME RetryInv, [RetryNext]_retryVars PROVE RetryInv'
  OBVIOUS
<1> USE DEF RetryInv, AbsentUnclaimed, DeadLetterOnlyFailed
<1>1. CASE SubmitOrder
  <2>1. log \in LogType /\ ~log.dead /\ log.token = None
    BY <1>1 DEF SubmitOrder, RetryTypeOK
  <2>2. CASE log' = [log EXCEPT !.state = "Succeeded"]
    BY <1>1, <2>1, <2>2 DEF SubmitOrder, RetryTypeOK, LogType
  <2>3. CASE log' = [log EXCEPT !.state = "Failed", !.count = 1]
    BY <1>1, <2>1, <2>3 DEF SubmitOrder, RetryTypeOK, LogType
  <2> QED
    BY <1>1, <2>2, <2>3 DEF SubmitOrder
<1>2. ASSUME NEW w \in Workers, NEW force \in BOOLEAN, StartBatch(w, force)
      PROVE  RetryInv'
  BY <1>2 DEF StartBatch, RetryTypeOK, LogType, BatchType
<1>3. ASSUME NEW w \in Workers, SkipCandidate(w) PROVE RetryInv'
  BY <1>3, EndBatchTyped DEF SkipCandidate, RetryTypeOK
<1>4. ASSUME NEW w \in Workers, MarkDeadLetter(w) PROVE RetryInv'
  <2>1. EndBatch(w)
    BY <1>4 DEF MarkDeadLetter
  <2>2. log' \in LogType /\ (log'.dead => log'.state = "Failed")
    BY <1>4 DEF MarkDeadLetter, RetryTypeOK, LogType
  <2>3. log'.state = "absent" => log'.token = None
    BY <1>4 DEF MarkDeadLetter, RetryTypeOK, LogType
  <2> QED
    BY <2>1, <2>2, <2>3, EndBatchTyped DEF RetryTypeOK
<1>5. ASSUME NEW w \in Workers, ClaimProjection(w) PROVE RetryInv'
  <2>1. ASSUME Claimable, UNCHANGED holder, NEW live \in BOOLEAN,
               log' = [log EXCEPT !.token = w, !.live = live],
               batch' = [batch EXCEPT ![w].pc = "claimed"]
        PROVE  RetryInv'
    <3>1. log' \in LogType /\ log'.state = "Failed"
      BY <2>1 DEF Claimable, RetryTypeOK, LogType
    <3>2. batch' \in [Workers -> BatchType]
      BY <2>1 DEF RetryTypeOK, BatchType
    <3> QED
      BY <2>1, <3>1, <3>2 DEF RetryTypeOK
  <2>2. CASE UNCHANGED log /\ EndBatch(w)
    BY <2>2, EndBatchTyped DEF RetryTypeOK
  <2> QED
    BY <1>5, <2>1, <2>2 DEF ClaimProjection
<1>6. ASSUME NEW w \in Workers, RunProjection(w) PROVE RetryInv'
  <2>1. EndBatch(w)
    BY <1>6 DEF RunProjection
  <2>2. CASE log' = log
    BY <2>1, <2>2, EndBatchTyped DEF RetryTypeOK
  <2>3. CASE log.token = w /\ log.state = "Succeeded" /\ log' = Finalized(log)
    BY <2>1, <2>3, EndBatchTyped, FinalizedRow DEF RetryTypeOK
  <2>4. ASSUME log.token = w, log.state # "Succeeded",
               NEW row \in Retried(log), log' = Finalized(row)
        PROVE  RetryInv'
    <3>1. log \in LogType /\ log.state = "Failed"
      BY <2>4, WorkersAssumption DEF RetryTypeOK, LogType
    <3>2. row \in LogType /\ row.state \in {"Failed", "Succeeded"}
      BY <2>4, <3>1, RetriedRow
    <3> QED
      BY <2>1, <2>4, <3>2, EndBatchTyped, FinalizedRow DEF RetryTypeOK
  <2> QED
    BY <1>6, <2>2, <2>3, <2>4 DEF RunProjection
<1>7. ASSUME NEW w \in Workers, RunRaises(w) PROVE RetryInv'
  BY <1>7 DEF RunRaises, RetryTypeOK, BatchType
<1>8. ASSUME NEW w \in Workers, ReadFailedClaim(w) PROVE RetryInv'
  <2>1. CASE log.token = w
    BY <1>8, <2>1 DEF ReadFailedClaim, RetryTypeOK, LogType, BatchType
  <2>2. CASE log.token # w
    BY <1>8, <2>2, EndBatchTyped DEF ReadFailedClaim, RetryTypeOK
  <2> QED
    BY <2>1, <2>2
<1>9. ASSUME NEW w \in Workers, ReleaseFailedClaim(w) PROVE RetryInv'
  <2>1. EndBatch(w) /\ batch[w].count \in Nat
    BY <1>9 DEF ReleaseFailedClaim, RetryTypeOK, BatchType
  <2> DEFINE count == batch[w].count + 1
             dead == count >= MaxRetries \/ Freed(log).dead
  <2>2. log' = [Freed(log) EXCEPT !.state = "Failed", !.count = count, !.dead = dead]
    BY <1>9 DEF ReleaseFailedClaim
  <2>3. count \in Nat /\ Freed(log) \in LogType
    <3>1. log \in LogType
      BY DEF RetryTypeOK
    <3>2. Freed(log) \in LogType
      BY <3>1 DEF Freed, LogType
    <3> QED
      BY <2>1, <3>2
  <2>4. dead \in BOOLEAN
    OBVIOUS
  <2> HIDE DEF count, dead
  <2>5. log' \in LogType /\ log'.state = "Failed"
    BY <2>2, <2>3, <2>4 DEF LogType
  <2> QED
    BY <2>1, <2>5, EndBatchTyped DEF RetryTypeOK
<1>10. ASSUME NEW w \in Workers, BatchCrash(w) PROVE RetryInv'
  BY <1>10 DEF BatchCrash, RetryTypeOK, BatchType, NoBatch
<1>11. CASE LockExpires
  BY <1>11 DEF LockExpires, RetryTypeOK
<1>12. CASE LeaseExpires
  BY <1>12 DEF LeaseExpires, RetryTypeOK, LogType
<1>13. CASE RetryFromTill
  <2>1. log \in LogType /\ log.state = "Failed"
    BY <1>13 DEF RetryFromTill, RetryTypeOK
  <2>2. PICK row \in Retried(log) :
            log' = IF row.state = "Succeeded" THEN [Freed(row) EXCEPT !.dead = FALSE] ELSE row
    BY <1>13 DEF RetryFromTill
  <2>3. /\ row \in LogType /\ row.state \in {"Failed", "Succeeded"}
        /\ row.dead = log.dead /\ row.token = log.token
    BY <2>1, <2>2, RetriedRow
  <2>4. /\ log' \in LogType /\ log'.state = row.state
        /\ row.state = "Succeeded" => ~log'.dead
        /\ row.state = "Failed" => log' = row
    BY <2>2, <2>3 DEF LogType, Freed
  <2> QED
    BY <1>13, <2>1, <2>3, <2>4 DEF RetryFromTill, RetryTypeOK
<1>14. CASE UNCHANGED retryVars
  BY <1>14 DEF retryVars, RetryTypeOK
<1> QED
  BY <1>1, <1>2, <1>3, <1>4, <1>5, <1>6, <1>7, <1>8, <1>9, <1>10, <1>11, <1>12, <1>13, <1>14
     DEF RetryNext, BatchStep

(* The invariant of the row. *)
LEMMA RetryInvariant == RetrySpec => []RetryInv
  BY RetryInvInit, RetryInvStep, PTL DEF RetrySpec

(* The row, the lock and the batches keep their types. *)
THEOREM RetryTyped == RetrySpec => []RetryTypeOK
  BY RetryInvariant, PTL DEF RetryInv

(* However stale the scan behind it, a dead letter is left on a failed       *)
(* projection only.                                                          *)
THEOREM DeadLetterHonest == RetrySpec => []DeadLetterOnlyFailed
  BY RetryInvariant, PTL DEF RetryInv

(* No retry undoes a success, but for the release of a claim whose run threw. *)
THEOREM SuccessSurvives == RetrySpec => SuccessSurvivesRetries
<1> DEFINE Kept == log.state = "Succeeded" =>
                       log'.state = "Succeeded" \/ \E w \in Workers : ReleaseFailedClaim(w)
<1>1. RetryTypeOK /\ [RetryNext]_retryVars => Kept
  <2> SUFFICES ASSUME RetryTypeOK, [RetryNext]_retryVars, log.state = "Succeeded",
                      ~\E w \in Workers : ReleaseFailedClaim(w)
               PROVE  log'.state = "Succeeded"
    OBVIOUS
  <2>1. ASSUME NEW w \in Workers, BatchStep(w) PROVE log'.state = "Succeeded"
    <3>1. CASE RunProjection(w)
      BY <3>1, FinalizedRow DEF RunProjection, RetryTypeOK
    <3>2. CASE MarkDeadLetter(w) \/ ClaimProjection(w)
      BY <3>2 DEF MarkDeadLetter, ClaimProjection, Claimable
    <3> QED
      BY <2>1, <3>1, <3>2
         DEF BatchStep, SkipCandidate, RunRaises, ReadFailedClaim, BatchCrash
  <2>2. CASE LockExpires \/ LeaseExpires
    BY <2>2 DEF LockExpires, LeaseExpires, RetryTypeOK, LogType
  <2> QED
    BY <2>1, <2>2 DEF RetryNext, SubmitOrder, StartBatch, RetryFromTill, retryVars
<1>2. RetryTypeOK /\ [RetryNext]_retryVars => [Kept]_retryVars
  BY <1>1
<1> QED
  BY <1>2, RetryTyped, PTL DEF RetrySpec, SuccessSurvivesRetries

(* A live claim is respected, by overlapping batches and by dead letters. *)
THEOREM ClaimRespected == RetrySpec => ClaimNotStolen
<1> DEFINE Lost(w) == batch[w].pc = "claimed" /\ log.token = w /\ log.live /\ log'.token # w
           Excused(w) == \/ batch'[w].pc # "claimed"
                         \/ log'.state = "Succeeded"
                         \/ \E v \in Workers : ReleaseFailedClaim(v)
<1>1. RetryTypeOK /\ [RetryNext]_retryVars => \A w \in Workers : Lost(w) => Excused(w)
  <2> SUFFICES ASSUME RetryTypeOK, [RetryNext]_retryVars, NEW w \in Workers, Lost(w) PROVE Excused(w)
    OBVIOUS
  <2>1. ASSUME NEW v \in Workers, BatchStep(v) PROVE Excused(w)
    <3>1. CASE RunProjection(v)
      <4>1. CASE v = w
        BY <3>1, <4>1, EndBatchTyped DEF RunProjection
      <4>2. CASE v # w
        BY <3>1, <4>2 DEF RunProjection
      <4> QED
        BY <4>1, <4>2
    <3>2. CASE MarkDeadLetter(v)
      BY <3>2 DEF MarkDeadLetter
    <3>3. CASE ClaimProjection(v)
      BY <3>3, WorkersAssumption DEF ClaimProjection, Claimable
    <3> QED
      BY <2>1, <3>1, <3>2, <3>3
         DEF BatchStep, SkipCandidate, RunRaises, ReadFailedClaim, BatchCrash
  <2>2. CASE RetryFromTill
    <3>1. PICK row \in Retried(log) :
              log' = IF row.state = "Succeeded" THEN [Freed(row) EXCEPT !.dead = FALSE] ELSE row
      BY <2>2 DEF RetryFromTill
    <3>2. row \in LogType /\ row.token = log.token
      BY <2>2, <3>1, RetriedRow DEF RetryFromTill, RetryTypeOK
    <3> QED
      BY <3>1, <3>2 DEF LogType, Freed
  <2>3. CASE SubmitOrder \/ LockExpires \/ LeaseExpires
    BY <2>3 DEF SubmitOrder, LockExpires, LeaseExpires, RetryTypeOK, LogType
  <2> QED
    BY <2>1, <2>2, <2>3 DEF RetryNext, StartBatch, retryVars
<1>2. RetryTypeOK /\ [RetryNext]_retryVars => [\A w \in Workers : Lost(w) => Excused(w)]_retryVars
  BY <1>1
<1> QED
  BY <1>2, RetryTyped, PTL DEF RetrySpec, ClaimNotStolen
=============================================================================
