---------------------------- MODULE MCSaleRefunds ----------------------------
(* Sales of two lines, one of them with two units, whose shares leave        *)
(* remainders: by card with tax, in cash rounded down and up, a free line,   *)
(* and a line cheaper than the cash unit.                                    *)
EXTENDS SaleRefunds, TLC

Sale(qty, total, tax, rounding, unit) ==
    [qty |-> qty, total |-> total, tax |-> tax, rounding |-> rounding, unit |-> unit]

MCSales ==
    {Sale(<<2, 1>>, <<7, 3>>, 1, 0, 1), Sale(<<2, 1>>, <<101, 0>>, 6, 0, 1),
     Sale(<<2, 1>>, <<11, 6>>, 0, -2, 5), Sale(<<2, 1>>, <<101, 50>>, 7, 2, 5),
     Sale(<<3>>, <<4>>, 0, 1, 5), Sale(<<3>>, <<100>>, 1, -1, 5)}

MCSymmetry == Permutations(Returns) \cup Permutations(Tokens)
=============================================================================
