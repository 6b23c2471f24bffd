---------------------------- MODULE MCValuation ----------------------------
(* Instances of ValuationReuse for TLC. *)
EXTENDS ValuationReuse, TLC

CONSTANTS v1, v2, Model, Reference
Versions == Permutations(Methods)

\* Without a reference, every listing of the model fits.
BothFitTheModel == [w \in Watches |-> IF w = Model THEN Watches ELSE {w}]

\* Records of a price, of one that changes in USD only, of one that changes while
\* the watch is identified again, and of a sale, without and with its price.
Offer(w, a, r) ==
    [status |-> "open", watch |-> w, ask |-> a, rate |-> r, sold |-> Undisclosed]
SaleAt(w, p) ==
    [status |-> "sold", watch |-> w, ask |-> None, rate |-> None, sold |-> p]
Offers ==
    {Offer(Reference, 1, 1), Offer(None, 1, 2), Offer(None, 1, None), Offer(Model, 2, 1),
     SaleAt(None, Undisclosed), SaleAt(None, 1), SaleAt(None, None)}

\* Only offers and their sales, for one watch and at one rate.
Sales ==
    {Offer(Reference, 1, 1), SaleAt(Reference, Undisclosed), SaleAt(Reference, 1)}

\* Runs for later, earlier and equal instants than those before.
BackAndForth == <<{2}, {1, 3}, {3}>>
Forward == <<{1}, {2}, {3}>>

\* Two records in the first run, one in each later one.
TwoThenOne == <<2, 1, 1>>
=============================================================================
