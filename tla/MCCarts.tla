------------------------------ MODULE MCCarts ------------------------------
EXTENDS Carts, TLC

Symmetry == Permutations(Workers) \cup Permutations(Owners) \cup Permutations(Variants)

\* An owner of whom the properties say nothing any more sends no more requests.
\* The instance rests after a refused add, which changed nothing else, and after
\* an edit that overwrote the count, from where on nothing is said of the coupon.
CartsStep ==
  IF rejected \/ overwritten
  THEN UNCHANGED cartsVars
  ELSE /\ CartsNext
       /\ \A w \in Workers :
            request'[w].owner \in crossed => request[w].owner = request'[w].owner

MCCartsSpec == CartsInit /\ [][CartsStep]_cartsVars
=============================================================================
