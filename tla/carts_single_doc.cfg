\* Two first requests of one owner at once.
SPECIFICATION CartsSpec
CONSTANTS
  Workers = {w1, w2}
  Owners = {anna}
  Variants = {v1}
  MaxAvailable = 1
  MaxUses = 0
  Nobody = Nobody
INVARIANT SingleCart
