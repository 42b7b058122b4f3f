\* One owner, one request at a time.
SPECIFICATION CartsSpec
CONSTANTS
  Workers = {w1}
  Owners = {anna}
  Variants = {v1}
  MaxAvailable = 1
  MaxUses = 0
  Nobody = Nobody
INVARIANT AddItemAdds
