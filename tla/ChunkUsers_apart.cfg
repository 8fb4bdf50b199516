CONSTANTS
  LeafCount = 8
  Sizes = {1, 2, 4}
  StackUse = FALSE
SPECIFICATION UsersSpec
INVARIANT LiveAreDisjoint
