\* Three slots for four inodes, so that slots are freed, taken again by
\* another inode, and run out; the root holds the first.
CONSTANTS
  NMINODE = 3
  Inos = {r, i1, i2, i3}
  Root = r
  Vals = {v1, v2}
  MaxRef = 3
SPECIFICATION Spec
INVARIANTS TypeOK RefsAreUsers OneSlotPerInode RootInPlace
PROPERTY ImplementsStore
SYMMETRY Symmetry
