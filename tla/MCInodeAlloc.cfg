\* The inode bitmap: five inodes, one reserved, one held by the image.
\* The widths are small but larger than any lag the kills can make.
CONSTANTS
  Kind = "inode"
  NBits = 5
  Held = {2}
  Reserved = {1}
  SuperWidth = 16
  GroupWidth = 12
  MaxKills = 3
SPECIFICATION Spec
INVARIANTS TypeOK MapExact CountsLag
PROPERTY ImplementsPool
