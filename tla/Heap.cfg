SPECIFICATION Spec
CONSTANTS
  TagSize = 1
  MINEXP = 1
  MAXEXP = 6
  MAXCOMPLETE = 1
  PageSize = 8
  PageCount = 4
  Pages = 9
  Holders = {h1, h2, h3}
  Sizes = {0, 4, 10, 16, 33}
INVARIANTS ChunksTiled ListsLinked CompleteCounted BlocksPrivate
PROPERTY CallsEnd
