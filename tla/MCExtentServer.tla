--------------------------- MODULE MCExtentServer ---------------------------
EXTENDS ExtentServer
CONSTANTS h1, h2, x, y

FilesOf(values, n) == UNION {[1 .. k -> {DataBlock(v) : v \in values}] : k \in 0 .. n}

\* Files within the inode's own block addresses, to grow and to shrink ...
TwoFiles == {<<DataBlock(x)>>, <<DataBlock(x), DataBlock(y)>>}

\* ... files that need an indirect block, and no more than one block each.
LargeFiles == FilesOf({x}, 4)
OneBlock == FilesOf({x}, 1)
=============================================================================
