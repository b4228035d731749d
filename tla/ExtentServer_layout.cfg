SPECIFICATION ServerSpec
CONSTANTS
    h1 = h1
    h2 = h2
    x = x
    y = y
    BLOCK_NUM = 11
    INODE_NUM = 3
    BPB = 5
    NDIRECT = 2
    NINDIRECT = 2
    StaleNblocks = 0
    StaleBlock = 1
    Handler = {h1}
    NewTypes = {2}
    Value = {x, y}
    NoExtent = NoExtent
    Data <- OneBlock
INVARIANT DataFollowInodeTable
CHECK_DEADLOCK FALSE
