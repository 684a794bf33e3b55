SPECIFICATION Spec
CONSTANTS
    w1 = w1
    w2 = w2
    f1 = f1
    i1 = i1
    i2 = i2
    i3 = i3
    a = a
    b = b
    Hole = Hole
    None = None
    Worker <- MCWorker
    Name = {f1}
    Inode <- MCInode
    Block = {Hole, a, b}
    Contents <- MCContents
    CfgMaxSize = 0
    MaxSizes = {1}
SYMMETRY Symmetry
INVARIANTS
    TypeOK
    SoundAgrees
    AtRestWithinLimit
