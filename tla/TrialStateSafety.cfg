SPECIFICATION Spec
CONSTANTS
    Helpers = {h1, h2}
    Inodes = {i1, i2, i3}
    r1 = r1
    Trials = {t1, t2}
    Runs = {r1}
    RunOf <- OneRun
    NoInode = NoInode
    NoHelper = NoHelper
SYMMETRY Symmetry
INVARIANTS
    RecordIntact
    PromiseKept
    FenceHolds
    LeftoversNeverBlock
PROPERTIES
    RefinesTryOnce
