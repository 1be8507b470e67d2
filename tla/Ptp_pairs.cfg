SPECIFICATION Spec
CONSTANTS
    Masters = {m1, m2}
    NoMaster = NoMaster
    SeqMod = 3
    MaxSync = 4
    MaxOther = 1
    MaxRestarts = 1
INVARIANTS
    PairsMatch
PROPERTIES
    ObservedInOrder
CHECK_DEADLOCK FALSE
