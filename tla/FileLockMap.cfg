SPECIFICATION LockSpec
CONSTANTS
    o1 = o1
    o2 = o2
    o3 = o3
    Owners = {o1, o2, o3}
    Asks <- AsksThree
    MaxOff = 2
SYMMETRY Alike
INVARIANTS ListSound
PROPERTIES ContractHolds
