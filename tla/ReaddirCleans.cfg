SPECIFICATION NamesSpec
CONSTANTS
    n1 = n1
    n2 = n2
    n3 = n3
    dirA = dirA
    fileF = fileF
    fileG = fileG
    fileAB = fileAB
    Nodes = {n1, n2}
    Root = Root
    Dirs = {dirA}
    Files = {fileF, fileG, fileAB}
    Parent <- MCParent
    Prefixed <- PrefixedName
    Discipline = "directories"
    None = None
SYMMETRY NodeSymmetry
PROPERTIES
    CleansOnlyInside
