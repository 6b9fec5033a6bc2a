CONSTANTS
    ix = ix
    im = im
    bom = bom
    latest = latest
    k1 = k1
    k2 = k2
    Procs = {p1, p2}
    Entities = {ix, im, bom}
    Children <- MCChildren
    Indexes = {ix}
    Tags = {latest}
    Pushed = {ix, im}
    Repos = {src, dst}
    Src = src
    Dst = dst
    Scenarios <- AllScenarios
    NoImage = NoImage
SPECIFICATION Spec
INVARIANTS  NoRedundantSignature CopiedWithSignatures SavedTogether 
PROPERTIES LastWriteWins  
SYMMETRY ProcSymmetry
CHECK_DEADLOCK FALSE
