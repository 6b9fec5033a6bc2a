CONSTANTS
    ix = ix
    im = im
    bom = bom
    latest = latest
    k1 = k1
    k2 = k2
    Procs = {p1}
    Entities = {ix, im, bom}
    Children <- MCChildren
    Indexes = {ix}
    Tags = {latest}
    Pushed = {ix, im}
    Repos = {src, dst}
    Src = src
    Dst = dst
    Scenarios <- ReplaceScenarios
    NoImage = NoImage
SPECIFICATION Spec
PROPERTIES ReplacedIsThere
CHECK_DEADLOCK FALSE
