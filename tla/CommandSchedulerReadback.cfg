SPECIFICATION Spec
CONSTANTS
    Graphics = Graphics
    Compute = Compute
    None = None
    GrowStep = 2
    MaxTick = 3
    MaxOps = 2
PROPERTY
    ReadbackComplete
