\* A log on postgres whose events carry metadata.
CONSTANTS
    None = None  m1 = m1
    Writer = {w1, w2}
    Event = {e1, e2, e3}
    Metadata <- SomeMetadata
    Backends = {"postgres"}
    MaxSeq = 2
    Faults = {}
    Damage = {}
SPECIFICATION Spec
INVARIANT UntouchedLogVerifies
