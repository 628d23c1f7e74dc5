\* Two handlers append to a log on either database; rows may be lost or altered.
CONSTANTS
    None = None  m1 = m1
    Writer = {w1, w2}
    Event = {e1, e2, e3}
    Metadata <- NoMetadata
    Backends = {"sqlite", "postgres"}
    MaxSeq = 2
    Faults = {"db", "abort"}
    Damage = {"lose", "alter"}
SPECIFICATION FairSpec
INVARIANTS TypeOK UntouchedLogVerifies AssuredIsRecorded DamageShows
PROPERTY WritersFinish
