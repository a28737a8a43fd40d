SPECIFICATION FairSpec
CONSTANTS
    Captures = {c}
    Bulks = {b}
    Request = {q1, q2}
    Fragile = {2}
    Deleting = TRUE
    MaxAsks = 3
    MaxMishaps = 2
INVARIANTS MirrorIsPrefix StoppedIsQuiet
PROPERTIES CommittedOnce PublishedIsCanonical CommittedIsProjected FenceIsLifted
