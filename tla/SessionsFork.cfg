SPECIFICATION Spec
CONSTANTS
    Sid = {s1, s2, s3}
    None = None
    Op = {o1, o2}
    MaxActive = 2
    Lifetime = 1
    MaxTime = 1
SYMMETRY Symmetric
INVARIANT SingleSuccessor
