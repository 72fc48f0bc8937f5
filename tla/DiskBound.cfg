SPECIFICATION Spec
CONSTANTS
    Uploads = {u1, u2, u3}
    Sizes = {0, 1, 2}
    DiskSize = 5
    Reserve = 3
SYMMETRY UploadSymmetry
INVARIANTS TypeOK OvershootIsBounded
CHECK_DEADLOCK FALSE
