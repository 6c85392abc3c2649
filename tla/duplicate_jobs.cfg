CONSTANTS
    r1 = r1  r2 = r2  i1 = i1  i2 = i2  m1 = m1  m2 = m2  j1 = j1  j2 = j2  a = a  b = b
    NoRevision = NoRevision  NoImage = NoImage  NoModel = NoModel  NoMessage = NoMessage
    Revisions = {r1, r2}  Images = {i1, i2}  Models = {}  JobNames = {j1, j2}  Managers = {a}
    ImageName <- TwoImages  BentoTag <- Distinct  ModelTags <- NoTags  SpecOf <- Distinct
    SeparateModels <- Never  StoredInS3 <- InSecond  ForceBuild <- InSecond
    HasAffinity <- Never  HasTimeout <- InSecond
    Versioned = {}  InitialRevision = r1  PushedBefore = {}
    MidReconcileEdits = TRUE  MaxEdits = 1  MaxFaults = 1
SPECIFICATION Spec
INVARIANTS NoLostWakeup RequestIsAttended FailureIsWatched
SYMMETRY JobSymmetry
