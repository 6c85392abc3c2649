CONSTANTS
    r1 = r1  r2 = r2  i1 = i1  i2 = i2  m1 = m1  m2 = m2  j1 = j1  j2 = j2  a = a  b = b
    NoRevision = NoRevision  NoImage = NoImage  NoModel = NoModel  NoMessage = NoMessage
    Revisions = {r1, r2}  Images = {i1, i2}  Models = {}  JobNames = {j1}  Managers = {a}
    ImageName <- TwoImages  BentoTag <- Distinct  ModelTags <- NoTags  SpecOf <- Distinct
    SeparateModels <- Never  StoredInS3 <- InSecond  ForceBuild <- InSecond
    HasAffinity <- Never  HasTimeout <- InSecond
    Versioned = {}  InitialRevision = r1  PushedBefore = {}
    MidReconcileEdits = FALSE  MaxEdits = 1  MaxFaults = 2
SPECIFICATION FairSpec
INVARIANTS TypeOK BentoIsOneRevision BentoImageBuilt FailedBuildIsReported  FailureStaysWatched
PROPERTIES KeepsPromise KeepsBecomingAvailable
