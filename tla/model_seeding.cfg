CONSTANTS
    r1 = r1  r2 = r2  i1 = i1  i2 = i2  m1 = m1  m2 = m2  j1 = j1  j2 = j2  a = a  b = b
    NoRevision = NoRevision  NoImage = NoImage  NoModel = NoModel  NoMessage = NoMessage
    Revisions = {r1, r2}  Images = {i1, i2}  Models = {m1, m2}  JobNames = {j1}  Managers = {a}
    ImageName <- TwoImages  BentoTag <- Distinct  ModelTags <- OneTag  SpecOf <- Distinct
    SeparateModels <- Always  StoredInS3 <- Never  ForceBuild <- Never
    HasAffinity <- Never  HasTimeout <- Never
    Versioned = {m1}  InitialRevision = r1  PushedBefore = {i1, i2}
    MidReconcileEdits = FALSE  MaxEdits = 1  MaxFaults = 1
SPECIFICATION Spec
INVARIANTS BentoModelsSeeded StatusIsTruthful BeliefsAreTrue RequestIsAttended
