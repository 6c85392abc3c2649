CONSTANTS
    a = a  b = b
    Managers = {a, b}  Configured <- AtFirst  Demands <- Everything
    MaxRotations = 2  MaxFaults = 1
SPECIFICATION FairSecretsSpec
INVARIANTS SecretsTypeOK JobSecretsExist
PROPERTIES RequestsAreServed SecretsFollowSources
ACTION_CONSTRAINT OneEvent
