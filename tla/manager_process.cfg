CONSTANTS
    a = a  b = b  Default = Default  Nothing = Nothing
    Requests = {a, b}  NamespaceOf <- InTwoNamespaces  Settings <- Charted  MaxRestarts = 1
    Disabled = FALSE  Endpoints = {e1}  Clusters = {c1, Default}  MaxEdits = 2  MaxFaults = 1
SPECIFICATION ProcessSpec
PROPERTIES CachedRequestsAreServed RegistrationFollowsConfig
