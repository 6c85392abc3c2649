CONSTANTS
    a = a  b = b  m1 = m1  hf = hf  n1 = n1  n2 = n2  Shared = Shared  NoRequest = NoRequest
    Requests = {a, b}  Models = {m1}  Huggingface = {}  Namespaces = {n1, n2}
    ModelsOf <- CommonModel  NamespaceOf <- OneNamespace  ModelStorageNS <- SecondAnnotated
    AddNamespacePrefix = TRUE  MaxFaults = 2
SPECIFICATION FairSpec
INVARIANTS SeedingTypeOK SeededModelsAreWhole
PROPERTIES StoreSpec EveryRequestIsServed
CHECK_DEADLOCK FALSE
