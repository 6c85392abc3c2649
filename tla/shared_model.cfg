CONSTANTS
    a = a  b = b  m1 = m1  hf = hf  n1 = n1  n2 = n2  Shared = Shared  NoRequest = NoRequest
    Requests = {a, b}  Models = {m1, hf}  Huggingface = {hf}  Namespaces = {n1}
    ModelsOf <- CommonAndHuggingface  NamespaceOf <- OneNamespace  ModelStorageNS <- NotAnnotated
    AddNamespacePrefix = TRUE  MaxFaults = 0
SPECIFICATION FairSpec
PROPERTIES SeededModelsBecomeWhole
CHECK_DEADLOCK FALSE
