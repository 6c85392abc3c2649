CONSTANTS
    Requests <- Many
    Bento <- ManyRequests
    Configs <- ThreeConfigs
    WordLength <- MCWordLength
    StoreOf <- MCStoreOf
    Speaks <- MCSpeaks
    Contains <- MCContains
    Models = {"m1", "m2"}
    Builds <- AllBuilds
    Seeders <- AllSeeders
    MaxFaults = 1
    MaxFailures = 1
SPECIFICATION AnySpec
INVARIANTS PulledImageIsOwn ImageIsComplete SettingsPrevail ProvidedBuildIsSound
PROPERTIES EveryRequestHasItsImage EveryProvidedBuildSucceeds ProvidedSeedingSucceeds
