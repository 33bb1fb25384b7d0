CONSTANTS
    Setups <- Deployments
    Flags = {"disableDownload", "disableTermination", "disableConcatenation", "terminater", "concater", "lengthDeferrer"}
    Ids <- SomeIds
    MaxRefs = 2
SPECIFICATION Spec
INVARIANTS
    TypeOK
    LocationServed
    FinalNamesItsParts
    AdvertisedServed
    RoutersAgree
