SPECIFICATION Spec
CONSTANTS
    MaxGen = 3
    Used <- Kinds
INVARIANTS
    TypeOK
    OwnedByGeneration
    AttachmentWhole
    BannerIsTrue
    StartNotStranded
PROPERTY
    KeepsPromise
