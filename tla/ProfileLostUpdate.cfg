SPECIFICATION Spec
CONSTANTS
    Request = {r1, r2}
    MaxUrlLen = 2
    MaxBioLen = 3
    Text <- Texts
SYMMETRY Symmetric
PROPERTY OnlyProvidedFields
