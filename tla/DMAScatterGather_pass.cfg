\* Two buffers, 6 frames, blocks of up to 2 pages, with and without an IOMMU
\* that maps entry by entry; user registrations of whole pages.
CONSTANTS
    b1 = b1
    b2 = b2
    Names = {b1, b2}
    PageSize = 2
    MaxOrder = 2
    Frames = {0, 1, 2, 3, 4, 5}
    UserFrames = {10, 11, 12}
    IovaBases = {0, 8}
    IommuModes = {"direct", "iommu"}
    MaxSegPages = 4
    KernelSizes = {3, 6}
    UserSizes = {4, 6}
SPECIFICATION Spec
INVARIANTS TypeOK SGCoverage CoalesceMatchesReference ViewCoherent FramesConserved
SYMMETRY NameSymmetry
