\* An IOMMU that merges IOVA-contiguous entries into segments of up to 4 pages.
CONSTANTS
    b1 = b1
    b2 = b2
    Names = {b1, b2}
    PageSize = 2
    MaxOrder = 2
    Frames = {0, 1, 2, 3, 4, 5}
    UserFrames = {10, 11, 12}
    IovaBases = {0, 8}
    IommuModes = {"iommu_merge"}
    MaxSegPages = 4
    KernelSizes = {6}
    UserSizes = {4}
SPECIFICATION Spec
INVARIANT ViewCoherent
SYMMETRY NameSymmetry
