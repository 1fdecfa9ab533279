SPECIFICATION MCSpec
CONSTANTS
    Width = 4
    Height = 3
    NTags = 3
    MinSize = 2
    MaxSize = 8
    Masks <- MCMasks
    Polygons <- MCPolygons
    Fine = 6
    Formats <- MCFormats
    FirstWidth = 3
    FirstHeight = 2
    Factors = {2, 4}
    Percents = {34, 50, 150, 250}
    MaxSide = 8
    MaxOps = 3
    FormatsUsed = {"GREY", "GREY16", "RGB", "RGB48", "YUV", "YUVJ", "YUVP", "YUVJP"}
    MaxImages = 3
    None = None
    Provider = {p1, p2}
    WaitCount = 1
    MAX_QUEUE_SIZE = 2
    Samples = {17, 100, 171, 255}
    WideSamples = {256, 511, 512, 43691}
    Fractions = {2, 3, 16}
    Lights <- MCLights
    MaxChanges = 1
    PictureWidth = 5
    PictureHeight = 6
    OZ_CHAR_WIDTH = 2
    OZ_CHAR_HEIGHT = 2
    Glyph <- MCGlyph
    Texts <- MCTexts
    Places <- MCPlaces
    Densities = {0, 1, 2}
    CheckPoints = 2
    FilteredWidth = 4
    FilteredHeight = 3
    FilterSizes = {0, 2, 3, 5}
    FilterMasks <- MCFilterMasks
    Sides <- MCSides
    MaxLoads = 3
INVARIANTS
    BlobsAreComponents MaskIsPolygon PicturesInPlace FormatsAgree LevelsHold PictureIsKept
PROPERTIES
    FallbackHolds FallsBack
CHECK_DEADLOCK FALSE
