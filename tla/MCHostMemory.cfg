CONSTANTS
    Pages <- TwoPages
    Cells <- TwoCells
    PageOf <- CellPages
    Window <- CellWindows
    Threads = {t1, t2}
    Gpu = Gpu
    NoOne = NoOne
    MaxWrites = 2
    PageSize = 2
    ImagePages = {1, 2, 3}
    Images <- ImageNames
    First <- FirstBytes
    Past <- EndBytes
    Storers = {t1}
    NoImage = NoImage
SPECIFICATION MCSpec
INVARIANTS CoherenceSound NoWriteLost ImagesSound
PROPERTIES LoadsLatest AccessesReturn StoresReturn
