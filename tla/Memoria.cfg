SPECIFICATION FairSpec
CONSTANTS
    p1 = p1
    p2 = p2
    Pid = {p1, p2}
    Ids = {1, 2, 3}
    Sizes = {1, 2, 3}
    Valores = {0, 1}
    TamMemoria = 5
    TamSegmento0 = 1
    CantSegmentos = 4
    Algoritmos = {"FIRST", "BEST", "WORST"}
    IdsPropios = TRUE
INVARIANTS TypeOK BitmapExacto SegmentosDisjuntos ReintentoAlcanza
PROPERTIES CompactacionTermina ImplementaAbs
