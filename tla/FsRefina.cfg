SPECIFICATION Spec
CONSTANTS
    A1 = A1
    A2 = A2
    Accesos <- AlgunosAccesos
    Datos <- Patrones
    Archivos = {A1}
    Valores = {0, 1}
    BlockSize = 2
    BlockCount = 8
    Cpb = 6
    Tamanios = {0, 3, 12, 15}
    MaxAcceso = 10
    CopiaSegura = TRUE
    CeroDirecto = TRUE
    HaySitio = TRUE
    FallaMemoria = FALSE
    Paradas = {"crece"}
INVARIANTS SeguraEsExacta
PROPERTIES ImplementaAbs
