SPECIFICATION Spec
CONSTANTS
    Pid = {p1, p2}
    Ids = {1, 2, 3}
    Sizes = {1, 2}
    Valores = {0, 1}
    TamMemoria = 4
    TamSegmento0 = 1
    CantSegmentos = 3
    Algoritmos = {"FIRST"}
    IdsPropios = TRUE
    Registros = {"AX", "EAX"}
    TamRegistro <- MCTamRegistro
    TamMaxSegmento = 2
    Instrucciones <- MCInstrucciones
    MaxInstrucciones = 5
    EsperaArchivos = TRUE
SYMMETRY Simetria
INVARIANT TablaVigente
PROPERTIES SoloCompactarDesactualiza ImplementaMaquina
CHECK_DEADLOCK FALSE
