SPECIFICATION Spec
CONSTANTS
    A1 = A1
    A2 = A2
    Accesos <- TodosLosAccesos
    Datos <- Ceros
    Archivos = {A1, A2}
    Valores = {0}
    BlockSize = 2
    BlockCount = 7
    Cpb = 2
    Tamanios = {0, 1, 2, 3, 5, 6, 7}
    MaxAcceso = 1
    CopiaSegura = TRUE
    CeroDirecto = TRUE
    HaySitio = TRUE
    FallaMemoria = TRUE
    Paradas = {"crece"}
INVARIANTS TypeOK BloquesExclusivos SinFugas TamanioCubierto
SYMMETRY Simetria
VIEW Vigente
