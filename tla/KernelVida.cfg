SPECIFICATION FairSpec
CONSTANTS
    p1 = p1
    p2 = p2
    p3 = p3
    R1 = R1
    A1 = A1
    Instancias <- UnaInstancia
    Pid = {p1, p2}
    Recursos = {R1}
    Archivos = {A1}
    GradoMax = 2
    Algoritmo = "FIFO"
    MaxSyscalls = 2
    Disciplinado = TRUE
    EsperaAnidada = FALSE
    Carrera = FALSE
    FallaCPU = FALSE
    FallaFS = TRUE
    Apagado = FALSE
    Instrucciones = {"WAIT", "YIELD", "I_O", "F_OPEN", "F_RW"}
PROPERTIES TodosTerminan
