SPECIFICATION Spec
CONSTANTS
    p1 = p1
    p2 = p2
    p3 = p3
    R1 = R1
    A1 = A1
    Instancias <- UnaInstancia
    Pid = {p1, p2}
    Recursos = {}
    Archivos = {}
    GradoMax = 2
    Algoritmo = "FIFO"
    MaxSyscalls = 1
    Disciplinado = TRUE
    EsperaAnidada = TRUE
    Carrera = TRUE
    FallaCPU = FALSE
    FallaFS = FALSE
    Apagado = FALSE
    Instrucciones = {"I_O"}
INVARIANT EstadoUnico
