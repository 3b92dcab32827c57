SPECIFICATION Spec
CONSTANTS
    p1 = p1
    p2 = p2
    p3 = p3
    R1 = R1
    A1 = A1
    Instancias <- UnaInstancia
    Pid = {p1, p2}
    Recursos = {}
    Archivos = {A1}
    GradoMax = 2
    Algoritmo = "HRRN"
    MaxSyscalls = 2
    Disciplinado = TRUE
    EsperaAnidada = TRUE
    Carrera = FALSE
    FallaCPU = TRUE
    FallaFS = TRUE
    Apagado = TRUE
    Instrucciones = {"F_OPEN", "F_CLOSE", "F_SEEK", "F_TRUNCATE", "F_RW", "CREATE_SEGMENT", "DELETE_SEGMENT"}
INVARIANTS ArchivoExclusivo CompactaSinFS RestoLimpio
CHECK_DEADLOCK FALSE
SYMMETRY Simetria
