SPECIFICATION Spec
CONSTANTS
    p1 = p1
    p2 = p2
    p3 = p3
    R1 = R1
    A1 = A1
    Instancias <- UnaInstancia
    Pid = {p1, p2, p3}
    Recursos = {R1}
    Archivos = {}
    GradoMax = 2
    Algoritmo = "FIFO"
    MaxSyscalls = 2
    Disciplinado = TRUE
    EsperaAnidada = TRUE
    Carrera = FALSE
    FallaCPU = FALSE
    FallaFS = FALSE
    Apagado = FALSE
    Instrucciones = {"WAIT", "SIGNAL", "I_O"}
INVARIANTS TypeOK EstadoUnico BloqueadoTieneDespertador RecursoCuadra SinCaida ConsolaInformada TablaPropia
SYMMETRY Simetria
