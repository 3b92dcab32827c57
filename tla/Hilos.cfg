SPECIFICATION Spec
CONSTANTS
    p1 = p1
    p2 = p2
    R1 = R1
    A1 = A1
    Pid = {p1, p2}
    Recursos = {R1}
    Archivos = {A1}
    Instancias <- UnaInstancia
    Usa <- TodoCompartido
    MaxSyscalls = 2
    Carrera = TRUE
    FallaEn = {p2}
    Mata = {p1}
INVARIANTS TypeOK CuentaCuadra DespertadorUnico CaidaSoloSiSeCruzan SiempreEnCola
PROPERTY ExitDefinitivo
CHECK_DEADLOCK FALSE
