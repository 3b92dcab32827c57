SPECIFICATION FairSpec
CONSTANTS
    Kernels <- MCKernels
    Anchos <- MCAnchos
    Mensajes <- MCMensajes
    MaxPedidos = 2
    OperadorEspera = TRUE
INVARIANTS
    RecibeLoEnviado
    UnaPorModulo
PROPERTIES
    Arranque
    Cierre
    Respondido
CHECK_DEADLOCK FALSE
