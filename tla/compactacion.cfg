SPECIFICATION SpecJusta
CONSTANTS
  e1 = e1  e2 = e2  e3 = e3
  k1 = k1  k2 = k2
  i1 = i1  i2 = i2
  Nada = Nada
  ESIs = {e1, e2}
  Claves = {k1, k2}
  Instancias = {i1, i2}
  Desalojo = TRUE
  ClavesBloqueadas = {}
  Guiones <- GuionesParalelos
  Fragiles = {}
  Algoritmo = "LSU"
  TablaInicial <- DosInstancias
  RespuestaAtomica = FALSE
  RetardoSuficiente = TRUE
  Mortales = {}
  Reemplazan = {}
  SinEspacio = {i1, i2}
  MaxFragmentaciones = 2
INVARIANTS
  ListosContados
PROPERTIES
  CompactacionTermina
CHECK_DEADLOCK FALSE
