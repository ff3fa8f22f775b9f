SPECIFICATION SpecJusta
CONSTANTS
  e1 = e1  e2 = e2  e3 = e3
  k1 = k1  k2 = k2
  i1 = i1  i2 = i2
  Nada = Nada
  ESIs = {e1, e2, e3}
  Claves = {k1}
  Instancias = {i1}
  Desalojo = TRUE
  ClavesBloqueadas = {}
  Guiones <- GuionesCortos
  Fragiles = {}
  Algoritmo = "EL"
  TablaInicial <- UnaInstancia
  RespuestaAtomica = FALSE
  RetardoSuficiente = TRUE
  Mortales = {}
  Reemplazan = {}
  SinEspacio = {}
  MaxFragmentaciones = 0
PROPERTIES
  TodosTerminan
  ListoCorre
CHECK_DEADLOCK FALSE
