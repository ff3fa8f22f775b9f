SPECIFICATION SpecFallos
CONSTANTS
  e1 = e1  e2 = e2  e3 = e3
  k1 = k1  k2 = k2
  i1 = i1  i2 = i2
  Nada = Nada
  ESIs = {e1, e2}
  Claves = {k1, k2}
  Instancias = {i1}
  Desalojo = TRUE
  ClavesBloqueadas = {k2}
  Guiones <- GuionesFallos
  Fragiles = {e1}
  Algoritmo = "EL"
  TablaInicial <- UnaInstancia
  RespuestaAtomica = TRUE
  RetardoSuficiente = FALSE
  Mortales = {i1}
  Reemplazan = {}
  SinEspacio = {}
  MaxFragmentaciones = 0
INVARIANTS
  ExclusionClaves
  VacioSoloDePaso
  NuncaEnDosLugares
  PeticionSinDobles
  CerrojoDeInstancia
  SinClavesOcultas
PROPERTIES
  SonCerrojosSinLaLista
CHECK_DEADLOCK FALSE
