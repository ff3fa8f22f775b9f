SPECIFICATION Spec
CONSTANTS
  k1 = k1  k2 = k2  k3 = k3
  simple = simple  doble = doble
  Claves = {k1, k2, k3}
  Valores = {simple, doble}
  Tamanio <- TamanioMC
  TamanioEntrada = 2
  CantEntradas = 3
  Algoritmo = "LRU"
  MaxPedidos = 5
  Nada = Nada
  Vacio = Vacio
  Basura = Basura
SYMMETRY Simetria
INVARIANTS
  TypeOK
  StorageConsistente
PROPERTIES
  SoloAtomicas
  EsUnAlmacen
CHECK_DEADLOCK FALSE
