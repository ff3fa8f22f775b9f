----------------------------- MODULE Instancia -----------------------------
(***************************************************************************)
(* The storage of an Instancia process (instancia/src/instancia.c): a      *)
(* region of CantEntradas slots, the bitmap of the taken ones and the      *)
(* table of keys.  The main thread serves one request of the coordinator   *)
(* at a time; the thread of almacenamientoContinuo writes every value to   *)
(* its file now and then.  mutexDumpCompactacion keeps the dump away from  *)
(* what changes the table, step by step.                                   *)
(*                                                                         *)
(* A value is abstracted to its size, its slots to <<value, position>>.    *)
(* The coordinator is the environment: it sends a request after the reply  *)
(* to the previous one, a compaction after a reply without room or one of  *)
(* another instance, and then perhaps a SET_DEFINITIVO, also of a key the  *)
(* table has.                                                              *)
(*                                                                         *)
(* Two requests leave a table nothing can be promised of: a SET_DEFINITIVO *)
(* of a key it has (compactar then gives an entry the value, and the slots,*)
(* of the other one of its key) and a request for a value (the entry is    *)
(* freed where it is).  Of such a process, "sinGarantia", the model only   *)
(* keeps that it writes files, answers, and ends.                          *)
(***************************************************************************)
EXTENDS Integers, FiniteSets

CONSTANTS
  Claves,          \* the keys
  Valores,         \* the values
  Tamanio,         \* the length of each value
  TamanioEntrada,  \* tamanioEntrada
  CantEntradas,    \* cantEntradas
  Algoritmo,       \* algoritmoReemplazo: "CIRC", "LRU" or "BSU"
  MaxPedidos,      \* bound: requests to the process, over its lives
  Nada,            \* no file, NULL
  Vacio,           \* an empty file
  Basura           \* what malloc returns

ASSUME TamanioAssumption == Tamanio \in [Valores -> Nat \ {0}]
ASSUME StorageAssumption ==
  TamanioEntrada \in Nat \ {0} /\ CantEntradas \in Nat \ {0}
ASSUME AlgoritmoAssumption == Algoritmo \in {"CIRC", "LRU", "BSU"}
ASSUME MaxPedidosAssumption == MaxPedidos \in Nat
ASSUME ValoresAssumption == Nada \notin Valores /\ Vacio \notin Valores
ASSUME NadaAssumption == Nada \notin Claves

VARIABLES
  bitMap,      \* the indexes bitMap says are taken
  storage,     \* what each slot holds
  tabla,       \* tablaEntradas
  entradaAReemplazar,
  paso,        \* where the main thread is
  pedido,      \* the request it is processing
  porEliminar, \* turns left of the loop of eliminarEntradasParaReemplazo
  desde,       \* entradaAReemplazar when the entries were sorted for that loop
  cursor,      \* i of compactar
  porRecuperar,\* the files recuperarInformacionDeInstancia has still to read
  hiloDump,    \* where the thread of almacenamientoContinuo is
  pendientes,  \* the entries the dump has still to write
  almacenar,
  disco,       \* the file of each key under puntoMontaje
  listadas,    \* external: the keys the coordinator lists for this instance
  fase,        \* external: what the coordinator will ask for
  pedidos      \* how many requests so far

varsStorage == <<bitMap, storage, tabla, entradaAReemplazar>>
varsPrincipal == <<paso, pedido, porEliminar, desde, cursor, porRecuperar>>
varsDump == <<hiloDump, pendientes, almacenar>>
varsExternas == <<listadas, fase, pedidos>>
vars == <<varsStorage, varsPrincipal, varsDump, disco, varsExternas>>

Indices == 0..(CantEntradas - 1)
Trozos == [de: Valores, parte: Nat]
Entradas == [clave: Claves, tamanio: Nat \ {0}, indexComienzo: Indices,
             tiempoReferenciado: Nat]
Pedidos == [clave: Claves, valor: Valores \cup {Nada}, definitivo: BOOLEAN,
            reemplazo: BOOLEAN]
SinPedido == [clave |-> Nada, valor |-> Nada, definitivo |-> FALSE,
              reemplazo |-> FALSE]

Pasos == {"apagada", "recupera", "libre", "borra", "decide", "reemplaza",
          "agrega", "almacena", "compacta", "sinGarantia", "termina",
          "terminada"}

TypeOK ==
  /\ bitMap \subseteq Indices
  /\ storage \in [Indices -> Trozos \cup {Basura}]
  /\ tabla \subseteq Entradas
  /\ entradaAReemplazar \in Indices
  /\ paso \in Pasos
  /\ pedido \in Pedidos \cup {SinPedido}
  /\ porEliminar \in Nat
  /\ desde \in Indices
  /\ cursor \in 0..CantEntradas
  /\ porRecuperar \subseteq Claves
  /\ hiloDump \in {"parado", "duerme", "vuelca", "revisa", "fin"}
  /\ pendientes \subseteq Claves
  /\ almacenar \in BOOLEAN
  /\ disco \in [Claves -> Valores \cup {Nada, Vacio}]
  /\ listadas \subseteq Claves
  /\ fase \in {"normal", "sinEspacio", "compactada"}
  /\ pedidos \in 0..MaxPedidos

Init ==
  /\ bitMap = {} /\ tabla = {}
  /\ storage = [i \in Indices |-> Basura]
  /\ entradaAReemplazar = 0
  /\ paso = "apagada" /\ pedido = SinPedido
  /\ porEliminar = 0 /\ desde = 0 /\ cursor = 0 /\ porRecuperar = {}
  /\ hiloDump = "parado" /\ pendientes = {} /\ almacenar = FALSE
  /\ disco = [k \in Claves |-> Nada]
  /\ listadas = {} /\ fase = "normal" /\ pedidos = 0

-----------------------------------------------------------------------------
(* tabla de entradas, bitmap, storage *)

(* entradasNecesariaParaUnTamanio *)
EntradasNecesarias(t) ==
  (t \div TamanioEntrada) + (IF t % TamanioEntrada # 0 THEN 1 ELSE 0)

(* The slots of n entries from the index i. *)
Tramo(i, n) == i..(i + n - 1)
Lugar(e) == Tramo(e.indexComienzo, EntradasNecesarias(e.tamanio))

ClavesDe(T) == {e.clave : e \in T}
EntradaDe(k) == CHOOSE e \in tabla : e.clave = k

CantidadIndexLibres == CantEntradas - Cardinality(bitMap)

(* The indexes where n free slots follow each other.                        *)
HuecosSinMirarTodo(n) ==
  {i \in Indices : i \notin bitMap /\ i + n <= CantEntradas}
HuecosSinFin(n) == {i \in Indices : Tramo(i, n) \cap bitMap = {}}
Huecos(n) == {i \in Indices : Tramo(i, n) \subseteq Indices \ bitMap}

(* guardarEnStorageEnIndex: memcpy of the value v, by the slot.             *)
GuardarEnStorage(v, i, n) ==
  [j \in Indices |-> IF j \in Tramo(i, n) THEN [de |-> v, parte |-> j - i]
                                          ELSE storage[j]]

(* agregarClaveValor to the table T, when there is room.                    *)
AgregarClaveValor(T, k, v) ==
  LET n == EntradasNecesarias(Tamanio[v]) IN
  \E i \in Huecos(n) :
    /\ \A j \in Huecos(n) : i <= j       \* buscarCantidadIndexLibres
    /\ bitMap' = bitMap \cup Tramo(i, n)
    /\ storage' = GuardarEnStorage(v, i, n)
    /\ tabla' = T \cup {[clave |-> k, tamanio |-> Tamanio[v],
                         indexComienzo |-> i, tiempoReferenciado |-> 0]}

HayLugar(v) == Huecos(EntradasNecesarias(Tamanio[v])) # {}

(* eliminarClave; the coordinator reads its ENVIAR_CLAVE_ELIMINADA.         *)
LiberaLugar(e) == bitMap \ Lugar(e)
EliminarClave(e) ==
  /\ tabla' = tabla \ {e}
  /\ bitMap' = LiberaLugar(e)
  /\ listadas' = listadas \ {e.clave}

(* aumentarTiempoReferenciadoMenosAClave, of the table T *)
Referenciadas(T, k) ==
  {[e EXCEPT !.tiempoReferenciado = IF e.clave = k THEN 0 ELSE @ + 1] : e \in T}

(* buscarValorSegunClave: the value whose parts the slots of e hold.        *)
ValorDe(e) ==
  LET n == EntradasNecesarias(e.tamanio)
      es == {v \in Valores :
               /\ Tamanio[v] = e.tamanio
               /\ \A p \in 0..(n - 1) :
                    storage[e.indexComienzo + p] = [de |-> v, parte |-> p]}
  IN IF es = {} THEN Basura ELSE CHOOSE v \in es : TRUE

-----------------------------------------------------------------------------
(* algoritmos de reemplazo *)

(* filtrarEntradasAtomicas *)
TodasLasEntradas == tabla
EntradasAtomicas == {e \in tabla : EntradasNecesarias(e.tamanio) = 1}

(* First the indexes from entradaAReemplazar on, then the ones before it,   *)
(* as desempate and ordenarEntradasAtomicasParaCIRC sort them.              *)
AntesCircular(a, b) ==
  LET sigue(e) == e.indexComienzo >= desde
  IN IF sigue(a) = sigue(b) THEN a.indexComienzo < b.indexComienzo ELSE sigue(a)

Antes(a, b) ==
  CASE Algoritmo = "CIRC" -> AntesCircular(a, b)
    [] Algoritmo = "LRU" ->
         \/ a.tiempoReferenciado > b.tiempoReferenciado
         \/ a.tiempoReferenciado = b.tiempoReferenciado /\ AntesCircular(a, b)
    [] Algoritmo = "BSU" ->
         a.tamanio > b.tamanio \/ (a.tamanio = b.tamanio /\ AntesCircular(a, b))

(* e is the head of the sorted list of the entries S. *)
Primera(e, S) == \A x \in S \ {e} : Antes(e, x)

(* The turns of the loop of eliminarEntradasParaReemplazo: a goes from the  *)
(* free slots up to the slots needed, or to the length of the list.         *)
TurnosDeReemplazo(n) ==
  LET cuantas == Cardinality(EntradasAtomicas)
      hasta == IF n < cuantas THEN n ELSE cuantas
  IN IF hasta > CantidadIndexLibres THEN hasta - CantidadIndexLibres ELSE 0

-----------------------------------------------------------------------------
(* main thread: start *)

EnMarcha == paso \notin {"apagada", "terminada"}
Cerrojo == hiloDump # "vuelca"    \* mutexDumpCompactacion, for the main thread

(* conectarInstancia and procesarEnviarInfoInstancia *)
ProcesarEnviarInfoInstancia ==
  /\ ~EnMarcha
  /\ bitMap' = {} /\ tabla' = {}
  /\ storage' = [i \in Indices |-> Basura]
  /\ entradaAReemplazar' = 0
  /\ paso' = "recupera"
  /\ pedido' = SinPedido /\ porEliminar' = 0 /\ desde' = 0 /\ cursor' = 0
  /\ porRecuperar' = {k \in listadas : disco[k] # Nada}
  /\ hiloDump' = "parado" /\ pendientes' = {} /\ almacenar' = TRUE
  /\ fase' = "normal"
  /\ UNCHANGED <<disco, listadas, pedidos>>

(* One file, in the order of the directory; an empty one is skipped, and so *)
(* is one that finds no room.                                               *)
RecuperarArchivo(k) ==
  /\ paso = "recupera"
  /\ k \in porRecuperar
  /\ porRecuperar' = porRecuperar \ {k}
  /\ IF disco[k] # Vacio /\ HayLugar(disco[k])
       THEN AgregarClaveValor(tabla, k, disco[k])
       ELSE UNCHANGED <<bitMap, storage, tabla>>
  /\ UNCHANGED <<entradaAReemplazar, paso, pedido, porEliminar, desde, cursor,
                 varsDump, disco, varsExternas>>

(* crearAlmacenamientoContinuo *)
CrearAlmacenamientoContinuo ==
  /\ paso = "recupera"
  /\ porRecuperar = {}
  /\ paso' = "libre"
  /\ hiloDump' = "duerme"
  /\ UNCHANGED <<varsStorage, pedido, porEliminar, desde, cursor, porRecuperar,
                 pendientes, almacenar, disco, varsExternas>>

-----------------------------------------------------------------------------
(* main thread: requests *)

Pedido(k, v, d) ==
  [clave |-> k, valor |-> v, definitivo |-> d, reemplazo |-> d]

RecibePedido ==
  /\ paso = "libre"
  /\ fase # "sinEspacio"
  /\ pedidos < MaxPedidos
  /\ pedidos' = pedidos + 1

(* procesarSet up to eliminarClave *)
ProcesarSet(k, v) ==
  /\ RecibePedido
  /\ fase' = "normal"
  /\ pedido' = Pedido(k, v, FALSE)
  /\ paso' = IF k \in ClavesDe(tabla) THEN "borra" ELSE "decide"
  /\ UNCHANGED <<varsStorage, porEliminar, desde, cursor, porRecuperar, varsDump,
                 disco, listadas>>

BorrarVieja ==
  /\ paso = "borra"
  /\ Cerrojo
  /\ EliminarClave(EntradaDe(pedido.clave))
  /\ paso' = "decide"
  /\ UNCHANGED <<storage, entradaAReemplazar, pedido, porEliminar, desde, cursor,
                 porRecuperar, varsDump, disco, fase, pedidos>>

(* The free slots are counted: are they enough, if not next to each other?  *)
Decidir ==
  LET n == EntradasNecesarias(Tamanio[pedido.valor])
      reemplazo == n > CantidadIndexLibres
      turnos == IF reemplazo THEN TurnosDeReemplazo(n) ELSE 0
  IN
  /\ paso = "decide"
  /\ pedido' = [pedido EXCEPT !.reemplazo = reemplazo]
  /\ porEliminar' = turnos
  /\ desde' = entradaAReemplazar
  /\ paso' = IF turnos = 0 THEN "agrega" ELSE "reemplaza"
  /\ UNCHANGED <<varsStorage, cursor, porRecuperar, varsDump, disco,
                 varsExternas>>

(* One turn of eliminarEntradasParaReemplazo: the first of the sorted list  *)
(* goes, and entradaAReemplazar points to the one after it, if any.         *)
EliminarParaReemplazo ==
  /\ paso = "reemplaza"
  /\ Cerrojo
  /\ \E e \in EntradasAtomicas :
       LET resto == EntradasAtomicas \ {e} IN
       /\ Primera(e, EntradasAtomicas)
       /\ EliminarClave(e)
       /\ \/ resto = {} /\ UNCHANGED entradaAReemplazar
          \/ \E x \in resto : Primera(x, resto)
                               /\ entradaAReemplazar' = x.indexComienzo
  /\ porEliminar' = porEliminar - 1
  /\ paso' = IF porEliminar = 1 THEN "agrega" ELSE "reemplaza"
  /\ UNCHANGED <<storage, pedido, desde, cursor, porRecuperar, varsDump, disco,
                 fase, pedidos>>

(***************************************************************************)
(* agregarClaveValor and the reply, of procesarSet and of                  *)
(* procesarSetDefinitivo.  Without room the ages grow too, unless the free *)
(* slots had seemed enough.                                                *)
(***************************************************************************)
Agregar ==
  LET k == pedido.clave IN
  /\ paso = "agrega"
  /\ k \notin ClavesDe(tabla)
  /\ Cerrojo
  /\ paso' = "libre"
  /\ \/ /\ HayLugar(pedido.valor)
        /\ AgregarClaveValor(Referenciadas(tabla, k), k, pedido.valor)
        /\ fase' = "normal"
        /\ listadas' = IF pedido.definitivo THEN listadas ELSE listadas \cup {k}
     \/ /\ ~HayLugar(pedido.valor)
        /\ fase' = IF pedido.definitivo THEN "normal" ELSE "sinEspacio"
        /\ tabla' = IF pedido.reemplazo THEN Referenciadas(tabla, k) ELSE tabla
        /\ UNCHANGED <<bitMap, storage, listadas>>
  /\ UNCHANGED <<entradaAReemplazar, pedido, porEliminar, desde, cursor,
                 porRecuperar, varsDump, disco, pedidos>>

(* A second entry for a key: nothing takes the first one out.               *)
RepetirClave ==
  /\ paso = "agrega"
  /\ pedido.clave \in ClavesDe(tabla)
  /\ Cerrojo
  /\ \/ /\ HayLugar(pedido.valor)
        /\ paso' = "sinGarantia"
        /\ UNCHANGED tabla
     \/ /\ ~HayLugar(pedido.valor)
        /\ paso' = "libre"
        /\ tabla' = Referenciadas(tabla, pedido.clave)
  /\ fase' = "normal"
  /\ UNCHANGED <<bitMap, storage, entradaAReemplazar, pedido, porEliminar,
                 desde, cursor, porRecuperar, varsDump, disco, listadas,
                 pedidos>>

(* A SET that found no room, of this instance or of another, comes again    *)
(* right after the compaction.  Whether the key is in the table is not      *)
(* asked.                                                                   *)
ProcesarSetDefinitivo(k, v) ==
  /\ RecibePedido
  /\ fase = "compactada"
  /\ pedido' = Pedido(k, v, TRUE)
  /\ paso' = "agrega"
  /\ UNCHANGED <<varsStorage, porEliminar, desde, cursor, porRecuperar, varsDump,
                 disco, listadas, fase>>

(* procesarStore of a key in the table, up to fopen; of another one it      *)
(* dereferences NULL.  The lock is not taken.                               *)
ProcesarStore(k) ==
  /\ RecibePedido
  /\ k \in listadas
  /\ pedido' = Pedido(k, Nada, FALSE)
  /\ tabla' = Referenciadas(tabla, k)
  /\ paso' = IF k \in ClavesDe(tabla) THEN "almacena" ELSE "apagada"
  /\ fase' = "normal"
  /\ UNCHANGED <<bitMap, storage, entradaAReemplazar, porEliminar, desde, cursor,
                 porRecuperar, varsDump, disco, listadas>>

(* almacenarEnMemoriaSecundaria *)
Almacenado(k) == [disco EXCEPT ![k] = ValorDe(EntradaDe(k))]

AlmacenarEnMemoriaSecundaria ==
  /\ paso = "almacena"
  /\ disco' = Almacenado(pedido.clave)
  /\ paso' = "libre"
  /\ UNCHANGED <<varsStorage, pedido, porEliminar, desde, cursor, porRecuperar,
                 varsDump, varsExternas>>

(* procesarSolicitudValor: the entry of a key that has a value is freed.    *)
ProcesarSolicitudValor(k) ==
  /\ RecibePedido
  /\ paso' = IF k \in ClavesDe(tabla) THEN "sinGarantia" ELSE "libre"
  /\ UNCHANGED <<varsStorage, pedido, porEliminar, desde, cursor, porRecuperar,
                 varsDump, disco, listadas, fase>>

(* What a process "sinGarantia" writes to a file, and what it tells the     *)
(* coordinator of its key.                                                  *)
SeguirSinGarantia(k) ==
  /\ paso = "sinGarantia"
  /\ \E v \in Valores \cup {Vacio} : disco' = [disco EXCEPT ![k] = v]
  /\ listadas' \in {listadas \cup {k}, listadas \ {k}}
  /\ UNCHANGED <<varsStorage, varsPrincipal, varsDump, fase, pedidos>>

-----------------------------------------------------------------------------
(* main thread: compactar, one moved entry per step, with the lock *)

ProcesarCompactacion ==
  /\ paso = "libre"
  /\ pedidos < MaxPedidos
  /\ pedidos' = pedidos + 1
  /\ Cerrojo
  /\ paso' = "compacta"
  /\ cursor' = 0
  /\ UNCHANGED <<varsStorage, pedido, porEliminar, desde, porRecuperar, varsDump,
                 disco, listadas, fase>>

PrimeraLibre == CHOOSE i \in (cursor..CantEntradas - 1) \ bitMap :
                  \A j \in (cursor..CantEntradas - 1) \ bitMap : i <= j
OcupadosDespues == {i \in bitMap : (cursor..i) \ bitMap # {}}
PrimerOcupado == CHOOSE i \in OcupadosDespues : \A j \in OcupadosDespues : i <= j

MovidoSinLiberar(e, i) == bitMap \cup Tramo(i, EntradasNecesarias(e.tamanio))
Movido(e, i) == (bitMap \ Lugar(e)) \cup Tramo(i, EntradasNecesarias(e.tamanio))

(* The entry after the free run is moved to its start; the scan goes on     *)
(* after the index where the entry was.                                     *)
MoverEntrada ==
  /\ paso = "compacta"
  /\ OcupadosDespues # {}
  /\ \E e \in tabla :
       LET i == PrimeraLibre
           lugar == Tramo(i, EntradasNecesarias(e.tamanio))
       IN
       /\ e.indexComienzo = PrimerOcupado
       /\ tabla' = (tabla \ {e}) \cup {[e EXCEPT !.indexComienzo = i]}
       /\ storage' = [j \in Indices |->
                        IF j \in lugar THEN storage[e.indexComienzo + (j - i)]
                                       ELSE storage[j]]
       /\ bitMap' = Movido(e, i)
       /\ cursor' = PrimerOcupado + 1
  /\ UNCHANGED <<entradaAReemplazar, paso, pedido, porEliminar, desde,
                 porRecuperar, varsDump, disco, varsExternas>>

(* enviarCompactacion *)
TerminarCompactacion ==
  /\ paso = "compacta"
  /\ OcupadosDespues = {}
  /\ paso' = "libre"
  /\ fase' = "compactada"
  /\ UNCHANGED <<varsStorage, pedido, porEliminar, desde, cursor, porRecuperar,
                 varsDump, disco, listadas, pedidos>>

-----------------------------------------------------------------------------
(* thread of almacenamientoContinuo *)

(* dump takes the lock once sleep is over.                                  *)
EmpezarDump ==
  /\ hiloDump = "duerme"
  /\ paso # "compacta"
  /\ hiloDump' = "vuelca"
  /\ pendientes' = ClavesDe(tabla)
  /\ UNCHANGED <<varsStorage, varsPrincipal, almacenar, disco, varsExternas>>

DumpDe(k) ==
  /\ hiloDump = "vuelca"
  /\ k \in pendientes
  /\ disco' = Almacenado(k)
  /\ pendientes' = pendientes \ {k}
  /\ UNCHANGED <<varsStorage, varsPrincipal, hiloDump, almacenar, varsExternas>>

TerminarDump ==
  /\ hiloDump = "vuelca"
  /\ pendientes = {}
  /\ hiloDump' = "revisa"
  /\ UNCHANGED <<varsStorage, varsPrincipal, pendientes, almacenar, disco,
                 varsExternas>>

(* while (almacenar) *)
RevisarAlmacenar ==
  /\ hiloDump = "revisa"
  /\ hiloDump' = IF almacenar THEN "duerme" ELSE "fin"
  /\ UNCHANGED <<varsStorage, varsPrincipal, pendientes, almacenar, disco,
                 varsExternas>>

-----------------------------------------------------------------------------
(* the end of the process *)

(* A file that was being written may be left empty: that of a STORE, which  *)
(* does not take the lock, and one of the dump.                             *)
Vaciados(K) == [k \in Claves |-> IF k \in K THEN Vacio ELSE disco[k]]
DelStore == IF paso = "almacena" THEN {pedido.clave} ELSE {}
DelDump == IF hiloDump = "vuelca" THEN pendientes ELSE {}

DiscoAlCaer ==
  \E D \in {{}} \cup {{k} : k \in DelDump}, S \in SUBSET DelStore :
    disco' = Vaciados(D \cup S)

(* External: the process is killed.                                         *)
Matar ==
  /\ EnMarcha
  /\ paso' = "apagada"
  /\ DiscoAlCaer
  /\ UNCHANGED <<varsStorage, pedido, porEliminar, desde, cursor, porRecuperar,
                 varsDump, varsExternas>>

(* procesarSIGINT cancels the thread of the dump and exits.                 *)
ProcesarSIGINT ==
  /\ EnMarcha
  /\ paso' = "terminada"
  /\ almacenar' = FALSE
  /\ hiloDump' = "fin"
  /\ DiscoAlCaer
  /\ UNCHANGED <<varsStorage, pedido, porEliminar, desde, cursor, porRecuperar,
                 pendientes, varsExternas>>

(* procesarError: the coordinator closed.  main waits for the dump thread.  *)
ProcesarError ==
  /\ paso = "libre"
  /\ paso' = "termina"
  /\ almacenar' = FALSE
  /\ UNCHANGED <<varsStorage, pedido, porEliminar, desde, cursor, porRecuperar,
                 hiloDump, pendientes, disco, varsExternas>>

Terminar ==
  /\ paso = "termina"
  /\ hiloDump = "fin"
  /\ paso' = "terminada"
  /\ UNCHANGED <<varsStorage, pedido, porEliminar, desde, cursor, porRecuperar,
                 varsDump, disco, varsExternas>>

-----------------------------------------------------------------------------
HiloPrincipal ==
  \/ ProcesarEnviarInfoInstancia \/ CrearAlmacenamientoContinuo
  \/ BorrarVieja \/ Decidir \/ EliminarParaReemplazo \/ Agregar \/ RepetirClave
  \/ AlmacenarEnMemoriaSecundaria
  \/ ProcesarCompactacion \/ MoverEntrada \/ TerminarCompactacion
  \/ ProcesarError \/ Terminar \/ ProcesarSIGINT
  \/ \E k \in Claves : \/ RecuperarArchivo(k) \/ ProcesarStore(k)
                       \/ ProcesarSolicitudValor(k) \/ SeguirSinGarantia(k)
                       \/ \E v \in Valores :
                            ProcesarSet(k, v) \/ ProcesarSetDefinitivo(k, v)

HiloDump ==
  /\ EnMarcha /\ paso # "sinGarantia"
  /\ \/ EmpezarDump \/ TerminarDump \/ RevisarAlmacenar
     \/ \E k \in Claves : DumpDe(k)

Next == HiloPrincipal \/ HiloDump \/ Matar

Spec == Init /\ [][Next]_vars
=============================================================================
