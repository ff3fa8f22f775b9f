---------------------------- MODULE Planificador ----------------------------
(***************************************************************************)
(* The planner process (planificador/src).  Three of its threads share     *)
(* the globals of globales.h:                                              *)
(*   hiloAlgoritmos   planificarSinDesalojo / planificarConDesalojo,       *)
(*                    here the actions under "hiloAlgoritmos" and pc;      *)
(*   hiloCoordinador  procesarPaqueteCoordinador, one action per packet;   *)
(*   hiloServidor     procesarPaqueteESIs, one action per packet.          *)
(* A handler is one step where the semaphore continua makes hiloAlgoritmos *)
(* and hiloCoordinador alternate, and a call to the library always is.     *)
(* hiloAlgoritmos is split where it blocks or where another thread may     *)
(* change a flag it reads again, and liberarESI of hiloServidor, which     *)
(* locks nothing, at each use of the tables.                               *)
(* Which ready ESI calcularSiguiente returns is left open.                 *)
(*                                                                         *)
(* An operator that stands right before another one of the same parameters *)
(* and is used nowhere is a plausible bug in it: a run with the bug in its *)
(* place must find a property violated.  So in the other modules.          *)
(***************************************************************************)
EXTENDS Canales, SequencesExt

CONSTANTS
  Desalojo,          \* TRUE: planificarConDesalojo, FALSE: planificarSinDesalojo
  ClavesBloqueadas   \* CLAVES_BLOQUEADAS of planificador.cfg

ASSUME DesalojoAssumption == Desalojo \in BOOLEAN
ASSUME BloqueadasAssumption == ClavesBloqueadas \subseteq Claves

VARIABLES
  listos,          \* g_listos
  enBloq,          \* the keys of g_bloq
  cola,            \* cola[k]: the list g_bloq holds for k (<<>> if k is not in it)
  tomadas,         \* g_clavesTomadas
  termino,         \* g_termino
  bloqueo,         \* g_bloqueo
  huboError,       \* g_huboError
  huboModificacion,\* g_huboModificacion
  claveGET,        \* g_claveGET
  actual,          \* the ESI g_socketEnEjecucion and g_nombreESIactual stand for
  liberados,       \* the ESIs whose t_infoListos, name included, was freed
  libera,          \* where hiloServidor is in liberarESI
  ESIentrada,      \* semaphore
  continua,        \* semaphore
  pc,              \* where hiloAlgoritmos is
  caido            \* the process died dereferencing NULL or freed memory

flags == <<termino, bloqueo, huboError, huboModificacion>>
tablas == <<listos, enBloq, cola, tomadas>>
varsPlan == <<tablas, flags, claveGET, actual, liberados, libera,
              ESIentrada, continua, pc, caido>>

Nombres == ESIs \cup {Nada}

PCs == {"arranque", "espera", "elige", "primera", "ciclo", "continua",
        "salida", "salidaBloq", "cierre"}

(* liberarESI: the ESI e, the keys qs of g_bloq dictionary_iterator has     *)
(* still to visit, the key v whose list was found empty, if any, and        *)
(* whether the name of e was found.                                         *)
Liberacion(p, e, qs, v, h) ==
  [paso |-> p, esi |-> e, quedan |-> qs, vacia |-> v, hallado |-> h]
Ocioso == Liberacion("nada", Nada, {}, Nada, FALSE)

Liberaciones ==
  {Ocioso}
    \cup [paso: {"listo", "quita"}, esi: ESIs, quedan: {{}}, vacia: {Nada},
          hallado: {TRUE}]
    \cup [paso: {"bloqueados"}, esi: ESIs, quedan: SUBSET Claves,
          vacia: Claves \cup {Nada}, hallado: BOOLEAN]

FlagsTypeOK ==
  /\ termino \in BOOLEAN /\ bloqueo \in BOOLEAN
  /\ huboError \in BOOLEAN /\ huboModificacion \in BOOLEAN
  /\ caido \in BOOLEAN

PlanTypeOK ==
  /\ FlagsTypeOK
  /\ listos \subseteq ESIs
  /\ enBloq \subseteq Claves
  /\ cola \in [Claves -> Seq(ESIs)]
  /\ tomadas \in [Nombres -> SUBSET Claves]
  /\ claveGET \in Claves \cup {Nada}
  /\ actual \in Nombres
  /\ liberados \subseteq ESIs
  /\ libera \in Liberaciones
  /\ ESIentrada \in Nat /\ continua \in Nat
  /\ pc \in PCs

(* main and asignarBloquedas: a preset key has an empty list of ESIs. *)
PlanInit ==
  /\ listos = {}
  /\ enBloq = ClavesBloqueadas
  /\ cola = [k \in Claves |-> <<>>]
  /\ tomadas = [n \in Nombres |-> {}]
  /\ termino = FALSE /\ bloqueo = FALSE /\ huboError = FALSE
  /\ huboModificacion = FALSE
  /\ claveGET = Nada
  /\ actual = Nada /\ liberados = {} /\ libera = Ocioso
  /\ ESIentrada = 0 /\ continua = 0
  /\ pc = IF Desalojo THEN "arranque" ELSE "espera"
  /\ caido = FALSE

(***************************************************************************)
(* The name a thread reads through g_nombreESIactual: that of the running  *)
(* ESI or, once planificar freed it, whatever the memory holds.            *)
(***************************************************************************)
NombresLeidos == IF actual \in ESIs \ liberados THEN {actual} ELSE Nombres

-----------------------------------------------------------------------------
(* hiloCoordinador: procesarPaqueteCoordinador *)

(* claveEstaTomada over every other owner, or an entry of g_bloq. *)
TomadaPorOtro(k, n) == \E m \in Nombres \ {n} : k \in tomadas[m]
ClaveOcupadaSinBloq(k, n) == TomadaPorOtro(k, n)
ClaveOcupadaSinTomadas(k, n) == k \in enBloq
ClaveOcupada(k, n) == TomadaPorOtro(k, n) \/ k \in enBloq

RecibeGET ==
  /\ LlegaOp(coordAPlan, "GET")
  /\ \E n \in NombresLeidos :
       LET k == Head(coordAPlan).clave IN
       \/ /\ k \in tomadas[n]                  \* "ya tiene la clave"
          /\ claveGET' = Nada
          /\ UNCHANGED <<tomadas, bloqueo>>
       \/ /\ k \notin tomadas[n]
          /\ ClaveOcupada(k, n)
          /\ claveGET' = k
          /\ bloqueo' = TRUE
          /\ UNCHANGED tomadas
       \/ /\ k \notin tomadas[n]
          /\ ~ClaveOcupada(k, n)
          /\ claveGET' = k
          /\ tomadas' = [tomadas EXCEPT ![n] = @ \cup {k}]
          /\ UNCHANGED bloqueo
  /\ coordAPlan' = Tail(coordAPlan)
  /\ continua' = continua + 1
  /\ UNCHANGED <<listos, enBloq, cola, termino, huboError, huboModificacion,
                 actual, liberados, libera, ESIentrada, pc, caido,
                 aEsi, deEsi, aCoord, planACoord, aInst, deInst>>

TieneClave(k, n) == k \in tomadas[n]

SinClavesNunca(n) == tomadas
SinClaves(n) == [tomadas EXCEPT ![n] = {}]

(* The running ESI is aborted: enviarRespuesta(ABORTO_ESI), liberarClaves. *)
Aborta(n) ==
  /\ huboError' = TRUE
  /\ aEsi' = Enviado(aEsi, actual, "ABORTO_ESI")
  /\ tomadas' = SinClaves(n)

RecibeSET ==
  /\ LlegaOp(coordAPlan, "SET")
  /\ \E n \in NombresLeidos :
       LET k == Head(coordAPlan).clave IN
       \/ /\ TieneClave(k, n)
          /\ planACoord' = Append(planACoord, Mensaje("SET_OK"))
          /\ UNCHANGED <<huboError, aEsi, tomadas>>
       \/ /\ ~TieneClave(k, n)
          /\ planACoord' = Append(planACoord, Mensaje("SET_ERROR"))
          /\ Aborta(n)
  /\ coordAPlan' = Tail(coordAPlan)
  /\ claveGET' = Nada
  /\ continua' = continua + 1
  /\ UNCHANGED <<listos, enBloq, cola, termino, bloqueo, huboModificacion,
                 actual, liberados, libera, ESIentrada, pc, caido,
                 deEsi, aCoord, aInst, deInst>>

(* desbloquearESI(k).  On an empty list list_remove gives NULL, which       *)
(* desbloquearESI dereferences: RecibeSTORE sets caido.                     *)
DesbloqueaSinAvisar(k) ==
  /\ listos' = listos \cup {Head(cola[k])}
  /\ cola' = [cola EXCEPT ![k] = Tail(@)]
  /\ enBloq' = IF Len(cola[k]) = 1 THEN enBloq \ {k} ELSE enBloq
  /\ huboModificacion' = TRUE
  /\ UNCHANGED ESIentrada

DesbloqueaSinQuitar(k) ==
  /\ listos' = listos \cup {Head(cola[k])}
  /\ ESIentrada' = ESIentrada + 1
  /\ huboModificacion' = TRUE
  /\ UNCHANGED <<cola, enBloq>>

DesbloqueaSinListo(k) ==
  /\ cola' = [cola EXCEPT ![k] = Tail(@)]
  /\ enBloq' = IF Len(cola[k]) = 1 THEN enBloq \ {k} ELSE enBloq
  /\ ESIentrada' = ESIentrada + 1
  /\ huboModificacion' = TRUE
  /\ UNCHANGED listos

DesbloqueaESI(k) ==
  /\ listos' = listos \cup {Head(cola[k])}
  /\ cola' = [cola EXCEPT ![k] = Tail(@)]
  /\ enBloq' = IF Len(cola[k]) = 1 THEN enBloq \ {k} ELSE enBloq
  /\ ESIentrada' = ESIentrada + 1
  /\ huboModificacion' = TRUE

(* list_remove of the released key from the list of its owner. *)
ClaveLiberadaNunca(n, k) == tomadas
ClaveLiberada(n, k) == [tomadas EXCEPT ![n] = @ \ {k}]

RecibeSTORE ==
  /\ LlegaOp(coordAPlan, "STORE")
  /\ \E n \in NombresLeidos :
       LET k == Head(coordAPlan).clave IN
       \/ /\ TieneClave(k, n)
          /\ IF k \in enBloq /\ cola[k] # <<>>
               THEN DesbloqueaESI(k)
               ELSE UNCHANGED <<listos, cola, enBloq, ESIentrada, huboModificacion>>
          /\ caido' = (k \in enBloq /\ cola[k] = <<>>)
          /\ tomadas' = ClaveLiberada(n, k)
          /\ planACoord' = Append(planACoord, Mensaje("STORE_OK"))
          /\ UNCHANGED <<huboError, aEsi>>
       \/ /\ ~TieneClave(k, n)
          /\ Aborta(n)
          /\ planACoord' = Append(planACoord, Mensaje("STORE_ERROR"))
          /\ UNCHANGED <<listos, cola, enBloq, ESIentrada, huboModificacion, caido>>
  /\ coordAPlan' = Tail(coordAPlan)
  /\ claveGET' = Nada
  /\ continua' = continua + 1
  /\ UNCHANGED <<termino, bloqueo, actual, liberados, libera, pc,
                 deEsi, aCoord, aInst, deInst>>

(* RESPUESTA_SOLICITUD: the coordinator reports an error of the statement. *)
RecibeError ==
  /\ LlegaOp(coordAPlan, "RESPUESTA_SOLICITUD")
  /\ \E n \in NombresLeidos : Aborta(n)
  /\ coordAPlan' = Tail(coordAPlan)
  /\ continua' = continua + 1
  /\ UNCHANGED <<listos, enBloq, cola, termino, bloqueo, huboModificacion,
                 claveGET, actual, liberados, libera, ESIentrada, pc, caido,
                 deEsi, aCoord, planACoord, aInst, deInst>>

PasoCoordinador == RecibeGET \/ RecibeSET \/ RecibeSTORE \/ RecibeError

-----------------------------------------------------------------------------
(* hiloServidor: procesarPaqueteESIs *)

RecibeNombre(e) ==
  /\ libera = Ocioso
  /\ Llega(deEsi[e], "ENVIAR_NOMBRE_ESI")
  /\ deEsi' = Recibido(deEsi, e)
  /\ listos' = listos \cup {e}
  /\ huboModificacion' = TRUE
  /\ ESIentrada' = ESIentrada + 1
  /\ UNCHANGED <<enBloq, cola, tomadas, termino, bloqueo, huboError, claveGET,
                 actual, liberados, libera, continua, pc, caido,
                 aEsi, aCoord, coordAPlan, planACoord, aInst, deInst>>

RecibeTermino(e) ==
  /\ libera = Ocioso
  /\ Llega(deEsi[e], "TERMINO_ESI")
  /\ deEsi' = Recibido(deEsi, e)
  /\ termino' = TRUE
  /\ UNCHANGED <<tablas, bloqueo, huboError, huboModificacion, claveGET,
                 actual, liberados, libera, ESIentrada, continua, pc, caido,
                 aEsi, aCoord, coordAPlan, planACoord, aInst, deInst>>

EnAlgunaCola(e) == \E k \in Claves : e \in Range(cola[k])

(* The disconnection is taken for the end of the running ESI. *)
FinDelActual == termino \/ huboError

(* liberarESI reads g_listos; a key that joins g_bloq later may be visited. *)
DesconectaESI(e) ==
  /\ libera = Ocioso
  /\ Llega(deEsi[e], "ENVIAR_ERROR")
  /\ deEsi' = Recibido(deEsi, e)
  /\ \/ /\ ~FinDelActual
        /\ e \in listos
        /\ libera' = Liberacion("listo", e, {}, Nada, TRUE)
        /\ UNCHANGED <<tomadas, continua>>
     \/ /\ ~FinDelActual
        /\ e \notin listos
        /\ \E qs \in SUBSET Claves :
             /\ enBloq \subseteq qs
             /\ libera' = Liberacion("bloqueados", e, qs, Nada, FALSE)
        /\ UNCHANGED <<tomadas, continua>>
     \/ /\ FinDelActual
        /\ \E n \in NombresLeidos : tomadas' = SinClaves(n)
        /\ continua' = continua + 1
        /\ UNCHANGED libera
  /\ UNCHANGED <<listos, enBloq, cola, flags, claveGET, actual, liberados,
                 ESIentrada, pc, caido,
                 aEsi, aCoord, coordAPlan, planACoord, aInst, deInst>>

sinLiberar == <<flags, claveGET, actual, ESIentrada, continua, pc, canales>>

(* The name of a ready ESI is copied and freed.  If the ESI was chosen      *)
(* since, dictionary_get gives NULL.                                        *)
LiberaNombre(e) ==
  /\ libera.paso = "listo" /\ libera.esi = e
  /\ \/ /\ e \in listos
        /\ liberados' = liberados \cup {e}
        /\ libera' = [libera EXCEPT !.paso = "quita"]
        /\ UNCHANGED caido
     \/ /\ e \notin listos
        /\ caido' = TRUE
        /\ UNCHANGED <<liberados, libera>>
  /\ UNCHANGED <<tablas, sinLiberar>>

(* It leaves g_listos, if it still is there, and ESIentrada keeps its unit. *)
QuitaListo(e) ==
  /\ libera.paso = "quita" /\ libera.esi = e
  /\ listos' = listos \ {e}
  /\ tomadas' = SinClaves(e)
  /\ libera' = Ocioso
  /\ UNCHANGED <<enBloq, cola, liberados, caido, sinLiberar>>

(***************************************************************************)
(* siEstaBloqueadaPorClaveEliminar up to list_is_empty: e leaves the list  *)
(* of the key k.  A key that left g_bloq has no list to look at, and the   *)
(* memory of its entry may be gone; one that desbloquearESI takes out and  *)
(* puts back is passed over.                                               *)
(***************************************************************************)
SaleDeBloq(k) ==
  /\ Llega(coordAPlan, [op |-> "STORE", clave |-> k])
  /\ \E n \in NombresLeidos : TieneClave(k, n)

QuitaDeLista(e, k) ==
  /\ libera.paso = "bloqueados" /\ libera.esi = e
  /\ libera.vacia = Nada
  /\ k \in libera.quedan
  /\ \/ /\ k \in enBloq
        /\ cola' = [cola EXCEPT ![k] = RemoveFirst(@, e)]
        /\ libera' =
             [libera EXCEPT
                !.quedan = @ \ {k},
                !.vacia = IF RemoveFirst(cola[k], e) = <<>> THEN k ELSE Nada,
                !.hallado = @ \/ e \in Range(cola[k])]
        /\ liberados' = IF e \in Range(cola[k]) THEN liberados \cup {e} ELSE liberados
        /\ UNCHANGED caido
     \/ /\ k \notin enBloq \/ SaleDeBloq(k)
        /\ libera' = [libera EXCEPT !.quedan = @ \ {k}]
        /\ caido' \in IF k \in enBloq THEN {FALSE} ELSE BOOLEAN
        /\ UNCHANGED <<cola, liberados>>
  /\ UNCHANGED <<listos, enBloq, tomadas, sinLiberar>>

(* dictionary_remove_and_destroy of the key whose list was found empty, with *)
(* whoever was added to the list since.                                      *)
TodasSiguen(k) == enBloq
SinLista(k) == enBloq \ {k}

QuitaClave(e) ==
  /\ libera.paso = "bloqueados" /\ libera.esi = e
  /\ libera.vacia # Nada
  /\ enBloq' = SinLista(libera.vacia)
  /\ cola' = [cola EXCEPT ![libera.vacia] = <<>>]
  /\ libera' = [libera EXCEPT !.vacia = Nada]
  /\ UNCHANGED <<listos, tomadas, liberados, caido, sinLiberar>>

(* liberarClaves.  When e was in no list its name was never assigned.       *)
LiberaClaves(e) ==
  /\ libera.paso = "bloqueados" /\ libera.esi = e
  /\ libera.vacia = Nada /\ libera.quedan = {}
  /\ \/ /\ libera.hallado
        /\ tomadas' = SinClaves(e)
        /\ libera' = Ocioso
        /\ UNCHANGED caido
     \/ /\ ~libera.hallado
        /\ \E n \in Nombres : tomadas' = SinClaves(n)
        /\ libera' = Ocioso
        /\ UNCHANGED caido
     \/ /\ ~libera.hallado
        /\ caido' = TRUE
        /\ UNCHANGED <<tomadas, libera>>
  /\ UNCHANGED <<listos, enBloq, cola, liberados, sinLiberar>>

LiberaESI(e) ==
  \/ LiberaNombre(e) \/ QuitaListo(e)
  \/ (\E k \in Claves : QuitaDeLista(e, k))
  \/ QuitaClave(e) \/ LiberaClaves(e)

PasoServidor(e) ==
  RecibeNombre(e) \/ RecibeTermino(e) \/ DesconectaESI(e) \/ LiberaESI(e)

-----------------------------------------------------------------------------
(* hiloAlgoritmos: planificarSinDesalojo / planificarConDesalojo *)

canalesSinAEsi == <<deEsi, aCoord, coordAPlan, planACoord, aInst, deInst>>

(* sem_wait(ESIentrada); planificarConDesalojo resets g_huboError after it, *)
(* planificarSinDesalojo did before.                                        *)
TomaEntrada ==
  /\ pc \in {"arranque", "espera"}
  /\ ESIentrada > 0
  /\ ESIentrada' = ESIentrada - 1
  /\ huboModificacion' = IF pc = "arranque" THEN FALSE ELSE huboModificacion
  /\ huboError' = IF Desalojo THEN FALSE ELSE huboError
  /\ pc' = "elige"
  /\ UNCHANGED <<tablas, termino, bloqueo, claveGET, actual, liberados, libera,
                 continua, caido, canales>>

(* calcularSiguiente and dictionary_remove.  On an empty g_listos the first *)
(* dictionary_get gives NULL; an entry that was freed may hold anything.    *)
Elige ==
  /\ pc = "elige"
  /\ \/ /\ \E e \in listos :
             /\ actual' = e
             /\ listos' = listos \ {e}
             /\ caido' \in IF e \in liberados THEN BOOLEAN ELSE {FALSE}
        /\ pc' = IF Desalojo THEN "primera" ELSE "ciclo"
     \/ /\ listos = {}
        /\ caido' = TRUE
        /\ UNCHANGED <<actual, listos, pc>>
  /\ UNCHANGED <<enBloq, cola, tomadas, flags, claveGET, liberados, libera, ESIentrada,
                 continua, canales>>

(* The condition that ends the loop of requests. *)
HaySalida ==
  termino \/ bloqueo \/ huboError \/ (Desalojo /\ huboModificacion)

Pide ==
  /\ pc = "primera" \/ (pc = "ciclo" /\ ~HaySalida)
  /\ aEsi' = Enviado(aEsi, actual, "SOLICITUD_EJECUCION")
  /\ pc' = "continua"
  /\ UNCHANGED <<tablas, flags, claveGET, actual, liberados, libera, ESIentrada,
                 continua, caido, canalesSinAEsi>>

EsperaContinua ==
  /\ pc = "continua"
  /\ continua > 0
  /\ continua' = continua - 1
  /\ pc' = "ciclo"
  /\ UNCHANGED <<tablas, flags, claveGET, actual, liberados, libera, ESIentrada,
                 caido, canales>>

Sale ==
  /\ pc = "ciclo"
  /\ HaySalida /\ ~bloqueo
  /\ pc' = "salida"
  /\ UNCHANGED <<tablas, flags, claveGET, actual, liberados, libera, ESIentrada,
                 continua, caido, canales>>

(* bloquear: e is the last of the list of k. *)
SinEncolar(k, e) == cola
Encolado(k, e) == [cola EXCEPT ![k] = Append(@, e)]

(* bloquear and enviarBloqueoESI; dictionary_has_key(g_bloq, NULL) fails. *)
Bloquea ==
  /\ pc = "ciclo"
  /\ bloqueo
  /\ bloqueo' = FALSE
  /\ IF claveGET = Nada
       THEN UNCHANGED <<cola, enBloq>>
       ELSE /\ cola' = Encolado(claveGET, actual)
            /\ enBloq' = enBloq \cup {claveGET}
  /\ caido' = (claveGET = Nada)
  /\ claveGET' = Nada
  /\ aEsi' = Enviado(aEsi, actual, "ENVIAR_BLOQUEO_ESI")
  /\ pc' = "salidaBloq"
  /\ UNCHANGED <<listos, tomadas, termino, huboError, huboModificacion, actual,
                 liberados, libera, ESIentrada, continua, canalesSinAEsi>>

(***************************************************************************)
(* if (g_termino || g_huboError): CONTINUA_ESI unless it was aborted.      *)
(* After a block planificarConDesalojo has set aEjecutar to NULL.          *)
(***************************************************************************)
Despide ==
  /\ pc \in {"salida", "salidaBloq"}
  /\ FinDelActual
  /\ aEsi' = IF huboError THEN aEsi ELSE Enviado(aEsi, actual, "CONTINUA_ESI")
  /\ \/ /\ ~(Desalojo /\ pc = "salidaBloq")
        /\ pc' = "cierre"
        /\ UNCHANGED caido
     \/ /\ Desalojo /\ pc = "salidaBloq"
        /\ caido' = TRUE
        /\ UNCHANGED pc
  /\ UNCHANGED <<tablas, flags, claveGET, actual, liberados, libera, ESIentrada,
                 continua, canalesSinAEsi>>

(* The ESI left ready goes back to g_listos: "Se desaloja". *)
Desaloja ==
  /\ pc = "salida"
  /\ ~FinDelActual
  /\ listos' = listos \cup {actual}
  /\ ESIentrada' = ESIentrada + 1
  /\ huboModificacion' = FALSE
  /\ pc' = "espera"
  /\ UNCHANGED <<enBloq, cola, tomadas, termino, bloqueo, huboError, claveGET,
                 actual, liberados, libera, continua, caido, canales>>

DejaBloqueado ==
  /\ pc = "salidaBloq"
  /\ ~FinDelActual
  /\ pc' = "espera"
  /\ UNCHANGED <<tablas, flags, claveGET, actual, liberados, libera, ESIentrada,
                 continua, caido, canales>>

(* sem_wait(continua) for the disconnection of the ESI, then its memory is  *)
(* freed; planificarSinDesalojo also resets g_huboError before it waits.    *)
Cierra ==
  /\ pc = "cierre"
  /\ continua > 0
  /\ continua' = continua - 1
  /\ liberados' = liberados \cup {actual}
  /\ termino' = FALSE
  /\ huboError' = IF Desalojo THEN huboError ELSE FALSE
  /\ pc' = "espera"
  /\ UNCHANGED <<tablas, bloqueo, huboModificacion, claveGET, actual,
                 libera, ESIentrada, caido, canales>>

PasoAlgoritmos ==
  \/ TomaEntrada \/ Elige \/ Pide \/ EsperaContinua \/ Sale \/ Bloquea
  \/ Despide \/ Desaloja \/ DejaBloqueado \/ Cierra
=============================================================================
