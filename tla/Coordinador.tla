---------------------------- MODULE Coordinador ----------------------------
(***************************************************************************)
(* The coordinator process (coordinador/src): one thread per client, each  *)
(* running procesarPeticion over its socket.  The threads of the ESIs      *)
(* forward a statement to the planner and then to an instance; the thread  *)
(* of the planner hands its answers over; the thread of an instance        *)
(* handles its replies.  They share the tables and five semaphores.        *)
(*                                                                         *)
(* A thread is split wherever it may block on a semaphore, between the two *)
(* statements that answer a waiting ESI thread, and between the instances  *)
(* of the loops of a compaction.  ESI threads never end: an ESI that is    *)
(* gone sends nothing more.                                                *)
(***************************************************************************)
EXTENDS Canales, Integers, SequencesExt

CONSTANTS
  Algoritmo,         \* ALGORITMO_DISTRIBUCION: "EL", "LSU" or "KE"
  TablaInicial,      \* the instances connected before the first ESI, in order
  RespuestaAtomica,  \* scheduling: procesarRespuesta is not preempted between
                     \* its sem_post and the assignment that follows it
  RetardoSuficiente  \* timing: RETARDO is longer than what the planner takes to
                     \* read the TERMINO_ESI sent before the statement

ASSUME AlgoritmoAssumption == Algoritmo \in {"EL", "LSU", "KE"}
ASSUME TablaInicialAssumption ==
  /\ TablaInicial \in Seq(Instancias)
  /\ IsInjective(TablaInicial)
ASSUME RespuestaAtomicaAssumption == RespuestaAtomica \in BOOLEAN
ASSUME RetardoAssumption == RetardoSuficiente \in BOOLEAN

VARIABLES
  paso,         \* where the thread of each ESI is
  pedido,       \* the statement it is processing
  elegida,      \* the instance it chose
  cortadas,     \* the threads whose connection to it was closed since
  nulas,        \* the threads that found no connection to it
  sistema,      \* g_diccionarioClaves
  peticion,     \* semaphore g_peticion
  respSet,      \* semaphore g_mutex_respuesta_set
  respStore,    \* semaphore g_mutex_respuesta_store
  respuesta,    \* g_respuesta
  hiloPlan,     \* what the planner's thread has still to assign to g_respuesta
  tabla,        \* g_tablaDeInstancias
  disponible,   \* disponible of each instance
  claves,       \* claves of each instance, in order
  trabajo,      \* trabajoActual of each instance
  mutexInst,    \* instanciaMutex of each instance
  uso,          \* the instances by ultimaModificacion, the oldest first
  compactadas,  \* instanciasCompactadas
  pasoInst,     \* where the thread of each instance is
  indice,       \* the loop variable of that thread
  coordCaido    \* the process died dereferencing NULL

varsCoord == <<paso, pedido, elegida, cortadas, nulas, sistema, peticion, respSet,
               respStore, respuesta, hiloPlan, tabla, disponible, claves,
               trabajo, mutexInst, uso, compactadas, pasoInst, indice, coordCaido>>

varsHiloEsi == <<paso, pedido, elegida, sistema>>
varsPeticion == <<varsHiloEsi, cortadas, nulas>>
varsRespuesta == <<respSet, respStore, respuesta, hiloPlan>>
varsTabla == <<tabla, disponible, claves, trabajo, uso>>
varsCompactar == <<compactadas, pasoInst, indice, coordCaido>>

SinTrabajo == [clave |-> Nada, de |-> Nada]
SinPedido == Sin("NINGUNA")

PasosEsi ==
  {"libre", "esperaSET", "enviaSET", "esperaSTORE", "enviaSTORE", "planificaKE"}
PasosInst == {"libre", "presenta", "bloqueaTodas", "compacta"}

CoordTypeOK ==
  /\ paso \in [ESIs -> PasosEsi]
  /\ pedido \in [ESIs -> MensajesACoord \cup {SinPedido}]
  /\ elegida \in [ESIs -> Instancias \cup {Nada}]
  /\ cortadas \subseteq ESIs /\ nulas \subseteq ESIs
  /\ sistema \subseteq Claves
  /\ peticion \in Nat /\ respSet \in Nat /\ respStore \in Nat
  /\ respuesta \in BOOLEAN
  /\ hiloPlan \in {"libre", "asignaTRUE", "asignaFALSE"}
  /\ tabla \in Seq(Instancias)
  /\ disponible \in [Instancias -> BOOLEAN]
  /\ claves \in [Instancias -> Seq(Claves)]
  /\ trabajo \in [Instancias -> [clave: Claves, de: ESIs] \cup {SinTrabajo}]
  /\ mutexInst \in [Instancias -> Nat]
  /\ uso \in Seq(Instancias)
  /\ compactadas \in Int
  /\ pasoInst \in [Instancias -> PasosInst]
  /\ indice \in [Instancias -> Nat]
  /\ coordCaido \in BOOLEAN

CoordInit ==
  /\ paso = [e \in ESIs |-> "libre"]
  /\ pedido = [e \in ESIs |-> SinPedido]
  /\ elegida = [e \in ESIs |-> Nada]
  /\ cortadas = {} /\ nulas = {}
  /\ sistema = {}
  /\ peticion = 1 /\ respSet = 0 /\ respStore = 0
  /\ respuesta = TRUE
  /\ hiloPlan = "libre"
  /\ tabla = TablaInicial
  /\ disponible = [i \in Instancias |-> i \in Range(TablaInicial)]
  /\ claves = [i \in Instancias |-> <<>>]
  /\ trabajo = [i \in Instancias |-> SinTrabajo]
  /\ mutexInst = [i \in Instancias |-> 1]
  /\ uso = <<>>
  /\ compactadas = 0
  /\ pasoInst = [i \in Instancias |-> "libre"]
  /\ indice = [i \in Instancias |-> 0]
  /\ coordCaido = FALSE

-----------------------------------------------------------------------------
(* tablasAdministrativas *)

(* buscarInstancia and the loops of traer...: the first, or the last, of a  *)
(* list that is in S, or NULL.                                              *)
PosicionesDe(lista, S) == {p \in 1..Len(lista) : lista[p] \in S}

PrimeraDe(lista, S) ==
  LET ps == PosicionesDe(lista, S)
  IN IF ps = {} THEN Nada ELSE lista[CHOOSE p \in ps : \A q \in ps : p <= q]

UltimaDe(lista, S) ==
  LET ps == PosicionesDe(lista, S)
  IN IF ps = {} THEN Nada ELSE lista[CHOOSE p \in ps : \A q \in ps : p >= q]

(* buscarConexion: the name of an instance that comes is in the table, and  *)
(* available, before its connection is in g_diccionarioConexiones.  One     *)
(* whose end is the next packet may leave between two calls.                *)
Presentandose(i) == pasoInst[i] = "presenta"
SeVa(i) ==
  pasoInst[i] = "libre" /\ deInst[i] # <<>> /\ Head(deInst[i]).tipo = "ENVIAR_ERROR"

Disponibles == {i \in Range(tabla) : disponible[i]}

(* The instances whose list of keys has k. *)
ConClave(k) == {i \in Instancias : k \in Range(claves[i])}

(***************************************************************************)
(* traerUltimaInstanciaUsada: the least ultimaModificacion among those     *)
(* available, the last in the table among equals.  An instance that never  *)
(* had a SET is not in uso and counts as 0.                                *)
(***************************************************************************)
TraerUltimaInstanciaUsada ==
  LET nueva == UltimaDe(tabla, Disponibles \ Range(uso))
  IN IF nueva # Nada THEN nueva ELSE PrimeraDe(uso, Disponibles)

(* traerInstanciaMasEspacioDisponible; espacioOcupado is Len(claves[i]).    *)
TraerInstanciaMasEspacioDisponible ==
  PrimeraDe(tabla, {i \in Disponibles :
                      \A j \in Disponibles : Len(claves[i]) <= Len(claves[j])})

(***************************************************************************)
(* PlanificarInstancia takes g_mutex_tablas.  Under KE it calls            *)
(* buscarInstancia, which takes it again: that thread waits forever, in    *)
(* "planificaKE", and nobody else uses the tables.                         *)
(***************************************************************************)
TablasLibres == \A e \in ESIs : paso[e] # "planificaKE"

PlanificarInstancia ==
  CASE Algoritmo = "EL" -> TraerUltimaInstanciaUsada
    [] Algoritmo = "LSU" -> TraerInstanciaMasEspacioDisponible
    [] Algoritmo = "KE" -> Nada

(* ultimaModificacion of i becomes the latest. *)
Usada(i) == Append(RemoveFirst(uso, i), i)

-----------------------------------------------------------------------------
(* threads of the ESIs *)

canalesDeInst == <<aEsi, deEsi, planACoord, aInst, deInst>>

(* procesarPaquete: usleep(RETARDO), then bloquearPeticion *)
SinRetardo(e) == peticion > 0
SinEsperarPeticion(e) ==
  RetardoSuficiente => "TERMINO_ESI" \notin Range(deEsi[e])
TrasRetardo(e) ==
  /\ RetardoSuficiente => "TERMINO_ESI" \notin Range(deEsi[e])
  /\ peticion > 0

(* procesarGET, with the request lock taken and released *)
TomaGET(e) ==
  /\ paso[e] = "libre"
  /\ LlegaOp(aCoord[e], "GET")
  /\ TablasLibres
  /\ TrasRetardo(e)
  /\ aCoord' = Recibido(aCoord, e)
  /\ sistema' = sistema \cup {Head(aCoord[e]).clave}
  /\ coordAPlan' = Append(coordAPlan, Head(aCoord[e]))
  /\ UNCHANGED <<paso, pedido, elegida, cortadas, nulas, peticion, varsRespuesta,
                 varsTabla, mutexInst, varsCompactar, canalesDeInst>>

(* procesarSET up to sem_wait(g_mutex_respuesta_set).  A key no GET named   *)
(* is reported to the planner and the request lock stays taken.             *)
TomaSET(e) ==
  /\ paso[e] = "libre"
  /\ LlegaOp(aCoord[e], "SET")
  /\ TablasLibres
  /\ TrasRetardo(e)
  /\ peticion' = peticion - 1
  /\ aCoord' = Recibido(aCoord, e)
  /\ \/ /\ Head(aCoord[e]).clave \notin sistema
        /\ coordAPlan' = Append(coordAPlan, Sin("RESPUESTA_SOLICITUD"))
        /\ UNCHANGED <<paso, pedido>>
     \/ /\ Head(aCoord[e]).clave \in sistema
        /\ coordAPlan' = Append(coordAPlan, Head(aCoord[e]))
        /\ pedido' = [pedido EXCEPT ![e] = Head(aCoord[e])]
        /\ paso' = [paso EXCEPT ![e] = "esperaSET"]
  /\ UNCHANGED <<elegida, cortadas, nulas, sistema, varsRespuesta, varsTabla,
                 mutexInst, varsCompactar, canalesDeInst>>

(* procesarSTORE up to sem_wait(g_mutex_respuesta_store) *)
TomaSTORE(e) ==
  /\ paso[e] = "libre"
  /\ LlegaOp(aCoord[e], "STORE")
  /\ TablasLibres
  /\ TrasRetardo(e)
  /\ peticion' = peticion - 1
  /\ aCoord' = Recibido(aCoord, e)
  /\ coordAPlan' = Append(coordAPlan, Head(aCoord[e]))
  /\ pedido' = [pedido EXCEPT ![e] = Head(aCoord[e])]
  /\ paso' = [paso EXCEPT ![e] = "esperaSTORE"]
  /\ UNCHANGED <<elegida, cortadas, nulas, sistema, varsRespuesta, varsTabla,
                 mutexInst, varsCompactar, canalesDeInst>>

(* RESPUESTA_SOLICITUD of an ESI: ERROR_TAMANIO_CLAVE is only logged. *)
TomaErrorTamanio(e) ==
  /\ paso[e] = "libre"
  /\ LlegaOp(aCoord[e], "ERROR_TAMANIO_CLAVE")
  /\ TablasLibres
  /\ aCoord' = Recibido(aCoord, e)
  /\ UNCHANGED <<varsCoord, coordAPlan, canalesDeInst>>

(***************************************************************************)
(* procesarSET once the planner answered: g_respuesta is read after the    *)
(* semaphore.  Only a SET that goes to an instance will have the request   *)
(* lock released, by the reply of the instance.  It may be sent to one     *)
(* that is still presenting itself.                                        *)
(***************************************************************************)
LibreOtraVez(e) ==
  /\ paso' = [paso EXCEPT ![e] = "libre"]
  /\ pedido' = [pedido EXCEPT ![e] = SinPedido]
  /\ elegida' = [elegida EXCEPT ![e] = Nada]

Duena(k) == PrimeraDe(tabla, ConClave(k) \cap Disponibles)

ConexionLeida(e, i) ==
  nulas' \in IF Presentandose(i) THEN {nulas, nulas \cup {e}} ELSE {nulas}

InstanciaParaSET(k) == IF Duena(k) # Nada THEN Duena(k) ELSE PlanificarInstancia

DecideSET(e) ==
  LET k == pedido[e].clave
      i == InstanciaParaSET(k)
      vuelve == Algoritmo # "KE" \/ Duena(k) # Nada
  IN
  /\ paso[e] = "esperaSET"
  /\ respSet > 0
  /\ respSet' = respSet - 1
  /\ TablasLibres
  /\ \/ /\ ~vuelve
        /\ paso' = [paso EXCEPT ![e] = "planificaKE"]
        /\ UNCHANGED <<pedido, elegida, nulas, coordAPlan, uso, trabajo>>
     \/ /\ vuelve /\ ~respuesta
        /\ LibreOtraVez(e)
        /\ UNCHANGED <<nulas, coordAPlan, uso, trabajo>>
     \/ /\ vuelve /\ respuesta /\ i = Nada
        /\ coordAPlan' = Append(coordAPlan, Sin("RESPUESTA_SOLICITUD"))
        /\ LibreOtraVez(e)
        /\ UNCHANGED <<nulas, uso, trabajo>>
     \/ /\ vuelve /\ respuesta /\ i # Nada
        /\ ConexionLeida(e, i)
        /\ uso' = Usada(i)
        /\ trabajo' = [trabajo EXCEPT ![i] = [clave |-> k, de |-> e]]
        /\ elegida' = [elegida EXCEPT ![e] = i]
        /\ paso' = [paso EXCEPT ![e] = "enviaSET"]
        /\ UNCHANGED <<pedido, coordAPlan>>
  /\ UNCHANGED <<cortadas, sistema, peticion, respStore, respuesta, hiloPlan,
                 tabla, disponible, claves, mutexInst, varsCompactar, aCoord,
                 canalesDeInst>>

(* A packet sent to an instance; on a closed socket it is lost. *)
EnviadoA(i, m) == IF disponible[i] THEN Enviado(aInst, i, m) ELSE aInst

(***************************************************************************)
(* bloquearInstancia, then enviarSet or enviarStore over the t_conexion    *)
(* read before it.  When the instance left in between its socket is closed *)
(* and the packet lost, or goes to whoever has the descriptor by now; when *)
(* there was none, NULL is dereferenced.                                   *)
(***************************************************************************)
EnviaSinConexion(e) ==
  /\ paso[e] \in {"enviaSET", "enviaSTORE"}
  /\ e \in nulas
  /\ mutexInst[elegida[e]] > 0
  /\ coordCaido' = TRUE
  /\ UNCHANGED <<varsPeticion, peticion, varsRespuesta, varsTabla, mutexInst,
                 compactadas, pasoInst, indice, canales>>

EnviaAInstancia(e) ==
  LET i == elegida[e]
      enviado == EnviadoA(i, [tipo |-> pedido[e].op, clave |-> pedido[e].clave,
                              de |-> e])
  IN
  /\ paso[e] \in {"enviaSET", "enviaSTORE"}
  /\ e \notin nulas
  /\ mutexInst[i] > 0
  /\ mutexInst' = [mutexInst EXCEPT ![i] = @ - 1]
  /\ aInst' \in IF e \in cortadas THEN {enviado, aInst} ELSE {enviado}
  /\ cortadas' = cortadas \ {e}
  /\ LibreOtraVez(e)
  /\ UNCHANGED <<nulas, sistema, peticion, varsRespuesta, varsTabla,
                 varsCompactar, aEsi, deEsi, aCoord, coordAPlan, planACoord, deInst>>

(***************************************************************************)
(* procesarSTORE once the planner answered.  The return statements leave   *)
(* the request lock taken.                                                 *)
(***************************************************************************)
DecideSTORE(e) ==
  LET k == pedido[e].clave
      i == IF Duena(k) # Nada THEN Duena(k) ELSE PrimeraDe(tabla, ConClave(k))
      rechaza == k \notin sistema \/ (i # Nada /\ ~disponible[i])
  IN
  /\ paso[e] = "esperaSTORE"
  /\ respStore > 0
  /\ respStore' = respStore - 1
  /\ respuesta => TablasLibres
  /\ \/ /\ ~respuesta
        /\ LibreOtraVez(e)
        /\ UNCHANGED <<nulas, coordAPlan>>
     \/ /\ respuesta /\ rechaza
        /\ coordAPlan' = Append(coordAPlan, Sin("RESPUESTA_SOLICITUD"))
        /\ LibreOtraVez(e)
        /\ UNCHANGED nulas
     \/ /\ respuesta /\ ~rechaza /\ i = Nada         \* "no hacer nada"
        /\ LibreOtraVez(e)
        /\ UNCHANGED <<nulas, coordAPlan>>
     \/ /\ respuesta /\ ~rechaza /\ i # Nada
        /\ ConexionLeida(e, i)
        /\ elegida' = [elegida EXCEPT ![e] = i]
        /\ paso' = [paso EXCEPT ![e] = "enviaSTORE"]
        /\ UNCHANGED <<pedido, coordAPlan>>
  /\ UNCHANGED <<cortadas, sistema, peticion, respSet, respuesta, hiloPlan,
                 varsTabla, mutexInst, varsCompactar, aCoord, canalesDeInst>>

PasoHiloEsi(e) ==
  \/ TomaGET(e) \/ TomaSET(e) \/ TomaSTORE(e) \/ TomaErrorTamanio(e)
  \/ DecideSET(e) \/ DecideSTORE(e) \/ EnviaAInstancia(e) \/ EnviaSinConexion(e)

-----------------------------------------------------------------------------
(* thread of the planner: procesarRespuesta of its four answers, where the  *)
(* semaphore is posted before g_respuesta is assigned, and procesarStatus.  *)

canalesSinPlanACoord == <<aEsi, deEsi, aCoord, coordAPlan, aInst, deInst>>

RecibeRespuesta ==
  LET m == Head(planACoord)
      acepta == m.tipo \in {"SET_OK", "STORE_OK"}
  IN
  /\ hiloPlan = "libre"
  /\ TablasLibres
  /\ planACoord # <<>>
  /\ m.tipo \in RespuestasDelPlan
  /\ planACoord' = Tail(planACoord)
  /\ IF m.tipo \in {"SET_OK", "SET_ERROR"}
       THEN respSet' = respSet + 1 /\ UNCHANGED respStore
       ELSE respStore' = respStore + 1 /\ UNCHANGED respSet
  /\ IF RespuestaAtomica
       THEN respuesta' = acepta /\ UNCHANGED hiloPlan
       ELSE /\ hiloPlan' = IF acepta THEN "asignaTRUE" ELSE "asignaFALSE"
            /\ UNCHANGED respuesta
  /\ UNCHANGED <<varsPeticion, peticion, varsTabla, mutexInst, varsCompactar,
                 canalesSinPlanACoord>>

AsignaRespuesta ==
  /\ hiloPlan # "libre"
  /\ respuesta' = (hiloPlan = "asignaTRUE")
  /\ hiloPlan' = "libre"
  /\ UNCHANGED <<varsPeticion, peticion, respSet, respStore, varsTabla,
                 mutexInst, varsCompactar, canales>>

(***************************************************************************)
(* procesarStatus: the first instance that lists the key, available or     *)
(* not, is asked for its value.  The name of no instance is "", never      *)
(* NULL, so the branch that would plan one is not reached: without an      *)
(* instance, or without a connection to it, buscarConexion gives NULL.     *)
(***************************************************************************)
ProcesarStatus ==
  LET k == Head(planACoord).clave
      i == PrimeraDe(tabla, ConClave(k))
      conectada == i # Nada /\ disponible[i]
  IN
  /\ hiloPlan = "libre"
  /\ TablasLibres
  /\ planACoord # <<>>
  /\ Head(planACoord).tipo = "SOLICITAR_STATUS"
  /\ planACoord' = Tail(planACoord)
  /\ aInst' = IF conectada
                THEN Enviado(aInst, i, [tipo |-> "SOLICITAR_VALOR", clave |-> k,
                                        de |-> Nada])
                ELSE aInst
  /\ coordCaido' \in IF conectada /\ Presentandose(i) THEN BOOLEAN ELSE {~conectada}
  /\ UNCHANGED <<varsPeticion, peticion, varsRespuesta, varsTabla, mutexInst,
                 compactadas, pasoInst, indice, aEsi, deEsi, aCoord, coordAPlan,
                 deInst>>

PasoHiloPlan == RecibeRespuesta \/ AsignaRespuesta \/ ProcesarStatus

-----------------------------------------------------------------------------
(* threads of the instances *)

canalesSinInst == <<aEsi, deEsi, aCoord, coordAPlan, planACoord>>

LlegaTipo(i, t) ==
  /\ pasoInst[i] = "libre"
  /\ TablasLibres
  /\ deInst[i] # <<>>
  /\ Head(deInst[i]).tipo = t
  /\ deInst' = Recibido(deInst, i)

(* desbloquearPeticion and desbloquearInstancia *)
PeticionTomada == UNCHANGED peticion
PeticionDosVeces == peticion' = peticion + 2
SueltaPeticion == peticion' = peticion + 1

InstanciaTomada(i) == mutexInst
InstanciaSuelta(i) == [mutexInst EXCEPT ![i] = @ + 1]

SiempreSuelta(i) == InstanciaSuelta(i)
SueltaSiTomada(i) == IF mutexInst[i] < 1 THEN InstanciaSuelta(i) ELSE mutexInst

(* agregarClaveDeInstancia and eliminiarClaveDeInstancia *)
ClaveSinAgregar(i, k) == claves
ClaveAgregada(i, k) == [claves EXCEPT ![i] = Append(@, k)]

ClaveConservada(i, k) == claves
ClaveQuitada(i, k) == [claves EXCEPT ![i] = RemoveFirst(@, k)]

(* procesarNombreInstancia: a known instance comes back with its keys.  The *)
(* others see it available before agregarConexion, the last thing but       *)
(* enviarInfoInstancia.                                                     *)
RecibeNombreInstancia(i) ==
  /\ LlegaTipo(i, "ENVIAR_NOMBRE_INSTANCIA")
  /\ tabla' = IF i \in Range(tabla) THEN tabla ELSE Append(tabla, i)
  /\ disponible' = [disponible EXCEPT ![i] = TRUE]
  /\ pasoInst' = [pasoInst EXCEPT ![i] = "presenta"]
  /\ UNCHANGED <<varsPeticion, peticion, varsRespuesta, claves, trabajo, uso,
                 mutexInst, compactadas, indice, coordCaido, canalesSinInst, aInst>>

PresentaInstancia(i) ==
  /\ Presentandose(i)
  /\ TablasLibres
  /\ aInst' = Enviado(aInst, i, [tipo |-> "ENVIAR_INFO_INSTANCIA",
                                 clave |-> Range(claves[i]), de |-> Nada])
  /\ pasoInst' = [pasoInst EXCEPT ![i] = "libre"]
  /\ UNCHANGED <<varsPeticion, peticion, varsRespuesta, varsTabla, mutexInst,
                 compactadas, indice, coordCaido, canalesSinInst, deInst>>

(* SET_OK: the key of the job recorded for the instance is now its.         *)
RecibeSetOk(i) ==
  /\ LlegaTipo(i, "SET_OK")
  /\ IF trabajo[i] = SinTrabajo
       THEN UNCHANGED claves
       ELSE claves' = ClaveAgregada(i, trabajo[i].clave)
  /\ coordCaido' = (trabajo[i] = SinTrabajo)
  /\ mutexInst' = InstanciaSuelta(i)
  /\ SueltaPeticion
  /\ UNCHANGED <<varsPeticion, varsRespuesta, tabla, disponible, trabajo, uso,
                 compactadas, pasoInst, indice, canalesSinInst, aInst>>

RecibeStoreOk(i) ==
  /\ LlegaTipo(i, "STORE_OK")
  /\ mutexInst' = InstanciaSuelta(i)
  /\ SueltaPeticion
  /\ UNCHANGED <<varsPeticion, varsRespuesta, varsTabla, varsCompactar,
                 canalesSinInst, aInst>>

(* procesarClaveEliminada, for an instance that is available *)
RecibeClaveEliminada(i) ==
  /\ LlegaTipo(i, "ENVIAR_CLAVE_ELIMINADA")
  /\ claves' = ClaveQuitada(i, Head(deInst[i]).clave)
  /\ UNCHANGED <<varsPeticion, peticion, varsRespuesta, tabla, disponible,
                 trabajo, uso, mutexInst, varsCompactar, canalesSinInst, aInst>>

(* ERROR_ESPACIO_INSUFICIENTE: release this instance, then lock all of them *)
RecibeEspacioInsuficiente(i) ==
  /\ LlegaTipo(i, "ERROR_ESPACIO_INSUFICIENTE")
  /\ mutexInst' = InstanciaSuelta(i)
  /\ pasoInst' = [pasoInst EXCEPT ![i] = "bloqueaTodas"]
  /\ indice' = [indice EXCEPT ![i] = 1]
  /\ UNCHANGED <<varsPeticion, peticion, varsRespuesta, varsTabla, compactadas,
                 coordCaido, canalesSinInst, aInst>>

(* One turn of bloquearTodasLasInstancias; after the last one               *)
(* compactarTodasLasInstancias resets its count.                            *)
BloqueaInstancia(i) ==
  LET j == tabla[indice[i]]
      ultima == indice[i] = Len(tabla)
  IN
  /\ pasoInst[i] = "bloqueaTodas"
  /\ mutexInst[j] > 0
  /\ mutexInst' = [mutexInst EXCEPT ![j] = @ - 1]
  /\ pasoInst' = [pasoInst EXCEPT ![i] = IF ultima THEN "compacta" ELSE @]
  /\ indice' = [indice EXCEPT ![i] = IF ultima THEN 1 ELSE @ + 1]
  /\ compactadas' = IF ultima THEN 0 ELSE compactadas
  /\ UNCHANGED <<varsPeticion, peticion, varsRespuesta, varsTabla, coordCaido,
                 canales>>

(* One turn of compactarTodasLasInstancias *)
CompactaInstancia(i) ==
  LET j == tabla[indice[i]]
      ultima == indice[i] = Len(tabla)
  IN
  /\ pasoInst[i] = "compacta"
  /\ TablasLibres
  /\ aInst' = EnviadoA(j, [tipo |-> "COMPACTAR", clave |-> Nada, de |-> Nada])
  /\ compactadas' = IF disponible[j] THEN compactadas + 1 ELSE compactadas
  /\ pasoInst' = [pasoInst EXCEPT ![i] = IF ultima THEN "libre" ELSE @]
  /\ indice' = [indice EXCEPT ![i] = IF ultima THEN 0 ELSE @ + 1]
  /\ coordCaido' \in IF disponible[j] /\ (Presentandose(j) \/ SeVa(j))
                       THEN BOOLEAN ELSE {FALSE}
  /\ UNCHANGED <<varsPeticion, peticion, varsRespuesta, varsTabla, mutexInst,
                 canalesSinInst, deInst>>

(***************************************************************************)
(* procesarCompactar: the last instance to finish gets, as SET_DEFINITIVO, *)
(* the job of the instance traerUltimaInstanciaUsada returns; the request  *)
(* lock is released here and again by the reply to it.                     *)
(***************************************************************************)
RecibeCompactar(i) ==
  LET w == TraerUltimaInstanciaUsada
      conTrabajo == w # Nada /\ trabajo[w] # SinTrabajo
  IN
  /\ LlegaTipo(i, "COMPACTAR")
  /\ compactadas' = compactadas - 1
  /\ \/ /\ compactadas # 1
        /\ UNCHANGED <<aInst, peticion, coordCaido>>
     \/ /\ compactadas = 1
        /\ coordCaido' = ~conTrabajo
        /\ aInst' = IF conTrabajo
                      THEN Enviado(aInst, i, [tipo |-> "SET_DEFINITIVO",
                             clave |-> trabajo[w].clave, de |-> trabajo[w].de])
                      ELSE aInst
        /\ SueltaPeticion
  /\ mutexInst' = InstanciaSuelta(i)
  /\ UNCHANGED <<varsPeticion, varsRespuesta, varsTabla, pasoInst, indice,
                 canalesSinInst>>

(* SET_DEFINITIVO_OK and SET_DEFINITIVO_ERROR *)
RecibeSetDefinitivo(i) ==
  /\ \E t \in {"SET_DEFINITIVO_OK", "SET_DEFINITIVO_ERROR"} : LlegaTipo(i, t)
  /\ mutexInst' = [j \in Instancias |->
                     IF j \in Range(tabla) THEN mutexInst[j] + 1 ELSE mutexInst[j]]
  /\ SueltaPeticion
  /\ UNCHANGED <<varsPeticion, varsRespuesta, varsTabla, varsCompactar,
                 canalesSinInst, aInst>>

(* The answer to SOLICITAR_VALOR has an operation code procesarPaquete does *)
(* not know: it is dropped, and the planner gets no RESPUESTA_STATUS.       *)
RecibeRespuestaValor(i) ==
  /\ LlegaTipo(i, "RESPUESTA_SOLICITAR_VALOR")
  /\ UNCHANGED <<varsCoord, canalesSinInst, aInst>>

(* procesarClienteDesconectado of an instance: its own lock is freed if it  *)
(* was taken, the request lock is not.  A thread that had chosen i has its  *)
(* connection by then or will find none.                                    *)
DesconectaInstancia(i) ==
  /\ LlegaTipo(i, "ENVIAR_ERROR")
  /\ disponible' = [disponible EXCEPT ![i] = FALSE]
  /\ mutexInst' = SueltaSiTomada(i)
  /\ \E tarde \in SUBSET {e \in ESIs : elegida[e] = i} :
       /\ nulas' = nulas \cup tarde
       /\ cortadas' = cortadas \cup {e \in ESIs \ tarde : elegida[e] = i}
  /\ aInst' = [aInst EXCEPT ![i] = <<>>]     \* what the socket still held
  /\ UNCHANGED <<varsHiloEsi, peticion, varsRespuesta, tabla, claves, trabajo,
                 uso, varsCompactar, canalesSinInst>>

PasoHiloInst(i) ==
  \/ RecibeNombreInstancia(i) \/ PresentaInstancia(i) \/ RecibeSetOk(i) \/ RecibeStoreOk(i)
  \/ RecibeClaveEliminada(i) \/ RecibeEspacioInsuficiente(i)
  \/ BloqueaInstancia(i) \/ CompactaInstancia(i) \/ RecibeCompactar(i)
  \/ RecibeSetDefinitivo(i) \/ DesconectaInstancia(i)
  \/ RecibeRespuestaValor(i)
=============================================================================
