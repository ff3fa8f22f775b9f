------------------------------ MODULE Canales ------------------------------
(***************************************************************************)
(* The processes of Re Distinto talk over TCP sockets with the packets of  *)
(* biblioteca-propia.  A direction of a connection is a FIFO queue of      *)
(* packets: enviarPaquete (paquetes.c) appends one, the reader's loop      *)
(* (gestionarSolicitudes, gestionarDatosCliente, procesarPeticion) takes   *)
(* the first.  The serialized bytes are abstracted to the operation code   *)
(* and the key.  A closed socket is seen by its reader as a last packet    *)
(* ENVIAR_ERROR (crearPaqueteError).                                       *)
(***************************************************************************)
EXTENDS Naturals, Sequences, FiniteSets

CONSTANTS
  ESIs,        \* the ESI processes; an ESI's name and its socket identify it
  Claves,      \* the keys
  Instancias,  \* the Instancia processes, by name
  Nada         \* NULL

ASSUME ClavesAssumption == IsFiniteSet(Claves)
ASSUME NadaAssumption == Nada \notin ESIs \cup Claves \cup Instancias

VARIABLES
  aEsi,        \* aEsi[e]: packets of the planner to the ESI e
  deEsi,       \* deEsi[e]: packets of the ESI e to the planner
  aCoord,      \* aCoord[e]: packets of the ESI e to the coordinator
  coordAPlan,  \* coordinator to planner
  planACoord,  \* planner to coordinator
  aInst,       \* aInst[i]: coordinator to the instance i
  deInst       \* deInst[i]: instance i to the coordinator

canales == <<aEsi, deEsi, aCoord, coordAPlan, planACoord, aInst, deInst>>

MensajesAEsi ==
  {"SOLICITUD_EJECUCION", "CONTINUA_ESI", "ABORTO_ESI", "ENVIAR_BLOQUEO_ESI"}

MensajesDeEsi == {"ENVIAR_NOMBRE_ESI", "TERMINO_ESI", "ENVIAR_ERROR"}

Operaciones == {"GET", "SET", "STORE"}

MensajesACoord ==
  [op: Operaciones, clave: Claves]
    \cup [op: {"ERROR_TAMANIO_CLAVE"}, clave: {Nada}]

MensajesCoordAPlan ==
  [op: Operaciones, clave: Claves]
    \cup [op: {"RESPUESTA_SOLICITUD"}, clave: {Nada}]

RespuestasDelPlan == {"SET_OK", "SET_ERROR", "STORE_OK", "STORE_ERROR"}

MensajesPlanACoord ==
  [tipo: RespuestasDelPlan, clave: {Nada}]
    \cup [tipo: {"SOLICITAR_STATUS"}, clave: Claves]

(* The value of a SET is abstracted to the ESI that wrote it. *)
MensajesAInst ==
  [tipo: {"SET", "SET_DEFINITIVO", "STORE"}, clave: Claves, de: ESIs]
    \cup [tipo: {"SOLICITAR_VALOR"}, clave: Claves, de: {Nada}]
    \cup [tipo: {"COMPACTAR"}, clave: {Nada}, de: {Nada}]
    \cup [tipo: {"ENVIAR_INFO_INSTANCIA"}, clave: SUBSET Claves, de: {Nada}]

MensajesDeInst ==
  [tipo: {"ENVIAR_NOMBRE_INSTANCIA", "SET_OK", "ERROR_ESPACIO_INSUFICIENTE",
          "SET_DEFINITIVO_OK", "SET_DEFINITIVO_ERROR", "STORE_OK",
          "COMPACTAR", "RESPUESTA_SOLICITAR_VALOR", "ENVIAR_ERROR"}, clave: {Nada}]
    \cup [tipo: {"ENVIAR_CLAVE_ELIMINADA"}, clave: Claves]

Sin(c) == [op |-> c, clave |-> Nada]
Mensaje(t) == [tipo |-> t, clave |-> Nada]

(* enviarPaquete: one more packet on the connection of x. *)
Enviado(canal, x, m) == [canal EXCEPT ![x] = Append(@, m)]

(* The reader of the connection of x takes its first packet. *)
Recibido(canal, x) == [canal EXCEPT ![x] = Tail(@)]

Llega(canal, m) == canal # <<>> /\ Head(canal) = m

LlegaOp(canal, o) == canal # <<>> /\ Head(canal).op = o

CanalesTypeOK ==
  /\ aEsi \in [ESIs -> Seq(MensajesAEsi)]
  /\ deEsi \in [ESIs -> Seq(MensajesDeEsi)]
  /\ aCoord \in [ESIs -> Seq(MensajesACoord)]
  /\ coordAPlan \in Seq(MensajesCoordAPlan)
  /\ planACoord \in Seq(MensajesPlanACoord)
  /\ aInst \in [Instancias -> Seq(MensajesAInst)]
  /\ deInst \in [Instancias -> Seq(MensajesDeInst)]

CanalesInit ==
  /\ aEsi = [e \in ESIs |-> <<>>]
  /\ deEsi = [e \in ESIs |-> <<>>]
  /\ aCoord = [e \in ESIs |-> <<>>]
  /\ coordAPlan = <<>>
  /\ planACoord = <<>>
  /\ aInst = [i \in Instancias |-> <<>>]
  /\ deInst = [i \in Instancias |-> <<>>]
=============================================================================
