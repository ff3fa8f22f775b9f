-------------------------------- MODULE Esi --------------------------------
(***************************************************************************)
(* The ESI processes (esi/src/esi.c): each runs the statements of a script *)
(* one at a time, when the planner asks for the next.  A script is a       *)
(* sequence of statements; byte offsets are abstracted to positions in it. *)
(***************************************************************************)
EXTENDS Canales

CONSTANTS
  Guiones,   \* the scripts an ESI may be started with
  Fragiles   \* the ESIs that may be killed

(* A statement: an operation on a key, a SET of a key of more than 40       *)
(* characters, or a line the parser rejects.                                *)
Sentencias ==
  [op: Operaciones, clave: Claves] \cup [op: {"LARGA", "MALA"}, clave: {Nada}]

ASSUME GuionesAssumption == Guiones \subseteq Seq(Sentencias) \ {<<>>}
ASSUME FragilesAssumption == Fragiles \subseteq ESIs

VARIABLES
  guion,       \* the script of each ESI
  ipActual,    \* position of the next statement
  ipAnterior,  \* position of the last statement requested
  vida         \* "nueva", "conectada" or "terminada"

varsEsi == <<guion, ipActual, ipAnterior, vida>>

EsiTypeOK ==
  /\ guion \in [ESIs -> Guiones]
  /\ ipActual \in [ESIs -> Nat \ {0}]
  /\ ipAnterior \in [ESIs -> Nat \ {0}]
  /\ vida \in [ESIs -> {"nueva", "conectada", "terminada"}]

EsiInit ==
  /\ guion \in [ESIs -> Guiones]
  /\ ipActual = [e \in ESIs |-> 1]
  /\ ipAnterior = [e \in ESIs |-> 1]
  /\ vida = [e \in ESIs |-> "nueva"]

(* The process ends; the planner will read the end of its socket. *)
Termina(e, avisos) ==
  /\ vida' = [vida EXCEPT ![e] = "terminada"]
  /\ deEsi' = [deEsi EXCEPT ![e] = @ \o avisos \o <<"ENVIAR_ERROR">>]

conexionesAjenas == <<coordAPlan, planACoord, aInst, deInst>>

(* conectarEsi *)
ConectarEsi(e) ==
  /\ vida[e] = "nueva"
  /\ vida' = [vida EXCEPT ![e] = "conectada"]
  /\ deEsi' = Enviado(deEsi, e, "ENVIAR_NOMBRE_ESI")
  /\ UNCHANGED <<guion, ipActual, ipAnterior, aEsi, aCoord, conexionesAjenas>>

(* proximaSentencia reports the end with the last statement, or past it.    *)
UltimaTarde(e) == ipActual[e] > Len(guion[e])
EsUltima(e) == ipActual[e] >= Len(guion[e])

(***************************************************************************)
(* procesarSolicitudEjecucion: TERMINO_ESI goes to the planner before the  *)
(* statement itself goes to the coordinator.  A line that is not valid,    *)
(* or a key of more than 40 characters, ends the process.                  *)
(***************************************************************************)
ProcesarSolicitudEjecucion(e) ==
  LET avisos == IF EsUltima(e) THEN <<"TERMINO_ESI">> ELSE <<>>
      s == IF ipActual[e] <= Len(guion[e]) THEN guion[e][ipActual[e]] ELSE Sin("MALA")
  IN
  /\ vida[e] = "conectada"
  /\ Llega(aEsi[e], "SOLICITUD_EJECUCION")
  /\ aEsi' = Recibido(aEsi, e)
  /\ ipAnterior' = [ipAnterior EXCEPT ![e] = ipActual[e]]
  /\ ipActual' = [ipActual EXCEPT ![e] = @ + 1]
  /\ \/ /\ s.op \in Operaciones
        /\ deEsi' = [deEsi EXCEPT ![e] = @ \o avisos]
        /\ aCoord' = Enviado(aCoord, e, s)
        /\ UNCHANGED vida
     \/ /\ s.op = "LARGA"
        /\ aCoord' = Enviado(aCoord, e, Sin("ERROR_TAMANIO_CLAVE"))
        /\ Termina(e, avisos)
     \/ /\ s.op = "MALA"
        /\ Termina(e, avisos)
        /\ UNCHANGED aCoord
  /\ UNCHANGED <<guion, conexionesAjenas>>

(* procesarSolicitudAnterior: the statement that blocked will be repeated.  *)
ProcesarSolicitudAnterior(e) ==
  /\ vida[e] = "conectada"
  /\ Llega(aEsi[e], "ENVIAR_BLOQUEO_ESI")
  /\ aEsi' = Recibido(aEsi, e)
  /\ ipActual' = [ipActual EXCEPT ![e] = ipAnterior[e]]
  /\ UNCHANGED <<guion, ipAnterior, vida, deEsi, aCoord, conexionesAjenas>>

(* procesarRespuestaSolicitud: CONTINUA_ESI or ABORTO_ESI, main returns.    *)
ProcesarRespuestaSolicitud(e) ==
  /\ vida[e] = "conectada"
  /\ \E r \in {"CONTINUA_ESI", "ABORTO_ESI"} : Llega(aEsi[e], r)
  /\ aEsi' = Recibido(aEsi, e)
  /\ Termina(e, <<>>)
  /\ UNCHANGED <<guion, ipActual, ipAnterior, aCoord, conexionesAjenas>>

(* procesarError: the planner's end of the socket closed.                   *)
ProcesarError(e) ==
  /\ vida[e] = "conectada"
  /\ aEsi[e] = <<>>
  /\ Termina(e, <<>>)
  /\ UNCHANGED <<guion, ipActual, ipAnterior, aEsi, aCoord, conexionesAjenas>>

(* External: the process of an ESI is killed (Ctrl-C, kill).                *)
Matar(e) ==
  /\ e \in Fragiles
  /\ vida[e] = "conectada"
  /\ Termina(e, <<>>)
  /\ UNCHANGED <<guion, ipActual, ipAnterior, aEsi, aCoord, conexionesAjenas>>

PasoEsi(e) ==
  \/ ConectarEsi(e) \/ ProcesarSolicitudEjecucion(e)
  \/ ProcesarSolicitudAnterior(e) \/ ProcesarRespuestaSolicitud(e)
=============================================================================
