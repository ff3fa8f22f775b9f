------------------------- MODULE InstanciaAbstracta -------------------------
(***************************************************************************)
(* What the coordinator can rely on of an Instancia process: it keeps a    *)
(* set of keys and answers each packet in order.  The storage, and with it *)
(* the choice of the keys a SET evicts and whether the value fits, is left *)
(* open.                                                                   *)
(***************************************************************************)
EXTENDS Canales, SequencesExt

CONSTANTS
  Mortales,   \* the instances that may be killed and started again
  Reemplazan, \* the instances so small that a SET may evict other keys
  SinEspacio, \* the instances where a SET may find no room even so
  MaxFragmentaciones  \* bound: how many times that happens in a behaviour

ASSUME MortalesAssumption == Mortales \subseteq Instancias
ASSUME ReemplazanAssumption == Reemplazan \subseteq Instancias
ASSUME SinEspacioAssumption == SinEspacio \subseteq Instancias
ASSUME MaxFragmentacionesAssumption == MaxFragmentaciones \in Nat

VARIABLES
  contenido,  \* the keys of tablaEntradas
  archivos,   \* the keys with a file under puntoMontaje
  viva,       \* the process runs
  listas,     \* the instances that have created their tables
  fragmentaciones \* how many SETs found no room so far

varsInst == <<contenido, archivos, viva, listas, fragmentaciones>>

InstTypeOK ==
  /\ contenido \in [Instancias -> SUBSET Claves]
  /\ archivos \in [Instancias -> SUBSET Claves]
  /\ viva \in [Instancias -> BOOLEAN]
  /\ listas \subseteq Instancias
  /\ fragmentaciones \in 0..MaxFragmentaciones

InstInit(iniciales) ==
  /\ contenido = [i \in Instancias |-> {}]
  /\ archivos = [i \in Instancias |-> {}]
  /\ viva = [i \in Instancias |-> i \in iniciales]
  /\ listas = iniciales
  /\ fragmentaciones = 0

Eliminada(k) == [tipo |-> "ENVIAR_CLAVE_ELIMINADA", clave |-> k]

canalesDeOtros == <<aEsi, deEsi, aCoord, coordAPlan, planACoord>>

LlegaPedido(i, t) ==
  /\ viva[i]
  /\ aInst[i] # <<>>
  /\ Head(aInst[i]).tipo = t
  /\ aInst' = Recibido(aInst, i)

Contesta(i, ms) == deInst' = [deInst EXCEPT ![i] = @ \o ms]

(* conectarInstancia; the coordinator has seen the old socket close.        *)
ConectarInstancia(i) ==
  /\ ~viva[i]
  /\ deInst[i] = <<>>
  /\ viva' = [viva EXCEPT ![i] = TRUE]
  /\ contenido' = [contenido EXCEPT ![i] = {}]
  /\ listas' = listas \ {i}
  /\ deInst' = Enviado(deInst, i, Mensaje("ENVIAR_NOMBRE_INSTANCIA"))
  /\ UNCHANGED <<archivos, fragmentaciones, aInst, canalesDeOtros>>

(* procesarEnviarInfoInstancia: the files of the keys the coordinator names *)
ProcesarEnviarInfoInstancia(i) ==
  /\ LlegaPedido(i, "ENVIAR_INFO_INSTANCIA")
  /\ contenido' = [contenido EXCEPT ![i] = archivos[i] \cap Head(aInst[i]).clave]
  /\ listas' = listas \cup {i}
  /\ UNCHANGED <<archivos, viva, fragmentaciones, deInst, canalesDeOtros>>

(* The process is gone with its memory; the coordinator reads the end of    *)
(* the socket after what was sent before.                                   *)
Cae(i) ==
  /\ viva' = [viva EXCEPT ![i] = FALSE]
  /\ Contesta(i, <<Mensaje("ENVIAR_ERROR")>>)
  /\ UNCHANGED <<contenido, archivos, listas, fragmentaciones>>

(* A request that comes before ENVIAR_INFO_INSTANCIA finds no table.        *)
AtenderSinTablas(i) ==
  /\ \E t \in {"SET", "SET_DEFINITIVO", "STORE", "SOLICITAR_VALOR"} : LlegaPedido(i, t)
  /\ i \notin listas
  /\ Cae(i)
  /\ UNCHANGED canalesDeOtros

(***************************************************************************)
(* procesarSet: the old value of the key goes first, then the keys the     *)
(* replacement evicts, each with its ENVIAR_CLAVE_ELIMINADA.               *)
(***************************************************************************)
ProcesarSet(i) ==
  /\ LlegaPedido(i, "SET")
  /\ i \in listas
  /\ LET k == Head(aInst[i]).clave
         vieja == IF k \in contenido[i] THEN <<Eliminada(k)>> ELSE <<>>
         otras == IF i \in Reemplazan THEN contenido[i] \ {k} ELSE {}
     IN \E victimas \in SetToAllKPermutations(otras) :
          LET avisos == [p \in DOMAIN victimas |-> Eliminada(victimas[p])]
              quedan == contenido[i] \ (Range(victimas) \cup {k})
          IN \/ /\ contenido' = [contenido EXCEPT ![i] = quedan \cup {k}]
                /\ Contesta(i, vieja \o avisos \o <<Mensaje("SET_OK")>>)
                /\ UNCHANGED fragmentaciones
             \/ /\ i \in SinEspacio
                /\ fragmentaciones < MaxFragmentaciones
                /\ fragmentaciones' = fragmentaciones + 1
                /\ contenido' = [contenido EXCEPT ![i] = quedan]
                /\ Contesta(i, vieja \o avisos
                                 \o <<Mensaje("ERROR_ESPACIO_INSUFICIENTE")>>)
  /\ UNCHANGED <<archivos, viva, listas, canalesDeOtros>>

(* procesarSetDefinitivo: nothing is evicted, nor an older entry of the key *)
(* removed; two of them are one key here.                                   *)
ProcesarSetDefinitivo(i) ==
  /\ LlegaPedido(i, "SET_DEFINITIVO")
  /\ i \in listas
  /\ \/ /\ contenido' = [contenido EXCEPT ![i] = @ \cup {Head(aInst[i]).clave}]
        /\ Contesta(i, <<Mensaje("SET_DEFINITIVO_OK")>>)
     \/ /\ UNCHANGED contenido
        /\ Contesta(i, <<Mensaje("SET_DEFINITIVO_ERROR")>>)
  /\ UNCHANGED <<archivos, viva, listas, fragmentaciones, canalesDeOtros>>

(* procesarStore; on a key it does not have it dereferences NULL.           *)
ProcesarStore(i) ==
  /\ LlegaPedido(i, "STORE")
  /\ i \in listas
  /\ LET k == Head(aInst[i]).clave IN
     IF k \in contenido[i]
       THEN /\ archivos' = [archivos EXCEPT ![i] = @ \cup {k}]
            /\ Contesta(i, <<Mensaje("STORE_OK")>>)
            /\ UNCHANGED <<contenido, viva, listas, fragmentaciones>>
       ELSE Cae(i)
  /\ UNCHANGED canalesDeOtros

ProcesarCompactacion(i) ==
  /\ LlegaPedido(i, "COMPACTAR")
  /\ Contesta(i, <<Mensaje("COMPACTAR")>>)
  /\ UNCHANGED <<varsInst, canalesDeOtros>>

(***************************************************************************)
(* procesarSolicitudValor, for the status of a key: the answer says only   *)
(* whether there is a value.  The entry of the key is freed though         *)
(* tablaEntradas keeps it, and the name it had may go with it.  A second   *)
(* free of it may end the process: MatarInstancia stands for that.         *)
(***************************************************************************)
ProcesarSolicitudValor(i) ==
  /\ LlegaPedido(i, "SOLICITAR_VALOR")
  /\ i \in listas
  /\ Contesta(i, <<Mensaje("RESPUESTA_SOLICITAR_VALOR")>>)
  /\ contenido' \in
       {contenido, [contenido EXCEPT ![i] = @ \ {Head(aInst[i]).clave}]}
  /\ UNCHANGED <<archivos, viva, listas, fragmentaciones, canalesDeOtros>>

(* dump, of the thread of almacenamientoContinuo *)
Dump(i) ==
  /\ viva[i]
  /\ contenido[i] \ archivos[i] # {}
  /\ archivos' = [archivos EXCEPT ![i] = @ \cup contenido[i]]
  /\ UNCHANGED <<contenido, viva, listas, fragmentaciones, canales>>

(* External: the process is killed. *)
MatarInstancia(i) ==
  /\ i \in Mortales
  /\ viva[i]
  /\ Cae(i)
  /\ UNCHANGED <<aInst, canalesDeOtros>>

PasoInstancia(i) ==
  \/ ProcesarEnviarInfoInstancia(i) \/ ProcesarSet(i)
  \/ ProcesarSetDefinitivo(i) \/ ProcesarStore(i) \/ ProcesarCompactacion(i)
  \/ ProcesarSolicitudValor(i) \/ AtenderSinTablas(i)
=============================================================================
