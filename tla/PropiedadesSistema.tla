------------------------- MODULE PropiedadesSistema -------------------------
(* What Sistema must do: the properties the runs of MCSistema check.         *)
EXTENDS Sistema

(* Counting: one for TRUE, where m is in s, where s has packets of tipos.   *)
Uno(b) == IF b THEN 1 ELSE 0
Donde(s, m) == {p \in DOMAIN s : s[p] = m}
EnVuelo(s, tipos) == {p \in DOMAIN s : s[p].tipo \in tipos}

(***************************************************************************)
(* A key is held by at most one ESI: a GET only gives away a key no other  *)
(* list of g_clavesTomadas has.                                            *)
(***************************************************************************)
ExclusionClaves ==
  \A k \in Claves, m, n \in Nombres :
    k \in tomadas[m] /\ k \in tomadas[n] => m = n

(***************************************************************************)
(* desbloquearESI, which a STORE of the holder calls when g_bloq has the   *)
(* key, never takes the head of an empty list, and no list survives the    *)
(* removal of its key.                                                     *)
(***************************************************************************)
TomadaConLista(k) == k \in enBloq /\ \E n \in Nombres : k \in tomadas[n]

SinBloqSinCola == \A k \in Claves \ enBloq : cola[k] = <<>>

DesbloqueoSeguro ==
  /\ \A k \in Claves : TomadaConLista(k) => cola[k] # <<>>
  /\ SinBloqSinCola

(***************************************************************************)
(* With ESIs that go before their end it may: liberarESI leaves a key in   *)
(* g_bloq, with the list it emptied, until it removes the key.  Only then, *)
(* and only of that key, is the list of a key that is taken empty.         *)
(***************************************************************************)
VacioSoloDePaso ==
  /\ \A k \in Claves : TomadaConLista(k) /\ cola[k] = <<>> => libera.vacia = k
  /\ SinBloqSinCola

(***************************************************************************)
(* The ESIs run one statement at a time: between two requests of the       *)
(* planner there is exactly one statement under way, or the unit of        *)
(* continua that reports it.                                               *)
(***************************************************************************)
Pedidas(e) == {"aEsi"} \X Donde(aEsi[e], "SOLICITUD_EJECUCION")
Enviadas(e) == {"aCoord"} \X DOMAIN aCoord[e]

SentenciasEnCurso ==
  (UNION {{e} \X (Pedidas(e) \cup Enviadas(e)) : e \in ESIs})
    \cup {Nada} \X ({"coordAPlan"} \X DOMAIN coordAPlan)

TurnoUnico ==
  IF pc = "continua" THEN Cardinality(SentenciasEnCurso) + continua = 1
                     ELSE SentenciasEnCurso = {}

(***************************************************************************)
(* ESIentrada counts the entries of g_listos: hiloAlgoritmos never takes a *)
(* unit of it and finds no ESI to choose, nor leaves a ready ESI uncounted.*)
(***************************************************************************)
ListosContados == ESIentrada + Uno(pc = "elige") = Cardinality(listos)

(***************************************************************************)
(* An ESI the planner knows is in one place: ready, running or waiting for *)
(* one key, once.  It is neither lost nor planned twice.                   *)
(***************************************************************************)
EnEjecucion(e) ==
  e = actual /\ pc \in {"primera", "ciclo", "continua", "salida", "cierre"}

Esperas(e) == UNION {{k} \X Donde(cola[k], e) : k \in Claves}

Lugares(e) ==
  Uno(e \in listos) + Uno(EnEjecucion(e)) + Cardinality(Esperas(e))

UnSoloLugar ==
  \A e \in ESIs :
    /\ Lugares(e) <= 1
    /\ vida[e] = "conectada" /\ "ENVIAR_NOMBRE_ESI" \notin Range(deEsi[e])
         => Lugares(e) = 1

(***************************************************************************)
(* An ESI whose turn goes on is not ready, and one that waits for a key is *)
(* neither ready nor in its turn, nor waits for another key or twice.      *)
(***************************************************************************)
EnSuTurno(e) == e = actual /\ pc \in {"primera", "ciclo", "continua", "salida"}

EsperasUnicas ==
  \A k, l \in Claves : \A p \in DOMAIN cola[k], q \in DOMAIN cola[l] :
    cola[k][p] = cola[l][q] => k = l /\ p = q

NuncaEnDosLugares ==
  /\ \A e \in ESIs :
       /\ ~(e \in listos /\ EnSuTurno(e))
       /\ EnAlgunaCola(e) => e \notin listos /\ ~EnSuTurno(e)
  /\ EsperasUnicas

(***************************************************************************)
(* An ESI that is gone holds no key once the planner has read the end of   *)
(* its socket.                                                             *)
(***************************************************************************)
ClavesDeVivos ==
  \A e \in ESIs :
    tomadas[e] # {} => vida[e] = "conectada" \/ "ENVIAR_ERROR" \in Range(deEsi[e])

(***************************************************************************)
(* A SET on its way to an instance comes from the ESI that holds the key:  *)
(* the planner accepted it, and the holder cannot have released the key.   *)
(***************************************************************************)
EscrituraExclusiva ==
  \A i \in Instancias : \A p \in DOMAIN aInst[i] :
    aInst[i][p].tipo = "SET" => aInst[i][p].clave \in tomadas[aInst[i][p].de]

(***************************************************************************)
(* g_clavesTomadas and g_bloq are a lock for each key, with its queue:     *)
(* every step of every process is one of Cerrojos, or none.                *)
(***************************************************************************)
LosCerrojos == INSTANCE Cerrojos
  WITH Duenos <- Nombres, tiene <- tomadas, espera <- cola, idos <- liberados

SonCerrojos == LosCerrojos!Promesa

(***************************************************************************)
(* With ESIs that go before their end they are, but for one loss: whoever  *)
(* joins the list of a key after liberarESI found it empty, and before it  *)
(* removes the key, waits in no list any more.                             *)
(***************************************************************************)
PierdeLista ==
  /\ libera.vacia # Nada
  /\ cola' = [cola EXCEPT ![libera.vacia] = <<>>]
  /\ UNCHANGED <<tomadas, liberados>>

SonCerrojosSinLaLista ==
  LosCerrojos!Inicio
    /\ [][LosCerrojos!Paso \/ PierdeLista]_<<tomadas, cola, liberados>>

(***************************************************************************)
(* The request lock is never lost nor doubled: it is free, or a thread of  *)
(* an ESI has it, or the reply to a statement that is in an instance, or   *)
(* on the way from or to it, will release it.                              *)
(***************************************************************************)
EnInstancia(i) ==
  ({"aInst"} \X EnVuelo(aInst[i], {"SET", "STORE"}))
    \cup ({"deInst"} \X EnVuelo(deInst[i], {"SET_OK", "STORE_OK"}))

Duenos ==
  ({e \in ESIs : paso[e] # "libre"} \X {<<"hilo", 0>>})
    \cup UNION {{i} \X EnInstancia(i) : i \in Instancias}

PeticionConDueno == peticion + Cardinality(Duenos) = 1

(***************************************************************************)
(* Whatever dies, the request lock is not released twice: two statements   *)
(* are never in the instances at the same time.                            *)
(***************************************************************************)
PeticionSinDobles == peticion + Cardinality(Duenos) <= 1

(* The lock of an instance is a lock: it is never released twice either.    *)
CerrojoDeInstancia == \A i \in Instancias : mutexInst[i] <= 1

(***************************************************************************)
(* When nothing is on the way between them, the coordinator lists for an   *)
(* instance the keys the instance has, each once.                          *)
(***************************************************************************)
VistaFiel ==
  \A i \in Instancias :
    aInst[i] = <<>> /\ deInst[i] = <<>> /\ viva[i] =>
      /\ Range(claves[i]) = contenido[i]
      /\ IsInjective(claves[i])

(***************************************************************************)
(* An instance has no key the coordinator does not list for it, also after *)
(* it came back with the files it had: no value is out of reach of a STORE.*)
(***************************************************************************)
SinClavesOcultas ==
  \A i \in Instancias :
    aInst[i] = <<>> /\ deInst[i] = <<>> /\ viva[i] =>
      contenido[i] \subseteq Range(claves[i])

(***************************************************************************)
(* No process dereferences NULL.  Of the coordinator and the instances: no *)
(* SET_OK is answered without the job it is for, and no STORE reaches an   *)
(* instance without its key.                                               *)
(***************************************************************************)
CoordinadorEnPie == ~coordCaido

AlmacenEnPie ==
  CoordinadorEnPie /\ \A i \in Instancias \ Mortales : i \in Range(tabla) => viva[i]

SinCaidas == ~caido /\ AlmacenEnPie

(***************************************************************************)
(* As long as no key ever has two ESIs waiting for it at once, an ESI that *)
(* connects runs its script to the end: no request is lost on the way, and *)
(* whoever waits alone for a key is woken and gets it.  With a second      *)
(* waiter the list goes back to g_bloq, and the ESI woken blocks on a key  *)
(* nobody holds.                                                           *)
(***************************************************************************)
EsperanSolos == \A k \in Claves : Len(cola[k]) <= 1

TodosTerminan ==
  []EsperanSolos => \A e \in ESIs : vida[e] = "conectada" ~> vida[e] = "terminada"

(***************************************************************************)
(* Whoever waits, and whoever waits forever, a ready ESI gets its turn:    *)
(* ESIentrada keeps a unit for it, and the turn of any other ends.         *)
(***************************************************************************)
ListoCorre == \A e \in ESIs : e \in listos ~> EnEjecucion(e)

(***************************************************************************)
(* A SET that waits for the planner is decided: it goes to the instance    *)
(* planned for its key ("espera respuesta set"), is refused, or the whole  *)
(* process ends.                                                           *)
(***************************************************************************)
SetDecidido ==
  \A e \in ESIs : paso[e] = "esperaSET" ~> paso[e] = "libre" \/ ~EnPie

(***************************************************************************)
(* A compaction gets every lock it waits for, and ends: the thread that    *)
(* runs bloquearTodasLasInstancias gave its own lock back, the replies of  *)
(* the instances release the others, and two compactions lock them in the  *)
(* same order.  The other end is that of the whole process.                *)
(***************************************************************************)
CompactacionTermina ==
  \A i \in Instancias :
    pasoInst[i] # "libre" ~> pasoInst[i] = "libre" \/ coordCaido

(***************************************************************************)
(* An ESI is blocked only on a key that another ESI holds or that was      *)
(* blocked from the configuration: a key that was released can be taken.   *)
(***************************************************************************)
SoloBloqueaPorClaveTomada ==
  [][\A k \in Claves : Len(cola'[k]) > Len(cola[k]) =>
       k \in ClavesBloqueadas \/ \E n \in Nombres \ {actual} : k \in tomadas[n]]_vars
=============================================================================
