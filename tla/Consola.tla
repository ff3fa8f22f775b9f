------------------------------ MODULE Consola ------------------------------
(***************************************************************************)
(* The console of the planner (planificador/src/consola.c): a fourth       *)
(* thread, which runs the commands somebody types on the globals the other *)
(* three use.  A command reads its conditions in one step and acts in      *)
(* others: no mutex is held between them, so what it read may be old.      *)
(* bloquear is split wherever it lets a mutex go, and desbloquear where it *)
(* holds the list of a key that it took out of g_bloq.                     *)
(***************************************************************************)
EXTENDS Planificador

CONSTANT MaxOrdenes   \* bound: how many commands are typed in a behaviour

ASSUME MaxOrdenesAssumption == MaxOrdenes \in Nat

VARIABLES
  cerrado,      \* mutexConsola is locked
  pausado,      \* the console locked it, and no "continuar" came since
  mutexAlg,     \* where hiloAlgoritmos is with it: one of Mutex
  ajena,        \* a "continuar" ever unlocked it for hiloAlgoritmos, which held it
  instruccion,  \* g_instruccionConsola
  orden,        \* the command between its conditions and its effect
  lista,        \* the list desbloquearESI of the console took out of g_bloq
  nulos,        \* ESIs whose id was listed with no t_infoListos
  ordenes       \* how many commands were typed so far

(* "paso": it went through the mutex and has still to choose an ESI.        *)
Mutex == {"fuera", "dentro", "paso"}

varsMutex == <<cerrado, pausado, mutexAlg, ajena>>
varsConsola == <<varsMutex, instruccion, orden, lista, nulos, ordenes>>
planSinContinua ==
  <<tablas, termino, huboError, huboModificacion, actual, liberados, libera,
    ESIentrada, pc>>

Orden(que, k, e) == [que |-> que, clave |-> k, esi |-> e]
SinOrden == Orden("ninguna", Nada, Nada)

Ordenes ==
  {SinOrden, Orden("pausar", Nada, Nada)}
    \cup [que: {"detener", "tomar", "encolar", "publicar", "sacar", "agregar"},
          clave: Claves, esi: ESIs]
    \cup [que: {"desbloquear", "soltar", "listar"}, clave: Claves, esi: {Nada}]
    \cup [que: {"terminar", "abortar"}, clave: {Nada}, esi: ESIs]

ConsolaTypeOK ==
  /\ cerrado \in BOOLEAN /\ pausado \in BOOLEAN /\ ajena \in BOOLEAN
  /\ mutexAlg \in Mutex
  /\ instruccion \in BOOLEAN
  /\ lista \in Seq(ESIs) /\ nulos \subseteq ESIs
  /\ ordenes \in 0..MaxOrdenes
  /\ orden \in Ordenes

ConsolaInit ==
  /\ cerrado = FALSE /\ pausado = FALSE /\ ajena = FALSE /\ mutexAlg = "fuera"
  /\ instruccion = FALSE
  /\ orden = SinOrden /\ lista = <<>> /\ nulos = {} /\ ordenes = 0

(* ejecutarComando: the console takes the next line; o is what is left to   *)
(* do of it once its conditions were read.                                  *)
Lee(o) ==
  /\ orden = SinOrden
  /\ ordenes < MaxOrdenes
  /\ ordenes' = ordenes + 1
  /\ orden' = o
  /\ UNCHANGED <<lista, nulos>>

Sigue(que, o) ==
  /\ orden.que = que
  /\ orden' = o
  /\ UNCHANGED <<varsMutex, ordenes>>

Hace(que) == Sigue(que, SinOrden) /\ UNCHANGED <<lista, nulos>>

-----------------------------------------------------------------------------
(* estado de claves o ESI *)

EstaBloqueadaLaClave(k) == k \in enBloq \/ \E n \in Nombres : k \in tomadas[n]

(* estaBloqueado: e is in a list of g_bloq.                                 *)
EstaBloqueado(e) == \E k \in enBloq : e \in Range(cola[k])

(***************************************************************************)
(* What enEjecucion may say of e.  g_nombreESIactual keeps the name of the *)
(* last ESI that was chosen, also when that ESI is ready again, and then   *)
(* points to freed memory once it ended.                                   *)
(***************************************************************************)
MiraEjecucion(e) ==
  IF EstaBloqueado(e) \/ actual = Nada THEN {FALSE}
  ELSE IF actual \in liberados THEN BOOLEAN
  ELSE {e = actual}

-----------------------------------------------------------------------------
(* pausar y continuar *)

TomaMutexConsola == ~cerrado /\ cerrado' = TRUE /\ pausado' = TRUE

(* "pausar" waits for the mutex, and for ever if it has it already: no      *)
(* command is taken meanwhile.                                              *)
Pausar ==
  /\ \/ TomaMutexConsola /\ Lee(SinOrden)
     \/ /\ cerrado
        /\ Lee(Orden("pausar", Nada, Nada))
        /\ UNCHANGED <<cerrado, pausado>>
  /\ UNCHANGED <<mutexAlg, ajena, instruccion, varsPlan, canales>>

TomaPausa ==
  /\ orden.que = "pausar"
  /\ TomaMutexConsola
  /\ orden' = SinOrden
  /\ UNCHANGED <<mutexAlg, ajena, instruccion, lista, nulos, ordenes, varsPlan,
                 canales>>

(* pthread_mutex_unlock, whoever has it locked.                             *)
Continuar ==
  /\ Lee(SinOrden)
  /\ cerrado' = FALSE /\ pausado' = FALSE
  /\ ajena' = (ajena \/ mutexAlg = "dentro")
  /\ UNCHANGED <<mutexAlg, instruccion, varsPlan, canales>>

-----------------------------------------------------------------------------
(* bloquear clave ESI *)

(***************************************************************************)
(* estaBloqueadoPorElESI frees the key of the command before it, which the *)
(* command itself freed, or the key of this one: with a key taken the      *)
(* process may die.                                                        *)
(***************************************************************************)
LiberaClaveAnterior ==
  caido' \in IF \E n \in Nombres : tomadas[n] # {} THEN BOOLEAN ELSE {FALSE}

Bloquear(k, e) ==
  /\ \E corre \in MiraEjecucion(e) :
       LET sePuede == e \notin Range(cola[k]) /\ (e \in listos \/ corre) IN
       \/ /\ ~sePuede
          /\ Lee(SinOrden)
          /\ UNCHANGED caido
       \/ /\ sePuede /\ k \in tomadas[e]
          /\ Lee(SinOrden)
          /\ LiberaClaveAnterior
       \/ /\ sePuede /\ k \notin tomadas[e]
          /\ Lee(Orden(IF corre THEN "detener"
                       ELSE IF EstaBloqueadaLaClave(k) THEN "encolar"
                       ELSE "tomar", k, e))
          /\ LiberaClaveAnterior
  /\ UNCHANGED <<varsMutex, instruccion, planSinContinua, bloqueo, claveGET,
                 continua, canales>>

(* The ESI in execution will be blocked instead of waiting for its statement,*)
(* whose packet hiloCoordinador will drop.                                  *)
Detener ==
  /\ Hace("detener")
  /\ claveGET' = orden.clave
  /\ bloqueo' = TRUE
  /\ instruccion' = TRUE
  /\ continua' = continua + 1
  /\ UNCHANGED <<planSinContinua, caido, canales>>

(* A key nobody had is taken by the ESI to be blocked; the copy of the name *)
(* may be of freed memory, and then it is the name of no key.               *)
TomadaPor(k, e) == [tomadas EXCEPT ![e] = @ \cup {k}]

Tomar ==
  /\ Hace("tomar")
  /\ tomadas' \in {TomadaPor(orden.clave, orden.esi), tomadas}
  /\ UNCHANGED <<instruccion, listos, enBloq, cola, flags, claveGET, actual,
                 liberados, libera, ESIentrada, continua, pc, caido, canales>>

(***************************************************************************)
(* The ESI goes from g_listos to the list of the key; ESIentrada keeps the *)
(* unit it had.  A key with no list gets an empty one first, in place of   *)
(* any it was given since it was looked for.                               *)
(***************************************************************************)
sinEncolar == <<instruccion, tomadas, flags, claveGET, actual, liberados, libera,
                ESIentrada, continua, pc, canales>>

Encolar ==
  /\ Sigue("encolar",
           [orden EXCEPT !.que = IF orden.clave \in enBloq THEN "sacar" ELSE "publicar"])
  /\ UNCHANGED <<lista, nulos, listos, enBloq, cola, caido, sinEncolar>>

PublicaVacia ==
  /\ Sigue("publicar", [orden EXCEPT !.que = "sacar"])
  /\ enBloq' = enBloq \cup {orden.clave}
  /\ cola' = [cola EXCEPT ![orden.clave] = <<>>]
  /\ UNCHANGED <<lista, nulos, listos, caido, sinEncolar>>

(* obtenerId: the id of a ready ESI; otherwise that of the last to be       *)
(* chosen, or the last that was ever looked for.                            *)
IdDelActual(e) == {actual}
IdLeido(e) == IF e \in listos /\ actual \notin {e} \cup liberados THEN {e} ELSE ESIs

(***************************************************************************)
(* dictionary_remove gives NULL for an id that is not in g_listos, and it  *)
(* is listed all the same.  The id read may itself be NULL.                *)
(***************************************************************************)
ListosSinQuitar(e) == listos
ListosSin(e) == listos \ {e}

SacaDeListos ==
  /\ \/ \E f \in IdLeido(orden.esi) :
          /\ Sigue("sacar", Orden("agregar", orden.clave, f))
          /\ listos' = ListosSin(f)
          /\ nulos' = IF f \in listos THEN nulos ELSE nulos \cup {f}
          /\ UNCHANGED caido
     \/ /\ IdLeido(orden.esi) # {orden.esi}
        /\ Sigue("sacar", orden)
        /\ caido' = TRUE
        /\ UNCHANGED <<listos, nulos>>
  /\ UNCHANGED <<lista, enBloq, cola, sinEncolar>>

(* list_add, to NULL when the key left g_bloq meanwhile.                    *)
Agrega ==
  /\ \/ /\ orden.clave \in enBloq
        /\ Sigue("agregar", SinOrden)
        /\ cola' = Encolado(orden.clave, orden.esi)
        /\ UNCHANGED caido
     \/ /\ orden.clave \notin enBloq
        /\ Sigue("agregar", orden)
        /\ caido' = TRUE
        /\ UNCHANGED cola
  /\ UNCHANGED <<lista, nulos, listos, enBloq, sinEncolar>>

-----------------------------------------------------------------------------
(* desbloquear clave, listar clave *)

HayEspera(k) == k \in enBloq /\ cola[k] # <<>>

Desbloquear(k) ==
  /\ Lee(IF HayEspera(k) THEN Orden("desbloquear", k, Nada) ELSE SinOrden)
  /\ UNCHANGED <<varsMutex, instruccion, varsPlan, canales>>

(* desbloquearESI: with mutexBloqueo, it takes the list out of g_bloq.       *)
sinSoltar == <<instruccion, nulos, tomadas, termino, bloqueo, huboError, claveGET,
               actual, liberados, libera, continua, pc, canales>>

TomaLista ==
  LET k == orden.clave IN
  /\ \/ /\ HayEspera(k)
        /\ Sigue("desbloquear", Orden("soltar", k, Nada))
        /\ lista' = cola[k]
        /\ enBloq' = enBloq \ {k}
        /\ cola' = [cola EXCEPT ![k] = <<>>]
        /\ UNCHANGED caido
     \/ /\ ~HayEspera(k)
        /\ Sigue("desbloquear", orden)
        /\ caido' = TRUE
        /\ UNCHANGED <<lista, enBloq, cola>>
  /\ UNCHANGED <<listos, ESIentrada, huboModificacion, sinSoltar>>

(***************************************************************************)
(* The first of the list is ready and the others, if any, wait again.      *)
(* Then hiloCoordinador gets the mutex; for a STORE it may have found the  *)
(* key in g_bloq before, and desbloquearESI takes a list that is not there.*)
(***************************************************************************)
SueltaLista ==
  LET k == orden.clave
      quedan == Tail(lista) IN
  /\ Sigue("soltar", SinOrden)
  /\ listos' = listos \cup {Head(lista)}
  /\ lista' = <<>>
  /\ IF quedan = <<>>
       THEN UNCHANGED <<enBloq, cola>>
       ELSE /\ enBloq' = enBloq \cup {k}
            /\ cola' = [cola EXCEPT ![k] = quedan]
  /\ ESIentrada' = ESIentrada + 1
  /\ huboModificacion' = TRUE
  /\ caido' \in IF quedan = <<>> /\ ~instruccion /\ SaleDeBloq(k)
                THEN BOOLEAN ELSE {FALSE}
  /\ UNCHANGED sinSoltar

Listar(k) ==
  /\ Lee(IF HayEspera(k) THEN Orden("listar", k, Nada) ELSE SinOrden)
  /\ UNCHANGED <<varsMutex, instruccion, varsPlan, canales>>

(* list_size of the list, NULL when its key left g_bloq *)
HacerLista ==
  /\ Hace("listar")
  /\ caido' = (orden.clave \notin enBloq)
  /\ UNCHANGED <<instruccion, planSinContinua, bloqueo, claveGET, continua, canales>>

(* status clave: the coordinator is asked, then it lists.                   *)
Status(k) ==
  /\ Lee(IF HayEspera(k) THEN Orden("listar", k, Nada) ELSE SinOrden)
  /\ planACoord' = Append(planACoord, [tipo |-> "SOLICITAR_STATUS", clave |-> k])
  /\ UNCHANGED <<varsMutex, instruccion, varsPlan,
                 aEsi, deEsi, aCoord, coordAPlan, aInst, deInst>>

-----------------------------------------------------------------------------
(* kill ESI *)

Kill(e) ==
  /\ \E corre \in MiraEjecucion(e) :
       Lee(IF corre THEN Orden("terminar", Nada, e)
           ELSE IF EstaBloqueado(e) \/ e \in listos THEN Orden("abortar", Nada, e)
           ELSE SinOrden)
  /\ UNCHANGED <<varsMutex, instruccion, varsPlan, canales>>

(* The ESI in execution is told to end as if it had.  The name of the       *)
(* command is freed here, compared after it and freed again.                *)
Terminar ==
  /\ Hace("terminar")
  /\ termino' = TRUE
  /\ continua' = continua + 1
  /\ caido' \in BOOLEAN
  /\ UNCHANGED <<instruccion, tablas, bloqueo, huboError, huboModificacion,
                 claveGET, actual, liberados, libera, ESIentrada, pc, canales>>

(* buscarESI frees the nodes of g_bloq it passes over before it finds e.    *)
PasaSobreOtros(e) ==
  \E k \in enBloq : cola[k] # <<>> /\ Head(cola[k]) # e

Abortar ==
  LET e == orden.esi IN
  /\ Hace("abortar")
  /\ \/ /\ e \in listos
        /\ aEsi' = Enviado(aEsi, e, "ABORTO_ESI")
        /\ UNCHANGED caido
     \/ /\ e \notin listos
        /\ EstaBloqueado(e)
        /\ aEsi' = Enviado(aEsi, e, "ABORTO_ESI")
        /\ caido' \in IF PasaSobreOtros(e) THEN BOOLEAN ELSE {FALSE}
     \/ /\ e \notin listos
        /\ ~EstaBloqueado(e)           \* the socket was never assigned
        /\ aEsi' \in {aEsi} \cup {Enviado(aEsi, f, "ABORTO_ESI") : f \in ESIs}
        /\ caido' \in IF PasaSobreOtros(e) THEN BOOLEAN ELSE {FALSE}
  /\ UNCHANGED <<instruccion, planSinContinua, bloqueo, claveGET, continua,
                 canalesSinAEsi>>

-----------------------------------------------------------------------------
(* An id that was listed with NULL *)

AlgunNulo(s) == s \cap nulos # {}

(* Every command that goes over g_listos or g_bloq dereferences it.         *)
RecorreNulo ==
  /\ AlgunNulo(listos \cup UNION {Range(cola[k]) : k \in enBloq})
  /\ \/ orden.que \in {"listar", "abortar", "sacar"}
     \/ orden = SinOrden /\ ordenes < MaxOrdenes
  /\ caido' = TRUE
  /\ UNCHANGED <<varsConsola, planSinContinua, bloqueo, claveGET, continua, canales>>

PasoConsola ==
  \/ Pausar \/ TomaPausa \/ Continuar
  \/ \E k \in Claves, e \in ESIs : Bloquear(k, e)
  \/ \E k \in Claves : Desbloquear(k) \/ Listar(k) \/ Status(k)
  \/ \E e \in ESIs : Kill(e)
  \/ Detener \/ Tomar \/ Encolar \/ PublicaVacia \/ SacaDeListos \/ Agrega
  \/ TomaLista \/ SueltaLista \/ HacerLista
  \/ Terminar \/ Abortar \/ RecorreNulo

-----------------------------------------------------------------------------
(* What the console changes in the other threads *)

(* mutexConsola is locked and unlocked before an ESI is chosen, and kept    *)
(* while each request is sent.                                              *)
CierraMutex ==
  /\ pc \in {"elige", "primera"}
  /\ mutexAlg = "fuera"
  /\ ~cerrado
  /\ cerrado' = TRUE
  /\ mutexAlg' = "dentro"
  /\ UNCHANGED <<pausado, ajena, varsPlan, canales>>

AbreMutex ==
  /\ pc \in {"elige", "continua"}
  /\ mutexAlg = "dentro"
  /\ cerrado' = FALSE
  /\ mutexAlg' = IF pc = "elige" THEN "paso" ELSE "fuera"
  /\ UNCHANGED <<pausado, ajena, varsPlan, canales>>

(* g_listos may have an entry that is NULL, and all are read.               *)
EligeTrasPausa ==
  /\ mutexAlg = "paso"
  /\ \/ Elige
     \/ /\ pc = "elige"
        /\ AlgunNulo(listos)
        /\ caido' = TRUE
        /\ UNCHANGED <<planSinContinua, bloqueo, claveGET, continua, canales>>
  /\ mutexAlg' = "fuera"
  /\ UNCHANGED <<cerrado, pausado, ajena>>

(* The condition of the loop is read before the mutex is asked for.         *)
Comprueba ==
  /\ pc = "ciclo"
  /\ ~HaySalida
  /\ pc' = "primera"
  /\ UNCHANGED <<tablas, flags, claveGET, actual, liberados, libera, ESIentrada,
                 continua, caido, canales>>

ConMutexNunca == TRUE
ConMutex == mutexAlg = "dentro"

PideConMutex == ConMutex /\ pc = "primera" /\ Pide

(* bloquear of algoritmos.c waits for mutexBloqueo.                         *)
BloqueoLibre == orden.que # "soltar"

PasoAlgoritmosConConsola ==
  /\ \/ CierraMutex \/ AbreMutex \/ EligeTrasPausa
     \/ /\ \/ TomaEntrada \/ Comprueba \/ PideConMutex \/ Sale
           \/ mutexAlg = "fuera" /\ EsperaContinua
           \/ BloqueoLibre /\ Bloquea
           \/ Despide \/ Desaloja \/ DejaBloqueado \/ Cierra
        /\ UNCHANGED varsMutex
  /\ UNCHANGED <<instruccion, orden, lista, nulos, ordenes>>

(* After "detener" the next packet of the coordinator is dropped, unanswered,*)
(* and nobody is told.                                                      *)
Descarta ==
  /\ instruccion
  /\ coordAPlan # <<>>
  /\ coordAPlan' = Tail(coordAPlan)
  /\ instruccion' = FALSE
  /\ UNCHANGED <<varsMutex, orden, lista, nulos, ordenes, varsPlan,
                 aEsi, deEsi, aCoord, planACoord, aInst, deInst>>

(* desbloquearESI of a STORE waits for mutexBloqueo.                        *)
PasoCoordinadorConConsola ==
  \/ /\ ~instruccion
     /\ BloqueoLibre \/ \A k \in enBloq : ~SaleDeBloq(k)
     /\ PasoCoordinador
     /\ UNCHANGED varsConsola
  \/ Descarta

(* liberarESI dereferences the entry of its ESI, or its node in a list.     *)
LiberaNulo(e) ==
  /\ e \in nulos
  /\ libera.esi = e /\ libera.paso \in {"listo", "bloqueados"}
  /\ caido' = TRUE
  /\ UNCHANGED <<varsConsola, planSinContinua, bloqueo, claveGET, continua, canales>>
=============================================================================
