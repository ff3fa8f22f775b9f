--------------------------- MODULE ConsolaPruebas ---------------------------
(***************************************************************************)
(* Theorems about the planner with its console.  VacioSoloDePaso holds of  *)
(* the system alone; here the steps of the console are shown to add one    *)
(* list that is empty, the one "bloquear" put there.  What is needed of    *)
(* what was typed is OrdenEnPie: what "bloquear" read of g_bloq may be old *)
(* when it takes the key, and still no list of that key is empty; and what *)
(* is needed of mutexConsola is MutexEnPie: until a "continuar" unlocks it *)
(* for hiloAlgoritmos, it has one owner.  The last part is about the       *)
(* command deadlock: Warshall's loop gives the transitive closure, and the *)
(* loop that prints leaves out no cycle.                                   *)
(***************************************************************************)
EXTENDS CerrojosPruebas, PropiedadesConsola

(* The keys whose list is empty and nobody is about to fill or remove.       *)
Sueltas == {k \in Pendientes : ~AgregaA(k)}

OrdenEnPie ==
  /\ orden.que = "tomar" => orden.clave \notin Pendientes
  /\ orden.que = "soltar" => lista # <<>>

MutexEnPie ==
  ~ajena => /\ pausado => cerrado /\ mutexAlg # "dentro"
            /\ mutexAlg = "dentro" => cerrado

(* The two parts of ConsolaTypeOK.                                           *)
MutexTypeOK ==
  /\ cerrado \in BOOLEAN /\ pausado \in BOOLEAN /\ ajena \in BOOLEAN
  /\ mutexAlg \in Mutex

OrdenTypeOK ==
  /\ instruccion \in BOOLEAN
  /\ lista \in Seq(ESIs) /\ nulos \subseteq ESIs
  /\ ordenes \in 0..MaxOrdenes
  /\ orden \in Ordenes

ConsolaEnOrden ==
  /\ Tipos /\ MutexTypeOK /\ OrdenTypeOK
  /\ VacioConConsola /\ OrdenEnPie /\ MutexEnPie

(* Sueltas are all a STORE could trip on.                                    *)
LEMMA SueltasPorPartes ==
  VacioConConsola <=>
    /\ SinBloqSinCola
    /\ \A k \in Claves, n \in Nombres : ~(k \in Sueltas /\ k \in tomadas[n])
BY DEF VacioConConsola, TomadaConLista, Sueltas, Vacias, Pendientes

(* A step of the other threads leaves the command that is being run alone.   *)
OrdenQuieta == UNCHANGED <<instruccion, orden, lista, nulos, ordenes>>

(* An entry that is NULL, or an id, kills the planner, which does no more.   *)
SoloCae ==
  /\ caido' = TRUE
  /\ UNCHANGED <<planSinContinua, bloqueo, claveGET, continua, canales, ResDelPlan>>
  /\ OrdenQuieta

(* What the console adds to the steps of the system.                         *)
LEMMA CasosConConsola ==
  ASSUME [NextConConsola]_varsConConsola
  PROVE  \/ [Next]_vars /\ OrdenQuieta
         \/ SoloCae
         \/ Comprueba /\ OrdenQuieta /\ UNCHANGED ResDelPlan
         \/ Descarta /\ UNCHANGED ResDelPlan
         \/ PasoConsola /\ UNCHANGED ResDelPlan
<1>0. UNCHANGED varsConsola => OrdenQuieta
  BY DEF varsConsola, OrdenQuieta
<1>1. ASSUME AlgoritmosConConsola
      PROVE  \/ HiloAlgoritmos /\ OrdenQuieta
             \/ UNCHANGED vars /\ OrdenQuieta
             \/ SoloCae
             \/ Comprueba /\ OrdenQuieta /\ UNCHANGED ResDelPlan
  <2>1. EnPie /\ OrdenQuieta /\ UNCHANGED ResDelPlan
    BY <1>1, Zenon
    DEF AlgoritmosConConsola, PasoAlgoritmosConConsola, OrdenQuieta
  <2>2. CASE CierraMutex \/ AbreMutex
    BY <2>1, <2>2 DEF CierraMutex, AbreMutex, ResDelPlan, vars
  <2>3. CASE EligeTrasPausa
    BY <2>1, <2>3, Zenon
    DEF EligeTrasPausa, HiloAlgoritmos, PasoAlgoritmos, ResDelPlan, SoloCae
  <2>4. CASE \/ TomaEntrada \/ PideConMutex \/ EsperaContinua \/ Sale
             \/ Bloquea \/ Despide \/ Desaloja \/ DejaBloqueado \/ Cierra
    BY <2>1, <2>4, Zenon DEF PideConMutex, HiloAlgoritmos, PasoAlgoritmos, ResDelPlan
  <2>5. CASE Comprueba
    BY <2>1, <2>5
  <2>6. QED
    BY <1>1, <2>2, <2>3, <2>4, <2>5, Zenon
    DEF AlgoritmosConConsola, PasoAlgoritmosConConsola
<1>2. ASSUME CoordinadorConConsola
      PROVE  \/ HiloCoordinador /\ OrdenQuieta
             \/ Descarta /\ UNCHANGED ResDelPlan
  BY <1>0, <1>2, Zenon
  DEF CoordinadorConConsola, PasoCoordinadorConConsola, HiloCoordinador, ResDelPlan
<1>3. CASE HiloConsola
  BY <1>3 DEF HiloConsola
<1>4. CASE ServidorConConsola
  BY <1>0, <1>4, Zenon DEF ServidorConConsola, LiberaNulo, SoloCae
<1>5. CASE OtrosHilos
  BY <1>0, <1>5, Zenon DEF OtrosHilos, Next
<1>6. CASE UNCHANGED varsConConsola
  BY <1>0, <1>6 DEF varsConConsola
<1>7. QED
  BY <1>1, <1>2, <1>3, <1>4, <1>5, <1>6, Zenon DEF NextConConsola, Next

-----------------------------------------------------------------------------
(* mutexConsola *)

(* Whoever locks it found it open, and only "continuar" opens it for others. *)
LEMMA MutexNext ==
  ASSUME MutexTypeOK, MutexEnPie, [NextConConsola]_varsConConsola
  PROVE  MutexTypeOK' /\ MutexEnPie'
<1> USE DEF MutexTypeOK, MutexEnPie, Mutex
<1>1. CASE UNCHANGED varsMutex
  BY <1>1 DEF varsMutex
<1>2. CASE Pausar \/ TomaPausa \/ Continuar
  <2>1. CASE TomaMutexConsola /\ UNCHANGED <<mutexAlg, ajena>>
    BY <2>1 DEF TomaMutexConsola
  <2>2. CASE UNCHANGED varsMutex
    BY <1>1, <2>2
  <2>3. CASE Continuar
    BY <2>3 DEF Continuar
  <2>4. QED
    BY <1>2, <2>1, <2>2, <2>3, Zenon DEF Pausar, TomaPausa, varsMutex
<1>3. CASE CierraMutex \/ AbreMutex \/ EligeTrasPausa
  <2>1. CASE CierraMutex
    BY <2>1 DEF CierraMutex
  <2>2. CASE AbreMutex
    BY <2>2 DEF AbreMutex
  <2>3. CASE EligeTrasPausa
    <3>1. mutexAlg' = "fuera" /\ UNCHANGED <<cerrado, pausado, ajena>>
      BY <2>3, Zenon DEF EligeTrasPausa
    <3>2. QED
      BY <3>1
  <2>4. QED
    BY <1>3, <2>1, <2>2, <2>3
<1>4. ASSUME PasoConsola, ~(Pausar \/ TomaPausa \/ Continuar) PROVE UNCHANGED varsMutex
  BY <1>4, Zenon
  DEF PasoConsola, Bloquear, Desbloquear, Listar, Status, Kill, Detener, Tomar,
      Encolar, PublicaVacia, SacaDeListos, Agrega, TomaLista, SueltaLista,
      HacerLista, Terminar, Abortar, RecorreNulo, Hace, Sigue, varsConsola
<1>5. ASSUME AlgoritmosConConsola, ~(CierraMutex \/ AbreMutex \/ EligeTrasPausa)
      PROVE  UNCHANGED varsMutex
  BY <1>5, Zenon DEF AlgoritmosConConsola, PasoAlgoritmosConConsola
<1>6. ASSUME \/ CoordinadorConConsola \/ ServidorConConsola \/ OtrosHilos
             \/ UNCHANGED varsConConsola
      PROVE  UNCHANGED varsMutex
  BY <1>6, Zenon
  DEF CoordinadorConConsola, PasoCoordinadorConConsola, Descarta, ServidorConConsola,
      LiberaNulo, OtrosHilos, varsConConsola, varsConsola
<1>7. QED
  BY <1>1, <1>2, <1>3, <1>4, <1>5, <1>6, Zenon DEF NextConConsola, HiloConsola

-----------------------------------------------------------------------------
(* The commands *)

(* What a command that is being run may be.                                  *)
LEMMA OrdenesValidas ==
  /\ SinOrden \in Ordenes /\ Orden("pausar", Nada, Nada) \in Ordenes
  /\ \A q \in {"detener", "tomar", "encolar", "publicar", "sacar", "agregar"},
        k \in Claves, e \in ESIs : Orden(q, k, e) \in Ordenes
  /\ \A q \in {"desbloquear", "soltar", "listar"}, k \in Claves :
       Orden(q, k, Nada) \in Ordenes
  /\ \A q \in {"terminar", "abortar"}, e \in ESIs : Orden(q, Nada, e) \in Ordenes
BY DEF Ordenes, Orden

(* A command between its conditions and its effect has its operands.         *)
LEMMA OperandosDeOrden ==
  ASSUME OrdenTypeOK
  PROVE  /\ orden = Orden(orden.que, orden.clave, orden.esi)
         /\ orden.que \in {"detener", "tomar", "encolar", "publicar", "sacar", "agregar"}
              => orden.clave \in Claves /\ orden.esi \in ESIs
         /\ orden.que \in {"desbloquear", "soltar", "listar"} => orden.clave \in Claves
BY DEF OrdenTypeOK, Ordenes, Orden, SinOrden

(* The variables of the planner that no command touches.                     *)
LEMMA ConsolaDejaQuieto ==
  ASSUME PasoConsola
  PROVE  UNCHANGED <<actual, liberados, libera, pc, deEsi, aCoord, coordAPlan,
                     aInst, deInst>>
BY Zenon
DEF PasoConsola, Pausar, TomaPausa, Continuar, Bloquear, Desbloquear, Listar, Status,
    Kill, Detener, Tomar, Encolar, PublicaVacia, SacaDeListos, Agrega, TomaLista,
    SueltaLista, HacerLista, Terminar, Abortar, RecorreNulo, planSinContinua,
    varsPlan, canales, canalesSinAEsi, sinEncolar, sinSoltar

(* The tables after a command: "bloquear" takes a key or queues an ESI,      *)
(* "desbloquear" serves a queue, and the others leave them.                  *)
LEMMA TablasBajoConsola ==
  ASSUME PasoConsola
  PROVE  \/ Tomar \/ PublicaVacia \/ SacaDeListos \/ Agrega \/ TomaLista \/ SueltaLista
         \/ UNCHANGED <<tablas, ESIentrada>>
BY Zenon
DEF PasoConsola, Pausar, TomaPausa, Continuar, Bloquear, Desbloquear, Listar, Status,
    Kill, Detener, Encolar, HacerLista, Terminar, Abortar, RecorreNulo,
    planSinContinua, varsPlan, tablas, sinEncolar

(* "bloquear" reads the list of the key before it acts on it.                *)
LEMMA CasosDeBloquear ==
  ASSUME NEW k \in Claves, NEW e \in ESIs, Bloquear(k, e)
  PROVE  \/ Lee(SinOrden)
         \/ Lee(Orden("detener", k, e)) \/ Lee(Orden("encolar", k, e))
         \/ ~EstaBloqueadaLaClave(k) /\ Lee(Orden("tomar", k, e))
BY Zenon DEF Bloquear

(* How the other commands that are read, and those that are run, go on.      *)
LEMMA CasosDeOrden ==
  ASSUME PasoConsola, \A k \in Claves, e \in ESIs : ~Bloquear(k, e)
  PROVE  \/ Lee(SinOrden) \/ Lee(Orden("pausar", Nada, Nada))
         \/ orden' = SinOrden /\ UNCHANGED <<lista, nulos, ordenes>>
         \/ \E q \in {"desbloquear", "listar"}, k \in Claves : Lee(Orden(q, k, Nada))
         \/ \E q \in {"terminar", "abortar"}, e \in ESIs : Lee(Orden(q, Nada, e))
         \/ Encolar \/ PublicaVacia \/ SacaDeListos \/ Agrega \/ TomaLista \/ SueltaLista
         \/ OrdenQuieta
BY Zenon
DEF PasoConsola, Pausar, TomaPausa, Continuar, Desbloquear, Listar, Status, Kill,
    Detener, Tomar, HacerLista, Terminar, Abortar, RecorreNulo, Hace, Sigue,
    OrdenQuieta, varsConsola

(* The console's own variables keep their types.                             *)
LEMMA TiposDeConsola ==
  ASSUME Tipos, OrdenTypeOK, PasoConsola PROVE OrdenTypeOK'
<1>1. instruccion' \in BOOLEAN
  <2>1. instruccion' = instruccion \/ instruccion' = TRUE
    BY Zenon
    DEF PasoConsola, Pausar, TomaPausa, Continuar, Bloquear, Desbloquear, Listar,
        Status, Kill, Detener, Tomar, Encolar, PublicaVacia, SacaDeListos, Agrega,
        TomaLista, SueltaLista, HacerLista, Terminar, Abortar, RecorreNulo,
        sinEncolar, sinSoltar, varsConsola
  <2>2. QED
    BY <2>1 DEF OrdenTypeOK
<1>2. ASSUME NEW o \in Ordenes, Lee(o) PROVE OrdenTypeOK'
  BY <1>1, <1>2, MaxOrdenesAssumption DEF OrdenTypeOK, Lee
<1>3. ASSUME orden' \in Ordenes, UNCHANGED <<lista, nulos, ordenes>> PROVE OrdenTypeOK'
  BY <1>1, <1>3 DEF OrdenTypeOK
<1>4. ASSUME NEW k \in Claves, NEW e \in ESIs, Bloquear(k, e) PROVE OrdenTypeOK'
  BY <1>2, <1>4, CasosDeBloquear, OrdenesValidas
<1>5. CASE Encolar
  <2>1. /\ orden.que = "encolar" /\ UNCHANGED <<lista, nulos, ordenes>>
        /\ \E q \in {"sacar", "publicar"} : orden' = [orden EXCEPT !.que = q]
    BY <1>5, Zenon DEF Encolar, Sigue
  <2>2. \A q : [orden EXCEPT !.que = q] = Orden(q, orden.clave, orden.esi)
    BY OperandosDeOrden DEF Orden
  <2>3. QED
    BY <1>3, <2>1, <2>2, OperandosDeOrden, OrdenesValidas
<1>6. CASE PublicaVacia
  <2>1. /\ orden.que = "publicar" /\ UNCHANGED <<lista, nulos, ordenes>>
        /\ orden' = [orden EXCEPT !.que = "sacar"]
    BY <1>6, Zenon DEF PublicaVacia, Sigue
  <2>2. [orden EXCEPT !.que = "sacar"] = Orden("sacar", orden.clave, orden.esi)
    BY OperandosDeOrden DEF Orden
  <2>3. QED
    BY <1>3, <2>1, <2>2, OperandosDeOrden, OrdenesValidas
<1>7. CASE SacaDeListos
  <2>1. orden.que = "sacar" /\ UNCHANGED <<lista, ordenes>>
    BY <1>7, Zenon DEF SacaDeListos, Sigue
  <2>2. orden.clave \in Claves /\ orden.esi \in ESIs /\ IdLeido(orden.esi) \subseteq ESIs
    BY <2>1, OperandosDeOrden DEF IdLeido
  <2>3. CASE orden' = orden /\ nulos' = nulos
    BY <1>3, <2>1, <2>3 DEF OrdenTypeOK
  <2>4. ASSUME NEW f \in ESIs, orden' = Orden("agregar", orden.clave, f),
               nulos' = nulos \/ nulos' = nulos \cup {f}
        PROVE  OrdenTypeOK'
    <3>1. orden' \in Ordenes
      BY <2>2, <2>4, OrdenesValidas
    <3>2. QED
      BY <1>1, <2>1, <2>4, <3>1 DEF OrdenTypeOK
  <2>5. \/ orden' = orden /\ nulos' = nulos
        \/ \E f \in IdLeido(orden.esi) :
             /\ orden' = Orden("agregar", orden.clave, f)
             /\ nulos' = nulos \/ nulos' = nulos \cup {f}
    BY <1>7, Zenon DEF SacaDeListos, Sigue
  <2>6. QED
    BY <2>2, <2>3, <2>4, <2>5
<1>8. CASE Agrega
  <2>1. (orden' = SinOrden \/ orden' = orden) /\ UNCHANGED <<lista, nulos, ordenes>>
    BY <1>8, Zenon DEF Agrega, Sigue
  <2>2. QED
    BY <1>3, <2>1, OrdenesValidas DEF OrdenTypeOK
<1>9. CASE TomaLista
  <2>1. orden.que = "desbloquear" /\ UNCHANGED <<nulos, ordenes>>
    BY <1>9, Zenon DEF TomaLista, Sigue, sinSoltar
  <2>2. orden.clave \in Claves
    BY <2>1, OperandosDeOrden
  <2>3. \/ orden' = orden /\ lista' = lista
        \/ orden' = Orden("soltar", orden.clave, Nada) /\ lista' = cola[orden.clave]
    BY <1>9, Zenon DEF TomaLista, Sigue
  <2>4. QED
    BY <1>1, <2>1, <2>2, <2>3, OrdenesValidas
    DEF OrdenTypeOK, Tipos, TypeOK, PlanTypeOK
<1>10. CASE SueltaLista
  <2>1. orden' = SinOrden /\ lista' = <<>> /\ UNCHANGED <<nulos, ordenes>>
    BY <1>10, Zenon DEF SueltaLista, Sigue, sinSoltar
  <2>2. QED
    BY <1>1, <2>1, OrdenesValidas DEF OrdenTypeOK
<1>11. CASE \A k \in Claves, e \in ESIs : ~Bloquear(k, e)
  <2>1. CASE \/ Lee(SinOrden) \/ Lee(Orden("pausar", Nada, Nada))
             \/ \E q \in {"desbloquear", "listar"}, k \in Claves : Lee(Orden(q, k, Nada))
             \/ \E q \in {"terminar", "abortar"}, e \in ESIs : Lee(Orden(q, Nada, e))
    BY <1>2, <2>1, OrdenesValidas
  <2>2. CASE orden' = SinOrden /\ UNCHANGED <<lista, nulos, ordenes>>
    BY <1>3, <2>2, OrdenesValidas
  <2>3. CASE OrdenQuieta
    BY <1>3, <2>3 DEF OrdenQuieta, OrdenTypeOK
  <2>4. QED
    BY <1>5, <1>6, <1>7, <1>8, <1>9, <1>10, <1>11, <2>1, <2>2, <2>3, CasosDeOrden
<1>12. QED
  BY <1>4, <1>11

-----------------------------------------------------------------------------
(* Types *)

(* The flags and the channels after a command.                               *)
LEMMA TiposBajoConsola ==
  ASSUME Tipos, PasoConsola PROVE FlagsTypeOK' /\ CanalesTypeOK' /\ continua' \in Nat
<1> USE DEF Tipos, TypeOK, PlanTypeOK
<1>1. FlagsTypeOK'
  <2> USE DEF FlagsTypeOK, flags
  <2>1. caido' = caido \/ caido' \in BOOLEAN
    BY Zenon
    DEF PasoConsola, Pausar, TomaPausa, Continuar, Bloquear, LiberaClaveAnterior,
        Desbloquear, Listar, Status, Kill, Detener, Tomar, Encolar, PublicaVacia,
        SacaDeListos, Agrega, TomaLista, SueltaLista, HacerLista, Terminar, Abortar,
        RecorreNulo, varsPlan
  <2>2. bloqueo' = bloqueo \/ bloqueo' = TRUE
    BY Zenon
    DEF PasoConsola, Pausar, TomaPausa, Continuar, Bloquear, Desbloquear, Listar,
        Status, Kill, Detener, Tomar, Encolar, PublicaVacia, SacaDeListos, Agrega,
        TomaLista, SueltaLista, HacerLista, Terminar, Abortar, RecorreNulo, varsPlan,
        sinEncolar, sinSoltar
  <2>3. /\ termino' = termino \/ termino' = TRUE
        /\ huboModificacion' = huboModificacion \/ huboModificacion' = TRUE
        /\ huboError' = huboError
    BY Zenon
    DEF PasoConsola, Pausar, TomaPausa, Continuar, Bloquear, Desbloquear, Listar,
        Status, Kill, Detener, Tomar, Encolar, PublicaVacia, SacaDeListos, Agrega,
        TomaLista, SueltaLista, HacerLista, Terminar, Abortar, RecorreNulo, varsPlan,
        planSinContinua, sinEncolar, sinSoltar
  <2>4. QED
    BY <2>1, <2>2, <2>3
<1>2. CanalesTypeOK'
  <2>1. CASE Abortar
    <3>1. aEsi' = aEsi \/ \E f : aEsi' = Enviado(aEsi, f, "ABORTO_ESI")
      <4>1. \/ aEsi' = Enviado(aEsi, orden.esi, "ABORTO_ESI")
            \/ aEsi' \in {aEsi} \cup {Enviado(aEsi, f, "ABORTO_ESI") : f \in ESIs}
        BY <2>1, Zenon DEF Abortar
      <4>2. QED
        BY <4>1, Zenon
    <3>2. "ABORTO_ESI" \in MensajesAEsi /\ aEsi \in [ESIs -> Seq(MensajesAEsi)]
      BY DEF MensajesAEsi, CanalesTypeOK
    <3>3. aEsi' \in [ESIs -> Seq(MensajesAEsi)]
      <4>1. \A f : Enviado(aEsi, f, "ABORTO_ESI") \in [ESIs -> Seq(MensajesAEsi)]
        BY <3>2, EnviadoTipo
      <4>2. QED
        BY <3>1, <3>2, <4>1, Zenon
    <3>4. QED
      BY <2>1, <3>3, Zenon DEF Abortar, canalesSinAEsi, CanalesTypeOK
  <2>2. ASSUME NEW k \in Claves, Status(k) PROVE CanalesTypeOK'
    <3>1. [tipo |-> "SOLICITAR_STATUS", clave |-> k] \in MensajesPlanACoord
      BY DEF MensajesPlanACoord
    <3>2. planACoord' \in Seq(MensajesPlanACoord)
      BY <2>2, <3>1, AppendProperties DEF Status, CanalesTypeOK
    <3>3. QED
      BY <2>2, <3>2, Zenon DEF Status, CanalesTypeOK
  <2>3. CASE UNCHANGED canales
    BY <2>3 DEF canales, CanalesTypeOK
  <2>4. Abortar \/ (\E k \in Claves : Status(k)) \/ UNCHANGED canales
    BY Zenon
    DEF PasoConsola, Pausar, TomaPausa, Continuar, Bloquear, Desbloquear, Listar,
        Kill, Detener, Tomar, Encolar, PublicaVacia, SacaDeListos, Agrega, TomaLista,
        SueltaLista, HacerLista, Terminar, RecorreNulo, sinEncolar, sinSoltar
  <2>5. QED
    BY <2>1, <2>2, <2>3, <2>4
<1>3. continua' \in Nat
  <2>1. continua' = continua \/ continua' = continua + 1
    BY Zenon
    DEF PasoConsola, Pausar, TomaPausa, Continuar, Bloquear, Desbloquear, Listar,
        Status, Kill, Detener, Tomar, Encolar, PublicaVacia, SacaDeListos, Agrega,
        TomaLista, SueltaLista, HacerLista, Terminar, Abortar, RecorreNulo, varsPlan,
        sinEncolar, sinSoltar
  <2>2. QED
    BY <2>1
<1>4. QED
  BY <1>1, <1>2, <1>3

(* The tables after a command.                                               *)
LEMMA TiposDeTablas ==
  ASSUME Tipos, OrdenTypeOK, OrdenEnPie, PasoConsola
  PROVE  /\ listos' \subseteq ESIs /\ enBloq' \subseteq Claves
         /\ cola' \in [Claves -> Seq(ESIs)] /\ tomadas' \in [Nombres -> SUBSET Claves]
         /\ ESIentrada' \in Nat
<1> USE DEF Tipos, TypeOK, PlanTypeOK
<1>1. CASE Tomar
  <2>1. orden.clave \in Claves
    BY <1>1, OperandosDeOrden DEF Tomar, Hace, Sigue
  <2>2. tomadas' \in [Nombres -> SUBSET Claves]
    BY <1>1, <2>1 DEF Tomar, TomadaPor
  <2>3. QED
    BY <1>1, <2>2, Zenon DEF Tomar
<1>2. CASE PublicaVacia
  <2>1. orden.clave \in Claves
    BY <1>2, OperandosDeOrden DEF PublicaVacia, Sigue
  <2>2. cola' \in [Claves -> Seq(ESIs)] /\ enBloq' \subseteq Claves
    <3>1. <<>> \in Seq(ESIs)
      BY EmptySeq
    <3>2. QED
      BY <1>2, <2>1, <3>1 DEF PublicaVacia
  <2>3. QED
    BY <1>2, <2>2, Zenon DEF PublicaVacia, sinEncolar
<1>3. CASE SacaDeListos
  <2>1. listos' = listos \/ \E f : listos' = listos \ {f}
    BY <1>3, Zenon DEF SacaDeListos, ListosSin
  <2>2. UNCHANGED <<enBloq, cola, tomadas, ESIentrada>>
    BY <1>3, Zenon DEF SacaDeListos, sinEncolar
  <2>3. QED
    BY <2>1, <2>2
<1>4. CASE Agrega
  <2>1. orden.clave \in Claves /\ orden.esi \in ESIs
    BY <1>4, OperandosDeOrden, Zenon DEF Agrega, Sigue
  <2>2. cola' = cola \/ cola' = [cola EXCEPT ![orden.clave] = Append(@, orden.esi)]
    BY <1>4, Zenon DEF Agrega, Encolado
  <2>3. cola' \in [Claves -> Seq(ESIs)]
    <3>1. \A s \in Seq(ESIs) : Append(s, orden.esi) \in Seq(ESIs)
      BY <2>1, AppendProperties
    <3> DEFINE e == orden.esi
               k == orden.clave
    <3>2. k \in Claves /\ (cola' = cola \/ cola' = [cola EXCEPT ![k] = Append(@, e)])
      BY <2>1, <2>2
    <3>3. \A s \in Seq(ESIs) : Append(s, e) \in Seq(ESIs)
      BY <3>1
    <3> HIDE DEF e, k
    <3>4. QED
      BY <3>2, <3>3
  <2>4. QED
    BY <1>4, <2>3, Zenon DEF Agrega, sinEncolar
<1>5. CASE TomaLista
  <2>1. /\ \/ UNCHANGED <<enBloq, cola>>
           \/ /\ enBloq' = enBloq \ {orden.clave}
              /\ cola' = [cola EXCEPT ![orden.clave] = <<>>]
        /\ UNCHANGED <<listos, tomadas, ESIentrada>>
    BY <1>5, Zenon DEF TomaLista, sinSoltar
  <2>2. <<>> \in Seq(ESIs)
    BY EmptySeq
  <2> DEFINE k == orden.clave
  <2>3. /\ \/ UNCHANGED <<enBloq, cola>>
           \/ enBloq' = enBloq \ {k} /\ cola' = [cola EXCEPT ![k] = <<>>]
        /\ UNCHANGED <<listos, tomadas, ESIentrada>>
    BY <2>1
  <2> HIDE DEF k
  <2>4. QED
    BY <2>2, <2>3
<1>6. CASE SueltaLista
  <2>1. lista \in Seq(ESIs) /\ lista # <<>> /\ orden.clave \in Claves
    <3>1. orden.que = "soltar"
      BY <1>6, Zenon DEF SueltaLista, Sigue
    <3>2. QED
      BY <3>1, OperandosDeOrden DEF OrdenTypeOK, OrdenEnPie
  <2>2. Head(lista) \in ESIs /\ Tail(lista) \in Seq(ESIs)
    BY <2>1, HeadTailProperties
  <2>3. /\ listos' = listos \cup {Head(lista)} /\ ESIentrada' = ESIentrada + 1
        /\ UNCHANGED tomadas
        /\ \/ UNCHANGED <<enBloq, cola>>
           \/ /\ enBloq' = enBloq \cup {orden.clave}
              /\ cola' = [cola EXCEPT ![orden.clave] = Tail(lista)]
    BY <1>6, Zenon DEF SueltaLista, sinSoltar
  <2> DEFINE k == orden.clave
             e == Head(lista)
             resto == Tail(lista)
  <2>4. k \in Claves /\ e \in ESIs /\ resto \in Seq(ESIs)
    BY <2>1, <2>2
  <2>5. /\ listos' = listos \cup {e} /\ ESIentrada' = ESIentrada + 1
        /\ UNCHANGED tomadas
        /\ \/ UNCHANGED <<enBloq, cola>>
           \/ enBloq' = enBloq \cup {k} /\ cola' = [cola EXCEPT ![k] = resto]
    BY <2>3
  <2> HIDE DEF k, e, resto
  <2>6. listos' \subseteq ESIs /\ ESIentrada' \in Nat
    BY <2>4, <2>5
  <2>7. enBloq' \subseteq Claves /\ cola' \in [Claves -> Seq(ESIs)]
    BY <2>4, <2>5
  <2>8. tomadas' \in [Nombres -> SUBSET Claves]
    BY <2>5
  <2>9. QED
    BY <2>6, <2>7, <2>8
<1>7. CASE UNCHANGED <<tablas, ESIentrada>>
  BY <1>7 DEF tablas
<1>8. QED
  BY <1>1, <1>2, <1>3, <1>4, <1>5, <1>6, <1>7, TablasBajoConsola

(* A command keeps every type.                                               *)
LEMMA TiposConsola ==
  ASSUME Tipos, OrdenTypeOK, OrdenEnPie, PasoConsola, UNCHANGED ResDelPlan PROVE Tipos'
<1> USE DEF Tipos, TypeOK, PlanTypeOK
<1>1. EsiTypeOK' /\ CoordTypeOK' /\ InstTypeOK' /\ PedidosEnCurso'
  BY DEF ResDelPlan, EsiTypeOK, CoordTypeOK, InstTypeOK, PedidosEnCurso,
         varsEsi, varsCoord, varsInst
<1>2. UNCHANGED <<actual, liberados, libera, pc>> /\ ActualEnCurso'
  BY ConsolaDejaQuieto DEF ActualEnCurso
<1>3. claveGET' \in Claves \cup {Nada}
  <2>1. UNCHANGED claveGET \/ Detener
    BY Zenon
    DEF PasoConsola, Pausar, TomaPausa, Continuar, Bloquear, Desbloquear, Listar,
        Status, Kill, Tomar, Encolar, PublicaVacia, SacaDeListos, Agrega, TomaLista,
        SueltaLista, HacerLista, Terminar, Abortar, RecorreNulo, varsPlan,
        sinEncolar, sinSoltar
  <2>2. CASE Detener
    BY <2>2, OperandosDeOrden DEF Detener, Hace, Sigue
  <2>3. QED
    BY <2>1, <2>2
<1>4. QED
  BY <1>1, <1>2, <1>3, TiposDeTablas, TiposBajoConsola

(* A death, a condition read again and a packet dropped keep them too.       *)
LEMMA TiposPausa ==
  ASSUME Tipos, \/ SoloCae
                \/ Comprueba /\ UNCHANGED ResDelPlan
                \/ Descarta /\ UNCHANGED ResDelPlan
  PROVE  Tipos'
<1> USE DEF Tipos, TypeOK
<1>1. EsiTypeOK' /\ CoordTypeOK' /\ InstTypeOK' /\ PedidosEnCurso'
  BY DEF SoloCae, ResDelPlan, EsiTypeOK, CoordTypeOK, InstTypeOK, PedidosEnCurso,
         varsEsi, varsCoord, varsInst
<1>2. CASE SoloCae
  BY <1>1, <1>2
  DEF SoloCae, planSinContinua, PlanTypeOK, FlagsTypeOK, CanalesTypeOK,
      ActualEnCurso, tablas, flags, canales
<1>3. CASE Comprueba
  BY <1>1, <1>3
  DEF Comprueba, PlanTypeOK, FlagsTypeOK, CanalesTypeOK, ActualEnCurso, PCs, tablas,
      flags, canales
<1>4. CASE Descarta
  <2>1. coordAPlan' \in Seq(MensajesCoordAPlan)
    BY <1>4, HeadTailProperties DEF Descarta, CanalesTypeOK
  <2>2. PlanTypeOK' /\ ActualEnCurso'
    BY <1>4
    DEF Descarta, varsPlan, PlanTypeOK, FlagsTypeOK, ActualEnCurso, tablas, flags
  <2>3. QED
    BY <1>1, <1>4, <2>1, <2>2 DEF Descarta, CanalesTypeOK
<1>5. QED
  BY <1>2, <1>3, <1>4

-----------------------------------------------------------------------------
(* The lists *)

(* A command leaves no list empty but the one it is about to add to, and no  *)
(* ESI in the list of a key that is not in g_bloq.                           *)
LEMMA SueltasConsola ==
  ASSUME Tipos, OrdenTypeOK, SinBloqSinCola, PasoConsola
  PROVE  SinBloqSinCola' /\ Sueltas' \subseteq Sueltas
<1> USE DEF SinBloqSinCola, Sueltas, Vacias, Pendientes, AgregaA
<1>0. cola \in [Claves -> Seq(ESIs)] /\ enBloq \subseteq Claves
  BY DEF Tipos, TypeOK, PlanTypeOK
<1>1. UNCHANGED libera
  BY ConsolaDejaQuieto
<1>2. ASSUME UNCHANGED <<enBloq, cola>>,
             \A k : AgregaA(k) => AgregaA(k)'
      PROVE  SinBloqSinCola' /\ Sueltas' \subseteq Sueltas
  BY <1>1, <1>2
<1>3. CASE PublicaVacia
  <2>1. /\ orden.que = "publicar" /\ orden' = [orden EXCEPT !.que = "sacar"]
        /\ enBloq' = enBloq \cup {orden.clave}
        /\ cola' = [cola EXCEPT ![orden.clave] = <<>>]
    BY <1>3, Zenon DEF PublicaVacia, Sigue
  <2>2. orden'.que = "sacar" /\ orden'.clave = orden.clave
    BY <2>1, OperandosDeOrden DEF Orden
  <2>3. QED
    BY <1>0, <1>1, <2>1, <2>2
<1>4. CASE SacaDeListos
  <2>1. /\ orden.que = "sacar" /\ UNCHANGED <<enBloq, cola>>
        /\ orden' = orden \/ \E f : orden' = Orden("agregar", orden.clave, f)
    BY <1>4, Zenon DEF SacaDeListos, Sigue
  <2>2. orden'.que \in {"sacar", "agregar"} /\ orden'.clave = orden.clave
    BY <2>1 DEF Orden
  <2>3. QED
    BY <1>2, <2>1, <2>2
<1>5. CASE Agrega
  <2>1. CASE orden' = orden /\ UNCHANGED <<enBloq, cola>>
    BY <1>2, <2>1
  <2>2. CASE /\ orden.clave \in enBloq /\ UNCHANGED enBloq
             /\ cola' = [cola EXCEPT ![orden.clave] = Append(@, orden.esi)]
    <3>1. orden.que = "agregar"
      BY <1>5, Zenon DEF Agrega, Sigue
    <3>2. orden.clave \in Claves /\ orden.esi \in ESIs
      BY <3>1, OperandosDeOrden
    <3>3. Append(cola[orden.clave], orden.esi) # <<>>
      BY <1>0, <3>2, AppendProperties
    <3>4. QED
      BY <1>0, <1>1, <2>2, <3>1, <3>2, <3>3
  <2>3. QED
    BY <1>5, <2>1, <2>2, Zenon DEF Agrega, Sigue, Encolado
<1>6. CASE TomaLista
  <2>1. /\ orden.que = "desbloquear"
        /\ \/ UNCHANGED <<enBloq, cola>> /\ orden' = orden
           \/ /\ enBloq' = enBloq \ {orden.clave}
              /\ cola' = [cola EXCEPT ![orden.clave] = <<>>]
    BY <1>6, Zenon DEF TomaLista, Sigue
  <2>2. CASE UNCHANGED <<enBloq, cola>> /\ orden' = orden
    BY <1>2, <2>2
  <2>3. CASE /\ enBloq' = enBloq \ {orden.clave}
             /\ cola' = [cola EXCEPT ![orden.clave] = <<>>]
    <3>1. orden.clave \in Claves
      BY <2>1, OperandosDeOrden
    <3> DEFINE c == orden.clave
    <3>2. /\ c \in Claves /\ enBloq' = enBloq \ {c}
          /\ cola' = [cola EXCEPT ![c] = <<>>]
      BY <2>3, <3>1
    <3> HIDE DEF c
    <3>3. SinBloqSinCola' /\ Pendientes' \subseteq Pendientes
      BY <1>0, <1>1, <3>2
    <3>4. \A k : ~AgregaA(k)
      BY <2>1
    <3>5. QED
      BY <3>3, <3>4
  <2>4. QED
    BY <2>1, <2>2, <2>3
<1>7. CASE SueltaLista
  <2>1. /\ orden.que = "soltar"
        /\ \/ UNCHANGED <<enBloq, cola>>
           \/ /\ Tail(lista) # <<>>
              /\ enBloq' = enBloq \cup {orden.clave}
              /\ cola' = [cola EXCEPT ![orden.clave] = Tail(lista)]
    BY <1>7, Zenon DEF SueltaLista, Sigue
  <2>2. \A k : ~AgregaA(k)
    BY <2>1
  <2>3. CASE UNCHANGED <<enBloq, cola>>
    BY <1>2, <2>2, <2>3
  <2>4. CASE /\ Tail(lista) # <<>>
             /\ enBloq' = enBloq \cup {orden.clave}
             /\ cola' = [cola EXCEPT ![orden.clave] = Tail(lista)]
    <3>1. orden.clave \in Claves
      BY <2>1, OperandosDeOrden
    <3> DEFINE c == orden.clave
               r == Tail(lista)
    <3>2. /\ c \in Claves /\ r # <<>> /\ enBloq' = enBloq \cup {c}
          /\ cola' = [cola EXCEPT ![c] = r]
      BY <2>4, <3>1
    <3> HIDE DEF c, r
    <3>3. SinBloqSinCola' /\ Pendientes' \subseteq Pendientes
      BY <1>0, <1>1, <3>2
    <3>4. QED
      BY <2>2, <3>3
  <2>5. QED
    BY <2>1, <2>3, <2>4
<1>8. CASE Tomar
  <2>1. orden.que = "tomar" /\ UNCHANGED <<enBloq, cola>>
    BY <1>8, Zenon DEF Tomar, Hace, Sigue
  <2>2. QED
    BY <1>2, <2>1
<1>9. CASE UNCHANGED <<tablas, ESIentrada>>
  <2>1. CASE orden = SinOrden
    BY <1>2, <1>9, <2>1 DEF tablas, SinOrden, Orden
  <2>2. CASE orden' = orden
    BY <1>2, <1>9, <2>2 DEF tablas
  <2>3. CASE orden.que \notin {"sacar", "agregar"}
    BY <1>2, <1>9, <2>3 DEF tablas
  <2>4. \/ orden = SinOrden \/ orden' = orden \/ orden.que \notin {"sacar", "agregar"}
        \/ SacaDeListos \/ Agrega
    <3>1. \/ orden = SinOrden \/ orden' = orden \/ SacaDeListos \/ Agrega
          \/ \E q \in {"pausar", "detener", "tomar", "encolar", "publicar",
                       "desbloquear", "soltar", "listar", "terminar", "abortar"} :
               orden.que = q
      BY Zenon
      DEF PasoConsola, Pausar, TomaPausa, Continuar, Bloquear, Desbloquear, Listar,
          Status, Kill, Detener, Tomar, Encolar, PublicaVacia, TomaLista, SueltaLista,
          HacerLista, Terminar, Abortar, RecorreNulo, Hace, Sigue, Lee, varsConsola
    <3>2. QED
      BY <3>1
  <2>5. QED
    BY <1>4, <1>5, <2>1, <2>2, <2>3, <2>4
<1>10. QED
  BY <1>3, <1>4, <1>5, <1>6, <1>7, <1>8, <1>9, TablasBajoConsola

(* The key a command takes has no such list: it had none when its conditions *)
(* were read.                                                                *)
LEMMA VacioConsola ==
  ASSUME Tipos, OrdenTypeOK, VacioConConsola, OrdenEnPie, PasoConsola
  PROVE  VacioConConsola'
<1>1. /\ SinBloqSinCola
      /\ \A k \in Claves, n \in Nombres : ~(k \in Sueltas /\ k \in tomadas[n])
  BY SueltasPorPartes
<1>2. SinBloqSinCola' /\ Sueltas' \subseteq Sueltas
  BY <1>1, SueltasConsola
<1>3. \A k \in Claves, n \in Nombres : ~(k \in Sueltas' /\ k \in tomadas'[n])
  <2>1. CASE UNCHANGED tomadas
    BY <1>1, <1>2, <2>1
  <2>2. CASE Tomar
    <3>1. orden.clave \notin Sueltas /\ orden.clave \in Claves /\ orden.esi \in ESIs
      BY <2>2, OperandosDeOrden DEF Tomar, Hace, Sigue, OrdenEnPie, Sueltas
    <3>2. tomadas' \in {[tomadas EXCEPT ![orden.esi] = @ \cup {orden.clave}], tomadas}
      BY <2>2, Zenon DEF Tomar, TomadaPor
    <3>3. \A n \in Nombres : tomadas'[n] \subseteq tomadas[n] \cup {orden.clave}
      BY <3>2 DEF Tipos, TypeOK, PlanTypeOK
    <3>4. QED
      BY <1>1, <1>2, <3>1, <3>3
  <2>3. ASSUME PublicaVacia \/ SacaDeListos \/ Agrega \/ TomaLista \/ SueltaLista
        PROVE  UNCHANGED tomadas
    BY <2>3, Zenon
    DEF PublicaVacia, SacaDeListos, Agrega, TomaLista, SueltaLista, sinEncolar,
        sinSoltar
  <2>4. QED
    BY <2>1, <2>2, <2>3, TablasBajoConsola DEF tablas
<1>4. QED
  BY <1>2, <1>3
  DEF VacioConConsola, TomadaConLista, SinBloqSinCola, Sueltas, Vacias, Pendientes,
      AgregaA

(* A command that is read to take a key found it out of g_bloq, and the list *)
(* "desbloquear" took out had somebody.                                      *)
LEMMA OrdenConsola ==
  ASSUME Tipos, OrdenTypeOK, OrdenEnPie, PasoConsola PROVE OrdenEnPie'
<1>1. ASSUME NEW k \in Claves, NEW e \in ESIs, Bloquear(k, e) PROVE OrdenEnPie'
  <2>1. UNCHANGED <<enBloq, cola, libera>>
    BY <1>1, Zenon DEF Bloquear, planSinContinua, tablas
  <2>2. EstaBloqueadaLaClave(k) \/ k \notin Pendientes'
    BY <2>1 DEF EstaBloqueadaLaClave, Vacias, Pendientes
  <2>3. QED
    BY <1>1, <2>2, CasosDeBloquear DEF Lee, Orden, SinOrden, OrdenEnPie
<1>2. ASSUME orden'.que \notin {"tomar", "soltar"} PROVE OrdenEnPie'
  BY <1>2 DEF OrdenEnPie
<1>3. CASE Encolar \/ PublicaVacia
  <2>1. /\ orden.que \in {"encolar", "publicar"}
        /\ \E q \in {"sacar", "publicar"} : orden' = [orden EXCEPT !.que = q]
    BY <1>3, Zenon DEF Encolar, PublicaVacia, Sigue
  <2>2. \A q : [orden EXCEPT !.que = q] = Orden(q, orden.clave, orden.esi)
    BY OperandosDeOrden DEF Orden
  <2>3. QED
    BY <1>2, <2>1, <2>2 DEF Orden
<1>4. CASE SacaDeListos \/ Agrega
  <2>1. /\ orden.que \in {"sacar", "agregar"}
        /\ \/ orden' = orden \/ orden' = SinOrden
           \/ \E f : orden' = Orden("agregar", orden.clave, f)
    BY <1>4, Zenon DEF SacaDeListos, Agrega, Sigue
  <2>2. QED
    BY <1>2, <2>1 DEF Orden, SinOrden
<1>5. CASE TomaLista
  <2>1. /\ orden.que = "desbloquear"
        /\ \/ orden' = orden
           \/ /\ orden' = Orden("soltar", orden.clave, Nada)
              /\ lista' = cola[orden.clave] /\ cola[orden.clave] # <<>>
    BY <1>5, Zenon DEF TomaLista, HayEspera, Sigue
  <2>2. QED
    BY <1>2, <2>1 DEF Orden, OrdenEnPie
<1>6. CASE SueltaLista
  BY <1>2, <1>6 DEF SueltaLista, Sigue, SinOrden, Orden
<1>7. CASE OrdenQuieta
  <2>1. orden.que # "tomar" \/ UNCHANGED <<enBloq, cola, libera>>
    BY <1>7, TablasBajoConsola, ConsolaDejaQuieto
    DEF Tomar, PublicaVacia, SacaDeListos, Agrega, TomaLista, SueltaLista, Sigue, tablas
  <2>2. QED
    BY <1>7, <2>1 DEF OrdenQuieta, OrdenEnPie, Vacias, Pendientes
<1>8. CASE \A k \in Claves, e \in ESIs : ~Bloquear(k, e)
  <2>1. CASE \/ Lee(SinOrden) \/ Lee(Orden("pausar", Nada, Nada))
             \/ orden' = SinOrden
             \/ \E q \in {"desbloquear", "listar"}, k \in Claves : Lee(Orden(q, k, Nada))
             \/ \E q \in {"terminar", "abortar"}, e \in ESIs : Lee(Orden(q, Nada, e))
    BY <1>2, <2>1 DEF Lee, Orden, SinOrden
  <2>2. QED
    BY <1>3, <1>4, <1>5, <1>6, <1>7, <1>8, <2>1, CasosDeOrden
<1>9. QED
  BY <1>1, <1>8

-----------------------------------------------------------------------------
(* The invariant *)

(* The other threads leave the commands alone, add no empty list, and take   *)
(* no key that has one.                                                      *)
LEMMA VacioDeLosDemas ==
  ASSUME Tipos, VacioConConsola, OrdenEnPie, [Next]_vars, OrdenQuieta
  PROVE  VacioConConsola' /\ OrdenEnPie'
<1>1. /\ SinBloqSinCola
      /\ \A k \in Claves, n \in Nombres : ~(k \in Sueltas /\ k \in tomadas[n])
  BY SueltasPorPartes
<1>2. SinBloqSinCola' /\ Pendientes' \subseteq Pendientes
  BY <1>1, CambiosDeBloq, BloqEnOrden
<1>3. Sueltas' \subseteq Sueltas
  BY <1>2 DEF Sueltas, AgregaA, OrdenQuieta
<1>4. \A k \in Claves, n \in Nombres : ~(k \in Sueltas' /\ k \in tomadas'[n])
  <2>1. CASE \A n \in Nombres : tomadas'[n] \subseteq tomadas[n]
    BY <1>1, <1>3, <2>1
  <2>2. ASSUME NEW n \in Nombres, NEW k \in Claves, ~ClaveOcupada(k, n),
               tomadas' = [tomadas EXCEPT ![n] = @ \cup {k}]
        PROVE  \A l \in Claves, m \in Nombres :
                 ~(l \in Sueltas' /\ l \in tomadas'[m])
    <3>1. k \notin Sueltas
      BY <2>2 DEF ClaveOcupada, Vacias, Pendientes, Sueltas
    <3>2. QED
      BY <1>1, <1>3, <2>2, <3>1 DEF Tipos, TypeOK, PlanTypeOK
  <2>3. QED
    BY <2>1, <2>2, TablasQuietas, TomadasCrecenConGET
<1>5. VacioConConsola'
  BY <1>2, <1>4
  DEF VacioConConsola, TomadaConLista, SinBloqSinCola, Sueltas, Vacias, Pendientes,
      AgregaA
<1>6. OrdenEnPie'
  BY <1>2 DEF OrdenEnPie, OrdenQuieta
<1>7. QED
  BY <1>5, <1>6

(* Every step keeps the whole of it.                                         *)
LEMMA ConsolaEnOrdenNext ==
  ASSUME ConsolaEnOrden, [NextConConsola]_varsConConsola PROVE ConsolaEnOrden'
<1> USE DEF ConsolaEnOrden
<1>0. MutexTypeOK' /\ MutexEnPie'
  BY MutexNext
<1>1. CASE [Next]_vars /\ OrdenQuieta
  <2>1. OrdenTypeOK'
    BY <1>1 DEF OrdenTypeOK, OrdenQuieta
  <2>2. QED
    BY <1>0, <1>1, <2>1, TiposNext, VacioDeLosDemas
<1>2. CASE SoloCae \/ (Comprueba /\ OrdenQuieta /\ UNCHANGED ResDelPlan)
  <2>1. UNCHANGED <<enBloq, cola, tomadas, libera>> /\ OrdenQuieta
    BY <1>2 DEF SoloCae, planSinContinua, Comprueba, tablas
  <2>2. Tipos'
    BY <1>2, TiposPausa
  <2>3. QED
    BY <1>0, <2>1, <2>2
    DEF OrdenQuieta, OrdenTypeOK, VacioConConsola, TomadaConLista, SinBloqSinCola,
        AgregaA, OrdenEnPie, Pendientes, Vacias
<1>3. CASE Descarta /\ UNCHANGED ResDelPlan
  <2>1. /\ UNCHANGED <<enBloq, cola, tomadas, libera, orden, lista, nulos, ordenes>>
        /\ instruccion' = FALSE
    BY <1>3 DEF Descarta, varsPlan, tablas
  <2>2. Tipos'
    BY <1>3, TiposPausa
  <2>3. QED
    BY <1>0, <2>1, <2>2
    DEF OrdenTypeOK, VacioConConsola, TomadaConLista, SinBloqSinCola, AgregaA,
        OrdenEnPie, Pendientes, Vacias
<1>4. CASE PasoConsola /\ UNCHANGED ResDelPlan
  BY <1>0, <1>4, TiposDeConsola, TiposConsola, VacioConsola, OrdenConsola
<1>5. QED
  BY <1>1, <1>2, <1>3, <1>4, CasosConConsola

(* ConsolaEnOrden is an invariant.                                           *)
LEMMA ConsolaSiempreEnOrden == SpecConConsola => []ConsolaEnOrden
<1>1. InitConConsola => ConsolaEnOrden
  <2> SUFFICES ASSUME Init, ConsolaInit PROVE ConsolaEnOrden
    BY DEF InitConConsola
  <2>1. MutexTypeOK /\ MutexEnPie
    <3>1. cerrado \in BOOLEAN /\ pausado \in BOOLEAN /\ ajena \in BOOLEAN
      BY Zenon DEF ConsolaInit
    <3>2. QED
      BY <3>1 DEF ConsolaInit, MutexTypeOK, MutexEnPie, Mutex
  <2>2. OrdenTypeOK
    <3>1. instruccion \in BOOLEAN
      BY Zenon DEF ConsolaInit
    <3>2. QED
      BY <3>1, OrdenesValidas, MaxOrdenesAssumption, EmptySeq
      DEF ConsolaInit, OrdenTypeOK
  <2>3. OrdenEnPie
    BY DEF ConsolaInit, OrdenEnPie, SinOrden, Orden
  <2>4. VacioConConsola
    BY DEF Init, PlanInit, VacioConConsola, TomadaConLista, SinBloqSinCola
  <2>5. QED
    BY <2>1, <2>2, <2>3, <2>4, TiposInit DEF ConsolaEnOrden
<1>2. ConsolaEnOrden /\ [NextConConsola]_varsConConsola => ConsolaEnOrden'
  BY ConsolaEnOrdenNext
<1>3. QED
  BY <1>1, <1>2, PTL DEF SpecConConsola

(***************************************************************************)
(* Whatever is typed at the console, every variable and connection of the  *)
(* system keeps its type.                                                  *)
(***************************************************************************)
THEOREM TiposConConsolaSiempre == SpecConConsola => []TypeOKConConsola
<1>1. ConsolaEnOrden => TypeOKConConsola
  BY DEF ConsolaEnOrden, TypeOKConConsola, Tipos, MutexTypeOK, OrdenTypeOK,
         ConsolaTypeOK
<1>2. QED
  BY <1>1, ConsolaSiempreEnOrden, PTL

(***************************************************************************)
(* Whatever is typed, and whatever dies, desbloquearESI may find an empty  *)
(* list only of the key liberarESI is about to remove, or of the one       *)
(* "bloquear" put in g_bloq and adds an ESI to: a list the console serves, *)
(* takes out and puts back is not one, nor is that of a key it takes.      *)
(***************************************************************************)
THEOREM VacioConConsolaSiempre == SpecConConsola => []VacioConConsola
<1>1. ConsolaEnOrden => VacioConConsola
  BY DEF ConsolaEnOrden
<1>2. QED
  BY <1>1, ConsolaSiempreEnOrden, PTL

-----------------------------------------------------------------------------
(* The pause *)

(* An ESI is sent anything else, takes what it was sent, or neither.        *)
Pedido == "SOLICITUD_EJECUCION"

SinPedidoNuevo(s, t) ==
  \/ t = s
  \/ \E m \in MensajesAEsi \ {Pedido} : t = Append(s, m)
  \/ s # <<>> /\ t = Tail(s)

(* Only Append of a request adds one to those on the way.                   *)
LEMMA SinPedidoNoCrece ==
  ASSUME NEW s \in Seq(MensajesAEsi), NEW t, SinPedidoNuevo(s, t)
  PROVE  Cardinality(Donde(t, Pedido)) <= Cardinality(Donde(s, Pedido))
<1> DEFINE D == Donde(s, Pedido)
           E == Donde(t, Pedido)
<1>1. IsFiniteSet(D) /\ Cardinality(D) \in Nat
  <2>1. Len(s) \in Nat /\ DOMAIN s = 1..Len(s)
    BY LenProperties
  <2>2. IsFiniteSet(DOMAIN s)
    BY <2>1, FS_Interval
  <2>3. D \in SUBSET DOMAIN s
    BY DEF Donde
  <2>4. QED
    BY <2>2, <2>3, FS_Subset, FS_CardinalityType
<1>2. ASSUME NEW m \in MensajesAEsi \ {Pedido}, t = Append(s, m) PROVE E = D
  <2> DEFINE r == Append(s, m)
  <2>1. /\ Len(s) \in Nat /\ DOMAIN s = 1..Len(s) /\ DOMAIN r = 1..(Len(s) + 1)
        /\ r[Len(s) + 1] = m /\ \A p \in 1..Len(s) : r[p] = s[p]
    BY AppendProperties, LenProperties
  <2> HIDE DEF r
  <2>2. Donde(r, Pedido) = D
    BY <2>1 DEF Donde
  <2>3. QED
    BY <1>2, <2>2 DEF r
<1>3. ASSUME s # <<>>, t = Tail(s) PROVE Cardinality(E) <= Cardinality(D)
  <2> DEFINE r == Tail(s)
             f == [p \in Donde(r, Pedido) |-> p + 1]
  <2>1. \A p \in DOMAIN r : p \in Nat /\ p + 1 \in DOMAIN s /\ r[p] = s[p + 1]
    <3>1. /\ Len(s) \in Nat /\ Len(s) # 0 /\ DOMAIN s = 1..Len(s) /\ r \in Seq(MensajesAEsi)
          /\ Len(r) = Len(s) - 1 /\ \A p \in 1..Len(r) : r[p] = s[p + 1]
      BY <1>3, HeadTailProperties, LenProperties, EmptySeq
    <3>2. DOMAIN r = 1..(Len(s) - 1)
      BY <3>1, LenProperties
    <3>3. QED
      BY <3>1, <3>2
  <2> HIDE DEF r
  <2>2. \A p \in Donde(r, Pedido) : p \in Nat /\ p + 1 \in D
    BY <2>1 DEF Donde
  <2>3. f \in Injection(Donde(r, Pedido), D)
    <3>1. f \in [Donde(r, Pedido) -> D]
      BY <2>2
    <3>2. IsInjective(f)
      BY <2>2 DEF IsInjective
    <3>3. QED
      BY <3>1, <3>2 DEF Injection
  <2> HIDE DEF f
  <2>4. Cardinality(Donde(r, Pedido)) <= Cardinality(D)
    BY <1>1, <2>3, FS_Injection
  <2>5. QED
    BY <1>3, <2>4 DEF r
<1>4. QED
  BY <1>1, <1>2, <1>3 DEF SinPedidoNuevo

(* Sending something else is not asking.                                     *)
LEMMA EnvioSinPedido ==
  ASSUME Tipos, NEW x, NEW m \in MensajesAEsi \ {Pedido}, NEW e \in ESIs,
         aEsi' = Enviado(aEsi, x, m)
  PROVE  SinPedidoNuevo(aEsi[e], aEsi'[e])
<1>1. aEsi \in [ESIs -> Seq(MensajesAEsi)]
  BY DEF Tipos, TypeOK, CanalesTypeOK
<1>2. QED
  BY <1>1 DEF Enviado, SinPedidoNuevo

(* The other steps of hiloAlgoritmos send something else, or nothing.        *)
LEMMA AlgoritmosSinPedir ==
  ASSUME Tipos, NEW e \in ESIs,
         \/ TomaEntrada \/ Elige \/ Comprueba \/ EsperaContinua \/ Sale \/ Bloquea
         \/ Despide \/ Desaloja \/ DejaBloqueado \/ Cierra
  PROVE  SinPedidoNuevo(aEsi[e], aEsi'[e])
<1>1. UNCHANGED aEsi \/ \E m \in {"ENVIAR_BLOQUEO_ESI", "CONTINUA_ESI"} :
                           aEsi' = Enviado(aEsi, actual, m)
  BY Zenon
  DEF TomaEntrada, Elige, Comprueba, EsperaContinua, Sale, Bloquea, Despide, Desaloja,
      DejaBloqueado, Cierra, canales
<1>2. ASSUME NEW x, NEW m \in {"ENVIAR_BLOQUEO_ESI", "CONTINUA_ESI"},
             aEsi' = Enviado(aEsi, x, m)
      PROVE  SinPedidoNuevo(aEsi[e], aEsi'[e])
  BY <1>2, EnvioSinPedido DEF MensajesAEsi, Pedido
<1>3. QED
  BY <1>1, <1>2 DEF SinPedidoNuevo

(* hiloCoordinador aborts the running ESI and never asks it for anything.    *)
LEMMA CoordinadorSinPedir ==
  ASSUME Tipos, PasoCoordinador, NEW e \in ESIs
  PROVE  SinPedidoNuevo(aEsi[e], aEsi'[e])
<1>1. UNCHANGED aEsi \/ aEsi' = Enviado(aEsi, actual, "ABORTO_ESI")
  BY Zenon
  DEF PasoCoordinador, RecibeGET, RecibeSET, RecibeSTORE, RecibeError, Aborta
<1>2. "ABORTO_ESI" \in MensajesAEsi \ {Pedido}
  BY DEF MensajesAEsi, Pedido
<1>3. QED
  BY <1>1, <1>2, EnvioSinPedido DEF SinPedidoNuevo

(* The console aborts one ESI, whichever it is.                              *)
LEMMA ConsolaSinPedir ==
  ASSUME Tipos, PasoConsola, NEW e \in ESIs
  PROVE  SinPedidoNuevo(aEsi[e], aEsi'[e])
<1>1. CASE Abortar
  <2>1. aEsi' = aEsi \/ \E f : aEsi' = Enviado(aEsi, f, "ABORTO_ESI")
    <3>1. \/ aEsi' = Enviado(aEsi, orden.esi, "ABORTO_ESI")
          \/ aEsi' \in {aEsi} \cup {Enviado(aEsi, f, "ABORTO_ESI") : f \in ESIs}
      BY <1>1, Zenon DEF Abortar
    <3>2. QED
      BY <3>1, Zenon
  <2>2. "ABORTO_ESI" \in MensajesAEsi \ {Pedido}
    BY DEF MensajesAEsi, Pedido
  <2>3. QED
    BY <2>1, <2>2, EnvioSinPedido DEF SinPedidoNuevo
<1>2. Abortar \/ UNCHANGED aEsi
  BY Zenon
  DEF PasoConsola, Pausar, TomaPausa, Continuar, Bloquear, Desbloquear, Listar,
      Status, Kill, Detener, Tomar, Encolar, PublicaVacia, SacaDeListos, Agrega,
      TomaLista, SueltaLista, HacerLista, Terminar, RecorreNulo, varsPlan, canales,
      sinEncolar, sinSoltar
<1>3. QED
  BY <1>1, <1>2 DEF SinPedidoNuevo

(* And the rest of the system only takes what an ESI was sent.               *)
LEMMA OtrosSinPedir ==
  ASSUME Tipos, OtrosHilos, NEW e \in ESIs
  PROVE  SinPedidoNuevo(aEsi[e], aEsi'[e])
<1>1. aEsi \in [ESIs -> Seq(MensajesAEsi)]
  BY DEF Tipos, TypeOK, CanalesTypeOK
<1>2. ASSUME NEW f \in ESIs, aEsi[f] # <<>>, aEsi' = Recibido(aEsi, f)
      PROVE  SinPedidoNuevo(aEsi[e], aEsi'[e])
  BY <1>1, <1>2 DEF Recibido, SinPedidoNuevo
<1>3. ASSUME UNCHANGED aEsi PROVE SinPedidoNuevo(aEsi[e], aEsi'[e])
  BY <1>3 DEF SinPedidoNuevo
<1>4. ASSUME NEW f \in ESIs, ProcesoEsi(f) PROVE SinPedidoNuevo(aEsi[e], aEsi'[e])
  <2>1. UNCHANGED aEsi \/ (aEsi[f] # <<>> /\ aEsi' = Recibido(aEsi, f))
    BY <1>4, Zenon
    DEF ProcesoEsi, PasoEsi, ConectarEsi, ProcesarSolicitudEjecucion,
        ProcesarSolicitudAnterior, ProcesarRespuestaSolicitud, Llega
  <2>2. QED
    BY <1>2, <1>3, <2>1
<1>5. ASSUME NEW f \in ESIs,
             HiloServidor(f) \/ MuereEsi(f) \/ EsiSinPlanificador(f) \/ HiloDeEsi(f)
      PROVE  UNCHANGED aEsi
  BY <1>5, Zenon
  DEF HiloServidor, MuereEsi, EsiSinPlanificador, HiloDeEsi, PasoServidor,
      RecibeNombre, RecibeTermino, DesconectaESI, LiberaESI, LiberaNombre,
      QuitaListo, QuitaDeLista, QuitaClave, LiberaClaves, sinLiberar, Matar,
      ProcesarError, PasoHiloEsi, TomaGET, TomaSET, TomaSTORE, TomaErrorTamanio,
      DecideSET, EnviaAInstancia, EnviaSinConexion, DecideSTORE, canalesDeInst,
      canales
<1>6. ASSUME HiloDePlan PROVE UNCHANGED aEsi
  BY <1>6, Zenon
  DEF HiloDePlan, PasoHiloPlan, RecibeRespuesta, AsignaRespuesta, ProcesarStatus,
      canalesSinPlanACoord, canales
<1>7. ASSUME NEW i \in Instancias, PasoDeInstancia(i) PROVE UNCHANGED aEsi
  BY <1>7, Zenon
  DEF PasoDeInstancia, HiloDeInst, PasoHiloInst, RecibeNombreInstancia,
      PresentaInstancia, AtenderSinTablas, RecibeSetOk,
      RecibeStoreOk, RecibeClaveEliminada, RecibeEspacioInsuficiente,
      BloqueaInstancia, CompactaInstancia, RecibeCompactar, RecibeSetDefinitivo,
      RecibeRespuestaValor, DesconectaInstancia, canalesSinInst, canales,
      ProcesoInstancia, EntornoInstancia, PasoInstancia, ConectarInstancia,
      ProcesarEnviarInfoInstancia, ProcesarSet, ProcesarSetDefinitivo, ProcesarStore,
      ProcesarCompactacion, ProcesarSolicitudValor, Dump, MatarInstancia,
      canalesDeOtros
<1>8. QED
  BY <1>3, <1>4, <1>5, <1>6, <1>7 DEF OtrosHilos, PasoDeEsi

(* While it is paused, then, nobody asks an ESI for a statement: the mutex   *)
(* is the console's, and hiloAlgoritmos asks only with it.                   *)
LEMMA EnPausaNoPide ==
  ASSUME Tipos, MutexEnPie, [NextConConsola]_varsConConsola, pausado, ~ajena,
         NEW e \in ESIs
  PROVE  SinPedidoNuevo(aEsi[e], aEsi'[e])
<1>0. ASSUME UNCHANGED aEsi PROVE SinPedidoNuevo(aEsi[e], aEsi'[e])
  BY <1>0 DEF SinPedidoNuevo
<1>1. CASE AlgoritmosConConsola
  <2>1. ~PideConMutex
    BY DEF PideConMutex, ConMutex, MutexEnPie
  <2>2. \/ TomaEntrada \/ Elige \/ Comprueba \/ EsperaContinua \/ Sale \/ Bloquea
        \/ Despide \/ Desaloja \/ DejaBloqueado \/ Cierra
        \/ UNCHANGED aEsi
    BY <1>1, <2>1, Zenon
    DEF AlgoritmosConConsola, PasoAlgoritmosConConsola, EligeTrasPausa, CierraMutex,
        AbreMutex, canales
  <2>3. QED
    BY <1>0, <2>2, AlgoritmosSinPedir
<1>2. CASE CoordinadorConConsola
  <2>1. PasoCoordinador \/ UNCHANGED aEsi
    BY <1>2, Zenon DEF CoordinadorConConsola, PasoCoordinadorConConsola, Descarta
  <2>2. QED
    BY <1>0, <2>1, CoordinadorSinPedir
<1>3. CASE HiloConsola
  BY <1>3, ConsolaSinPedir DEF HiloConsola
<1>4. CASE ServidorConConsola
  BY <1>0, <1>4, Zenon DEF ServidorConConsola, LiberaNulo, canales
<1>5. CASE OtrosHilos
  BY <1>5, OtrosSinPedir
<1>6. CASE UNCHANGED varsConConsola
  BY <1>0, <1>6 DEF varsConConsola, vars, canales
<1>7. QED
  BY <1>1, <1>2, <1>3, <1>4, <1>5, <1>6 DEF NextConConsola

(***************************************************************************)
(* While the planner is paused no ESI is asked for a statement, neither    *)
(* the one chosen before the pause nor one the console took out of a       *)
(* queue: as long as no "continuar" unlocked the mutex for hiloAlgoritmos, *)
(* a pause that got it waited for the request that was being sent.         *)
(***************************************************************************)
THEOREM PausaSiempreDetiene == SpecConConsola => PausaDetiene
<1>1. ConsolaEnOrden /\ [NextConConsola]_varsConConsola
        => [pausado /\ pausado' /\ ~ajena =>
              \A e \in ESIs : Pedidos(e)' <= Pedidos(e)]_varsConConsola
  <2> SUFFICES ASSUME Tipos, MutexEnPie, [NextConConsola]_varsConConsola,
                      pausado, ~ajena, NEW e \in ESIs
               PROVE  Pedidos(e)' <= Pedidos(e)
    BY DEF ConsolaEnOrden
  <2>1. SinPedidoNuevo(aEsi[e], aEsi'[e]) /\ aEsi[e] \in Seq(MensajesAEsi)
    BY EnPausaNoPide DEF Tipos, TypeOK, CanalesTypeOK
  <2>2. Cardinality(Donde(aEsi'[e], Pedido)) <= Cardinality(Donde(aEsi[e], Pedido))
    BY <2>1, SinPedidoNoCrece
  <2>3. QED
    BY <2>2 DEF Pedidos, Pedido, Donde
<1>2. QED
  BY <1>1, ConsolaSiempreEnOrden, PTL DEF SpecConConsola, PausaDetiene

-----------------------------------------------------------------------------
(* Folds over finite sets *)

(* Induction on a finite set, which loses c[s] at each step.                 *)
LEMMA InduccionFinita ==
  ASSUME NEW S, IsFiniteSet(S), NEW c, \A s \in SUBSET S : s # {} => c[s] \in s,
         NEW P, {} \in P,
         \A s \in SUBSET S : s # {} /\ s \ {c[s]} \in P => s \in P
  PROVE  \A s \in SUBSET S : s \in P
<1> DEFINE ns == {n \in Nat : \E s \in SUBSET S : s \notin P /\ Cardinality(s) = n}
<1>1. SUFFICES ASSUME NEW u \in SUBSET S, u \notin P PROVE FALSE
  OBVIOUS
<1>2. ns \subseteq Nat /\ ns # {}
  BY <1>1, FS_Subset, FS_CardinalityType
<1>3. PICK n \in ns : \A m \in ns : n <= m
  <2> HIDE DEF ns
  <2>1. QED
    BY <1>2, MinimoNat
<1>4. PICK s \in SUBSET S : s \notin P /\ Cardinality(s) = n
  BY <1>3
<1>5. s # {} /\ c[s] \in s /\ s \ {c[s]} \notin P /\ s \ {c[s]} \in SUBSET S
  BY <1>4
<1>6. IsFiniteSet(s) /\ Cardinality(s \ {c[s]}) = n - 1 /\ IsFiniteSet(s \ {c[s]})
  BY <1>4, <1>5, FS_Subset, FS_RemoveElement
<1>7. n - 1 \in Nat
  BY <1>6, FS_CardinalityType
<1>8. n - 1 \in ns
  BY <1>5, <1>6, <1>7
<1>9. n \in Nat
  BY <1>3
<1> HIDE DEF ns
<1>10. QED
  BY <1>3, <1>8, <1>9

(* g is the recursion of a fold over S from base, which stays in X: the      *)
(* element c[s] of s is used by V after the others.                          *)
EsPliegue(g, S, c, base, V, X) ==
  /\ g = [s \in SUBSET S |-> g[s]]
  /\ \A s \in SUBSET S :
       /\ g[s] \in X
       /\ g[s] = IF s = {} THEN base ELSE V[c[s]][g[s \ {c[s]}]]

(* There is such a recursion.                                                *)
LEMMA PliegueExiste ==
  ASSUME NEW S, IsFiniteSet(S), NEW c, \A s \in SUBSET S : s # {} => c[s] \in s,
         NEW X, NEW base \in X, NEW V, \A x \in S : \A T \in X : V[x][T] \in X
  PROVE  \E g : EsPliegue(g, S, c, base, V, X)
<1> DEFINE F(g, s) == IF s = {} THEN base ELSE V[c[s]][g[s \ {c[s]}]]
           Hasta(n, g) ==
             \A s \in SUBSET S : Cardinality(s) <= n => g[s] \in X /\ g[s] = F(g, s)
           ns == {n \in Nat : ~ \E g : Hasta(n, g)}
<1>1. \A s \in SUBSET S : IsFiniteSet(s) /\ Cardinality(s) \in Nat
  BY FS_Subset, FS_CardinalityType
<1>2. ASSUME NEW s \in SUBSET S, s # {}
      PROVE  /\ c[s] \in S /\ s \ {c[s]} \in SUBSET S
             /\ Cardinality(s \ {c[s]}) = Cardinality(s) - 1
  BY <1>1, <1>2, FS_RemoveElement
<1>3. \A n \in Nat : \A g :
        (n # 0 => n - 1 \in Nat /\ Hasta(n - 1, g)) => \E h : Hasta(n, h)
  <2> SUFFICES ASSUME NEW n \in Nat, NEW g, n # 0 => n - 1 \in Nat /\ Hasta(n - 1, g)
               PROVE  \E h : Hasta(n, h)
    OBVIOUS
  <2> DEFINE h == [s \in SUBSET S |-> IF Cardinality(s) < n THEN g[s] ELSE F(g, s)]
  <2>1. \A s \in SUBSET S : Cardinality(s) < n => h[s] = g[s]
    OBVIOUS
  <2>2. \A s \in SUBSET S : Cardinality(s) < n => Cardinality(s) <= n - 1 /\ n # 0
    BY <1>1
  <2>3. ASSUME NEW s \in SUBSET S, Cardinality(s) <= n
        PROVE  F(h, s) = F(g, s) /\ F(g, s) \in X
    <3>1. CASE s = {}
      BY <3>1
    <3>2. CASE s # {}
      <4>1. Cardinality(s \ {c[s]}) < n
        BY <1>1, <1>2, <2>3, <3>2
      <4>2. h[s \ {c[s]}] = g[s \ {c[s]}] /\ g[s \ {c[s]}] \in X
        BY <1>2, <2>1, <2>2, <3>2, <4>1
      <4> HIDE DEF h
      <4>3. QED
        BY <1>2, <3>2, <4>2
    <3>3. QED
      BY <3>1, <3>2
  <2>4. ASSUME NEW s \in SUBSET S, Cardinality(s) <= n PROVE h[s] \in X /\ h[s] = F(h, s)
    <3>1. CASE Cardinality(s) < n
      <4>1. h[s] = g[s] /\ g[s] \in X /\ g[s] = F(g, s)
        BY <2>1, <2>2, <3>1
      <4> HIDE DEF h, F
      <4>2. QED
        BY <2>3, <2>4, <4>1
    <3>2. CASE ~(Cardinality(s) < n)
      <4>1. h[s] = F(g, s)
        BY <3>2
      <4> HIDE DEF h, F
      <4>2. QED
        BY <2>3, <2>4, <4>1
    <3>3. QED
      BY <3>1, <3>2
  <2> HIDE DEF h, F
  <2>5. QED
    BY <2>4
<1> HIDE DEF Hasta, F
<1>4. ns = {}
  <2>1. SUFFICES ASSUME ns # {} PROVE FALSE
    OBVIOUS
  <2>2. PICK n \in ns : \A m \in ns : n <= m
    <3>1. ns \subseteq Nat /\ ns # {}
      BY <2>1
    <3> HIDE DEF ns
    <3>2. QED
      BY <3>1, MinimoNat
  <2>3. n \in Nat /\ ~ \E g : Hasta(n, g)
    BY <2>2
  <2>4. PICK g : n = 0 \/ Hasta(n - 1, g)
    <3>1. CASE n = 0
      BY <3>1
    <3>2. CASE n # 0
      <4>1. n - 1 \in Nat /\ ~(n <= n - 1)
        BY <2>3, <3>2
      <4>2. n - 1 \notin ns
        <5> HIDE DEF ns
        <5>1. QED
          BY <2>2, <4>1
      <4>3. QED
        BY <4>1, <4>2
    <3>3. QED
      BY <3>1, <3>2
  <2>5. n # 0 => n - 1 \in Nat /\ Hasta(n - 1, g)
    BY <2>3, <2>4
  <2> HIDE DEF ns
  <2>6. \E h : Hasta(n, h)
    BY <1>3, <2>3, <2>5, Zenon
  <2>7. QED
    BY <2>3, <2>6
<1>5. PICK g : Hasta(Cardinality(S), g)
  BY <1>1, <1>4
<1> DEFINE h == [s \in SUBSET S |-> g[s]]
<1>6. ASSUME NEW s \in SUBSET S PROVE h[s] \in X /\ h[s] = F(h, s)
  <2>1. Cardinality(s) <= Cardinality(S)
    BY FS_Subset
  <2>2. h[s] \in X /\ h[s] = F(g, s)
    BY <1>5, <2>1 DEF Hasta
  <2>3. F(g, s) = F(h, s)
    BY <1>2 DEF F
  <2>4. QED
    BY <2>2, <2>3
<1>7. h = [s \in SUBSET S |-> h[s]]
  OBVIOUS
<1> HIDE DEF h
<1>8. EsPliegue(h, S, c, base, V, X)
  BY <1>6, <1>7 DEF F, EsPliegue
<1>9. QED
  BY <1>8

-----------------------------------------------------------------------------
(* deadlock: Warshall's loop *)

(* What the recursion of a fold takes first, if it is in the set.            *)
Elegido(S) == [s \in SUBSET S |-> CHOOSE x \in s : TRUE]

(* Warshall's loop, unfolded.                                                *)
LEMMA CierrePaso ==
  ASSUME IsFiniteSet(EsisDeadlock)
  PROVE  \E g : /\ Cierre = g[EsisDeadlock]
                /\ \A s \in SUBSET EsisDeadlock :
                     g[s] = IF s = {} THEN ProcesosALaEspera
                            ELSE LET k == Elegido(EsisDeadlock)[s]
                                 IN Vuelta(g[s \ {k}], k)
<1> DEFINE S == EsisDeadlock
           X == SUBSET (S \X S)
           c == Elegido(S)
           V == [k \in S |-> [T \in X |-> Vuelta(T, k)]]
           Cuerpo(g, s) ==
             IF s = {} THEN ProcesosALaEspera
             ELSE Vuelta(g[s \ {CHOOSE x \in s : TRUE}], CHOOSE x \in s : TRUE)
           G == CHOOSE g : g = [s \in SUBSET S |-> Cuerpo(g, s)]
<1>1. Cierre = G[S]
  BY Zenon DEF Cierre, FoldSet, MapThenFoldSet
<1>2. \A s \in SUBSET S : c[s] = CHOOSE x \in s : TRUE
  BY DEF Elegido
<1>3. \A s \in SUBSET S : s # {} => c[s] \in s
  BY <1>2
<1>4. ProcesosALaEspera \in X
  BY DEF ProcesosALaEspera
<1>5. \A k \in S : \A T \in X : V[k][T] = Vuelta(T, k) /\ V[k][T] \in X
  BY DEF Vuelta
<1> HIDE DEF S, X, c, V
<1>6. PICK g : EsPliegue(g, S, c, ProcesosALaEspera, V, X)
  <2>1. IsFiniteSet(S)
    BY DEF S
  <2>2. \A k \in S : \A T \in X : V[k][T] \in X
    BY <1>5
  <2>3. QED
    BY <1>3, <1>4, <2>1, <2>2, PliegueExiste
<1>7. \A s \in SUBSET S : g[s] = Cuerpo(g, s)
  BY <1>2, <1>3, <1>5, <1>6 DEF EsPliegue
<1>8. g = [s \in SUBSET S |-> Cuerpo(g, s)]
  <2> HIDE DEF Cuerpo
  <2>1. QED
    BY <1>6, <1>7 DEF EsPliegue
<1>9. G = [s \in SUBSET S |-> Cuerpo(G, s)]
  BY <1>8, Zenon
<1> HIDE DEF G
<1>10. \A s \in SUBSET S : G[s] = Cuerpo(G, s)
  <2> HIDE DEF Cuerpo
  <2>1. QED
    BY <1>9
<1>11. \A s \in SUBSET S :
         G[s] = IF s = {} THEN ProcesosALaEspera
                ELSE LET k == c[s] IN Vuelta(G[s \ {k}], k)
  BY <1>2, <1>10
<1>12. QED
  BY <1>1, <1>11 DEF S, c

(* T goes on from where it arrives, within S.                                *)
Transitiva(T, S) ==
  \A x, y, z \in S : <<x, y>> \in T /\ <<y, z>> \in T => <<x, z>> \in T

(* The relation it computes is the transitive closure.                       *)
LEMMA CierreEsTransitivo ==
  ASSUME IsFiniteSet(EsisDeadlock)
  PROVE  /\ ProcesosALaEspera \subseteq Cierre
         /\ Transitiva(Cierre, EsisDeadlock)
         /\ \A Q : ProcesosALaEspera \subseteq Q /\ Transitiva(Q, EsisDeadlock)
              => Cierre \subseteq Q
<1> DEFINE S == EsisDeadlock
           R == ProcesosALaEspera
           c == Elegido(S)
<1>1. PICK g : /\ Cierre = g[S]
               /\ \A s \in SUBSET S :
                    g[s] = IF s = {} THEN R ELSE LET k == c[s] IN Vuelta(g[s \ {k}], k)
  BY CierrePaso
<1>2. \A s \in SUBSET S : s # {} => c[s] \in s
  BY DEF Elegido
<1>3. R \subseteq S \X S
  BY DEF ProcesosALaEspera
<1>4. \A T, k : Vuelta(T, k) = T \cup {x \in S \X S : <<x[1], k>> \in T /\ <<k, x[2]>> \in T}
  BY Zenon DEF Vuelta
<1> DEFINE Por(T, s) ==
             /\ R \subseteq T /\ T \subseteq S \X S
             /\ \A x, y \in S, z \in s : <<x, z>> \in T /\ <<z, y>> \in T => <<x, y>> \in T
             /\ \A Q : R \subseteq Q /\ Transitiva(Q, S) => T \subseteq Q
           P == {s \in SUBSET S : Por(g[s], s)}
<1> HIDE DEF S, R, c
<1>5. {} \in P
  BY <1>1, <1>3
<1>6. ASSUME NEW T, NEW s \in SUBSET S, NEW k \in s, Por(T, s \ {k})
      PROVE  Por(Vuelta(T, k), s)
  <2> DEFINE U == Vuelta(T, k)
  <2>1. k \in S /\ T \subseteq S \X S
    BY <1>6
  <2>2. \A x, y \in S : <<x, y>> \in U <=>
          (<<x, y>> \in T \/ (<<x, k>> \in T /\ <<k, y>> \in T))
    BY <1>4
  <2>3. T \subseteq U /\ U \subseteq S \X S
    BY <1>4, <1>6
  <2>4. ASSUME NEW x \in S, NEW y \in S, NEW z \in s, <<x, z>> \in U, <<z, y>> \in U
        PROVE  <<x, y>> \in U
    <3> HIDE DEF U
    <3>1. z \in S
      OBVIOUS
    <3>2. CASE z = k
      BY <2>1, <2>2, <2>4, <3>2
    <3>3. CASE z # k
      <4>1. \A u, v \in S : <<u, z>> \in T /\ <<z, v>> \in T => <<u, v>> \in T
        BY <1>6, <3>3
      <4>2. QED
        BY <2>1, <2>2, <2>4, <3>1, <4>1
    <3>4. QED
      BY <3>2, <3>3
  <2>5. ASSUME NEW Q, R \subseteq Q, Transitiva(Q, S) PROVE U \subseteq Q
    <3>1. T \subseteq Q
      BY <1>6, <2>5
    <3>2. \A x, y \in S : <<x, y>> \in U => <<x, y>> \in Q
      <4> HIDE DEF U
      <4>1. QED
        BY <2>1, <2>2, <2>5, <3>1 DEF Transitiva
    <3> HIDE DEF U
    <3>3. QED
      BY <2>3, <3>2
  <2>6. R \subseteq U
    BY <1>6, <2>3
  <2> HIDE DEF U
  <2>7. Por(U, s)
    BY <2>3, <2>4, <2>5, <2>6
  <2>8. QED
    BY <2>7 DEF U
<1>7. ASSUME NEW s \in SUBSET S, s # {}, s \ {c[s]} \in P PROVE s \in P
  <2> HIDE DEF Por
  <2>1. c[s] \in s /\ Por(g[s \ {c[s]}], s \ {c[s]})
    BY <1>2, <1>7
  <2>2. g[s] = Vuelta(g[s \ {c[s]}], c[s])
    BY <1>1, <1>7
  <2>3. Por(g[s], s)
    BY <1>6, <2>1, <2>2
  <2>4. QED
    BY <2>3
<1>8. S \in P
  <2>1. IsFiniteSet(S) /\ S \in SUBSET S
    BY DEF S
  <2> HIDE DEF P
  <2>2. \A s \in SUBSET S : s # {} /\ s \ {c[s]} \in P => s \in P
    BY <1>7
  <2>3. \A s \in SUBSET S : s \in P
    BY <1>2, <1>5, <2>1, <2>2, InduccionFinita
  <2>4. QED
    BY <2>1, <2>3
<1>9. Por(Cierre, S)
  BY <1>1, <1>8
<1>10. Transitiva(Cierre, S)
  BY <1>9 DEF Transitiva
<1>11. QED
  BY <1>9, <1>10 DEF S, R

-----------------------------------------------------------------------------
(* Who waits for whom *)

(* An ESI takes a socket of the planner, which has so many.                  *)
ESIsFinitos == IsFiniteSet(ESIs)

(* The sequences without repetition.                                         *)
LEMMA SinRepetir ==
  ASSUME NEW S, IsFiniteSet(S), NEW w
  PROVE  w \in SetToAllKPermutations(S) <=> w \in Seq(S) /\ IsInjective(w)
<1>1. ASSUME w \in SetToAllKPermutations(S) PROVE w \in Seq(S) /\ IsInjective(w)
  <2>1. PICK s \in SUBSET S : w \in SetToSeqs(s)
    BY <1>1 DEF SetToAllKPermutations
  <2>2. Cardinality(s) \in Nat
    BY FS_Subset, FS_CardinalityType
  <2>3. /\ w \in [1..Cardinality(s) -> s]
        /\ \A i, j \in 1..Cardinality(s) : i # j => w[i] # w[j]
    BY <2>1 DEF SetToSeqs
  <2>4. w \in [1..Cardinality(s) -> S]
    BY <2>3
  <2>5. QED
    BY <2>2, <2>3, <2>4, SeqDef DEF IsInjective
<1>2. ASSUME w \in Seq(S), IsInjective(w) PROVE w \in SetToAllKPermutations(S)
  <2> DEFINE s == Range(w)
             n == Len(w)
  <2>1. n \in Nat /\ w \in [1..n -> S] /\ DOMAIN w = 1..n
    BY <1>2, LenProperties
  <2>2. s \in SUBSET S /\ w \in [1..n -> s] /\ \A y \in s : \E p \in 1..n : w[p] = y
    BY <2>1 DEF Range
  <2> HIDE DEF s, n
  <2>3. w \in Bijection(1..n, s)
    BY <1>2, <2>1, <2>2 DEF Bijection, Injection, Surjection, IsInjective
  <2>4. Cardinality(s) = n
    <3>1. IsFiniteSet(1..n) /\ Cardinality(1..n) = n
      BY <2>1, FS_Interval
    <3>2. ExistsBijection(1..n, s)
      BY <2>3 DEF ExistsBijection
    <3>3. QED
      BY <3>1, <3>2, FS_Bijection
  <2>5. w \in SetToSeqs(s)
    BY <1>2, <2>1, <2>2, <2>4 DEF SetToSeqs, IsInjective
  <2>6. QED
    BY <2>2, <2>5 DEF SetToAllKPermutations
<1>3. QED
  BY <1>1, <1>2

(* Each ESI of w waits for the next, from e on.                              *)
Camino(e, w) ==
  /\ w \in Seq(ESIs) /\ IsInjective(w) /\ w # <<>> /\ w[1] = e
  /\ \A p \in 1..(Len(w) - 1) : EsperaPor(w[p], w[p + 1])

(* y is the last of such a sequence.                                         *)
Alcanza(e, y) == \E w : Camino(e, w) /\ w[Len(w)] = y

(* Where one arrives one can go on from, without passing twice.              *)
LEMMA AlcanzaMasLejos ==
  ASSUME NEW e \in ESIs, NEW y, NEW z \in ESIs, Alcanza(e, y), EsperaPor(y, z)
  PROVE  Alcanza(e, z)
<1>1. PICK w : Camino(e, w) /\ w[Len(w)] = y
  BY DEF Alcanza
<1> DEFINE n == Len(w)
<1>2. /\ w \in Seq(ESIs) /\ n \in Nat \ {0} /\ DOMAIN w = 1..n /\ w[1] = e
      /\ \A p \in 1..n : w[p] \in ESIs
      /\ \A p \in 1..(n - 1) : EsperaPor(w[p], w[p + 1])
      /\ \A p, q \in 1..n : w[p] = w[q] => p = q
  BY <1>1, LenProperties, EmptySeq DEF Camino, IsInjective
<1>3. CASE \E p \in 1..n : w[p] = z
  <2>1. PICK p \in 1..n : w[p] = z
    BY <1>3
  <2> DEFINE v == SubSeq(w, 1, p)
  <2>2. /\ v \in Seq(ESIs) /\ Len(v) = p /\ DOMAIN v = 1..p
        /\ \A q \in 1..p : v[q] = w[q]
    <3>1. \A q \in 1..p : w[q] \in ESIs
      BY <1>2
    <3>2. /\ v \in Seq(ESIs)
          /\ Len(v) = IF 1 <= p THEN p - 1 + 1 ELSE 0
          /\ \A q \in 1..(p - 1 + 1) : v[q] = w[1 + q - 1]
      BY <1>2, <3>1, SubSeqProperties
    <3> HIDE DEF v
    <3>3. Len(v) = p /\ \A q \in 1..p : v[q] = w[q]
      BY <1>2, <3>2
    <3>4. QED
      BY <3>2, <3>3, LenProperties
  <2> HIDE DEF v
  <2>3. v # <<>> /\ v[1] = e /\ v[p] = z
    BY <1>2, <2>1, <2>2, EmptySeq
  <2>4. \A q \in 1..(p - 1) : EsperaPor(v[q], v[q + 1])
    <3>1. \A q \in 1..(p - 1) : q \in 1..(n - 1) /\ q \in 1..p /\ q + 1 \in 1..p
      BY <1>2, <2>1
    <3>2. QED
      BY <1>2, <2>2, <3>1
  <2>5. IsInjective(v)
    <3>1. \A q \in 1..p : q \in 1..n
      BY <1>2, <2>1
    <3>2. QED
      BY <1>2, <2>2, <3>1 DEF IsInjective
  <2>6. Camino(e, v) /\ v[Len(v)] = z
    BY <2>2, <2>3, <2>4, <2>5 DEF Camino
  <2>7. QED
    BY <2>6 DEF Alcanza
<1>4. CASE \A p \in 1..n : w[p] # z
  <2> DEFINE v == Append(w, z)
  <2>1. /\ v \in Seq(ESIs) /\ Len(v) = n + 1 /\ DOMAIN v = 1..(n + 1)
        /\ v[n + 1] = z /\ \A q \in 1..n : v[q] = w[q]
    BY <1>2, AppendProperties, LenProperties
  <2> HIDE DEF v
  <2>2. v # <<>> /\ v[1] = e
    BY <1>2, <2>1, EmptySeq
  <2>3. ASSUME NEW q \in 1..n PROVE EsperaPor(v[q], v[q + 1])
    <3>1. CASE q = n
      BY <1>1, <1>2, <2>1, <3>1
    <3>2. CASE q # n
      <4>1. n \in Nat
        BY <1>2
      <4> HIDE DEF n
      <4>2. q \in 1..(n - 1) /\ q + 1 \in 1..n
        BY <3>2, <4>1
      <4>3. QED
        BY <1>2, <2>1, <4>2 DEF n
    <3>3. QED
      BY <3>1, <3>2
  <2>4. IsInjective(v)
    <3>1. \A q \in 1..(n + 1) : q \in 1..n \/ q = n + 1
      BY <1>2
    <3>2. \A p, q \in 1..(n + 1) : v[p] = v[q] => p = q
      BY <1>2, <1>4, <2>1, <3>1
    <3>3. QED
      BY <2>1, <3>2 DEF IsInjective
  <2>5. Camino(e, v) /\ v[Len(v)] = z
    <3>1. (n + 1) - 1 = n
      BY <1>2
    <3>2. QED
      BY <2>1, <2>2, <2>3, <2>4, <3>1 DEF Camino
  <2>6. QED
    BY <2>5 DEF Alcanza
<1>5. QED
  BY <1>3, <1>4

(* The first of a sequence whose last waits for it is in a cycle.            *)
LEMMA VueltaEsCiclo ==
  ASSUME ESIsFinitos, NEW e \in ESIs, NEW y, Alcanza(e, y), EsperaPor(y, e)
  PROVE  EnCiclo(e)
<1>1. PICK w : Camino(e, w) /\ w[Len(w)] = y
  BY DEF Alcanza
<1> DEFINE n == Len(w)
<1>2. /\ w \in Seq(ESIs) /\ IsInjective(w) /\ n \in Nat \ {0} /\ DOMAIN w = 1..n
      /\ w[1] = e /\ \A p \in 1..(n - 1) : EsperaPor(w[p], w[p + 1])
  BY <1>1, LenProperties, EmptySeq DEF Camino
<1>3. w \in SetToAllKPermutations(ESIs)
  BY <1>2, SinRepetir DEF ESIsFinitos
<1>4. e \in Range(w)
  BY <1>2 DEF Range
<1>5. ASSUME NEW p \in 1..n PROVE EsperaPor(w[p], w[(p % n) + 1])
  <2>1. CASE p = n
    <3>1. (p % n) + 1 = 1
      BY <1>2, <2>1
    <3>2. QED
      BY <1>1, <1>2, <2>1, <3>1
  <2>2. CASE p # n
    <3>1. n \in Nat
      BY <1>2
    <3> HIDE DEF n
    <3>2. p \in 1..(n - 1) /\ p < n
      BY <2>2, <3>1
    <3>3. p % n = p
      BY <3>1, <3>2
    <3>4. QED
      BY <1>2, <3>2, <3>3 DEF n
  <2>3. QED
    BY <2>1, <2>2
<1>6. QED
  BY <1>2, <1>3, <1>4, <1>5 DEF EnCiclo

(* In the tables, who waits for whom is what the command reads.              *)
LEMMA EsperaLeida ==
  ASSUME Tipos, SinBloqSinCola
  PROVE  /\ \A e, f \in ESIs : EsperaPor(e, f) => e \in EsisDeadlock
         /\ \A e, f \in EsisDeadlock : <<e, f>> \in ProcesosALaEspera <=> EsperaPor(e, f)
<1>1. \A k \in Claves : \A e : e \in Range(cola[k]) => k \in enBloq
  <2>1. Range(<<>>) = {}
    BY DEF Range
  <2>2. QED
    BY <2>1 DEF SinBloqSinCola
<1>2. enBloq \subseteq Claves /\ tomadas \in [Nombres -> SUBSET Claves] /\ ESIs \subseteq Nombres
  BY DEF Tipos, TypeOK, PlanTypeOK, Nombres
<1>3. ASSUME NEW e \in ESIs, NEW f \in ESIs, EsperaPor(e, f) PROVE e \in EsisDeadlock
  BY <1>1, <1>3 DEF EsperaPor, EsisDeadlock, EstaBloqueado
<1>4. ASSUME NEW e \in EsisDeadlock, NEW f \in EsisDeadlock
      PROVE  <<e, f>> \in ProcesosALaEspera <=> EsperaPor(e, f)
  <2>1. e \in ESIs /\ f \in ESIs
    BY DEF EsisDeadlock
  <2>2. \A k : <<e, k>> \in MatrizEspera /\ k \in ClavesDeadlock
                 <=> k \in ClavesDeadlock /\ k \in enBloq /\ e \in Range(cola[k])
    BY DEF MatrizEspera
  <2>3. \A k : <<k, f>> \in MatrizAsignacion <=> k \in ClavesDeadlock /\ k \in tomadas[f]
    BY DEF MatrizAsignacion
  <2>4. \A k : k \in tomadas[f] => k \in ClavesDeadlock /\ k \in Claves
    BY <1>2, <2>1 DEF ClavesDeadlock
  <2>5. <<e, f>> \in ProcesosALaEspera <=>
          \E k \in ClavesDeadlock : <<e, k>> \in MatrizEspera /\ <<k, f>> \in MatrizAsignacion
    BY DEF ProcesosALaEspera
  <2>6. QED
    BY <1>1, <2>2, <2>3, <2>4, <2>5 DEF EsperaPor
<1>5. QED
  BY <1>3, <1>4

(* What the closure has in the diagonal is in a cycle: of the relation, only *)
(* what goes on from where e arrives is needed.                              *)
LEMMA DiagonalEnCiclo ==
  ASSUME ESIsFinitos, Tipos, SinBloqSinCola, NEW e \in EsisDeadlock, <<e, e>> \in Cierre
  PROVE  EnCiclo(e)
<1> DEFINE S == EsisDeadlock
           Q == {x \in S \X S :
                   Alcanza(e, x[1]) => \E y \in S : Alcanza(e, y) /\ EsperaPor(y, x[2])}
<1>1. S \subseteq ESIs /\ IsFiniteSet(S)
  BY FS_Subset DEF EsisDeadlock, ESIsFinitos
<1>2. \A x, z \in S : <<x, z>> \in Q <=>
        (Alcanza(e, x) => \E y \in S : Alcanza(e, y) /\ EsperaPor(y, z))
  OBVIOUS
<1>3. \A y, z \in S : Alcanza(e, y) /\ EsperaPor(y, z) => Alcanza(e, z)
  BY <1>1, AlcanzaMasLejos
<1> HIDE DEF Q, S
<1>4. ProcesosALaEspera \subseteq Q
  <2>1. ProcesosALaEspera \subseteq S \X S
    BY DEF ProcesosALaEspera, S
  <2>2. \A x, z \in S : <<x, z>> \in ProcesosALaEspera => <<x, z>> \in Q
    BY <1>2, EsperaLeida DEF S
  <2>3. QED
    BY <2>1, <2>2
<1>5. Transitiva(Q, S)
  BY <1>2, <1>3 DEF Transitiva
<1>6. <<e, e>> \in Q
  BY <1>1, <1>4, <1>5, CierreEsTransitivo DEF S
<1>7. Alcanza(e, e)
  <2> DEFINE w == <<e>>
  <2>1. w \in Seq(ESIs) /\ Len(w) = 1 /\ w[1] = e /\ w # <<>> /\ DOMAIN w = 1..1
    BY <1>1 DEF S
  <2> HIDE DEF w
  <2>2. IsInjective(w)
    BY <2>1 DEF IsInjective
  <2>3. Camino(e, w) /\ w[Len(w)] = e
    BY <2>1, <2>2 DEF Camino
  <2>4. QED
    BY <2>3 DEF Alcanza
<1>8. PICK y \in S : Alcanza(e, y) /\ EsperaPor(y, e)
  BY <1>2, <1>6, <1>7 DEF S
<1>9. e \in ESIs
  BY <1>1 DEF S
<1>10. QED
  BY <1>8, <1>9, VueltaEsCiclo

(* What is in a cycle is in the diagonal: from e the closure reaches the     *)
(* next of the cycle, then all that follow, and e again.                     *)
LEMMA CicloEnDiagonal ==
  ASSUME ESIsFinitos, Tipos, SinBloqSinCola, NEW e, EnCiclo(e)
  PROVE  e \in EsisDeadlock /\ <<e, e>> \in Cierre
<1>1. PICK w \in SetToAllKPermutations(ESIs) :
        e \in Range(w) /\ \A p \in DOMAIN w : EsperaPor(w[p], w[(p % Len(w)) + 1])
  BY DEF EnCiclo
<1> DEFINE n == Len(w)
           sig(p) == (p % n) + 1
<1>2. w \in Seq(ESIs) /\ n \in Nat /\ DOMAIN w = 1..n /\ \A p \in 1..n : w[p] \in ESIs
  <2>1. w \in Seq(ESIs)
    BY SinRepetir DEF ESIsFinitos
  <2>2. QED
    BY <2>1, LenProperties
<1>3. PICK q \in 1..n : w[q] = e
  BY <1>1, <1>2 DEF Range
<1>4. n \in Nat \ {0}
  BY <1>2, <1>3
<1>5. ASSUME NEW p \in 1..n PROVE sig(p) = IF p = n THEN 1 ELSE p + 1
  <2> HIDE DEF n
  <2>1. CASE p = n
    BY <1>4, <2>1
  <2>2. CASE p # n
    <3>1. p \in Nat /\ p < n
      BY <1>4, <2>2
    <3>2. p % n = p
      BY <1>4, <3>1
    <3>3. QED
      BY <2>2, <3>2
  <2>3. QED
    BY <2>1, <2>2
<1>6. \A p \in 1..n : EsperaPor(w[p], w[sig(p)])
  BY <1>1, <1>2
<1> HIDE DEF n, sig
<1>7. \A p \in 1..n : sig(p) \in 1..n
  BY <1>4, <1>5
<1>8. \A p \in 1..n : w[p] \in EsisDeadlock
  BY <1>2, <1>6, <1>7, EsperaLeida
<1>9. IsFiniteSet(EsisDeadlock)
  BY FS_Subset DEF EsisDeadlock, ESIsFinitos
<1>10. \A p \in 1..n : <<w[p], w[sig(p)]>> \in Cierre
  BY <1>6, <1>7, <1>8, <1>9, EsperaLeida, CierreEsTransitivo
<1> DEFINE A == {p \in 1..n : <<e, w[p]>> \in Cierre}
<1>11. \A p \in A : sig(p) \in A
  BY <1>3, <1>7, <1>8, <1>9, <1>10, CierreEsTransitivo DEF Transitiva
<1>12. sig(q) \in A
  BY <1>3, <1>7, <1>10
<1> HIDE DEF A
<1>13. ASSUME NEW a \in A, NEW b \in a..n PROVE b \in A
  <2> DEFINE ns == {m \in a..n : m \notin A}
  <2>1. SUFFICES ASSUME b \notin A PROVE FALSE
    OBVIOUS
  <2>2. a \in 1..n
    BY DEF A
  <2>3. ns \subseteq Nat /\ ns # {}
    BY <1>4, <2>1, <2>2
  <2>4. PICK m \in ns : \A x \in ns : m <= x
    <3> HIDE DEF ns
    <3>1. QED
      BY <2>3, MinimoNat
  <2>5. m \in a..n /\ m # a /\ m \notin A
    BY <2>4
  <2>6. m - 1 \in a..n /\ m - 1 < m /\ m - 1 # n /\ (m - 1) + 1 = m /\ m - 1 \in 1..n
    BY <1>4, <2>2, <2>5
  <2>7. m - 1 \notin ns
    <3> HIDE DEF ns
    <3>1. QED
      BY <1>4, <2>2, <2>4, <2>5, <2>6
  <2>8. m - 1 \in A
    BY <2>6, <2>7
  <2>9. sig(m - 1) = m
    BY <1>5, <2>6
  <2>10. QED
    BY <1>11, <2>5, <2>8, <2>9
<1>14. n \in A
  <2>1. sig(q) \in 1..n /\ n \in sig(q)..n
    BY <1>4, <1>7
  <2>2. QED
    BY <1>12, <1>13, <2>1
<1>15. 1 \in A
  <2>1. n \in 1..n /\ sig(n) = 1
    BY <1>4, <1>5
  <2>2. QED
    BY <1>11, <1>14, <2>1
<1>16. q \in A
  <2>1. q \in 1..n
    BY <1>3
  <2>2. QED
    BY <1>13, <1>15, <2>1
<1>17. QED
  BY <1>3, <1>8, <1>16 DEF A

-----------------------------------------------------------------------------
(* The loop that prints *)

(* Every ESI has its row.                                                    *)
LEMMA UnaFilaCadaUno ==
  ASSUME NEW S, IsFiniteSet(S)
  PROVE  /\ SetToSeq(S) \in [1..Cardinality(S) -> S] /\ Cardinality(S) \in Nat
         /\ \A e \in S : \E p \in 1..Cardinality(S) : SetToSeq(S)[p] = e
<1> DEFINE n == Cardinality(S)
           w == SetToSeq(S)
<1>1. n \in Nat /\ ExistsBijection(1..n, S)
  BY FS_CardinalityType
<1>2. \E f \in [1..n -> S] : IsInjective(f)
  BY <1>1 DEF ExistsBijection, Bijection, Injection, IsInjective
<1>3. w \in [1..n -> S] /\ IsInjective(w)
  BY <1>2 DEF SetToSeq
<1>4. w \in Injection(1..n, S)
  <2> HIDE DEF w, n
  <2>1. QED
    BY <1>3 DEF Injection, IsInjective
<1>5. Cardinality(1..n) = n
  BY <1>1, FS_Interval
<1>6. w \in Surjection(1..n, S)
  BY <1>4, <1>5, FS_Injection
<1>7. QED
  BY <1>1, <1>3, <1>6 DEF Surjection

(* What the loop starts from: the ESIs in the diagonal, their rows, no group.*)
EnDiagonal == {e \in EsisDeadlock : <<e, e>> \in Cierre}
Filas == SetToSeq(EsisDeadlock)
SinImprimir == [diagonal |-> EnDiagonal, grupos |-> <<>>]
Impresos == [diagonal: SUBSET EsisDeadlock, grupos: Seq(SUBSET EsisDeadlock)]

(* What one turn of the loop does.                                           *)
LEMMA UnaVuelta ==
  ASSUME NEW inf \in Impresos, NEW e \in EsisDeadlock
  PROVE  /\ Imprime(inf, e) \in Impresos
         /\ \/ e \notin inf.diagonal /\ Imprime(inf, e) = inf
            \/ \E G \in SUBSET EsisDeadlock :
                 /\ e \in inf.diagonal /\ G \subseteq inf.diagonal
                 /\ \A f \in inf.diagonal : f \in G <=> <<e, f>> \in Cierre
                 /\ Imprime(inf, e).diagonal = inf.diagonal \ G
                 /\ Imprime(inf, e).grupos = Append(inf.grupos, G)
<1> DEFINE alcanza == {f \in EsisDeadlock : <<e, f>> \in Cierre}
           G == inf.diagonal \cap alcanza
<1>1. /\ inf.diagonal \in SUBSET EsisDeadlock /\ inf.grupos \in Seq(SUBSET EsisDeadlock)
  BY DEF Impresos
<1>2. CASE e \notin inf.diagonal
  BY <1>2 DEF Imprime
<1>3. CASE e \in inf.diagonal
  <2>1. Imprime(inf, e) = [diagonal |-> inf.diagonal \ alcanza,
                           grupos |-> Append(inf.grupos, G)]
    BY <1>3 DEF Imprime
  <2>2. inf.diagonal \ alcanza = inf.diagonal \ G
    OBVIOUS
  <2>3. G \in SUBSET EsisDeadlock /\ G \subseteq inf.diagonal
    BY <1>1
  <2>4. \A f \in inf.diagonal : f \in G <=> <<e, f>> \in Cierre
    BY <1>1
  <2> HIDE DEF alcanza, G
  <2>5. Append(inf.grupos, G) \in Seq(SUBSET EsisDeadlock)
    BY <1>1, <2>3, AppendProperties
  <2>6. Imprime(inf, e) \in Impresos
    BY <1>1, <2>1, <2>5 DEF Impresos
  <2>7. Imprime(inf, e).diagonal = inf.diagonal \ G /\ Imprime(inf, e).grupos = Append(inf.grupos, G)
    BY <2>1, <2>2
  <2>8. QED
    BY <1>3, <2>3, <2>4, <2>6, <2>7
<1>4. QED
  BY <1>2, <1>3

(* The place a fold from the left uses last.                                 *)
Ultimo(S) == [s \in SUBSET S |-> Max(s)]

(* What a fold over the places of a sequence takes first is one of them.     *)
LEMMA UltimoEsta ==
  ASSUME NEW S \in SUBSET Nat, IsFiniteSet(S)
  PROVE  \A s \in SUBSET S : s # {} => Ultimo(S)[s] \in s
<1> SUFFICES ASSUME NEW s \in SUBSET S, s # {} PROVE Max(s) \in s
  BY DEF Ultimo
<1>1. s \in SUBSET Nat /\ IsFiniteSet(s)
  BY FS_Subset
<1>2. \E x \in s : \A y \in s : y <= x
  BY <1>1, MaximoNat
<1>3. \E x \in s : \A y \in s : x >= y
  BY <1>1, <1>2
<1>4. QED
  BY <1>3 DEF Max

(* The loop, unfolded.                                                       *)
LEMMA InformePaso ==
  ASSUME IsFiniteSet(EsisDeadlock)
  PROVE  \E g : /\ Informe = g[DOMAIN Filas].grupos
                /\ \A s \in SUBSET (DOMAIN Filas) :
                     /\ g[s] \in Impresos
                     /\ g[s] = IF s = {} THEN SinImprimir
                               ELSE LET p == Ultimo(DOMAIN Filas)[s]
                                    IN Imprime(g[s \ {p}], Filas[p])
<1> DEFINE S == DOMAIN Filas
           X == Impresos
           c == Ultimo(S)
           V == [p \in S |-> [inf \in X |-> Imprime(inf, Filas[p])]]
           Cuerpo(g, s) ==
             IF s = {} THEN SinImprimir ELSE Imprime(g[s \ {Max(s)}], Filas[Max(s)])
           G == CHOOSE g : g = [s \in SUBSET S |-> Cuerpo(g, s)]
<1>1. Informe = G[S].grupos
  BY Zenon DEF Informe, FoldLeft, MapThenFoldSet, SinImprimir, EnDiagonal, Filas
<1>2. S \subseteq Nat /\ IsFiniteSet(S) /\ \A p \in S : Filas[p] \in EsisDeadlock
  <2>1. PICK n \in Nat : Filas \in [1..n -> EsisDeadlock]
    BY UnaFilaCadaUno DEF Filas
  <2>2. S = 1..n /\ IsFiniteSet(1..n)
    BY <2>1, FS_Interval
  <2>3. QED
    BY <2>1, <2>2
<1>3. \A s \in SUBSET S : c[s] = Max(s)
  BY DEF Ultimo
<1>4. \A s \in SUBSET S : s # {} => c[s] \in s
  BY <1>2, UltimoEsta
<1>5. SinImprimir \in X
  BY EmptySeq DEF SinImprimir, Impresos, EnDiagonal
<1>6. \A p \in S : \A inf \in X : V[p][inf] = Imprime(inf, Filas[p]) /\ V[p][inf] \in X
  BY <1>2, UnaVuelta
<1> HIDE DEF S, X, c, V
<1>7. PICK g : EsPliegue(g, S, c, SinImprimir, V, X)
  <2>1. \A p \in S : \A inf \in X : V[p][inf] \in X
    BY <1>6
  <2>2. QED
    BY <1>2, <1>4, <1>5, <2>1, PliegueExiste
<1>8. \A s \in SUBSET S : g[s] = Cuerpo(g, s)
  BY <1>3, <1>4, <1>6, <1>7 DEF EsPliegue
<1>9. g = [s \in SUBSET S |-> Cuerpo(g, s)]
  <2> HIDE DEF Cuerpo
  <2>1. QED
    BY <1>7, <1>8 DEF EsPliegue
<1>10. G = [s \in SUBSET S |-> Cuerpo(G, s)]
  BY <1>9, Zenon
<1> HIDE DEF G
<1>11. \A s \in SUBSET S : G[s] = Cuerpo(G, s)
  <2> HIDE DEF Cuerpo
  <2>1. QED
    BY <1>10
<1>12. \A s \in SUBSET S : G[s] \in X
  <2> DEFINE P == {s \in SUBSET S : G[s] \in X}
  <2>1. {} \in P
    BY <1>5, <1>11
  <2>2. ASSUME NEW s \in SUBSET S, s # {}, s \ {c[s]} \in P PROVE s \in P
    <3>1. c[s] \in S /\ G[s \ {c[s]}] \in X
      BY <1>4, <2>2
    <3>2. G[s] = Imprime(G[s \ {c[s]}], Filas[c[s]])
      BY <1>3, <1>11, <2>2
    <3>3. QED
      BY <1>6, <3>1, <3>2
  <2> HIDE DEF P
  <2>3. \A s \in SUBSET S : s # {} /\ s \ {c[s]} \in P => s \in P
    BY <2>2
  <2>4. \A s \in SUBSET S : s # {} => c[s] \in s
    BY <1>4
  <2>5. IsFiniteSet(S)
    BY <1>2
  <2>6. \A s \in SUBSET S : s \in P
    BY <2>1, <2>3, <2>4, <2>5, InduccionFinita
  <2>7. QED
    BY <2>6 DEF P
<1>13. \A s \in SUBSET S :
         /\ G[s] \in X
         /\ G[s] = IF s = {} THEN SinImprimir
                   ELSE LET p == c[s] IN Imprime(G[s \ {p}], Filas[p])
  BY <1>3, <1>11, <1>12
<1>14. QED
  BY <1>1, <1>13 DEF S, X, c

(* After the rows of s: the groups and what is left are the diagonal, apart  *)
(* from each other, and nothing of s is left.                                *)
Repartida(s, inf) ==
  /\ inf \in Impresos
  /\ inf.diagonal \cup UNION Range(inf.grupos) = EnDiagonal
  /\ \A p \in DOMAIN inf.grupos : inf.grupos[p] \cap inf.diagonal = {}
  /\ \A p, q \in DOMAIN inf.grupos : p # q => inf.grupos[p] \cap inf.grupos[q] = {}
  /\ \A p \in s : Filas[p] \notin inf.diagonal

(* A row more keeps it.                                                      *)
LEMMA RepartidaSigue ==
  ASSUME NEW s, NEW p \in s, Filas[p] \in EsisDeadlock,
         NEW inf, Repartida(s \ {p}, inf)
  PROVE  Repartida(s, Imprime(inf, Filas[p]))
<1> DEFINE e == Filas[p]
           d == inf.diagonal
           gs == inf.grupos
           nuevo == Imprime(inf, e)
<1>1. /\ inf \in Impresos /\ d \cup UNION Range(gs) = EnDiagonal
      /\ \A q \in DOMAIN gs : gs[q] \cap d = {}
      /\ \A q, r \in DOMAIN gs : q # r => gs[q] \cap gs[r] = {}
      /\ \A q \in s \ {p} : Filas[q] \notin d
  BY DEF Repartida
<1>2. CASE e \notin d
  <2>1. nuevo = inf
    BY <1>1, <1>2, UnaVuelta
  <2>2. \A q \in s : Filas[q] \notin d
    BY <1>1, <1>2
  <2>3. QED
    BY <1>1, <2>1, <2>2 DEF Repartida
<1>3. CASE e \in d
  <2>1. PICK G \in SUBSET EsisDeadlock :
          /\ G \subseteq d /\ \A f \in d : f \in G <=> <<e, f>> \in Cierre
          /\ nuevo.diagonal = d \ G /\ nuevo.grupos = Append(gs, G)
    BY <1>1, <1>3, UnaVuelta
  <2>2. nuevo \in Impresos
    BY <1>1, UnaVuelta
  <2>3. e \in G
    <3>1. e \in EnDiagonal
      BY <1>1, <1>3
    <3>2. <<e, e>> \in Cierre
      BY <3>1 DEF EnDiagonal
    <3> HIDE DEF e, d
    <3>3. QED
      BY <1>3, <2>1, <3>2
  <2> DEFINE n == Len(gs)
             hs == nuevo.grupos
  <2>4. gs \in Seq(SUBSET EsisDeadlock)
    BY <1>1 DEF Impresos
  <2>5. n \in Nat /\ DOMAIN gs = 1..n
    BY <2>4, LenProperties
  <2>6. DOMAIN hs = 1..(n + 1) /\ hs[n + 1] = G /\ \A q \in 1..n : hs[q] = gs[q]
    <3>1. /\ Append(gs, G) \in Seq(SUBSET EsisDeadlock) /\ Len(Append(gs, G)) = n + 1
          /\ \A q \in 1..n : Append(gs, G)[q] = gs[q]
          /\ Append(gs, G)[n + 1] = G
      BY <2>4, AppendProperties
    <3>2. DOMAIN Append(gs, G) = 1..(n + 1)
      BY <3>1, LenProperties
    <3>3. QED
      BY <2>1, <3>1, <3>2
  <2>7. \A q \in 1..(n + 1) : q \in 1..n \/ q = n + 1
    BY <2>5
  <2>8. \A q \in 1..n : q \in 1..(n + 1) /\ q # n + 1
    BY <2>5
  <2>9. n + 1 \in 1..(n + 1)
    BY <2>5
  <2> HIDE DEF hs, n, gs, d, nuevo, e
  <2>10. UNION Range(hs) = G \cup UNION Range(gs)
    <3>1. \A x : x \in Range(hs) <=> x = G \/ x \in Range(gs)
      BY <2>5, <2>6, <2>7, <2>8, <2>9 DEF Range
    <3>2. QED
      BY <3>1
  <2>11. (d \ G) \cup UNION Range(hs) = EnDiagonal
    BY <1>1, <2>1, <2>10
  <2>12. \A q \in DOMAIN hs : hs[q] \cap (d \ G) = {}
    BY <1>1, <2>5, <2>6, <2>7
  <2>13. \A q \in 1..n : gs[q] \cap G = {}
    BY <1>1, <2>1, <2>5
  <2>14. \A q, r \in DOMAIN hs : q # r => hs[q] \cap hs[r] = {}
    BY <1>1, <2>5, <2>6, <2>7, <2>13
  <2>15. \A q \in s : Filas[q] \notin d \ G
    BY <1>1, <2>3 DEF e
  <2>16. Repartida(s, nuevo)
    BY <2>1, <2>2, <2>11, <2>12, <2>14, <2>15 DEF Repartida, hs
  <2>17. QED
    BY <2>16 DEF nuevo, e
<1>4. QED
  BY <1>2, <1>3

(* What is printed is the diagonal, in groups apart.                         *)
LEMMA InformeEsDiagonal ==
  ASSUME IsFiniteSet(EsisDeadlock)
  PROVE  /\ UNION Range(Informe) = EnDiagonal
         /\ \A p, q \in DOMAIN Informe : p # q => Informe[p] \cap Informe[q] = {}
<1> DEFINE S == DOMAIN Filas
           c == Ultimo(S)
<1>1. PICK n \in Nat : /\ Filas \in [1..n -> EsisDeadlock]
                       /\ \A e \in EsisDeadlock : \E p \in 1..n : Filas[p] = e
  BY UnaFilaCadaUno DEF Filas
<1>2. S = 1..n /\ S \subseteq Nat /\ IsFiniteSet(S) /\ \A p \in S : Filas[p] \in EsisDeadlock
  BY <1>1, FS_Interval
<1>3. PICK g : /\ Informe = g[S].grupos
               /\ \A s \in SUBSET S :
                    /\ g[s] \in Impresos
                    /\ g[s] = IF s = {} THEN SinImprimir
                              ELSE LET p == c[s] IN Imprime(g[s \ {p}], Filas[p])
  BY InformePaso
<1>4. \A s \in SUBSET S : s # {} => c[s] \in s
  BY <1>2, UltimoEsta
<1> HIDE DEF S, c
<1> DEFINE P == {s \in SUBSET S : Repartida(s, g[s])}
<1>5. {} \in P
  <2>1. g[{}] = SinImprimir /\ SinImprimir \in Impresos
    BY <1>3
  <2>2. /\ SinImprimir.diagonal = EnDiagonal /\ SinImprimir.grupos = <<>>
        /\ Range(<<>>) = {} /\ DOMAIN <<>> = {}
    BY DEF SinImprimir, Range
  <2>3. Repartida({}, SinImprimir)
    BY <2>1, <2>2 DEF Repartida
  <2>4. QED
    BY <2>1, <2>3
<1>6. ASSUME NEW s \in SUBSET S, s # {}, s \ {c[s]} \in P PROVE s \in P
  <2>1. c[s] \in s /\ Filas[c[s]] \in EsisDeadlock /\ Repartida(s \ {c[s]}, g[s \ {c[s]}])
    BY <1>2, <1>4, <1>6
  <2>2. g[s] = Imprime(g[s \ {c[s]}], Filas[c[s]])
    BY <1>3, <1>6
  <2>3. QED
    BY <2>1, <2>2, RepartidaSigue
<1>7. S \in P
  <2> HIDE DEF P
  <2>1. IsFiniteSet(S)
    BY <1>2
  <2>2. \A s \in SUBSET S : s # {} => c[s] \in s
    BY <1>4
  <2>3. \A s \in SUBSET S : s # {} /\ s \ {c[s]} \in P => s \in P
    BY <1>6
  <2>4. \A s \in SUBSET S : s \in P
    BY <1>5, <2>1, <2>2, <2>3, InduccionFinita
  <2>5. QED
    BY <2>4
<1>8. Repartida(S, g[S])
  BY <1>7
<1>9. g[S].diagonal = {}
  <2>1. g[S].diagonal \subseteq EsisDeadlock
    BY <1>8 DEF Repartida, Impresos
  <2>2. \A e \in EsisDeadlock : e \notin g[S].diagonal
    BY <1>1, <1>2, <1>8 DEF Repartida
  <2>3. QED
    BY <2>1, <2>2
<1>10. QED
  BY <1>3, <1>8, <1>9 DEF Repartida

(***************************************************************************)
(* Whatever was typed, the command deadlock prints those that wait for each *)
(* other in a cycle, each in one group, and no other: for any number of    *)
(* ESIs and keys.  Every ESI in a list is seen, because no list is left    *)
(* without its key in g_bloq.                                               *)
(***************************************************************************)
THEOREM DeadlockSiempreInformado ==
  ASSUME ESIsFinitos PROVE SpecConConsola => []DeadlockInformado
<1>1. ConsolaEnOrden => DeadlockInformado
  <2> SUFFICES ASSUME ConsolaEnOrden PROVE DeadlockInformado
    OBVIOUS
  <2>1. Tipos /\ SinBloqSinCola
    BY DEF ConsolaEnOrden, VacioConConsola
  <2>2. IsFiniteSet(EsisDeadlock) /\ EsisDeadlock \subseteq ESIs
    BY FS_Subset DEF EsisDeadlock, ESIsFinitos
  <2>3. EnDiagonal = {e \in ESIs : EnCiclo(e)}
    BY <2>1, <2>2, DiagonalEnCiclo, CicloEnDiagonal DEF EnDiagonal
  <2>4. QED
    BY <2>2, <2>3, InformeEsDiagonal DEF DeadlockInformado
<1>2. QED
  BY <1>1, ConsolaSiempreEnOrden, PTL
=============================================================================
